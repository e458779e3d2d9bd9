---------------------------- MODULE Accounts_proofs ----------------------------
(* Theorems about users and their sessions.                                  *)
EXTENDS Accounts, FiniteSetTheorems, TLAPS

\* What the helpers do to the requests in flight.
LEMMA EnterIs ==
  ASSUME AccountsTypeOK, NEW r \in Requests, NEW o \in WriteOp \cup SessionOp,
         NEW pc \in Phase, NEW u \in Users \cup {None}, NEW e \in Row,
         NEW found \in SUBSET Sessions, NEW keep \in Sessions \cup {None},
         Enter(r, o, pc, u, e, found, keep)
  PROVE  /\ req' \in [Requests -> Request]
         /\ req[r] = Idle
         /\ req'[r].op = o /\ req'[r].pc = pc /\ req'[r].u = u /\ req'[r].row = e
         /\ req'[r].found = found /\ req'[r].keep = keep
         /\ \A q \in Requests : q # r => req'[q] = req[q]
         /\ UNCHANGED <<user, session>>
<1>1. [op |-> o, pc |-> pc, u |-> u, row |-> e, found |-> found, keep |-> keep] \in Request
  BY DEF Request
<1> QED
  BY <1>1 DEF Enter, AccountsTypeOK

LEMMA GoToIs ==
  ASSUME AccountsTypeOK, NEW r \in Requests, req[r].pc \in Phase,
         NEW pc \in Phase \cup {"done"}, GoTo(r, pc)
  PROVE  /\ req' \in [Requests -> Request]
         /\ pc = "done" => req'[r] = Idle
         /\ pc # "done" =>
              /\ req'[r].pc = pc
              /\ req'[r].op = req[r].op /\ req'[r].u = req[r].u
              /\ req'[r].row = req[r].row /\ req'[r].found = req[r].found
         /\ \A q \in Requests : q # r => req'[q] = req[q]
<1>1. req[r] # Idle
  BY DEF Idle, Phase
<1>2. req[r] \in [op : WriteOp \cup SessionOp, pc : Phase, u : Users \cup {None}, row : Row,
                  found : SUBSET Sessions, keep : Sessions \cup {None}]
  BY <1>1 DEF AccountsTypeOK, Request
<1>3. pc # "done" => [req[r] EXCEPT !.pc = pc] \in Request
  BY <1>2 DEF Request
<1>4. Idle \in Request
  BY DEF Request
<1> QED
  BY <1>2, <1>3, <1>4 DEF GoTo, AccountsTypeOK, Phase

LEMMA GoToWithIs ==
  ASSUME AccountsTypeOK, NEW r \in Requests, req[r].pc \in Phase,
         NEW pc \in Phase, NEW found \in SUBSET Sessions, GoToWith(r, pc, found)
  PROVE  /\ req' \in [Requests -> Request]
         /\ req'[r].pc = pc /\ req'[r].found = found
         /\ req'[r].op = req[r].op /\ req'[r].u = req[r].u /\ req'[r].row = req[r].row
         /\ \A q \in Requests : q # r => req'[q] = req[q]
<1>1. req[r] # Idle
  BY DEF Idle, Phase
<1>2. req[r] \in [op : WriteOp \cup SessionOp, pc : Phase, u : Users \cup {None}, row : Row,
                  found : SUBSET Sessions, keep : Sessions \cup {None}]
  BY <1>1 DEF AccountsTypeOK, Request
<1>3. [req[r] EXCEPT !.pc = pc, !.found = found] \in Request
  BY <1>2 DEF Request
<1>4. req' = [req EXCEPT ![r] = [req[r] EXCEPT !.pc = pc, !.found = found]]
  BY <1>2 DEF GoToWith, AccountsTypeOK
<1> QED
  BY <1>2, <1>3, <1>4 DEF AccountsTypeOK

LEMMA DeleteIs ==
  ASSUME AccountsTypeOK, NEW ss \in SUBSET Sessions, Delete(ss)
  PROVE  /\ session' \in [Sessions -> Session]
         /\ \A s \in ss : session'[s] = NoSession
         /\ \A s \in Sessions \ ss : session'[s] = session[s]
BY DEF Delete, AccountsTypeOK, Session

\* What is true of Idle, and of a request that is not.
LEMMA IdleIs ==
  /\ Idle \in Request
  /\ Idle.op = "none" /\ Idle.pc = "idle" /\ Idle.u = None /\ Idle.found = {}
BY DEF Idle, Request

-----------------------------------------------------------------------------
\* A request that starts keeps the types.
LEMMA StartTypes ==
  ASSUME AccountsTypeOK, NEW r \in Requests, UserRequest(r) \/ SessionRequest(r)
  PROVE  AccountsTypeOK'
<1>1. \A u \in Users : user[u] \in Row
  BY DEF AccountsTypeOK
<1>2. SUFFICES req' \in [Requests -> Request] /\ UNCHANGED <<user, session>>
               /\ blacklist' \subseteq Sessions
  BY DEF AccountsTypeOK
<1>3. ASSUME NEW o \in WriteOp \cup SessionOp, NEW pc \in Phase, NEW u \in Users,
             NEW e \in Row, Begin(r, o, pc, u, e)
      PROVE  req' \in [Requests -> Request] /\ UNCHANGED <<user, session, blacklist>>
  BY <1>3, EnterIs DEF Begin
<1>4. ASSUME NEW o \in SessionOp, NEW pc \in Phase, NEW s \in Sessions, OnSession(r, o, pc, s)
      PROVE  req' \in [Requests -> Request] /\ UNCHANGED <<user, session>>
  BY <1>4, EnterIs DEF OnSession, NoRow, Row, Role
<1>5. ASSUME NEW u \in Users, NEW e \in Row, CreateUser(r, u, e) \/ UpdateUser(r, u, e)
      PROVE  req' \in [Requests -> Request] /\ UNCHANGED <<user, session, blacklist>>
  BY <1>3, <1>5 DEF CreateUser, UpdateUser, WriteOp, Phase
<1>6. ASSUME NEW u \in Users, NEW actor \in Users,
             Deactivate(r, u, actor) \/ RemoveUser(r, u, actor)
      PROVE  req' \in [Requests -> Request] /\ UNCHANGED <<user, session, blacklist>>
  <2>1. [user[u] EXCEPT !.active = FALSE] \in Row
    BY <1>1 DEF Row
  <2> QED
    BY <1>1, <1>3, <1>6, <2>1 DEF Deactivate, RemoveUser, WriteOp, Phase
<1>10. NoRow \in Row
  BY DEF NoRow, Row, Role
<1>7. ASSUME NEW u \in Users,
             \/ Activate(r, u) \/ ChangePasswordByAdmin(r, u) \/ UpdateProfile(r, u) \/ Login(r, u)
             \/ RevokeAllUserSessions(r, u)
      PROVE  req' \in [Requests -> Request] /\ UNCHANGED <<user, session, blacklist>>
  <2>1. [user[u] EXCEPT !.active = TRUE] \in Row
    BY <1>1 DEF Row
  <2> QED
    BY <1>1, <1>3, <1>7, <1>10, <2>1
       DEF Activate, ChangePasswordByAdmin, UpdateProfile, Login, RevokeAllUserSessions,
           WriteOp, SessionOp, Phase
<1>8. ASSUME NEW u \in Users, NEW s \in Sessions, ChangeOwnPassword(r, u, s)
      PROVE  req' \in [Requests -> Request] /\ UNCHANGED <<user, session, blacklist>>
  BY <1>1, <1>8, EnterIs DEF ChangeOwnPassword, WriteOp, Phase
<1>9. ASSUME NEW s \in Sessions,
             Logout(r, s) \/ AuthRevokeSession(r, s) \/ SecurityRevokeSession(r, s)
      PROVE  req' \in [Requests -> Request] /\ UNCHANGED <<user, session>>
             /\ blacklist' \subseteq Sessions
  <2>1. blacklist' \subseteq Sessions
    BY <1>9 DEF Logout, AuthRevokeSession, SecurityRevokeSession, AccountsTypeOK
  <2> QED
    BY <1>4, <1>9, <2>1 DEF Logout, AuthRevokeSession, SecurityRevokeSession, SessionOp, Phase
<1> QED
  BY <1>2, <1>5, <1>6, <1>7, <1>8, <1>9 DEF UserRequest, SessionRequest, AccountsTypeOK

\* So does one that goes on.
LEMMA ContinueTypes ==
  ASSUME AccountsTypeOK, KnowsWhom, NEW r \in Requests, Continue(r)
  PROVE  AccountsTypeOK'
<1>1. \A q \in Requests : req[q].pc \in Phase =>
        /\ req[q].op \in WriteOp \cup SessionOp /\ req[q].u \in Users \cup {None}
        /\ req[q].row \in Row /\ req[q].found \subseteq Sessions
  BY DEF AccountsTypeOK, Request, Idle, Phase
<1>2. CASE CountAdmins(r)
  BY <1>2, GoToIs DEF CountAdmins, AccountsTypeOK, Phase
<1>3. CASE Save(r)
  <2>1. req[r].row \in Row /\ req[r].op \in WriteOp
    BY <1>1, <1>3 DEF Save, Phase, KnowsWhom, SessionOp, WriteOp
  <2>2. user[req[r].u] \in Row
    BY <2>1 DEF KnowsWhom, AccountsTypeOK
  <2>3. Written(r) \in Row
    BY <2>1, <2>2 DEF Written, Row
  <2> QED
    BY <1>3, <2>3, GoToIs DEF Save, AccountsTypeOK, Phase
<1>4. CASE SaveSelected(r)
  <2>1. req[r].row \in Row
    BY <1>1, <1>4 DEF SaveSelected, At, Phase
  <2>2. \A u \in Users : user[u] \in Row /\ [user[u] EXCEPT !.active = req[r].row.active] \in Row
    BY <2>1 DEF AccountsTypeOK, Row
  <2>3. user' \in [Users -> Row]
    BY <1>4, <2>2 DEF SaveSelected, AccountsTypeOK
  <2> QED
    BY <1>4, <2>3, GoToIs DEF SaveSelected, At, AccountsTypeOK, Phase
<1>5. CASE OtherSessions(r)
  BY <1>5, GoToIs, GoToWithIs DEF OtherSessions, SessionsOf, AccountsTypeOK, Phase
<1>6. CASE SoftDelete(r)
  <2>1. \A u \in Users : [user[u] EXCEPT !.state = "removed"] \in Row
    BY DEF AccountsTypeOK, Row
  <2>2. user' = [user EXCEPT ![req[r].u] = [user[req[r].u] EXCEPT !.state = "removed"]]
    BY <1>6 DEF SoftDelete, AccountsTypeOK
  <2>3. user' \in [Users -> Row]
    BY <2>1, <2>2 DEF AccountsTypeOK
  <2> QED
    BY <1>6, <2>3, GoToIs DEF SoftDelete, AccountsTypeOK, Phase
<1>7. CASE SearchSessions(r)
  BY <1>7, GoToIs, GoToWithIs
     DEF SearchSessions, AfterRevocation, SessionsOf, AccountsTypeOK, Phase
<1>8. CASE Blacklist(r)
  BY <1>1, <1>8, GoToIs DEF Blacklist, AccountsTypeOK, Phase
<1>9. CASE DeleteAll(r)
  BY <1>9, GoToIs, DeleteIs DEF DeleteAll, AfterRevocation, SessionsOf, AccountsTypeOK, Phase
<1>10. CASE DeleteSessions(r)
  BY <1>1, <1>10, GoToIs, DeleteIs DEF DeleteSessions, AccountsTypeOK, Phase
<1>11. ASSUME NEW s \in Sessions, OpenSession(r, s), req[r].u \in Users PROVE AccountsTypeOK'
  BY <1>11, GoToIs DEF OpenSession, AccountsTypeOK, Phase, Session
<1>12. CASE Fail(r)
  BY <1>12, IdleIs DEF Fail, GoTo, AccountsTypeOK
<1>13. ASSUME NEW s \in Sessions, OpenSession(r, s) PROVE req[r].u \in Users
  BY <1>13 DEF OpenSession, KnowsWhom
<1> QED
  BY <1>2, <1>3, <1>4, <1>5, <1>6, <1>7, <1>8, <1>9, <1>10, <1>11, <1>12, <1>13 DEF Continue

\* The environment keeps the types and who the requests are about.
LEMMA EnvironmentTypes ==
  ASSUME AccountsTypeOK, KnowsWhom, Environment
  PROVE  AccountsTypeOK' /\ KnowsWhom'
<1>1. ASSUME NEW u \in Users, LogoutAll(u) PROVE AccountsTypeOK' /\ KnowsWhom'
  BY <1>1, DeleteIs DEF LogoutAll, SessionsOf, AccountsTypeOK, KnowsWhom
<1>2. ASSUME NEW s \in Sessions, Expire(s) PROVE AccountsTypeOK' /\ KnowsWhom'
  BY <1>2, DeleteIs DEF Expire, AccountsTypeOK, KnowsWhom
<1>3. ASSUME NEW s \in Sessions, TokenExpires(s) PROVE AccountsTypeOK' /\ KnowsWhom'
  BY <1>3 DEF TokenExpires, AccountsTypeOK, KnowsWhom
<1>4. CASE Crash
  BY <1>4, IdleIs DEF Crash, AccountsTypeOK, KnowsWhom, WriteOp
<1> QED
  BY <1>1, <1>2, <1>3, <1>4 DEF Environment

\* A request that starts or goes on knows whom it is about.
LEMMA RequestKnows ==
  ASSUME AccountsTypeOK, KnowsWhom, NEW r \in Requests,
         UserRequest(r) \/ SessionRequest(r) \/ Continue(r)
  PROVE  KnowsWhom'
<1>1. \A q \in Requests : req[q].pc \in Phase =>
        /\ req[q].op \in WriteOp \cup SessionOp /\ req[q].u \in Users \cup {None}
        /\ req[q].row \in Row /\ req[q].found \subseteq Sessions
  BY DEF AccountsTypeOK, Request, Idle, Phase
<1>2. SUFFICES /\ \A q \in Requests : q # r => req'[q] = req[q]
               /\ req'[r].op \in WriteOp \cup {"login", "revokeAll"} => req'[r].u \in Users
               /\ req'[r].op \in {"logout", "authRevoke", "revokeSession"} =>
                    req'[r].u = None /\ req'[r].pc \in {"blacklist", "delete"}
               /\ req'[r].pc \in {"blacklist", "deleteAll", "softDelete"} =>
                    req'[r].op \in WriteOp \cup {"revokeSession", "revokeAll"}
               /\ req'[r].op = "revokeAll" => req'[r].pc \in {"search", "blacklist", "deleteAll"}
               /\ req'[r].pc = "open" <=> req'[r].op = "login"
               /\ req'[r].pc \in {"count", "save"} => req'[r].row.state = "present"
  BY DEF KnowsWhom
<1>3. CASE UserRequest(r)
  <2> DEFINE PresentRow == {e \in Row : e.state = "present"}
  <2>1. ASSUME NEW o \in WriteOp, NEW pc \in {"count", "save", "search"},
               NEW u \in Users, NEW e \in PresentRow, NEW keep \in Sessions \cup {None},
               Enter(r, o, pc, u, e, {}, keep)
        PROVE  /\ \A q \in Requests : q # r => req'[q] = req[q]
               /\ req'[r].op = o /\ req'[r].pc = pc /\ req'[r].u = u
               /\ req'[r].row.state = "present"
    BY <2>1 DEF Enter, AccountsTypeOK
  <2>2. \A u \in Users : Present(u) =>
          /\ user[u] \in PresentRow /\ [user[u] EXCEPT !.active = TRUE] \in PresentRow
          /\ [user[u] EXCEPT !.active = FALSE] \in PresentRow
    BY DEF AccountsTypeOK, Row, Present
  <2> HIDE DEF PresentRow
  <2>3. \E o \in WriteOp, pc \in {"count", "save", "search"}, u \in Users,
           e \in PresentRow, keep \in Sessions \cup {None} : Enter(r, o, pc, u, e, {}, keep)
    <3>1. ASSUME NEW u \in Users, NEW e \in Row, CreateUser(r, u, e) \/ UpdateUser(r, u, e)
          PROVE  e \in PresentRow /\ (Enter(r, "create", "save", u, e, {}, None)
                                      \/ Enter(r, "update", "save", u, e, {}, None))
      BY <3>1 DEF CreateUser, UpdateUser, Begin, PresentRow
    <3>2. ASSUME NEW u \in Users, NEW actor \in Users, Deactivate(r, u, actor)
          PROVE  \E pc \in {"count", "save", "search"}, e \in PresentRow :
                    Enter(r, "deactivate", pc, u, e, {}, None)
      BY <2>2, <3>2 DEF Deactivate, Begin
    <3>3. ASSUME NEW u \in Users, NEW actor \in Users, RemoveUser(r, u, actor)
          PROVE  \E pc \in {"count", "save", "search"}, e \in PresentRow :
                    Enter(r, "remove", pc, u, e, {}, None)
      BY <2>2, <3>3 DEF RemoveUser, Begin
    <3>4. ASSUME NEW u \in Users, Activate(r, u) \/ ChangePasswordByAdmin(r, u) \/ UpdateProfile(r, u)
          PROVE  \E o \in WriteOp, e \in PresentRow : Enter(r, o, "save", u, e, {}, None)
      BY <2>2, <3>4 DEF Activate, ChangePasswordByAdmin, UpdateProfile, Begin, WriteOp
    <3>5. ASSUME NEW u \in Users, NEW s \in Sessions, ChangeOwnPassword(r, u, s)
          PROVE  \E e \in PresentRow : Enter(r, "changeOwnPassword", "save", u, e, {}, s)
      BY <2>2, <3>5 DEF ChangeOwnPassword
    <3> QED
      BY <1>3, <3>1, <3>2, <3>3, <3>4, <3>5 DEF UserRequest, WriteOp
  <2> QED
    BY <2>1, <2>3 DEF WriteOp
<1>4. CASE SessionRequest(r)
  <2>1. ASSUME NEW u \in Users, Login(r, u)
        PROVE  /\ \A q \in Requests : q # r => req'[q] = req[q]
               /\ req'[r].op = "login" /\ req'[r].pc = "open" /\ req'[r].u = u
    BY <2>1, EnterIs DEF Login, Begin, SessionOp, Phase, AccountsTypeOK
  <2>3. ASSUME NEW u \in Users, RevokeAllUserSessions(r, u)
        PROVE  /\ \A q \in Requests : q # r => req'[q] = req[q]
               /\ req'[r].op = "revokeAll" /\ req'[r].pc = "search" /\ req'[r].u = u
    BY <2>3 DEF RevokeAllUserSessions, Begin, Enter, AccountsTypeOK
  <2>2. ASSUME NEW s \in Sessions,
               Logout(r, s) \/ AuthRevokeSession(r, s) \/ SecurityRevokeSession(r, s)
        PROVE  /\ \A q \in Requests : q # r => req'[q] = req[q]
               /\ req'[r].op \in {"logout", "authRevoke", "revokeSession"} /\ req'[r].u = None
               /\ req'[r].pc \in {"blacklist", "delete"}
               /\ req'[r].pc = "blacklist" => req'[r].op = "revokeSession"
    <3>1. ASSUME NEW o \in SessionOp, NEW pc \in {"blacklist", "delete"}, OnSession(r, o, pc, s)
          PROVE  /\ \A q \in Requests : q # r => req'[q] = req[q]
                 /\ req'[r].op = o /\ req'[r].pc = pc /\ req'[r].u = None
      <4>1. NoRow \in Row /\ {s} \in SUBSET Sessions /\ pc \in Phase
        BY DEF NoRow, Row, Role, Phase
      <4> QED
        BY <3>1, <4>1, EnterIs DEF OnSession
    <3> QED
      BY <2>2, <3>1 DEF Logout, AuthRevokeSession, SecurityRevokeSession, SessionOp
  <2> QED
    BY <1>4, <2>1, <2>2, <2>3 DEF SessionRequest, WriteOp
<1>5. CASE Continue(r)
  <2>1. CASE CountAdmins(r)
    BY <2>1, GoToIs, IdleIs DEF CountAdmins, Phase, KnowsWhom, WriteOp
  <2>2. CASE Save(r)
    BY <2>2, GoToIs, IdleIs DEF Save, Phase, KnowsWhom, WriteOp
  <2>3. CASE SaveSelected(r)
    BY <2>3, GoToIs, IdleIs DEF SaveSelected, At, Phase, KnowsWhom, WriteOp
  <2>4. CASE OtherSessions(r)
    BY <2>4, GoToIs, GoToWithIs, IdleIs DEF OtherSessions, SessionsOf, Phase, KnowsWhom, WriteOp
  <2>5. CASE SoftDelete(r)
    BY <2>5, GoToIs, IdleIs DEF SoftDelete, Phase, WriteOp
  <2>6. CASE SearchSessions(r)
    <3>1. req[r].op \in WriteOp \cup {"revokeAll"}
      BY <1>1, <2>6 DEF SearchSessions, Phase, KnowsWhom, SessionOp
    <3> QED
      BY <2>6, <3>1, GoToIs, GoToWithIs, IdleIs
         DEF SearchSessions, AfterRevocation, SessionsOf, Phase, KnowsWhom, WriteOp
  <2>7. CASE Blacklist(r)
    BY <2>7, GoToIs, IdleIs DEF Blacklist, Phase, KnowsWhom, WriteOp
  <2>8. CASE DeleteAll(r)
    BY <2>8, GoToIs, IdleIs DEF DeleteAll, AfterRevocation, Phase, KnowsWhom, WriteOp
  <2>9. CASE DeleteSessions(r)
    BY <2>9, GoToIs, IdleIs DEF DeleteSessions, Phase, WriteOp
  <2>10. CASE \E s \in Sessions : OpenSession(r, s)
    BY <2>10, GoToIs, IdleIs DEF OpenSession, Phase, KnowsWhom, WriteOp
  <2>11. CASE Fail(r)
    BY <2>11, IdleIs DEF Fail, GoTo, AccountsTypeOK, KnowsWhom, WriteOp
  <2> QED
    BY <1>5, <2>1, <2>2, <2>3, <2>4, <2>5, <2>6, <2>7, <2>8, <2>9, <2>10, <2>11
       DEF Continue
<1> QED
  BY <1>3, <1>4, <1>5
-----------------------------------------------------------------------------
LEMMA InitTypes == Init => AccountsTypeOK /\ KnowsWhom
<1> SUFFICES ASSUME Init PROVE AccountsTypeOK /\ KnowsWhom
  OBVIOUS
<1>1. NoRow \in Row
  BY DEF NoRow, Row, Role
<1> QED
  BY <1>1, IdleIs DEF Init, AccountsTypeOK, KnowsWhom, Session, WriteOp

LEMMA NextTypes == AccountsTypeOK /\ KnowsWhom /\ [Next]_vars => AccountsTypeOK' /\ KnowsWhom'
<1> SUFFICES ASSUME AccountsTypeOK, KnowsWhom, [Next]_vars PROVE AccountsTypeOK' /\ KnowsWhom'
  OBVIOUS
<1>1. CASE UNCHANGED vars
  BY <1>1 DEF vars, AccountsTypeOK, KnowsWhom
<1>2. ASSUME NEW r \in Requests, UserRequest(r) \/ SessionRequest(r) \/ Continue(r)
      PROVE  AccountsTypeOK' /\ KnowsWhom'
  BY <1>2, StartTypes, ContinueTypes, RequestKnows
<1> QED
  BY <1>1, <1>2, EnvironmentTypes DEF Next

\* Whatever the requests do at once, fail or lose in a crash, the tables and
\* the requests keep their types, and a request knows whom it is about.
THEOREM AccountsTypes == Spec => [](AccountsTypeOK /\ KnowsWhom)
BY InitTypes, NextTypes, PTL DEF Spec
-----------------------------------------------------------------------------
(* What a revocation has seen.                                              *)

\* A request keeps what it has seen when only sessions go, or late ones come.
LEMMA SeesKept ==
  ASSUME KnowsWhom, NEW q \in Requests, Sees(q), req'[q] = req[q],
         \A s \in Sessions :
           \/ session'[s] = session[s] \/ session'[s] = NoSession
           \/ /\ session'[s].user = req[q].u
              /\ req[q].pc \in {"blacklist", "deleteAll", "softDelete"}
              => session'[s].late,
         req[q].found \subseteq blacklist => req[q].found \subseteq blacklist'
  PROVE  Sees(q)'
<1>1. req[q].pc \in {"softDelete"} => req[q].u \in Users
  BY DEF KnowsWhom
<1>2. NoSession.user = None /\ None \notin Users
  BY AccountsAssumption DEF NoSession
<1> QED
  BY <1>1, <1>2 DEF Sees, At

\* What has not looked yet, or does not revoke, has seen nothing.
LEMMA SeesNothing ==
  ASSUME NEW r \in Requests,
         req'[r].pc \notin {"blacklist", "deleteAll", "softDelete"},
         ~(req'[r].op = "revokeSession" /\ req'[r].pc = "delete")
  PROVE  Sees(r)'
BY DEF Sees, At

\* A request that starts has seen nothing but the session it is about.
LEMMA StartSees ==
  ASSUME AccountsTypeOK, KnowsWhom, RevocationSees, NEW r \in Requests,
         UserRequest(r) \/ SessionRequest(r)
  PROVE  RevocationSees'
<1>1. KnowsWhom'
  BY RequestKnows
<1>2. /\ UNCHANGED session
      /\ \A q \in Requests : q # r => req'[q] = req[q]
      /\ blacklist \subseteq blacklist'
  BY DEF UserRequest, SessionRequest, CreateUser, UpdateUser, Deactivate, RemoveUser, Activate,
         ChangePasswordByAdmin, ChangeOwnPassword, UpdateProfile, Login, RevokeAllUserSessions, Logout,
         AuthRevokeSession, SecurityRevokeSession, OnSession, Begin, Enter, AccountsTypeOK
<1>3. \/ req'[r].pc \in {"count", "save", "search", "open"}
      \/ req'[r].pc = "delete" /\ req'[r].op # "revokeSession"
      \/ req'[r].pc = "blacklist" /\ req'[r].u = None
  BY DEF UserRequest, SessionRequest, CreateUser, UpdateUser, Deactivate, RemoveUser, Activate,
         ChangePasswordByAdmin, ChangeOwnPassword, UpdateProfile, Login, RevokeAllUserSessions, Logout,
         AuthRevokeSession, SecurityRevokeSession, OnSession, Begin, Enter, AccountsTypeOK
<1>4. Sees(r)'
  BY <1>3, AccountsAssumption DEF Sees, At
<1>5. ASSUME NEW q \in Requests, q # r PROVE Sees(q)'
  BY <1>2, <1>5, SeesKept DEF RevocationSees
<1> QED
  BY <1>4, <1>5 DEF RevocationSees

LEMMA ContinueSees ==
  ASSUME AccountsTypeOK, KnowsWhom, RevocationSees, NEW r \in Requests, Continue(r)
  PROVE  RevocationSees'
<1> DEFINE Others == \A q \in Requests : q # r => req'[q] = req[q]
<1>1. ASSUME Others, UNCHANGED session, blacklist \subseteq blacklist',
             Sees(r)'
      PROVE  RevocationSees'
  <2>1. ASSUME NEW q \in Requests, q # r PROVE Sees(q)'
    BY <1>1, <2>1, SeesKept DEF RevocationSees
  <2> QED
    BY <1>1, <2>1 DEF RevocationSees
<1>2. ASSUME NEW ss \in SUBSET Sessions, Others, Delete(ss), UNCHANGED blacklist, Sees(r)'
      PROVE  RevocationSees'
  <2>1. ASSUME NEW q \in Requests, q # r PROVE Sees(q)'
    BY <1>2, <2>1, SeesKept, DeleteIs DEF RevocationSees
  <2> QED
    BY <1>2, <2>1 DEF RevocationSees
<1>3. ASSUME req'[r] = Idle PROVE Sees(r)'
  BY <1>3, IdleIs, SeesNothing
<1>4. Sees(r)
  BY DEF RevocationSees
<1>5. CASE CountAdmins(r)
  <2>1. Others /\ (req'[r] = Idle \/ req'[r].pc \in {"search", "save"})
    BY <1>5, GoToIs DEF CountAdmins, Phase
  <2> QED
    BY <1>1, <1>3, <1>5, <2>1, SeesNothing DEF CountAdmins
<1>6. CASE Save(r)
  <2>1. Others /\ (req'[r] = Idle \/ req'[r].pc = "search")
    BY <1>6, GoToIs DEF Save, Phase
  <2> QED
    BY <1>1, <1>3, <1>6, <2>1, SeesNothing DEF Save
<1>7. CASE SaveSelected(r)
  <2>1. Others /\ req'[r].pc = "others"
    BY <1>7, GoToIs DEF SaveSelected, At, Phase
  <2> QED
    BY <1>1, <1>7, <2>1, SeesNothing DEF SaveSelected
<1>8. CASE OtherSessions(r)
  <2>1. Others /\ (req'[r] = Idle \/ (req'[r].pc = "delete" /\ req'[r].op = req[r].op))
    BY <1>8, GoToIs, GoToWithIs DEF OtherSessions, SessionsOf, Phase
  <2>2. req[r].op # "revokeSession"
    BY <1>8 DEF OtherSessions, KnowsWhom
  <2> QED
    BY <1>1, <1>3, <1>8, <2>1, <2>2, SeesNothing DEF OtherSessions
<1>9. CASE SoftDelete(r)
  <2>1. Others /\ req'[r] = Idle
    BY <1>9, GoToIs DEF SoftDelete, Phase
  <2> QED
    BY <1>1, <1>3, <1>9, <2>1 DEF SoftDelete
<1>10. CASE SearchSessions(r)
  <2> DEFINE found == SessionsOf(req[r].u)
  <2>1. CASE found = {}
    <3>1. GoTo(r, AfterRevocation(r)) /\ UNCHANGED <<session, blacklist>>
      BY <1>10, <2>1 DEF SearchSessions
    <3>2. Others /\ (req'[r] = Idle \/ (req'[r].pc = "softDelete" /\ req'[r].u = req[r].u))
      BY <1>10, <3>1, GoToIs DEF SearchSessions, AfterRevocation, Phase
    <3>3. req'[r].pc = "softDelete" /\ req'[r].u = req[r].u => Sees(r)'
      BY <2>1, <3>1 DEF Sees, At, SessionsOf
    <3> QED
      BY <1>1, <1>3, <3>1, <3>2, <3>3
  <2>2. CASE found # {}
    <3>1. GoToWith(r, "blacklist", found) /\ UNCHANGED <<session, blacklist>>
      BY <1>10, <2>2 DEF SearchSessions
    <3>2. Others /\ req'[r].pc = "blacklist" /\ req'[r].found = found /\ req'[r].u = req[r].u
      BY <1>10, <3>1, GoToWithIs DEF SearchSessions, SessionsOf, Phase
    <3>3. Sees(r)'
      BY <3>1, <3>2 DEF Sees, At, SessionsOf
    <3> QED
      BY <1>1, <3>1, <3>2, <3>3
  <2> QED
    BY <2>1, <2>2
<1>11. CASE Blacklist(r)
  <2>1. /\ Others /\ req'[r].pc \in {"delete", "deleteAll"} /\ req'[r].u = req[r].u
        /\ req'[r].found = req[r].found
    BY <1>11, GoToIs DEF Blacklist, Phase
  <2>2. UNCHANGED session /\ blacklist' = blacklist \cup req[r].found
    BY <1>11 DEF Blacklist
  <2>3. Sees(r)'
    BY <1>4, <1>11, <2>1, <2>2 DEF Sees, At, Blacklist
  <2> QED
    BY <1>1, <2>1, <2>2, <2>3
<1>12. CASE DeleteAll(r)
  <2>1. Delete(SessionsOf(req[r].u)) /\ UNCHANGED blacklist /\ SessionsOf(req[r].u) \in SUBSET Sessions
    BY <1>12 DEF DeleteAll, SessionsOf
  <2>2. Others /\ (req'[r] = Idle \/ (req'[r].pc = "softDelete" /\ req'[r].u = req[r].u))
    BY <1>12, GoToIs DEF DeleteAll, AfterRevocation, Phase
  <2>3. ASSUME req'[r].pc = "softDelete", req'[r].u = req[r].u PROVE Sees(r)'
    <3>1. req'[r].u \in Users
      BY <2>3, RequestKnows DEF KnowsWhom
    <3>2. \A s \in Sessions : session'[s].user # req'[r].u
      BY <2>1, <2>3, <3>1, DeleteIs, AccountsAssumption DEF SessionsOf, NoSession
    <3> QED
      BY <2>3, <3>2 DEF Sees, At
  <2> QED
    BY <1>2, <1>3, <2>1, <2>2, <2>3
<1>13. CASE DeleteSessions(r)
  <2>1. Delete(req[r].found) /\ UNCHANGED blacklist /\ req[r].found \in SUBSET Sessions
    BY <1>13 DEF DeleteSessions, AccountsTypeOK, Request, Idle
  <2>2. Others /\ req'[r] = Idle
    BY <1>13, GoToIs DEF DeleteSessions, Phase
  <2> QED
    BY <1>2, <1>3, <2>1, <2>2
<1>14. CASE \E s \in Sessions : OpenSession(r, s)
  <2>1. PICK s \in Sessions : OpenSession(r, s)
    BY <1>14
  <2>2. Others /\ req'[r] = Idle /\ UNCHANGED blacklist
    BY <2>1, GoToIs DEF OpenSession, Phase
  <2>3. /\ session'[s].user = req[r].u
        /\ Revoking(req[r].u) => session'[s].late
        /\ \A x \in Sessions : x # s => session'[x] = session[x]
    BY <2>1 DEF OpenSession, AccountsTypeOK
  <2>4. ASSUME NEW q \in Requests, q # r PROVE Sees(q)'
    BY <2>2, <2>3, <2>4, SeesKept DEF RevocationSees, Revoking
  <2> QED
    BY <1>3, <2>2, <2>4 DEF RevocationSees
<1>15. CASE Fail(r)
  <2>1. Others /\ req'[r] = Idle
    BY <1>15 DEF Fail, GoTo, AccountsTypeOK
  <2> QED
    BY <1>1, <1>3, <1>15, <2>1 DEF Fail
<1> QED
  BY <1>5, <1>6, <1>7, <1>8, <1>9, <1>10, <1>11, <1>12, <1>13, <1>14, <1>15 DEF Continue

LEMMA EnvironmentSees ==
  ASSUME AccountsTypeOK, KnowsWhom, RevocationSees, Environment
  PROVE  RevocationSees'
<1>1. ASSUME NEW ss \in SUBSET Sessions, Delete(ss), UNCHANGED <<blacklist, req>>
      PROVE  RevocationSees'
  BY <1>1, SeesKept, DeleteIs DEF RevocationSees
<1>2. ASSUME NEW s \in Sessions, TokenExpires(s) PROVE RevocationSees'
  BY <1>2, SeesKept DEF TokenExpires, RevocationSees
<1>3. CASE Crash
  BY <1>3, IdleIs, SeesNothing DEF Crash, RevocationSees
<1> QED
  BY <1>1, <1>2, <1>3 DEF Environment, LogoutAll, Expire, SessionsOf

\* The users: only SoftDelete removes one, and nobody else's save does.
LEMMA RemovedStep ==
  ASSUME AccountsTypeOK, KnowsWhom, RevocationSees, RemovedHasNoSession, Next
  PROVE  RemovedHasNoSession'
<1>1. ASSUME \A u \in Users : user'[u].state = "removed" => user[u].state = "removed",
             \A s \in Sessions : session'[s] = session[s] \/ session'[s] = NoSession
      PROVE  RemovedHasNoSession'
  <2> SUFFICES ASSUME NEW s \in Sessions, session'[s] # NoSession,
                      user'[session'[s].user].state = "removed"
               PROVE  session'[s].late
    BY DEF RemovedHasNoSession
  <2>1. session'[s] = session[s] /\ session[s].user \in Users
    BY <1>1 DEF AccountsTypeOK, Session
  <2> QED
    BY <1>1, <2>1 DEF RemovedHasNoSession
<1>2. ASSUME NEW r \in Requests, UserRequest(r) \/ SessionRequest(r)
      PROVE  RemovedHasNoSession'
  <2>1. UNCHANGED <<user, session>>
    BY <1>2 DEF UserRequest, SessionRequest, CreateUser, UpdateUser, Deactivate, RemoveUser, Activate,
         ChangePasswordByAdmin, ChangeOwnPassword, UpdateProfile, Login, RevokeAllUserSessions, Logout,
         AuthRevokeSession, SecurityRevokeSession, OnSession, Begin, Enter
  <2> QED
    BY <2>1 DEF RemovedHasNoSession
<1>3. CASE Environment
  <2>1. ASSUME NEW ss \in SUBSET Sessions, Delete(ss), UNCHANGED user PROVE RemovedHasNoSession'
    BY <1>1, <2>1, DeleteIs
  <2>2. CASE UNCHANGED <<user, session>>
    BY <2>2 DEF RemovedHasNoSession
  <2> QED
    BY <1>3, <2>1, <2>2 DEF Environment, LogoutAll, Expire, TokenExpires, Crash, SessionsOf
<1>4. ASSUME NEW r \in Requests, Save(r) PROVE RemovedHasNoSession'
  <2>1. req[r].row.state = "present" /\ UNCHANGED session
    BY <1>4 DEF Save, KnowsWhom
  <2>2. user' = [user EXCEPT ![req[r].u] = Written(r)]
    BY <1>4 DEF Save
  <2>4. Written(r).state = "present"
    BY <1>4, <2>1 DEF Written, Save, AccountsTypeOK, Request, Idle, Row
  <2>3. \A u \in Users : user'[u].state = "removed" => user[u].state = "removed"
    BY <2>2, <2>4 DEF AccountsTypeOK
  <2> QED
    BY <1>1, <2>1, <2>3
<1>5. ASSUME NEW r \in Requests, SaveSelected(r) PROVE RemovedHasNoSession'
  <2>1. \A u \in Users : user'[u].state = "removed" => user[u].state = "removed"
    BY <1>5 DEF SaveSelected, AccountsTypeOK, Row
  <2> QED
    BY <1>1, <1>5, <2>1 DEF SaveSelected
<1>6. ASSUME NEW r \in Requests, SoftDelete(r) PROVE RemovedHasNoSession'
  <2>1. /\ UNCHANGED session /\ req[r].u \in Users
        /\ \A u \in Users : u # req[r].u => user'[u] = user[u]
    BY <1>6 DEF SoftDelete, KnowsWhom, AccountsTypeOK
  <2>2. \A s \in Sessions : session[s].user = req[r].u => session[s].late
    BY <1>6 DEF SoftDelete, RevocationSees, Sees
  <2> SUFFICES ASSUME NEW s \in Sessions, session[s] # NoSession, user'[session[s].user].state = "removed"
               PROVE  session[s].late
    BY <2>1 DEF RemovedHasNoSession
  <2>3. session[s].user \in Users
    BY DEF AccountsTypeOK, Session
  <2> QED
    BY <2>1, <2>2, <2>3 DEF RemovedHasNoSession
<1>7. ASSUME NEW r \in Requests, NEW s \in Sessions, OpenSession(r, s) PROVE RemovedHasNoSession'
  <2>1. /\ UNCHANGED user
        /\ session'[s].user = req[r].u
        /\ user[req[r].u].state = "removed" => session'[s].late
        /\ \A x \in Sessions : x # s => session'[x] = session[x]
    BY <1>7 DEF OpenSession, AccountsTypeOK
  <2> QED
    BY <2>1 DEF RemovedHasNoSession
<1>8. ASSUME NEW r \in Requests, DeleteAll(r) \/ DeleteSessions(r) PROVE RemovedHasNoSession'
  <2>1. \E ss \in SUBSET Sessions : Delete(ss) /\ UNCHANGED user
    BY <1>8 DEF DeleteAll, DeleteSessions, SessionsOf, AccountsTypeOK, Request, Idle
  <2> QED
    BY <1>1, <2>1, DeleteIs
<1>9. ASSUME NEW r \in Requests,
             CountAdmins(r) \/ OtherSessions(r) \/ SearchSessions(r) \/ Blacklist(r) \/ Fail(r)
      PROVE  RemovedHasNoSession'
  <2>1. UNCHANGED <<user, session>>
    BY <1>9 DEF CountAdmins, OtherSessions, SearchSessions, Blacklist, Fail
  <2> QED
    BY <2>1 DEF RemovedHasNoSession
<1> QED
  BY <1>2, <1>3, <1>4, <1>5, <1>6, <1>7, <1>8, <1>9 DEF Next, Continue

LEMMA InitRevocation == Init => RevocationSees /\ RemovedHasNoSession
<1> SUFFICES ASSUME Init PROVE RevocationSees /\ RemovedHasNoSession
  OBVIOUS
<1> QED
  BY IdleIs DEF Init, RevocationSees, Sees, At, RemovedHasNoSession

LEMMA NextRevocation ==
  AccountsTypeOK /\ RevocationInv /\ [Next]_vars => RevocationInv'
<1> SUFFICES ASSUME AccountsTypeOK, RevocationInv, [Next]_vars PROVE RevocationInv'
  OBVIOUS
<1>1. CASE UNCHANGED vars
  BY <1>1 DEF vars, RevocationInv, KnowsWhom, RevocationSees, Sees, At, RemovedHasNoSession
<1>2. CASE Next
  <2>1. RevocationSees'
    BY <1>2, StartSees, ContinueSees, EnvironmentSees DEF Next, RevocationInv
  <2> QED
    BY <1>2, <2>1, NextTypes, RemovedStep DEF RevocationInv
<1> QED
  BY <1>1, <1>2

\* A removed user keeps no session but those that its removal could not see,
\* whatever else happens between the awaits of remove (users.service 340-371).
THEOREM RemovedUsersHaveNoSession == Spec => []RemovedHasNoSession
<1>1. Init => AccountsTypeOK /\ RevocationInv
  BY InitTypes, InitRevocation DEF RevocationInv
<1>2. AccountsTypeOK /\ RevocationInv /\ [Next]_vars => (AccountsTypeOK /\ RevocationInv)'
  BY NextTypes, NextRevocation DEF RevocationInv
<1>3. RevocationInv => RemovedHasNoSession
  BY DEF RevocationInv
<1> QED
  BY <1>1, <1>2, <1>3, PTL DEF Spec

\* What one step of a revocation deletes, the blacklist has.
LEMMA RevokedStep ==
  ASSUME AccountsTypeOK, RevocationInv, [Next]_vars,
         NEW r \in Requests, NEW s \in Sessions,
         req[r].pc = "deleteAll" \/ At(r, "revokeSession", "delete"),
         req'[r] # req[r], session[s] # NoSession, session'[s] = NoSession
  PROVE  s \in blacklist \/ session[s].late
<1>1. Sees(r) /\ session[s].user \in Users
  BY DEF RevocationInv, RevocationSees, AccountsTypeOK, Session
<1>2. ASSUME NEW q \in Requests, q # r, UserRequest(q) \/ SessionRequest(q) \/ Continue(q)
      PROVE  req'[r] = req[r]
  BY <1>2 DEF UserRequest, SessionRequest, CreateUser, UpdateUser, Deactivate, RemoveUser, Activate,
         ChangePasswordByAdmin, ChangeOwnPassword, UpdateProfile, Login, RevokeAllUserSessions, Logout,
         AuthRevokeSession, SecurityRevokeSession, OnSession, Begin, Enter, Continue, CountAdmins,
         Save, SaveSelected, OtherSessions, SoftDelete, SearchSessions, Blacklist, DeleteAll,
         DeleteSessions, OpenSession, Fail, GoTo, GoToWith, AccountsTypeOK
<1>3. req[r] # Idle
  BY IdleIs DEF At
<1>4. ~UserRequest(r) /\ ~SessionRequest(r)
  BY <1>3 DEF UserRequest, SessionRequest, CreateUser, UpdateUser, Deactivate, RemoveUser, Activate,
         ChangePasswordByAdmin, ChangeOwnPassword, UpdateProfile, Login, RevokeAllUserSessions, Logout,
         AuthRevokeSession, SecurityRevokeSession, OnSession, Begin, Enter
<1>5. CASE Environment
  <2>1. UNCHANGED session \/ UNCHANGED req
    BY <1>5 DEF Environment, LogoutAll, Expire, TokenExpires, Crash
  <2> QED
    BY <2>1
<1>6. CASE Continue(r)
  <2>1. CASE DeleteAll(r)
    <3>1. s \in SessionsOf(req[r].u)
      BY <2>1, DeleteIs DEF DeleteAll, Delete, AccountsTypeOK
    <3> QED
      BY <1>1, <2>1, <3>1 DEF DeleteAll, SessionsOf, Sees
  <2>2. CASE DeleteSessions(r)
    <3>1. s \in req[r].found
      BY <2>2 DEF DeleteSessions, Delete, AccountsTypeOK
    <3>2. At(r, "revokeSession", "delete")
      BY <2>2 DEF DeleteSessions
    <3> QED
      BY <1>1, <3>1, <3>2 DEF Sees
  <2>3. UNCHANGED session \/ DeleteAll(r) \/ DeleteSessions(r) \/ req[r].pc = "open"
    BY <1>6 DEF Continue, CountAdmins, Save, SaveSelected, OtherSessions, SoftDelete,
                SearchSessions, Blacklist, OpenSession, Fail
  <2> QED
    BY <2>1, <2>2, <2>3 DEF At
<1> QED
  BY <1>2, <1>4, <1>5, <1>6 DEF Next, vars

\* A revocation sends the token of every session that it deletes to the
\* blacklist first, but for the sessions that came after it had looked
\* (security.service 84-146).
THEOREM RevokedAreBlacklisted == Spec => RevokedIsBlacklisted
<1>1. Init => AccountsTypeOK /\ RevocationInv
  BY InitTypes, InitRevocation DEF RevocationInv
<1>2. AccountsTypeOK /\ RevocationInv /\ [Next]_vars => (AccountsTypeOK /\ RevocationInv)'
  BY NextTypes, NextRevocation DEF RevocationInv
<1>3. AccountsTypeOK /\ RevocationInv /\ [Next]_vars =>
        [\A r \in Requests, s \in Sessions :
           /\ req[r].pc = "deleteAll" \/ At(r, "revokeSession", "delete")
           /\ req'[r] # req[r]
           /\ session[s] # NoSession /\ session'[s] = NoSession
           => s \in blacklist \/ session[s].late]_vars
  BY RevokedStep
<1> QED
  BY <1>1, <1>2, <1>3, PTL DEF Spec, RevokedIsBlacklisted

-----------------------------------------------------------------------------
(* The last administrator, when one request at a time writes the users.     *)

LEMMA SerialIsNext == SerialNext => Next
BY AccountsAssumption
   DEF SerialNext, Next, SerialUserRequest, SerialUpdate, UserRequest

\* A request that goes on stays about the same user, and is alone in doing so.
LEMMA ContinueIs ==
  ASSUME AccountsTypeOK, KnowsWhom, NEW r \in Requests, Continue(r)
  PROVE  /\ req[r] # Idle
         /\ req'[r] = Idle \/ /\ req'[r].op = req[r].op /\ req'[r].u = req[r].u
                              /\ req'[r].row = req[r].row
         /\ \A q \in Requests : q # r => req'[q] = req[q]
<1>1. ASSUME NEW pc \in Phase \cup {"done"}, req[r].pc \in Phase, GoTo(r, pc)
      PROVE  /\ req'[r] = Idle \/ /\ req'[r].op = req[r].op /\ req'[r].u = req[r].u
                                  /\ req'[r].row = req[r].row
             /\ \A q \in Requests : q # r => req'[q] = req[q]
  BY <1>1, GoToIs
<1>2. ASSUME NEW pc \in Phase, NEW found \in SUBSET Sessions, req[r].pc \in Phase,
             GoToWith(r, pc, found)
      PROVE  /\ req'[r].op = req[r].op /\ req'[r].u = req[r].u /\ req'[r].row = req[r].row
             /\ \A q \in Requests : q # r => req'[q] = req[q]
  BY <1>2, GoToWithIs
<1>3. CASE Fail(r)
  BY <1>3 DEF Fail, GoTo, AccountsTypeOK
<1>4. CASE ~Fail(r)
  <2>1. req[r].pc \in Phase
    BY <1>4 DEF Continue, CountAdmins, Save, SaveSelected, At, OtherSessions, SoftDelete,
                SearchSessions, Blacklist, DeleteAll, DeleteSessions, OpenSession, Phase
  <2>2. req[r] # Idle
    BY <2>1, IdleIs DEF Phase
  <2>3. \/ \E pc \in Phase \cup {"done"} : GoTo(r, pc)
        \/ \E pc \in Phase, found \in SUBSET Sessions : GoToWith(r, pc, found)
    BY <1>4 DEF Continue, CountAdmins, Save, SaveSelected, OtherSessions, SoftDelete,
                SearchSessions, Blacklist, DeleteAll, DeleteSessions, OpenSession, Phase,
                AfterRevocation, SessionsOf
  <2> QED
    BY <1>1, <1>2, <2>1, <2>2, <2>3
<1> QED
  BY <1>3, <1>4

LEMMA OneWriterStep ==
  ASSUME AccountsTypeOK, KnowsWhom, OneWriter, SerialNext
  PROVE  OneWriter'
<1>1. ASSUME NEW r \in Writers, SerialUserRequest(r) PROVE OneWriter'
  <2>1. \A q \in Requests : q # r => req'[q] = req[q]
    BY <1>1, AccountsAssumption
       DEF SerialUserRequest, SerialUpdate, CreateUser, UpdateUser, Deactivate, RemoveUser, Activate,
           ChangePasswordByAdmin, ChangeOwnPassword, UpdateProfile, Begin, Enter, AccountsTypeOK
  <2>2. \A w \in Writers : req[w] = Idle
    BY <1>1 DEF SerialUserRequest
  <2> QED
    BY <2>1, <2>2, AccountsAssumption DEF OneWriter
<1>2. ASSUME NEW r \in Requests \ Writers, SessionRequest(r) PROVE OneWriter'
  <2>1. req'[r].op \in SessionOp /\ \A q \in Requests : q # r => req'[q] = req[q]
    BY <1>2 DEF SessionRequest, Login, RevokeAllUserSessions, Logout, AuthRevokeSession, SecurityRevokeSession,
                OnSession, Begin, Enter, AccountsTypeOK, SessionOp
  <2> QED
    BY <2>1, AccountsAssumption DEF OneWriter
<1>3. ASSUME NEW r \in Requests, Continue(r) PROVE OneWriter'
  BY <1>3, ContinueIs, IdleIs, AccountsAssumption DEF OneWriter
<1>4. CASE Environment
  <2>1. req' = req \/ \A q \in Requests : req'[q] = Idle
    BY <1>4 DEF Environment, LogoutAll, Expire, TokenExpires, Crash
  <2> QED
    BY <2>1, IdleIs, AccountsAssumption DEF OneWriter
<1> QED
  BY <1>1, <1>2, <1>3, <1>4 DEF SerialNext

\* Whoever u is, u or somebody else is an active administrator.
LEMMA SomeAdmin ==
  ASSUME AdminRemains, NEW u \in Users
  PROVE  IsActiveAdmin(user[u]) \/ OtherAdmins(u) # {}
BY DEF AdminRemains, IsActiveAdmin, OtherAdmins, ActiveAdmins

\* When the last one is not counted, there is another.
LEMMA NotTheLast ==
  ASSUME ~IsLastAdmin, NEW u PROVE OtherAdmins(u) # {}
<1>1. SUFFICES ASSUME ActiveAdmins \subseteq {u} PROVE FALSE
  BY DEF OtherAdmins
<1>2. Cardinality({u}) = 1 /\ IsFiniteSet({u})
  BY FS_Singleton
<1>3. Cardinality(ActiveAdmins) <= 1 
  BY <1>1, <1>2, FS_Subset
<1> QED
  BY <1>3 DEF IsLastAdmin

LEMMA SafeWriteStep ==
  ASSUME AccountsTypeOK, KnowsWhom, AdminInv, SerialNext
  PROVE  SafeWrite'
<1>1. ASSUME NEW r \in Requests, UNCHANGED user,
             \A q \in Requests : q # r => req'[q] = req[q],
             r \in Writers => SafeWriter(r)'
      PROVE  SafeWrite'
  BY <1>1, AccountsAssumption
     DEF AdminInv, SafeWrite, SafeWriter, IsActiveAdmin, OtherAdmins, ActiveAdmins
<1>2. ASSUME NEW r \in Writers, SerialUserRequest(r) PROVE SafeWrite'
  <2>1. ASSUME NEW u \in Users, NEW o \in WriteOp, NEW pc \in Phase, NEW e \in Row,
               NEW keep \in Sessions \cup {None}, Enter(r, o, pc, u, e, {}, keep),
               pc = "save" => /\ o = "changeOwnPassword" => e = user[u]
                              /\ o \in {"activate", "changePasswordByAdmin"} =>
                                   e.role = user[u].role
                              /\ IsActiveAdmin(e) \/ OtherAdmins(u) # {},
               o = "remove" /\ pc # "count" => OtherAdmins(u) # {},
               pc = "count" => o \in {"deactivate", "remove"}, pc # "softDelete"
        PROVE  SafeWrite'
    <3>1. /\ req'[r].op = o /\ req'[r].pc = pc /\ req'[r].u = u /\ req'[r].row = e
          /\ UNCHANGED user /\ \A q \in Requests : q # r => req'[q] = req[q]
      BY <2>1, AccountsAssumption DEF Enter, AccountsTypeOK
    <3>2. OtherAdmins(u)' = OtherAdmins(u) /\ IsActiveAdmin(e)' = IsActiveAdmin(e)
      BY <3>1 DEF OtherAdmins, ActiveAdmins, IsActiveAdmin
    <3>3. SafeWriter(r)'
      BY <2>1, <3>1, <3>2 DEF SafeWriter, OtherAdmins, ActiveAdmins, IsActiveAdmin
    <3> QED
      BY <1>1, <3>1, <3>3, AccountsAssumption
  <2>2. \A u \in Users : user[u] \in Row /\ [user[u] EXCEPT !.active = TRUE] \in Row
                         /\ [user[u] EXCEPT !.active = FALSE] \in Row
    BY DEF AccountsTypeOK, Row
  <2>3. \A u \in Users : IsActiveAdmin(user[u]) \/ OtherAdmins(u) # {}
    BY SomeAdmin DEF AdminInv
  <2>4. ASSUME NEW u \in Users, NEW e \in Row, CreateUser(r, u, e) PROVE SafeWrite'
    <3>1. OtherAdmins(u) # {}
      BY <2>3, <2>4 DEF CreateUser, IsActiveAdmin
    <3> QED
      BY <2>1, <2>4, <3>1 DEF CreateUser, Begin, WriteOp, Phase
  <2>5. ASSUME NEW u \in Users, NEW e \in Row, SerialUpdate(r, u, e) PROVE SafeWrite'
    BY <2>1, <2>5 DEF SerialUpdate, UpdateUser, Begin, WriteOp, Phase
  <2>6. ASSUME NEW u \in Users, NEW actor \in Users, Deactivate(r, u, actor) PROVE SafeWrite'
    <3>1. user[u].role # "admin" => OtherAdmins(u) # {}
      BY <2>3 DEF IsActiveAdmin
    <3> QED
      BY <2>1, <2>2, <2>6, <3>1 DEF Deactivate, Begin, WriteOp, Phase
  <2>7. ASSUME NEW u \in Users, NEW actor \in Users, RemoveUser(r, u, actor) PROVE SafeWrite'
    <3>1. user[u].role # "admin" => OtherAdmins(u) # {}
      BY <2>3 DEF IsActiveAdmin
    <3> QED
      BY <2>1, <2>2, <2>7, <3>1 DEF RemoveUser, Begin, WriteOp, Phase
  <2>8. ASSUME NEW u \in Users, Activate(r, u) PROVE SafeWrite'
    <3> DEFINE e == [user[u] EXCEPT !.active = TRUE]
    <3>1. (IsActiveAdmin(e) \/ OtherAdmins(u) # {}) /\ e.role = user[u].role
      BY <2>3 DEF IsActiveAdmin, AccountsTypeOK, Row
    <3>2. e \in Row /\ Begin(r, "activate", "save", u, e)
      BY <2>2, <2>8 DEF Activate
    <3> HIDE DEF e
    <3> QED
      BY <2>1, <3>1, <3>2 DEF Begin, WriteOp, Phase
  <2>9. ASSUME NEW u \in Users,
               ChangePasswordByAdmin(r, u) \/ UpdateProfile(r, u) PROVE SafeWrite'
    BY <2>1, <2>2, <2>3, <2>9 DEF ChangePasswordByAdmin, UpdateProfile, Begin, WriteOp, Phase
  <2>10. ASSUME NEW u \in Users, NEW s \in Sessions, ChangeOwnPassword(r, u, s) PROVE SafeWrite'
    BY <2>1, <2>2, <2>3, <2>10 DEF ChangeOwnPassword, WriteOp, Phase
  <2> QED
    BY <1>2, <2>4, <2>5, <2>6, <2>7, <2>8, <2>9, <2>10 DEF SerialUserRequest
<1>3. ASSUME NEW r \in Requests \ Writers, SessionRequest(r) PROVE SafeWrite'
  <2>1. UNCHANGED user /\ \A q \in Requests : q # r => req'[q] = req[q]
    BY <1>3 DEF SessionRequest, Login, RevokeAllUserSessions, Logout, AuthRevokeSession, SecurityRevokeSession,
                OnSession, Begin, Enter, AccountsTypeOK
  <2> QED
    BY <1>1, <2>1
<1>4. ASSUME NEW r \in Requests \ Writers, Continue(r) PROVE SafeWrite'
  <2>1. \A q \in Requests : q # r => req'[q] = req[q]
    BY <1>4, ContinueIs
  <2>2. req[r].op \in SessionOp \cup {"none"}
    BY DEF AdminInv, OneWriter
  <2>3. req[r].pc \notin {"save", "softDelete"}
    BY <2>2 DEF AccountsTypeOK, Request, Idle, KnowsWhom, SessionOp, WriteOp
  <2>4. UNCHANGED user
    BY <1>4, <2>3 DEF Continue, CountAdmins, Save, SaveSelected, At, OtherSessions, SoftDelete,
                SearchSessions, Blacklist, DeleteAll, DeleteSessions, OpenSession, Fail
  <2> QED
    BY <1>1, <2>1, <2>4
<1>5. ASSUME NEW r \in Writers, Continue(r) PROVE SafeWrite'
  <2>1. /\ req[r] # Idle
        /\ req'[r] = Idle \/ /\ req'[r].op = req[r].op /\ req'[r].u = req[r].u
                             /\ req'[r].row = req[r].row
        /\ \A q \in Writers : q # r => req'[q] = req[q]
    BY <1>5, ContinueIs, AccountsAssumption
  <2>2. \A q \in Writers : q # r => req'[q] = Idle
    BY <2>1 DEF AdminInv, OneWriter
  <2>3. SUFFICES req'[r] # Idle => SafeWriter(r)'
    BY <2>2, IdleIs DEF SafeWrite, SafeWriter
  <2>4. SafeWriter(r)
    BY DEF AdminInv, SafeWrite
  <2>5. CASE CountAdmins(r)
    <3>1. UNCHANGED user /\ (req'[r] = Idle \/ (req'[r].pc \in {"save", "search"} /\ ~IsLastAdmin))
          /\ req[r].op \in {"deactivate", "remove"}
      BY <2>4, <2>5, GoToIs, AccountsAssumption DEF CountAdmins, SafeWriter, Phase
    <3> QED
      BY <2>1, <3>1, NotTheLast DEF SafeWriter, OtherAdmins, ActiveAdmins
  <2>6. CASE Save(r) \/ SaveSelected(r)
    <3>1. req'[r].pc \notin {"count", "save", "softDelete"} /\ (req'[r] = Idle \/ req[r].op # "remove")
      BY <2>6, GoToIs, IdleIs, AccountsAssumption DEF Save, SaveSelected, At, Phase
    <3> QED
      BY <2>1, <3>1 DEF SafeWriter
  <2>7. CASE SoftDelete(r) \/ DeleteSessions(r) \/ Fail(r) \/ \E s \in Sessions : OpenSession(r, s)
    BY <2>7, AccountsAssumption DEF SoftDelete, DeleteSessions, Fail, OpenSession, GoTo, AccountsTypeOK
  <2>8. CASE OtherSessions(r) \/ SearchSessions(r) \/ Blacklist(r) \/ DeleteAll(r)
    <3>1. /\ UNCHANGED user /\ req[r].pc # "count"
          /\ req'[r] = Idle \/ req'[r].pc \in {"delete", "softDelete", "blacklist", "deleteAll"}
          /\ req'[r] = Idle \/ (req'[r].pc = "softDelete" => req[r].op = "remove")
      BY <2>8, GoToIs, GoToWithIs, AccountsAssumption
         DEF OtherSessions, SearchSessions, Blacklist, DeleteAll, AfterRevocation, SessionsOf, Phase
    <3> QED
      BY <2>1, <2>4, <3>1 DEF SafeWriter, OtherAdmins, ActiveAdmins
  <2> QED
    BY <1>5, <2>5, <2>6, <2>7, <2>8 DEF Continue
<1>6. CASE Environment
  <2>1. UNCHANGED user /\ (req' = req \/ \A q \in Requests : req'[q] = Idle)
    BY <1>6 DEF Environment, LogoutAll, Expire, TokenExpires, Crash
  <2> QED
    BY <2>1, IdleIs, AccountsAssumption
       DEF AdminInv, SafeWrite, SafeWriter, OtherAdmins, ActiveAdmins, IsActiveAdmin
<1> QED
  BY <1>2, <1>3, <1>4, <1>5, <1>6 DEF SerialNext

\* Only three steps write the users, and each leaves an administrator.
LEMMA AdminRemainsStep ==
  ASSUME AccountsTypeOK, KnowsWhom, AdminInv, SerialNext
  PROVE  AdminRemains'
<1>1. CASE UNCHANGED user
  BY <1>1 DEF AdminInv, AdminRemains, ActiveAdmins
<1>2. ASSUME NEW u \in Users, NEW e \in Row, user' = [user EXCEPT ![u] = e],
             IsActiveAdmin(e) \/ OtherAdmins(u) # {}
      PROVE  AdminRemains'
  <2>1. CASE IsActiveAdmin(e)
    <3>1. u \in ActiveAdmins'
      BY <1>2, <2>1 DEF ActiveAdmins, IsActiveAdmin, AccountsTypeOK
    <3> QED
      BY <3>1 DEF AdminRemains
  <2>2. ASSUME NEW a \in OtherAdmins(u) PROVE AdminRemains'
    <3>1. a \in ActiveAdmins'
      BY <1>2, <2>2 DEF OtherAdmins, ActiveAdmins, AccountsTypeOK
    <3> QED
      BY <3>1 DEF AdminRemains
  <2> QED
    BY <1>2, <2>1, <2>2
<1>3. ASSUME NEW r \in Requests, Continue(r) PROVE AdminRemains'
  <2>1. CASE req[r].pc \notin {"save", "softDelete"}
    <3>1. UNCHANGED user
      BY <1>3, <2>1 DEF Continue, CountAdmins, Save, SaveSelected, At, OtherSessions, SoftDelete,
                  SearchSessions, Blacklist, DeleteAll, DeleteSessions, OpenSession, Fail
    <3> QED
      BY <1>1, <3>1
  <2>2. CASE req[r].pc \in {"save", "softDelete"}
    <3>1. req[r].op \in WriteOp /\ req[r].u \in Users /\ req[r].row \in Row
      BY <2>2 DEF AccountsTypeOK, Request, Idle, KnowsWhom, SessionOp
    <3>2. r \in Writers
      BY <3>1 DEF AdminInv, OneWriter, WriteOp, SessionOp
    <3>3. SafeWriter(r)
      BY <3>2 DEF AdminInv, SafeWrite
    <3>4. CASE Save(r)
      <4>1. Written(r) = req[r].row
        BY <3>1, <3>3, <3>4 DEF Save, SafeWriter, Written, Row
      <4> QED
        BY <1>2, <3>1, <3>3, <3>4, <4>1 DEF Save, SafeWriter
    <3>5. CASE SaveSelected(r)
      <4> DEFINE u == req[r].u
                 e == IF user[u].state = "present"
                      THEN [user[u] EXCEPT !.active = req[r].row.active] ELSE user[u]
      <4>1. user' = [user EXCEPT ![u] = e] /\ e \in Row
        BY <3>1, <3>5 DEF SaveSelected, AccountsTypeOK, Row
      <4>2. user[u] \in Row /\ req[r].row = user[u]
        BY <3>1, <3>3, <3>5 DEF SafeWriter, SaveSelected, At, AccountsTypeOK
      <4>3. e = user[u]
        BY <4>2 DEF Row
      <4> HIDE DEF e
      <4>4. UNCHANGED user
        BY <4>1, <4>3 DEF AccountsTypeOK
      <4> QED
        BY <1>1, <4>4
    <3>6. CASE SoftDelete(r)
      <4>1. OtherAdmins(req[r].u) # {}
        BY <3>3, <3>6 DEF SafeWriter, SoftDelete
      <4>2. [user[req[r].u] EXCEPT !.state = "removed"] \in Row
            /\ user' = [user EXCEPT ![req[r].u] = [user[req[r].u] EXCEPT !.state = "removed"]]
        BY <3>1, <3>6 DEF SoftDelete, AccountsTypeOK, Row
      <4> QED
        BY <1>2, <3>1, <3>6, <4>1, <4>2 DEF SoftDelete
    <3>7. CASE Fail(r)
      BY <1>1, <3>7 DEF Fail
    <3> QED
      BY <1>3, <2>2, <3>4, <3>5, <3>6, <3>7
         DEF Continue, CountAdmins, OtherSessions, SearchSessions, Blacklist, DeleteAll,
             DeleteSessions, OpenSession
  <2> QED
    BY <2>1, <2>2
<1>4. UNCHANGED user \/ \E r \in Requests : Continue(r)
  <2>1. ASSUME NEW r \in Writers, SerialUserRequest(r) PROVE UNCHANGED user
    <3>1. PICK u \in Users :
            \/ \E e \in Row : CreateUser(r, u, e) \/ SerialUpdate(r, u, e)
            \/ \E actor \in Users : Deactivate(r, u, actor) \/ RemoveUser(r, u, actor)
            \/ Activate(r, u) \/ ChangePasswordByAdmin(r, u) \/ UpdateProfile(r, u)
            \/ \E s \in Sessions : ChangeOwnPassword(r, u, s)
      BY <2>1 DEF SerialUserRequest
    <3>2. ASSUME NEW e \in Row, CreateUser(r, u, e) \/ SerialUpdate(r, u, e)
          PROVE  UNCHANGED user
      BY <3>2 DEF CreateUser, SerialUpdate, UpdateUser, Begin, Enter
    <3>3. ASSUME NEW actor \in Users, Deactivate(r, u, actor) \/ RemoveUser(r, u, actor)
          PROVE  UNCHANGED user
      BY <3>3 DEF Deactivate, RemoveUser, Begin, Enter
    <3>4. ASSUME NEW s \in Sessions, ChangeOwnPassword(r, u, s) PROVE UNCHANGED user
      BY <3>4 DEF ChangeOwnPassword, Enter
    <3>5. CASE Activate(r, u) \/ ChangePasswordByAdmin(r, u) \/ UpdateProfile(r, u)
      BY <3>5 DEF Activate, ChangePasswordByAdmin, UpdateProfile, Begin, Enter
    <3> QED
      BY <3>1, <3>2, <3>3, <3>4, <3>5
  <2>2. ASSUME NEW r \in Requests, SessionRequest(r) PROVE UNCHANGED user
    BY <2>2 DEF SessionRequest, Login, RevokeAllUserSessions, Logout, AuthRevokeSession,
                SecurityRevokeSession, OnSession, Begin, Enter
  <2>3. CASE Environment
    BY <2>3 DEF Environment, LogoutAll, Expire, TokenExpires, Crash
  <2> QED
    BY <2>1, <2>2, <2>3 DEF SerialNext
<1> QED
  BY <1>1, <1>3, <1>4

\* Used one write at a time, the service never loses its last active
\* administrator, though the count and the write are an await apart
\* (users.service 197-229 and 340-371).
THEOREM AnAdminRemains == SerialSpec => []AdminRemains
<1> DEFINE Inv == AccountsTypeOK /\ KnowsWhom /\ AdminInv
<1>1. Init => Inv
  <2>1. Init => OneWriter /\ SafeWrite /\ AdminRemains
    BY IdleIs, AccountsAssumption DEF Init, OneWriter, SafeWrite, SafeWriter, AdminRemains
  <2> QED
    BY <2>1, InitTypes DEF AdminInv
<1>2. Inv /\ [SerialNext]_vars => Inv'
  <2>1. CASE UNCHANGED vars
    BY <2>1 DEF vars, AccountsTypeOK, KnowsWhom, AdminInv, OneWriter, SafeWrite, SafeWriter,
                IsActiveAdmin, OtherAdmins, AdminRemains, ActiveAdmins
  <2>2. ASSUME Inv, SerialNext PROVE Inv'
    BY <2>2, SerialIsNext, NextTypes, OneWriterStep, SafeWriteStep, AdminRemainsStep DEF AdminInv
  <2> QED
    BY <2>1, <2>2
<1>3. Inv => AdminRemains
  BY DEF AdminInv
<1> QED
  BY <1>1, <1>2, <1>3, PTL DEF SerialSpec
=============================================================================
