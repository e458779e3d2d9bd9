------------------------------- MODULE Accounts -------------------------------
(***************************************************************************)
(* Users and their sessions: users.service, auth.service and the           *)
(* revocations of security.service, over the tables `users` and `sessions` *)
(* and the blacklist in Redis.                                             *)
(*                                                                         *)
(* A request starts with its first read, which its early returns depend    *)
(* on, and goes on await by await with what it has read.  Passwords and    *)
(* profiles are data, audit entries and dashboard alerts are left out.  An *)
(* expired session is one that is gone: every reader but the owner's own   *)
(* list filters it out.                                                    *)
(***************************************************************************)
EXTENDS Naturals, FiniteSets

CONSTANTS
  Users,
  Sessions,  \* ids of sessions; one that nothing refers to is used again
  Requests,  \* requests that can be in flight at once
  Writers,   \* the requests that write the `users` table, when used serially
  None

ASSUME AccountsAssumption ==
  /\ IsFiniteSet(Users)
  /\ None \notin Users \cup Sessions
  /\ Writers \subseteq Requests

VARIABLES
  user,       \* the `users` table
  session,    \* the `sessions` table
  blacklist,  \* the sessions whose first access token was sent to the blacklist
  req         \* the requests in flight

vars == <<user, session, blacklist, req>>

-----------------------------------------------------------------------------
(* The tables and the requests.                                             *)

Role == {"admin", "other"}

Row == [state : {"absent", "present", "removed"}, role : Role, active : BOOLEAN]

NoRow == [state |-> "absent", role |-> "other", active |-> FALSE]

\* late: opened by a login that a revocation of its user's sessions, or the
\* removal of the user, has overtaken.
NoSession == [user |-> None, late |-> FALSE]

Session == [user : Users, late : BOOLEAN] \cup {NoSession}

WriteOp == {"create", "update", "deactivate", "activate", "changePasswordByAdmin",
            "changeOwnPassword", "updateProfile", "remove"}

SessionOp == {"login", "logout", "authRevoke", "revokeSession", "revokeAll"}

Phase == {"count", "save", "search", "others", "blacklist", "deleteAll", "delete",
          "softDelete", "open"}

Idle == [op |-> "none", pc |-> "idle", u |-> None, row |-> NoRow,
         found |-> {}, keep |-> None]

Request ==
  [op : WriteOp \cup SessionOp, pc : Phase, u : Users \cup {None}, row : Row,
   found : SUBSET Sessions, keep : Sessions \cup {None}] \cup {Idle}

AccountsTypeOK ==
  /\ user \in [Users -> Row]
  /\ session \in [Sessions -> Session]
  /\ blacklist \subseteq Sessions
  /\ req \in [Requests -> Request]

ActiveAdmins ==
  {u \in Users : user[u].state = "present" /\ user[u].role = "admin" /\ user[u].active}

SessionsOf(u) == {s \in Sessions : session[s].user = u}

\* A login opens a session under a new id.
Fresh(s) ==
  /\ session[s] = NoSession
  /\ s \notin blacklist
  /\ \A r \in Requests : s \notin req[r].found /\ s # req[r].keep

Init ==
  /\ user \in [Users -> {r \in Row : r.state = "present"} \cup {NoRow}]
  /\ ActiveAdmins # {}
  /\ session = [s \in Sessions |-> NoSession]
  /\ blacklist = {}
  /\ req = [r \in Requests |-> Idle]

-----------------------------------------------------------------------------
(* Steps the requests share.                                                *)

At(r, o, pc) == req[r].op = o /\ req[r].pc = pc

Enter(r, o, pc, u, row, found, keep) ==
  /\ req[r] = Idle
  /\ req' = [req EXCEPT ![r] = [op |-> o, pc |-> pc, u |-> u, row |-> row,
                                found |-> found, keep |-> keep]]
  /\ UNCHANGED <<user, session>>

Begin(r, o, pc, u, row) == Enter(r, o, pc, u, row, {}, None) /\ UNCHANGED blacklist

GoTo(r, pc) ==
  req' = [req EXCEPT ![r] = IF pc = "done" THEN Idle ELSE [req[r] EXCEPT !.pc = pc]]

GoToWith(r, pc, found) == req' = [req EXCEPT ![r].pc = pc, ![r].found = found]

Delete(ss) == session' = [s \in Sessions |-> IF s \in ss THEN NoSession ELSE session[s]]

\* An awaited query rejects: the request ends there.
Fail(r) ==
  /\ req[r] # Idle
  /\ GoTo(r, "done")
  /\ UNCHANGED <<user, session, blacklist>>

-----------------------------------------------------------------------------
(* Requests that write the users table.                                     *)

Present(u) == user[u].state = "present"

CreateUser(r, u, e) ==
  /\ user[u].state = "absent" /\ e.state = "present"
  /\ Begin(r, "create", "save", u, e)

\* update takes any role and isActive; it does not count administrators.
UpdateUser(r, u, e) ==
  /\ Present(u) /\ e.state = "present"
  /\ Begin(r, "update", "save", u, e)

\* The administrators are counted only when the account is one of theirs.
Deactivate(r, u, actor) ==
  /\ Present(u) /\ u # actor
  /\ Begin(r, "deactivate", IF user[u].role = "admin" THEN "count" ELSE "save",
           u, [user[u] EXCEPT !.active = FALSE])

Activate(r, u) ==
  /\ Present(u) /\ ~user[u].active
  /\ Begin(r, "activate", "save", u, [user[u] EXCEPT !.active = TRUE])

ChangePasswordByAdmin(r, u) ==
  Present(u) /\ Begin(r, "changePasswordByAdmin", "save", u, user[u])

\* s is the session the owner is asking from.
ChangeOwnPassword(r, u, s) ==
  /\ Present(u) /\ session[s].user = u
  /\ Enter(r, "changeOwnPassword", "save", u, user[u], {}, s)
  /\ UNCHANGED blacklist

UpdateProfile(r, u) == Present(u) /\ Begin(r, "updateProfile", "save", u, user[u])

\* Mutant: the sessions of an account without privileges are left alone.
RemoveUnrevoked(r, u, actor) ==
  /\ Present(u) /\ u # actor
  /\ Begin(r, "remove", IF user[u].role = "admin" THEN "count" ELSE "softDelete", u, user[u])

RemoveUser(r, u, actor) ==
  /\ Present(u) /\ u # actor
  /\ Begin(r, "remove", IF user[u].role = "admin" THEN "count" ELSE "search", u, user[u])

\* Mutant: off by one.
IsLastAdminOffByOne == Cardinality(ActiveAdmins) < 1

IsLastAdmin == Cardinality(ActiveAdmins) <= 1

CountAdmins(r) ==
  /\ req[r].pc = "count"
  /\ IF IsLastAdmin THEN GoTo(r, "done")
     ELSE GoTo(r, IF req[r].op = "remove" THEN "search" ELSE "save")
  /\ UNCHANGED <<user, session, blacklist>>

\* save writes every column of the entity that differs from the row, and
\* deletedAt is one of them.  Two requests load the user without its role.
Written(r) ==
  IF req[r].op \in {"activate", "changePasswordByAdmin"}
  THEN [req[r].row EXCEPT !.role = user[req[r].u].role]
  ELSE req[r].row

Save(r) ==
  /\ req[r].pc = "save" /\ req[r].op # "changeOwnPassword"
  /\ user' = [user EXCEPT ![req[r].u] = Written(r)]
  /\ GoTo(r, IF req[r].op \in {"deactivate", "changePasswordByAdmin"} THEN "search" ELSE "done")
  /\ UNCHANGED <<session, blacklist>>

\* changeOwnPassword has selected isActive, but neither role nor deletedAt.
SaveSelected(r) ==
  /\ At(r, "changeOwnPassword", "save")
  /\ user' = [user EXCEPT ![req[r].u] =
                IF @.state = "present" THEN [@ EXCEPT !.active = req[r].row.active] ELSE @]
  /\ GoTo(r, "others")
  /\ UNCHANGED <<session, blacklist>>

OtherSessions(r) ==
  /\ req[r].pc = "others"
  /\ LET found == SessionsOf(req[r].u) \ {req[r].keep} IN
     IF found = {} THEN GoTo(r, "done") ELSE GoToWith(r, "delete", found)
  /\ UNCHANGED <<user, session, blacklist>>

SoftDelete(r) ==
  /\ req[r].pc = "softDelete"
  /\ user' = [user EXCEPT ![req[r].u].state = "removed"]
  /\ GoTo(r, "done")
  /\ UNCHANGED <<session, blacklist>>

-----------------------------------------------------------------------------
(* revokeAllUserSessions, inside three of the requests above or alone.      *)

RevokeAllUserSessions(r, u) == Begin(r, "revokeAll", "search", u, NoRow)

AfterRevocation(r) == IF req[r].op = "remove" THEN "softDelete" ELSE "done"

\* Mutant: only one of the sessions is found.
SearchFirst(r) ==
  /\ req[r].pc = "search"
  /\ LET found == SessionsOf(req[r].u) IN
     IF found = {} THEN GoTo(r, AfterRevocation(r))
     ELSE \E s \in found : GoToWith(r, "blacklist", {s})
  /\ UNCHANGED <<user, session, blacklist>>

SearchSessions(r) ==
  /\ req[r].pc = "search"
  /\ LET found == SessionsOf(req[r].u) IN
     IF found = {} THEN GoTo(r, AfterRevocation(r)) ELSE GoToWith(r, "blacklist", found)
  /\ UNCHANGED <<user, session, blacklist>>

\* The tokens of all that were found; a failure of Redis is swallowed.
Blacklist(r) ==
  /\ req[r].pc = "blacklist"
  /\ blacklist' = blacklist \cup req[r].found
  /\ GoTo(r, IF req[r].op = "revokeSession" THEN "delete" ELSE "deleteAll")
  /\ UNCHANGED <<user, session>>

\* Every session of the user is deleted, not only those that were found.
DeleteAll(r) ==
  /\ req[r].pc = "deleteAll"
  /\ Delete(SessionsOf(req[r].u))
  /\ GoTo(r, AfterRevocation(r))
  /\ UNCHANGED <<user, blacklist>>

-----------------------------------------------------------------------------
(* Requests that open and close single sessions.                            *)

\* The password is right; the account was active when it was read.
Login(r, u) == Present(u) /\ user[u].active /\ Begin(r, "login", "open", u, user[u])

\* A revocation of u's sessions has already looked for them.
Revoking(u) ==
  \E q \in Requests : req[q].u = u /\ req[q].pc \in {"blacklist", "deleteAll", "softDelete"}

OpenSession(r, s) ==
  /\ req[r].pc = "open" /\ Fresh(s)
  /\ LET u == req[r].u IN
     session' = [session EXCEPT ![s] =
       [user |-> u, late |-> Revoking(u) \/ user[u].state = "removed"]]
  /\ GoTo(r, "done")
  /\ UNCHANGED <<user, blacklist>>

OnSession(r, o, pc, s) ==
  session[s] # NoSession /\ Enter(r, o, pc, None, NoRow, {s}, None)

Logout(r, s) == OnSession(r, "logout", "delete", s) /\ blacklist' = blacklist \cup {s}

AuthRevokeSession(r, s) ==
  OnSession(r, "authRevoke", "delete", s) /\ UNCHANGED blacklist

SecurityRevokeSession(r, s) ==
  OnSession(r, "revokeSession", "blacklist", s) /\ UNCHANGED blacklist

DeleteSessions(r) ==
  /\ req[r].pc = "delete"
  /\ Delete(req[r].found)
  /\ GoTo(r, "done")
  /\ UNCHANGED <<user, blacklist>>

LogoutAll(u) ==
  /\ Delete(SessionsOf(u))
  /\ UNCHANGED <<user, blacklist, req>>

-----------------------------------------------------------------------------
(* The environment.                                                         *)

Expire(s) ==
  /\ session[s] # NoSession
  /\ Delete({s})
  /\ UNCHANGED <<user, blacklist, req>>

\* Redis forgets the token of a session that is long over.
TokenExpires(s) ==
  /\ session[s] = NoSession /\ s \in blacklist
  /\ \A r \in Requests : s \notin req[r].found
  /\ blacklist' = blacklist \ {s}
  /\ UNCHANGED <<user, session, req>>

\* The server stops and starts again: the requests in flight are lost.
Crash ==
  /\ req' = [r \in Requests |-> Idle]
  /\ UNCHANGED <<user, session, blacklist>>

-----------------------------------------------------------------------------
UserRequest(r) ==
  \E u \in Users :
    \/ \E e \in Row : CreateUser(r, u, e) \/ UpdateUser(r, u, e)
    \/ \E actor \in Users : Deactivate(r, u, actor) \/ RemoveUser(r, u, actor)
    \/ Activate(r, u)
    \/ ChangePasswordByAdmin(r, u)
    \/ \E s \in Sessions : ChangeOwnPassword(r, u, s)
    \/ UpdateProfile(r, u)

SessionRequest(r) ==
  \/ \E u \in Users : Login(r, u) \/ RevokeAllUserSessions(r, u)
  \/ \E s \in Sessions : Logout(r, s) \/ AuthRevokeSession(r, s) \/ SecurityRevokeSession(r, s)

Continue(r) ==
  \/ CountAdmins(r) \/ Save(r) \/ SaveSelected(r) \/ OtherSessions(r) \/ SoftDelete(r)
  \/ SearchSessions(r) \/ Blacklist(r) \/ DeleteAll(r) \/ DeleteSessions(r)
  \/ \E s \in Sessions : OpenSession(r, s)
  \/ Fail(r)

Environment ==
  \/ \E u \in Users : LogoutAll(u)
  \/ \E s \in Sessions : Expire(s) \/ TokenExpires(s)
  \/ Crash

Next ==
  \/ \E r \in Requests : UserRequest(r) \/ SessionRequest(r) \/ Continue(r)
  \/ Environment

Spec == Init /\ [][Next]_vars

-----------------------------------------------------------------------------
(* Serial administration: one request at a time writes the users table, and *)
(* update is not used to demote or disable the last active administrator,   *)
(* which it would do.  Logins, logouts and revocations wait for nobody.     *)

OtherAdmins(u) == ActiveAdmins \ {u}

IsActiveAdmin(e) == e.state = "present" /\ e.role = "admin" /\ e.active

SerialUpdate(r, u, e) ==
  (IsActiveAdmin(e) \/ OtherAdmins(u) # {}) /\ UpdateUser(r, u, e)

SerialUserRequest(r) ==
  /\ \A w \in Writers : req[w] = Idle
  /\ \E u \in Users :
       \/ \E e \in Row : CreateUser(r, u, e) \/ SerialUpdate(r, u, e)
       \/ \E actor \in Users : Deactivate(r, u, actor) \/ RemoveUser(r, u, actor)
       \/ Activate(r, u)
       \/ ChangePasswordByAdmin(r, u)
       \/ \E s \in Sessions : ChangeOwnPassword(r, u, s)
       \/ UpdateProfile(r, u)

SerialNext ==
  \/ \E r \in Writers : SerialUserRequest(r)
  \/ \E r \in Requests \ Writers : SessionRequest(r)
  \/ \E r \in Requests : Continue(r)
  \/ Environment

SerialSpec == Init /\ [][SerialNext]_vars

-----------------------------------------------------------------------------
(* Properties.                                                              *)

\* Whatever fails or crashes half-way, an active administrator remains.  The
\* count is made before an await, and what it allows is written after it.
AdminRemains == ActiveAdmins # {}

\* A removed user has no session but from a login that its removal overtook:
\* remove revokes before it marks the row, whatever comes in between.
RemovedHasNoSession ==
  \A s \in Sessions :
    session[s] # NoSession /\ user[session[s].user].state = "removed" => session[s].late

\* Of the sessions an administrator's revocation deletes, the blacklist has
\* been sent the token, but for those opened after the revocation looked.
RevokedIsBlacklisted ==
  [][\A r \in Requests, s \in Sessions :
       /\ req[r].pc = "deleteAll" \/ At(r, "revokeSession", "delete")
       /\ req'[r] # req[r]
       /\ session[s] # NoSession /\ session'[s] = NoSession
       => s \in blacklist \/ session[s].late]_vars

-----------------------------------------------------------------------------
(* The inductive invariants.                                                *)

\* The requests that are about a user know whom, a single session's do not,
\* and none means to write the row of a removed user as it was.
KnowsWhom ==
  \A r \in Requests :
    /\ req[r].op \in WriteOp \cup {"login", "revokeAll"} => req[r].u \in Users
    /\ req[r].op \in {"logout", "authRevoke", "revokeSession"} =>
         req[r].u = None /\ req[r].pc \in {"blacklist", "delete"}
    /\ req[r].pc \in {"blacklist", "deleteAll", "softDelete"} =>
         req[r].op \in WriteOp \cup {"revokeSession", "revokeAll"}
    /\ req[r].op = "revokeAll" => req[r].pc \in {"search", "blacklist", "deleteAll"}
    /\ req[r].pc = "open" <=> req[r].op = "login"
    /\ req[r].pc \in {"count", "save"} => req[r].row.state = "present"

\* A revocation that has looked knows every session but the late ones, has
\* sent to the blacklist what it will delete, and leaves only late sessions.
Sees(r) ==
  /\ req[r].pc \in {"blacklist", "deleteAll"} =>
       \A s \in Sessions :
         session[s].user = req[r].u /\ session[s].user \in Users =>
           s \in req[r].found \/ session[s].late
  /\ req[r].pc = "deleteAll" \/ At(r, "revokeSession", "delete") =>
       req[r].found \subseteq blacklist
  /\ req[r].pc = "softDelete" =>
       \A s \in Sessions : session[s].user = req[r].u => session[s].late

RevocationSees == \A r \in Requests : Sees(r)

RevocationInv == KnowsWhom /\ RevocationSees /\ RemovedHasNoSession

OneWriter ==
  /\ \A q, w \in Writers : req[q] # Idle /\ req[w] # Idle => q = w
  /\ \A r \in Requests \ Writers : req[r].op \in SessionOp \cup {"none"}

\* What a writer is about to write leaves an active administrator.
SafeWriter(r) ==
  /\ req[r].pc = "save" =>
       /\ req[r].op = "changeOwnPassword" => req[r].row = user[req[r].u]
       /\ req[r].op \in {"activate", "changePasswordByAdmin"} =>
            req[r].row.role = user[req[r].u].role
       /\ IsActiveAdmin(req[r].row) \/ OtherAdmins(req[r].u) # {}
  /\ req[r].op = "remove" /\ req[r].pc # "count" => OtherAdmins(req[r].u) # {}
  /\ req[r].pc = "count" => req[r].op \in {"deactivate", "remove"}
  /\ req[r].pc = "softDelete" => req[r].op = "remove"

SafeWrite == \A r \in Writers : SafeWriter(r)

AdminInv == OneWriter /\ SafeWrite /\ AdminRemains
=============================================================================
