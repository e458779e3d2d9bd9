------------------------------ MODULE Evidences ------------------------------
(***************************************************************************)
(* Evidence files, their rows and their download tokens:                   *)
(* evidences.service.ts with its storage, integrity and export services.   *)
(*                                                                         *)
(* The file of an evidence, its row and the tokens live in three stores    *)
(* (disk, PostgreSQL, Redis) that no transaction spans.  A request is an   *)
(* async handler; its pc is the await it is at.  The server may crash at   *)
(* any await, and anyone with access to the disk may change a file.        *)
(***************************************************************************)
CONSTANTS
    Evidence,   \* ids of evidences
    Contents,   \* what can be uploaded
    Partial,    \* a file whose writing was interrupted
    Damaged,    \* a file that was changed by somebody else
    ClipUrl,    \* the url of a clip in the recorder of Wowza
    Requests,   \* handlers that can be in progress at once
    Tokens,     \* download tokens
    None

\* A hash stands for what was hashed: SHA-256 is taken to be injective.
Hash == Contents \cup {ClipUrl}
File == Contents \cup {Partial, Damaged, None}
Row == [hash : Hash, deleted : BOOLEAN]

ASSUME EvidenceAssumption ==
    /\ {Partial, Damaged, ClipUrl, None} \cap Contents = {}
    /\ ClipUrl \notin {Partial, Damaged, None}
    /\ None \notin {Partial, Damaged}
    /\ None \notin Evidence \cup Tokens \cup Row

VARIABLES
    disk,       \* file of an evidence
    row,        \* its row in the table
    token,      \* the evidence a token in Redis stands for
    available,  \* whether RedisService uses Redis
    announced,  \* evidences the dashboards were told of
    alarmed,    \* evidences reported as compromised
    touched,    \* evidences whose file somebody else changed or deleted
    req         \* handlers in progress

vars == <<disk, row, token, available, announced, alarmed, touched, req>>

\* Where a handler is.  "hash" is the hash it carries: of the buffer it is
\* to write, or of the row it has loaded.
Idle == [pc |-> "idle", evidence |-> None, hash |-> None, token |-> None]
Await == {"writing", "saving", "saved", "announced", "viewed", "hashing",
          "compromised", "verified", "packing", "packed", "bare",
          "resolved", "spending", "serving", "removing"}
Handler == {Idle} \cup
    [pc : Await, evidence : Evidence, hash : Hash \cup {None},
     token : Tokens \cup {None}]

Init ==
    /\ disk = [e \in Evidence |-> None]
    /\ row = [e \in Evidence |-> None]
    /\ token = [t \in Tokens |-> None]
    /\ available \in BOOLEAN
    /\ announced = {}
    /\ alarmed = {}
    /\ touched = {}
    /\ req = [r \in Requests |-> Idle]

-----------------------------------------------------------------------------
(* What the handlers have in common.                                       *)

Begin(r, pc, e, h, t) ==
    /\ req[r] = Idle
    /\ req' = [req EXCEPT ![r] =
                 [pc |-> pc, evidence |-> e, hash |-> h, token |-> t]]

At(r, pc) == req[r].pc = pc
Goes(r, pc) == req' = [req EXCEPT ![r].pc = pc]
Ends(r) == req' = [req EXCEPT ![r] = Idle]

\* randomUUID: an id no row, file or handler has.
Fresh(e) ==
    /\ row[e] = None
    /\ disk[e] = None
    /\ e \notin touched
    /\ \A r \in Requests : req[r].evidence # e

\* findOne: rows that were removed are not found.
Found(e) == row[e] # None /\ ~row[e].deleted

-----------------------------------------------------------------------------
(* Creation.                                                               *)

\* Mutant: saveFile is not awaited.
CreateUnawaited(r, e, c) ==
    /\ Fresh(e)
    /\ Begin(r, "saving", e, c, None)
    /\ disk' = [disk EXCEPT ![e] = Partial]
    /\ UNCHANGED <<row, token, available, announced, alarmed, touched>>

\* create and createSnapshot, after the checks: the buffer is hashed and
\* writeFile begins.  The write creates the file before it fills it.
Create(r, e, c) ==
    /\ Fresh(e)
    /\ Begin(r, "writing", e, c, None)
    /\ disk' = [disk EXCEPT ![e] = Partial]
    /\ UNCHANGED <<row, token, available, announced, alarmed, touched>>

FileWritten(r) ==
    /\ At(r, "writing")
    /\ disk' = IF req[r].evidence \in touched
                 THEN disk
                 ELSE [disk EXCEPT ![req[r].evidence] = req[r].hash]
    /\ Goes(r, "saving")
    /\ UNCHANGED <<row, token, available, announced, alarmed, touched>>

\* createDvrClip, after its checks: no file, and the hash of a url.
CreateDvrClip(r, e) ==
    /\ Fresh(e)
    /\ Begin(r, "saving", e, ClipUrl, None)
    /\ UNCHANGED <<disk, row, token, available, announced, alarmed, touched>>

\* Mutant: the hash is taken of the file, once it is written.
RowSavedRehashed(r) ==
    /\ At(r, "saving")
    /\ row' = [row EXCEPT ![req[r].evidence] =
                 [hash |-> disk[req[r].evidence], deleted |-> FALSE]]
    /\ Goes(r, "saved")
    /\ UNCHANGED <<disk, token, available, announced, alarmed, touched>>

RowSaved(r) ==
    /\ At(r, "saving")
    /\ row' = [row EXCEPT ![req[r].evidence] =
                 [hash |-> req[r].hash, deleted |-> FALSE]]
    /\ Goes(r, "saved")
    /\ UNCHANGED <<disk, token, available, announced, alarmed, touched>>

\* Mutant: the dashboards are told before the row is saved.
EmitBeforeSave(r) ==
    /\ At(r, "saving")
    /\ announced' = announced \cup {req[r].evidence}
    /\ UNCHANGED <<disk, row, token, available, alarmed, touched, req>>

\* The audit entry is written, successfully or not, and the dashboards hear.
EmitEvidenceCreated(r) ==
    /\ At(r, "saved")
    /\ announced' = announced \cup {req[r].evidence}
    /\ Goes(r, "announced")
    /\ UNCHANGED <<disk, row, token, available, alarmed, touched>>

\* generateDownloadToken: Redis may be down or fail, which set() swallows.
GenerateDownloadToken(r) ==
    /\ At(r, "announced") \/ At(r, "viewed")
    /\ \/ /\ available
          /\ \E t \in Tokens :
               /\ token[t] = None
               /\ \A q \in Requests : req[q].token # t
               /\ token' = [token EXCEPT ![t] = req[r].evidence]
       \/ UNCHANGED token
    /\ Ends(r)
    /\ UNCHANGED <<disk, row, available, announced, alarmed, touched>>

-----------------------------------------------------------------------------
(* Use of an evidence that exists.                                         *)

\* The handlers that begin with findOne: findOne itself, verifyIntegrity,
\* exportEvidence and remove.
Load(r, e, pc) ==
    /\ Found(e)
    /\ Begin(r, pc, e, row[e].hash, None)
    /\ UNCHANGED <<disk, row, token, available, announced, alarmed, touched>>

FindOne(r, e) == Load(r, e, "viewed")
VerifyIntegrity(r, e) == Load(r, e, "hashing")
ExportEvidence(r, e) == Load(r, e, "packing")
Remove(r, e) == Load(r, e, "removing")

\* Mutant: a file that cannot be read counts as one that was changed.
ComputeHashOrBad(r) ==
    /\ At(r, "hashing")
    /\ Goes(r, IF disk[req[r].evidence] = req[r].hash
                 THEN "verified" ELSE "compromised")
    /\ UNCHANGED <<disk, row, token, available, announced, alarmed, touched>>

\* computeHash reads the file; a file that is not there fails the request.
ComputeHash(r) ==
    /\ At(r, "hashing")
    /\ IF disk[req[r].evidence] = None
         THEN Ends(r)
         ELSE IF disk[req[r].evidence] = req[r].hash
                THEN Goes(r, "verified")
                ELSE Goes(r, "compromised")
    /\ UNCHANGED <<disk, row, token, available, announced, alarmed, touched>>

\* The verdict is audited and, if it is bad, a critical alert is emitted.
Verdict(r) ==
    /\ At(r, "verified") \/ At(r, "compromised")
    /\ alarmed' = IF At(r, "compromised")
                    THEN alarmed \cup {req[r].evidence} ELSE alarmed
    /\ Ends(r)
    /\ UNCHANGED <<disk, row, token, available, announced, touched>>

\* The archive gets the file if there is one ("packed"); without it, it is
\* made all the same ("bare"), with the hash and how to verify it.
Pack(r) ==
    /\ At(r, "packing")
    /\ Goes(r, IF disk[req[r].evidence] = None THEN "bare" ELSE "packed")
    /\ UNCHANGED <<disk, row, token, available, announced, alarmed, touched>>

\* The export is audited and sent.
SendPackage(r) ==
    /\ At(r, "packed") \/ At(r, "bare")
    /\ Ends(r)
    /\ UNCHANGED <<disk, row, token, available, announced, alarmed, touched>>

\* Mutant: the file goes with the row.
SoftDeleteUnlinks(r) ==
    /\ At(r, "removing")
    /\ row' = [row EXCEPT ![req[r].evidence] =
                 [hash |-> @.hash, deleted |-> TRUE]]
    /\ disk' = [disk EXCEPT ![req[r].evidence] = None]
    /\ Ends(r)
    /\ UNCHANGED <<token, available, announced, alarmed, touched>>

\* remove: the row is marked, the file stays.
SoftDelete(r) ==
    /\ At(r, "removing")
    /\ row' = [row EXCEPT ![req[r].evidence] =
                 [hash |-> @.hash, deleted |-> TRUE]]
    /\ Ends(r)
    /\ UNCHANGED <<disk, token, available, announced, alarmed, touched>>

-----------------------------------------------------------------------------
(* Download with a token.                                                  *)

ResolveDownloadToken(r, t) ==
    /\ available
    /\ token[t] # None
    /\ Begin(r, "resolved", token[t], None, t)
    /\ UNCHANGED <<disk, row, token, available, announced, alarmed, touched>>

FindForDownload(r) ==
    /\ At(r, "resolved")
    /\ IF Found(req[r].evidence)
         THEN req' = [req EXCEPT ![r].pc = "spending",
                                 ![r].hash = row[req[r].evidence].hash]
         ELSE Ends(r)
    /\ UNCHANGED <<disk, row, token, available, announced, alarmed, touched>>

\* del may fail; the token then lives on until it expires.
InvalidateDownloadToken(r) ==
    /\ At(r, "spending")
    /\ \/ available /\ token' = [token EXCEPT ![req[r].token] = None]
       \/ UNCHANGED token
    /\ Goes(r, "serving")
    /\ UNCHANGED <<disk, row, available, announced, alarmed, touched>>

\* downloadEvidence: 404 if the file is gone, else the file is sent.
DownloadEvidence(r) ==
    /\ At(r, "serving")
    /\ Ends(r)
    /\ UNCHANGED <<disk, row, token, available, announced, alarmed, touched>>

-----------------------------------------------------------------------------
(* What may happen to them.                                                *)

\* writeFile, save, findOne, softDelete, the archive or a read fails; or the
\* row is saved and the answer of the database is lost.  Audit entries,
\* events and Redis never fail a request.
Fail(r) ==
    /\ req[r].pc \in {"writing", "saving", "saved", "hashing", "packing",
                     "resolved", "serving", "removing"}
    /\ Ends(r)
    /\ UNCHANGED <<disk, row, token, available, announced, alarmed, touched>>

\* The process dies and is started again; Redis answers then or not.
Crash ==
    /\ req' = [r \in Requests |-> Idle]
    /\ available' \in BOOLEAN
    /\ UNCHANGED <<disk, row, token, announced, alarmed, touched>>

\* An error event of the Redis client; nothing sets available again.
RedisError ==
    /\ available
    /\ available' = FALSE
    /\ UNCHANGED <<disk, row, token, announced, alarmed, touched, req>>

TokenExpires(t) ==
    /\ token[t] # None
    /\ token' = [token EXCEPT ![t] = None]
    /\ UNCHANGED <<disk, row, available, announced, alarmed, touched, req>>

\* Somebody changes or deletes a file behind the program's back.
Touch(e) ==
    /\ disk[e] # None
    /\ disk' \in {[disk EXCEPT ![e] = Damaged], [disk EXCEPT ![e] = None]}
    /\ touched' = touched \cup {e}
    /\ UNCHANGED <<row, token, available, announced, alarmed, req>>

Next ==
    \/ \E r \in Requests :
         \/ \E e \in Evidence :
              \/ \E c \in Contents : Create(r, e, c)
              \/ CreateDvrClip(r, e)
              \/ FindOne(r, e)
              \/ VerifyIntegrity(r, e)
              \/ ExportEvidence(r, e)
              \/ Remove(r, e)
         \/ \E t \in Tokens : ResolveDownloadToken(r, t)
         \/ FileWritten(r) \/ RowSaved(r)
         \/ EmitEvidenceCreated(r) \/ GenerateDownloadToken(r)
         \/ ComputeHash(r) \/ Verdict(r)
         \/ Pack(r) \/ SendPackage(r) \/ SoftDelete(r)
         \/ FindForDownload(r) \/ InvalidateDownloadToken(r)
         \/ DownloadEvidence(r)
         \/ Fail(r)
    \/ \E t \in Tokens : TokenExpires(t)
    \/ \E e \in Evidence : Touch(e)
    \/ Crash
    \/ RedisError

Spec == Init /\ [][Next]_vars

-----------------------------------------------------------------------------
(* Properties.                                                             *)

EvidenceTypeOK ==
    /\ disk \in [Evidence -> File]
    /\ row \in [Evidence -> Row \cup {None}]
    /\ token \in [Tokens -> Evidence \cup {None}]
    /\ available \in BOOLEAN
    /\ announced \subseteq Evidence
    /\ alarmed \subseteq Evidence
    /\ touched \subseteq Evidence
    /\ req \in [Requests -> Handler]

Uploaded(e) == row[e] # None /\ row[e].hash # ClipUrl

\* A row that says what was uploaded has that file, whole, unless somebody
\* else changed it: however the writing of the file, the writing of the row,
\* their failures and crashes fall (create: saveFile before save).
RowHasItsFile ==
    \A e \in Evidence :
        Uploaded(e) /\ e \notin touched => disk[e] = row[e].hash

\* What the dashboards were told is true and stays true over a crash: an
\* evidence that was announced is in the table (emitEvidenceCreated comes
\* after save), and integrity is called compromised only where somebody did
\* change the file.
TellsTheTruth ==
    /\ \A e \in announced : row[e] # None
    /\ alarmed \subseteq touched

\* verifyIntegrity, when it gives a verdict at all, is right: it says valid
\* exactly when nobody has changed the file.
VerdictIsTrue ==
    [][\A r \in Requests :
         /\ req[r].pc = "hashing"
         /\ req'[r].pc \in {"verified", "compromised"}
         => (req'[r].pc = "verified" <=> req[r].evidence \notin touched)]_vars

\* What a download sends is what its X-Evidence-Hash header says, whole: even
\* when the evidence is removed, or its creation fails or crashes, after the
\* download has found the row and before it opens the file, unless somebody
\* else changed the file.  (A clip has none: it gets 404.)
DownloadIsWhole ==
    \A r \in Requests :
        req[r].pc = "serving" =>
            \/ disk[req[r].evidence] = req[r].hash
            \/ req[r].hash = ClipUrl \/ req[r].evidence \in touched

\* An export lacks its media only if there was none, as for a clip, or somebody
\* deleted it: a removal that overtakes an export leaves it the file, and no
\* crash or failure of a creation makes an evidence without one.
PackageHasItsMedia ==
    \A r \in Requests :
        req[r].pc = "bare" =>
            req[r].hash = ClipUrl \/ req[r].evidence \in touched

\* The archive that the three stores amount to: what the table says is the
\* seal, and media is whole where a reader of the file finds what was hashed.
\* A clip has no media here.
Seal == [e \in Evidence |-> IF row[e] = None THEN None ELSE row[e].hash]

Whole == {e \in Evidence : row[e] # None /\ (Uploaded(e) => disk[e] = row[e].hash)}

Withdrawn == {e \in Evidence : row[e] # None /\ row[e].deleted}

Archive == INSTANCE EvidenceArchive WITH
    seal <- Seal, whole <- Whole, harmed <- touched, withdrawn <- Withdrawn,
    told <- announced, denounced <- alarmed

\* However uploads, removals, verifications, failures and crashes fall, the
\* evidences are an archive: a row never changes its hash, no step of the
\* program but a creation changes a file (saveFile, softDelete), a removed row
\* stays removed, and no verdict or announcement is wrong when it is given.
ImplementsArchive == Archive!Spec

\* The chain of custody: the hash of an evidence is for good, and a removal is,
\* whatever handlers that loaded the row before still do.
CustodyIsForGood ==
    [][\A e \in Evidence :
         row[e] # None =>
             /\ row'[e] # None
             /\ row'[e].hash = row[e].hash
             /\ row[e].deleted => row'[e].deleted]_vars

-----------------------------------------------------------------------------
(* The invariant behind them.                                              *)

\* A handler that creates an evidence is alone with it, and its file is as
\* far as the handler is.
CreatorOwnsIt ==
    \A r \in Requests :
        req[r].pc \in {"writing", "saving"} =>
            /\ row[req[r].evidence] = None
            /\ req[r].hash \in Hash
            /\ \A q \in Requests \ {r} : req[q].evidence # req[r].evidence

FileFollowsCreator ==
    \A r \in Requests :
        /\ req[r].pc = "writing" => req[r].hash \in Contents
        /\ /\ req[r].pc = "saving"
           /\ req[r].evidence \notin touched
           => disk[req[r].evidence] =
                IF req[r].hash = ClipUrl THEN None ELSE req[r].hash
        /\ /\ req[r].pc = "saving"
           /\ req[r].hash = ClipUrl
           => disk[req[r].evidence] = None /\ req[r].evidence \notin touched

\* Every other handler works on a row, and the hash it has loaded is its.
HandlerHasRow ==
    \A r \in Requests :
        /\ req[r].pc \notin {"idle", "writing", "saving"} =>
             row[req[r].evidence] # None
        /\ req[r].pc \in {"hashing", "packing", "spending", "serving"} =>
             row[req[r].evidence].hash = req[r].hash
        /\ req[r].pc = "compromised" => req[r].evidence \in touched

TokenHasRow == \A t \in Tokens : token[t] # None => row[token[t]] # None

ClipHasNoFile ==
    \A e \in Evidence :
        row[e] # None =>
            (row[e].hash = ClipUrl => disk[e] = None /\ e \notin touched)

TouchedIsDamaged ==
    \A e \in touched : disk[e] \in {Damaged, None}

EvidenceInv ==
    /\ EvidenceTypeOK
    /\ RowHasItsFile
    /\ TellsTheTruth
    /\ CreatorOwnsIt
    /\ FileFollowsCreator
    /\ HandlerHasRow
    /\ TokenHasRow
    /\ ClipHasNoFile
    /\ TouchedIsDamaged
=============================================================================
