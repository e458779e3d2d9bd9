-------------------------- MODULE Evidences_proofs --------------------------
(***************************************************************************)
(* Proofs about Evidences: the table, the disk and what is said of them    *)
(* agree, over every interleaving of handlers, failures and crashes.       *)
(***************************************************************************)
EXTENDS Evidences, TLAPS

\* The distinguished values differ from each other and from what they stand
\* beside, which is all that the proofs need of EvidenceAssumption.
LEMMA Distinct ==
    /\ Partial \notin Contents /\ Damaged \notin Contents
    /\ ClipUrl \notin Contents /\ None \notin Contents
    /\ ClipUrl \notin {Partial, Damaged, None}
    /\ None \notin {Partial, Damaged}
    /\ None \notin Evidence /\ None \notin Tokens /\ None \notin Row
  BY EvidenceAssumption DEF EvidenceAssumption

\* The initial states satisfy the invariant.
LEMMA InitInv == Init => EvidenceInv
  BY Distinct
  DEF Init, EvidenceInv, EvidenceTypeOK, RowHasItsFile, Uploaded,
      TellsTheTruth, CreatorOwnsIt, FileFollowsCreator, HandlerHasRow,
      TokenHasRow, ClipHasNoFile, TouchedIsDamaged, Idle, Handler, File, Row,
      Hash

\* Create keeps the invariant.
LEMMA CreateKeeps ==
    ASSUME EvidenceInv, NEW r \in Requests, NEW e \in Evidence, NEW c \in Contents, Create(r, e, c)
    PROVE  EvidenceInv'
  <1>1. EvidenceTypeOK'
    BY DEF Create, EvidenceInv, EvidenceTypeOK, Handler, Await, File, Hash,
           Begin
  <1>2. RowHasItsFile'
    BY DEF Create, EvidenceInv, RowHasItsFile, Uploaded, Fresh
  <1>3. CreatorOwnsIt'
    BY DEF Create, EvidenceInv, CreatorOwnsIt, Hash, Begin, Fresh
  <1>4. FileFollowsCreator'
    BY DEF Create, EvidenceInv, FileFollowsCreator, Begin, Fresh
  <1>5. HandlerHasRow'
    BY DEF Create, EvidenceInv, HandlerHasRow, Begin
  <1>6. ClipHasNoFile'
    BY DEF Create, EvidenceInv, ClipHasNoFile, Fresh
  <1>7. TouchedIsDamaged'
    BY DEF Create, EvidenceInv, TouchedIsDamaged, Fresh
  <1>8. TellsTheTruth' /\ TokenHasRow'
    BY DEF Create, EvidenceInv, TellsTheTruth, TokenHasRow
  <1> QED BY <1>1, <1>2, <1>3, <1>4, <1>5, <1>6, <1>7, <1>8 DEF EvidenceInv

\* CreateDvrClip keeps the invariant.
LEMMA CreateDvrClipKeeps ==
    ASSUME EvidenceInv, NEW r \in Requests, NEW e \in Evidence, CreateDvrClip(r, e)
    PROVE  EvidenceInv'
  <1>1. EvidenceTypeOK'
    BY DEF CreateDvrClip, EvidenceInv, EvidenceTypeOK, Handler, Await, Hash,
           Begin
  <1>2. CreatorOwnsIt'
    BY DEF CreateDvrClip, EvidenceInv, CreatorOwnsIt, Hash, Begin, Fresh
  <1>3. FileFollowsCreator'
    BY DEF CreateDvrClip, EvidenceInv, FileFollowsCreator, Begin, Fresh
  <1>4. HandlerHasRow'
    BY DEF CreateDvrClip, EvidenceInv, HandlerHasRow, Begin
  <1>5. /\ RowHasItsFile'
         /\ TellsTheTruth'
         /\ TokenHasRow'
         /\ ClipHasNoFile'
         /\ TouchedIsDamaged'
    BY DEF CreateDvrClip, EvidenceInv, RowHasItsFile, TellsTheTruth,
           TokenHasRow, ClipHasNoFile, TouchedIsDamaged, Uploaded
  <1> QED BY <1>1, <1>2, <1>3, <1>4, <1>5 DEF EvidenceInv

\* FileWritten keeps the invariant.
LEMMA FileWrittenKeeps ==
    ASSUME EvidenceInv, NEW r \in Requests, FileWritten(r)
    PROVE  EvidenceInv'
  <1>1. EvidenceTypeOK'
    BY DEF FileWritten, EvidenceInv, EvidenceTypeOK, FileFollowsCreator,
           Handler, Await, File, At, Goes, Idle
  <1>2. RowHasItsFile'
    BY DEF FileWritten, EvidenceInv, RowHasItsFile, CreatorOwnsIt, Uploaded,
           At
  <1>3. CreatorOwnsIt'
    BY DEF FileWritten, EvidenceInv, CreatorOwnsIt, At, Goes
  <1>4. FileFollowsCreator'
    BY Distinct
    DEF FileWritten, EvidenceInv, EvidenceTypeOK, CreatorOwnsIt,
        FileFollowsCreator, Handler, At, Goes, Idle
  <1>5. HandlerHasRow'
    BY DEF FileWritten, EvidenceInv, HandlerHasRow, Goes
  <1>6. ClipHasNoFile'
    BY DEF FileWritten, EvidenceInv, CreatorOwnsIt, ClipHasNoFile, At
  <1>7. TouchedIsDamaged'
    BY DEF FileWritten, EvidenceInv, TouchedIsDamaged
  <1>8. TellsTheTruth' /\ TokenHasRow'
    BY DEF FileWritten, EvidenceInv, TellsTheTruth, TokenHasRow
  <1> QED BY <1>1, <1>2, <1>3, <1>4, <1>5, <1>6, <1>7, <1>8 DEF EvidenceInv

\* RowSaved keeps the invariant.
LEMMA RowSavedKeeps ==
    ASSUME EvidenceInv, NEW r \in Requests, RowSaved(r)
    PROVE  EvidenceInv'
  <1> DEFINE e == req[r].evidence
  <1>a. /\ e \in Evidence /\ row[e] = None /\ req[r].hash \in Hash
        /\ \A q \in Requests \ {r} : req[q].evidence # e
    BY Distinct
    DEF EvidenceInv, EvidenceTypeOK, CreatorOwnsIt, Handler, RowSaved, At, Idle
  <1>b. /\ row'[e] # None
        /\ \A x \in Evidence \ {e} : row'[x] = row[x]
    <2>1. [hash |-> req[r].hash, deleted |-> FALSE] \in Row
      BY <1>a DEF Row
    <2> QED BY <1>a, <2>1, Distinct DEF RowSaved, EvidenceInv, EvidenceTypeOK
  <1>1. EvidenceTypeOK'
    BY DEF RowSaved, EvidenceInv, EvidenceTypeOK, CreatorOwnsIt, Handler,
           Await, Row, At, Goes, Idle
  <1>2. RowHasItsFile'
    BY DEF RowSaved, EvidenceInv, RowHasItsFile, FileFollowsCreator, Uploaded,
           At
  <1>3. TellsTheTruth'
    BY DEF RowSaved, EvidenceInv, TellsTheTruth, CreatorOwnsIt, At
  <1>4. CreatorOwnsIt'
    BY DEF RowSaved, EvidenceInv, EvidenceTypeOK, CreatorOwnsIt, Goes
  <1>5. FileFollowsCreator'
    BY DEF RowSaved, EvidenceInv, FileFollowsCreator, Goes
  <1>6. HandlerHasRow'
    BY <1>b
    DEF RowSaved, EvidenceInv, CreatorOwnsIt, HandlerHasRow, At, Goes
  <1>7. TokenHasRow'
    BY DEF RowSaved, EvidenceInv, CreatorOwnsIt, TokenHasRow, At
  <1>8. ClipHasNoFile'
    BY DEF RowSaved, EvidenceInv, FileFollowsCreator, ClipHasNoFile, At
  <1>9. TouchedIsDamaged'
    BY DEF RowSaved, EvidenceInv, TouchedIsDamaged
  <1> QED BY <1>1, <1>2, <1>3, <1>4, <1>5, <1>6, <1>7, <1>8, <1>9 DEF EvidenceInv

\* EmitEvidenceCreated keeps the invariant.
LEMMA EmitEvidenceCreatedKeeps ==
    ASSUME EvidenceInv, NEW r \in Requests, EmitEvidenceCreated(r)
    PROVE  EvidenceInv'
  <1>1. EvidenceTypeOK'
    BY DEF EmitEvidenceCreated, EvidenceInv, EvidenceTypeOK, Handler, Await,
           At, Goes, Idle
  <1>2. TellsTheTruth'
    BY DEF EmitEvidenceCreated, EvidenceInv, TellsTheTruth, HandlerHasRow, At
  <1>3. CreatorOwnsIt'
    BY DEF EmitEvidenceCreated, EvidenceInv, CreatorOwnsIt, Goes
  <1>4. FileFollowsCreator'
    BY DEF EmitEvidenceCreated, EvidenceInv, FileFollowsCreator, Goes
  <1>5. HandlerHasRow'
    BY DEF EmitEvidenceCreated, EvidenceInv, HandlerHasRow, At, Goes
  <1>6. RowHasItsFile' /\ TokenHasRow' /\ ClipHasNoFile' /\ TouchedIsDamaged'
    BY DEF EmitEvidenceCreated, EvidenceInv, RowHasItsFile, TokenHasRow,
           ClipHasNoFile, TouchedIsDamaged, Uploaded
  <1> QED BY <1>1, <1>2, <1>3, <1>4, <1>5, <1>6 DEF EvidenceInv

\* GenerateDownloadToken keeps the invariant.
LEMMA GenerateDownloadTokenKeeps ==
    ASSUME EvidenceInv, NEW r \in Requests, GenerateDownloadToken(r)
    PROVE  EvidenceInv'
  <1>1. EvidenceTypeOK'
    BY DEF GenerateDownloadToken, EvidenceInv, EvidenceTypeOK, Handler, Ends,
           Idle
  <1>2. CreatorOwnsIt'
    BY Distinct
    DEF GenerateDownloadToken, EvidenceInv, EvidenceTypeOK, CreatorOwnsIt,
        Handler, Ends, Idle
  <1>3. FileFollowsCreator'
    BY DEF GenerateDownloadToken, EvidenceInv, FileFollowsCreator, Ends, Idle
  <1>4. HandlerHasRow'
    BY DEF GenerateDownloadToken, EvidenceInv, HandlerHasRow, Ends, Idle
  <1>5. TokenHasRow'
    BY DEF GenerateDownloadToken, EvidenceInv, EvidenceTypeOK, HandlerHasRow,
           TokenHasRow, At
  <1>6. /\ RowHasItsFile'
         /\ TellsTheTruth'
         /\ ClipHasNoFile'
         /\ TouchedIsDamaged'
    BY DEF GenerateDownloadToken, EvidenceInv, RowHasItsFile, TellsTheTruth,
           ClipHasNoFile, TouchedIsDamaged, Uploaded
  <1> QED BY <1>1, <1>2, <1>3, <1>4, <1>5, <1>6 DEF EvidenceInv

\* Load keeps the invariant.
LEMMA LoadKeeps ==
    ASSUME EvidenceInv, NEW r \in Requests, NEW e \in Evidence,
           NEW pc \in {"viewed", "hashing", "packing", "removing"}, Load(r, e, pc)
    PROVE  EvidenceInv'
  <1>1. EvidenceTypeOK'
    BY DEF Load, EvidenceInv, EvidenceTypeOK, Handler, Await, Row, Begin,
           Found
  <1>2. CreatorOwnsIt'
    BY DEF Load, EvidenceInv, CreatorOwnsIt, Begin, Found
  <1>3. FileFollowsCreator'
    BY DEF Load, EvidenceInv, FileFollowsCreator, Begin
  <1>4. HandlerHasRow'
    BY DEF Load, EvidenceInv, HandlerHasRow, Begin, Found
  <1>5. /\ RowHasItsFile'
         /\ TellsTheTruth'
         /\ TokenHasRow'
         /\ ClipHasNoFile'
         /\ TouchedIsDamaged'
    BY DEF Load, EvidenceInv, RowHasItsFile, TellsTheTruth, TokenHasRow,
           ClipHasNoFile, TouchedIsDamaged, Uploaded
  <1> QED BY <1>1, <1>2, <1>3, <1>4, <1>5 DEF EvidenceInv

\* ComputeHash keeps the invariant.
LEMMA ComputeHashKeeps ==
    ASSUME EvidenceInv, NEW r \in Requests, ComputeHash(r)
    PROVE  EvidenceInv'
  <1>1. EvidenceTypeOK'
    BY DEF ComputeHash, EvidenceInv, EvidenceTypeOK, Handler, Await, At, Goes,
           Ends, Idle
  <1>2. CreatorOwnsIt'
    BY Distinct
    DEF ComputeHash, EvidenceInv, EvidenceTypeOK, CreatorOwnsIt, Handler,
        Goes, Ends, Idle
  <1>3. FileFollowsCreator'
    BY DEF ComputeHash, EvidenceInv, EvidenceTypeOK, FileFollowsCreator,
           Handler, Goes, Ends, Idle
  <1>4. HandlerHasRow'
    BY DEF ComputeHash, EvidenceInv, EvidenceTypeOK, RowHasItsFile,
           HandlerHasRow, ClipHasNoFile, Uploaded, Handler, At, Goes, Ends,
           Idle
  <1>5. /\ RowHasItsFile'
         /\ TellsTheTruth'
         /\ TokenHasRow'
         /\ ClipHasNoFile'
         /\ TouchedIsDamaged'
    BY DEF ComputeHash, EvidenceInv, RowHasItsFile, TellsTheTruth,
           TokenHasRow, ClipHasNoFile, TouchedIsDamaged, Uploaded
  <1> QED BY <1>1, <1>2, <1>3, <1>4, <1>5 DEF EvidenceInv

\* Verdict keeps the invariant.
LEMMA VerdictKeeps ==
    ASSUME EvidenceInv, NEW r \in Requests, Verdict(r)
    PROVE  EvidenceInv'
  <1>1. EvidenceTypeOK'
    BY DEF Verdict, EvidenceInv, EvidenceTypeOK, Handler, At, Ends, Idle
  <1>2. TellsTheTruth'
    BY DEF Verdict, EvidenceInv, TellsTheTruth, HandlerHasRow, At
  <1>3. CreatorOwnsIt'
    BY Distinct
    DEF Verdict, EvidenceInv, EvidenceTypeOK, CreatorOwnsIt, Handler, Ends,
        Idle
  <1>4. FileFollowsCreator'
    BY DEF Verdict, EvidenceInv, FileFollowsCreator, Ends, Idle
  <1>5. HandlerHasRow'
    BY DEF Verdict, EvidenceInv, HandlerHasRow, Ends, Idle
  <1>6. RowHasItsFile' /\ TokenHasRow' /\ ClipHasNoFile' /\ TouchedIsDamaged'
    BY DEF Verdict, EvidenceInv, RowHasItsFile, TokenHasRow, ClipHasNoFile,
           TouchedIsDamaged, Uploaded
  <1> QED BY <1>1, <1>2, <1>3, <1>4, <1>5, <1>6 DEF EvidenceInv

\* Pack keeps the invariant.
LEMMA PackKeeps ==
    ASSUME EvidenceInv, NEW r \in Requests, Pack(r)
    PROVE  EvidenceInv'
  <1>1. EvidenceTypeOK'
    BY DEF Pack, EvidenceInv, EvidenceTypeOK, Handler, Await, At, Goes, Idle
  <1>2. CreatorOwnsIt'
    BY DEF Pack, EvidenceInv, CreatorOwnsIt, Goes
  <1>3. FileFollowsCreator'
    BY DEF Pack, EvidenceInv, FileFollowsCreator, Goes
  <1>4. HandlerHasRow'
    BY DEF Pack, EvidenceInv, HandlerHasRow, At, Goes
  <1>5. /\ RowHasItsFile'
         /\ TellsTheTruth'
         /\ TokenHasRow'
         /\ ClipHasNoFile'
         /\ TouchedIsDamaged'
    BY DEF Pack, EvidenceInv, RowHasItsFile, TellsTheTruth, TokenHasRow,
           ClipHasNoFile, TouchedIsDamaged, Uploaded
  <1> QED BY <1>1, <1>2, <1>3, <1>4, <1>5 DEF EvidenceInv

\* SendPackage keeps the invariant.
LEMMA SendPackageKeeps ==
    ASSUME EvidenceInv, NEW r \in Requests, SendPackage(r)
    PROVE  EvidenceInv'
  <1>1. EvidenceTypeOK'
    BY DEF SendPackage, EvidenceInv, EvidenceTypeOK, Handler, Ends
  <1>2. CreatorOwnsIt'
    BY Distinct
    DEF SendPackage, EvidenceInv, EvidenceTypeOK, CreatorOwnsIt, Handler,
        Ends, Idle
  <1>3. FileFollowsCreator'
    BY DEF SendPackage, EvidenceInv, FileFollowsCreator, Ends, Idle
  <1>4. HandlerHasRow'
    BY DEF SendPackage, EvidenceInv, HandlerHasRow, Ends, Idle
  <1>5. /\ RowHasItsFile'
         /\ TellsTheTruth'
         /\ TokenHasRow'
         /\ ClipHasNoFile'
         /\ TouchedIsDamaged'
    BY DEF SendPackage, EvidenceInv, RowHasItsFile, TellsTheTruth,
           TokenHasRow, ClipHasNoFile, TouchedIsDamaged, Uploaded
  <1> QED BY <1>1, <1>2, <1>3, <1>4, <1>5 DEF EvidenceInv

\* SoftDelete keeps the invariant.
LEMMA SoftDeleteKeeps ==
    ASSUME EvidenceInv, NEW r \in Requests, SoftDelete(r)
    PROVE  EvidenceInv'
  <1> DEFINE e == req[r].evidence
  <1>a. /\ e \in Evidence /\ row[e] \in Row /\ row[e].hash \in Hash
        /\ req[r] \in Handler
    BY Distinct
    DEF EvidenceInv, EvidenceTypeOK, HandlerHasRow, Handler, Row, SoftDelete,
        At, Idle
  <1>b. \A x \in Evidence : row[x] # None =>
          row'[x] # None /\ row'[x].hash = row[x].hash
    <2>1. [hash |-> row[e].hash, deleted |-> TRUE] \in Row
      BY <1>a DEF Row
    <2> QED BY <1>a, <2>1, Distinct DEF SoftDelete, EvidenceInv, EvidenceTypeOK
  <1>1. EvidenceTypeOK'
    BY DEF SoftDelete, EvidenceInv, EvidenceTypeOK, HandlerHasRow, Handler,
           Row, At, Ends
  <1>2. RowHasItsFile'
    BY DEF SoftDelete, EvidenceInv, RowHasItsFile, HandlerHasRow, Uploaded, At
  <1>3. TellsTheTruth'
    BY <1>b
    DEF SoftDelete, EvidenceInv, EvidenceTypeOK, TellsTheTruth
  <1>4. CreatorOwnsIt'
    BY Distinct
    DEF SoftDelete, EvidenceInv, EvidenceTypeOK, CreatorOwnsIt, Handler, Ends,
        Idle
  <1>5. FileFollowsCreator'
    BY DEF SoftDelete, EvidenceInv, FileFollowsCreator, Ends, Idle
  <1>6. HandlerHasRow'
    BY <1>b
    DEF SoftDelete, EvidenceInv, EvidenceTypeOK, HandlerHasRow, Ends, Idle
  <1>7. TokenHasRow'
    BY <1>b
    DEF SoftDelete, EvidenceInv, EvidenceTypeOK, TokenHasRow
  <1>8. ClipHasNoFile'
    BY DEF SoftDelete, EvidenceInv, HandlerHasRow, ClipHasNoFile, At
  <1>9. TouchedIsDamaged'
    BY DEF SoftDelete, EvidenceInv, TouchedIsDamaged
  <1> QED BY <1>1, <1>2, <1>3, <1>4, <1>5, <1>6, <1>7, <1>8, <1>9 DEF EvidenceInv

\* ResolveDownloadToken keeps the invariant.
LEMMA ResolveDownloadTokenKeeps ==
    ASSUME EvidenceInv, NEW r \in Requests, NEW t \in Tokens, ResolveDownloadToken(r, t)
    PROVE  EvidenceInv'
  <1>1. EvidenceTypeOK'
    BY DEF ResolveDownloadToken, EvidenceInv, EvidenceTypeOK, Handler, Await,
           Begin
  <1>2. CreatorOwnsIt'
    BY DEF ResolveDownloadToken, EvidenceInv, CreatorOwnsIt, TokenHasRow,
           Begin
  <1>3. FileFollowsCreator'
    BY DEF ResolveDownloadToken, EvidenceInv, FileFollowsCreator, Begin
  <1>4. HandlerHasRow'
    BY DEF ResolveDownloadToken, EvidenceInv, HandlerHasRow, TokenHasRow,
           Begin
  <1>5. /\ RowHasItsFile'
         /\ TellsTheTruth'
         /\ TokenHasRow'
         /\ ClipHasNoFile'
         /\ TouchedIsDamaged'
    BY DEF ResolveDownloadToken, EvidenceInv, RowHasItsFile, TellsTheTruth,
           TokenHasRow, ClipHasNoFile, TouchedIsDamaged, Uploaded
  <1> QED BY <1>1, <1>2, <1>3, <1>4, <1>5 DEF EvidenceInv

\* FindForDownload keeps the invariant.
LEMMA FindForDownloadKeeps ==
    ASSUME EvidenceInv, NEW r \in Requests, FindForDownload(r)
    PROVE  EvidenceInv'
  <1>1. EvidenceTypeOK'
    BY DEF FindForDownload, EvidenceInv, EvidenceTypeOK, Handler, Await, At,
           Ends, Idle
  <1>2. CreatorOwnsIt'
    BY Distinct
    DEF FindForDownload, EvidenceInv, EvidenceTypeOK, CreatorOwnsIt, Handler,
        Ends, Idle
  <1>3. FileFollowsCreator'
    BY DEF FindForDownload, EvidenceInv, EvidenceTypeOK, FileFollowsCreator,
           Handler, Ends, Idle
  <1>4. HandlerHasRow'
    BY DEF FindForDownload, EvidenceInv, EvidenceTypeOK, HandlerHasRow,
           Handler, At, Ends, Idle
  <1>5. /\ RowHasItsFile'
         /\ TellsTheTruth'
         /\ TokenHasRow'
         /\ ClipHasNoFile'
         /\ TouchedIsDamaged'
    BY DEF FindForDownload, EvidenceInv, RowHasItsFile, TellsTheTruth,
           TokenHasRow, ClipHasNoFile, TouchedIsDamaged, Uploaded
  <1> QED BY <1>1, <1>2, <1>3, <1>4, <1>5 DEF EvidenceInv

\* InvalidateDownloadToken keeps the invariant.
LEMMA InvalidateDownloadTokenKeeps ==
    ASSUME EvidenceInv, NEW r \in Requests, InvalidateDownloadToken(r)
    PROVE  EvidenceInv'
  <1>1. EvidenceTypeOK'
    BY DEF InvalidateDownloadToken, EvidenceInv, EvidenceTypeOK, Handler,
           Await, At, Goes, Idle
  <1>2. CreatorOwnsIt'
    BY DEF InvalidateDownloadToken, EvidenceInv, CreatorOwnsIt, Goes
  <1>3. FileFollowsCreator'
    BY DEF InvalidateDownloadToken, EvidenceInv, FileFollowsCreator, Goes
  <1>4. HandlerHasRow'
    BY DEF InvalidateDownloadToken, EvidenceInv, HandlerHasRow, At, Goes
  <1>5. TokenHasRow'
    BY DEF InvalidateDownloadToken, EvidenceInv, EvidenceTypeOK, TokenHasRow
  <1>6. /\ RowHasItsFile'
         /\ TellsTheTruth'
         /\ ClipHasNoFile'
         /\ TouchedIsDamaged'
    BY DEF InvalidateDownloadToken, EvidenceInv, RowHasItsFile, TellsTheTruth,
           ClipHasNoFile, TouchedIsDamaged, Uploaded
  <1> QED BY <1>1, <1>2, <1>3, <1>4, <1>5, <1>6 DEF EvidenceInv

\* DownloadEvidence keeps the invariant.
LEMMA DownloadEvidenceKeeps ==
    ASSUME EvidenceInv, NEW r \in Requests, DownloadEvidence(r)
    PROVE  EvidenceInv'
  <1>1. EvidenceTypeOK'
    BY DEF DownloadEvidence, EvidenceInv, EvidenceTypeOK, Handler, Ends
  <1>2. CreatorOwnsIt'
    BY Distinct
    DEF DownloadEvidence, EvidenceInv, EvidenceTypeOK, CreatorOwnsIt, Handler,
        Ends, Idle
  <1>3. FileFollowsCreator'
    BY DEF DownloadEvidence, EvidenceInv, FileFollowsCreator, Ends, Idle
  <1>4. HandlerHasRow'
    BY DEF DownloadEvidence, EvidenceInv, HandlerHasRow, Ends, Idle
  <1>5. /\ RowHasItsFile'
         /\ TellsTheTruth'
         /\ TokenHasRow'
         /\ ClipHasNoFile'
         /\ TouchedIsDamaged'
    BY DEF DownloadEvidence, EvidenceInv, RowHasItsFile, TellsTheTruth,
           TokenHasRow, ClipHasNoFile, TouchedIsDamaged, Uploaded
  <1> QED BY <1>1, <1>2, <1>3, <1>4, <1>5 DEF EvidenceInv

\* Fail keeps the invariant.
LEMMA FailKeeps ==
    ASSUME EvidenceInv, NEW r \in Requests, Fail(r)
    PROVE  EvidenceInv'
  <1>1. EvidenceTypeOK'
    BY DEF Fail, EvidenceInv, EvidenceTypeOK, Handler, Ends
  <1>2. CreatorOwnsIt'
    BY Distinct
    DEF Fail, EvidenceInv, EvidenceTypeOK, CreatorOwnsIt, Handler, Ends, Idle
  <1>3. FileFollowsCreator'
    BY DEF Fail, EvidenceInv, FileFollowsCreator, Ends, Idle
  <1>4. HandlerHasRow'
    BY DEF Fail, EvidenceInv, HandlerHasRow, Ends, Idle
  <1>5. /\ RowHasItsFile'
         /\ TellsTheTruth'
         /\ TokenHasRow'
         /\ ClipHasNoFile'
         /\ TouchedIsDamaged'
    BY DEF Fail, EvidenceInv, RowHasItsFile, TellsTheTruth, TokenHasRow,
           ClipHasNoFile, TouchedIsDamaged, Uploaded
  <1> QED BY <1>1, <1>2, <1>3, <1>4, <1>5 DEF EvidenceInv

\* Touch keeps the invariant.
LEMMA TouchKeeps ==
    ASSUME EvidenceInv, NEW e \in Evidence, Touch(e)
    PROVE  EvidenceInv'
  <1>1. EvidenceTypeOK'
    BY DEF Touch, EvidenceInv, EvidenceTypeOK, File
  <1>2. RowHasItsFile'
    BY DEF Touch, EvidenceInv, EvidenceTypeOK, RowHasItsFile, Uploaded
  <1>3. CreatorOwnsIt'
    BY DEF Touch, EvidenceInv, CreatorOwnsIt
  <1>4. FileFollowsCreator'
    BY DEF Touch, EvidenceInv, EvidenceTypeOK, FileFollowsCreator, Handler,
           Idle
  <1>5. HandlerHasRow'
    BY DEF Touch, EvidenceInv, HandlerHasRow
  <1>6. ClipHasNoFile'
    BY DEF Touch, EvidenceInv, EvidenceTypeOK, ClipHasNoFile
  <1>7. TouchedIsDamaged'
    BY DEF Touch, EvidenceInv, EvidenceTypeOK, TouchedIsDamaged
  <1>8. TellsTheTruth' /\ TokenHasRow'
    BY DEF Touch, EvidenceInv, TellsTheTruth, TokenHasRow
  <1> QED BY <1>1, <1>2, <1>3, <1>4, <1>5, <1>6, <1>7, <1>8 DEF EvidenceInv

\* TokenExpires keeps the invariant.
LEMMA TokenExpiresKeeps ==
    ASSUME EvidenceInv, NEW t \in Tokens, TokenExpires(t)
    PROVE  EvidenceInv'
  <1>1. EvidenceTypeOK'
    BY DEF TokenExpires, EvidenceInv, EvidenceTypeOK
  <1>2. CreatorOwnsIt'
    BY DEF TokenExpires, EvidenceInv, CreatorOwnsIt
  <1>3. FileFollowsCreator'
    BY DEF TokenExpires, EvidenceInv, FileFollowsCreator
  <1>4. HandlerHasRow'
    BY DEF TokenExpires, EvidenceInv, HandlerHasRow
  <1>5. TokenHasRow'
    BY DEF TokenExpires, EvidenceInv, TokenHasRow
  <1>6. /\ RowHasItsFile'
         /\ TellsTheTruth'
         /\ ClipHasNoFile'
         /\ TouchedIsDamaged'
    BY DEF TokenExpires, EvidenceInv, RowHasItsFile, TellsTheTruth,
           ClipHasNoFile, TouchedIsDamaged, Uploaded
  <1> QED BY <1>1, <1>2, <1>3, <1>4, <1>5, <1>6 DEF EvidenceInv

\* Crash keeps the invariant.
LEMMA CrashKeeps ==
    ASSUME EvidenceInv, Crash
    PROVE  EvidenceInv'
  <1>1. EvidenceTypeOK'
    BY DEF Crash, EvidenceInv, EvidenceTypeOK, Handler
  <1>2. CreatorOwnsIt'
    BY DEF Crash, EvidenceInv, CreatorOwnsIt, Idle
  <1>3. FileFollowsCreator'
    BY DEF Crash, EvidenceInv, FileFollowsCreator, Idle
  <1>4. HandlerHasRow'
    BY DEF Crash, EvidenceInv, HandlerHasRow, Idle
  <1>5. /\ RowHasItsFile'
         /\ TellsTheTruth'
         /\ TokenHasRow'
         /\ ClipHasNoFile'
         /\ TouchedIsDamaged'
    BY DEF Crash, EvidenceInv, RowHasItsFile, TellsTheTruth, TokenHasRow,
           ClipHasNoFile, TouchedIsDamaged, Uploaded
  <1> QED BY <1>1, <1>2, <1>3, <1>4, <1>5 DEF EvidenceInv

\* RedisError keeps the invariant.
LEMMA RedisErrorKeeps ==
    ASSUME EvidenceInv, RedisError
    PROVE  EvidenceInv'
  <1>1. EvidenceTypeOK'
    BY DEF RedisError, EvidenceInv, EvidenceTypeOK
  <1>2. CreatorOwnsIt'
    BY DEF RedisError, EvidenceInv, CreatorOwnsIt
  <1>3. FileFollowsCreator'
    BY DEF RedisError, EvidenceInv, FileFollowsCreator
  <1>4. HandlerHasRow'
    BY DEF RedisError, EvidenceInv, HandlerHasRow
  <1>5. /\ RowHasItsFile'
         /\ TellsTheTruth'
         /\ TokenHasRow'
         /\ ClipHasNoFile'
         /\ TouchedIsDamaged'
    BY Distinct
    DEF RedisError, EvidenceInv, EvidenceTypeOK, RowHasItsFile, TellsTheTruth,
        CreatorOwnsIt, FileFollowsCreator, HandlerHasRow, TokenHasRow,
        ClipHasNoFile, TouchedIsDamaged, Uploaded, Handler, Await, File, Row,
        Hash, Begin, At, Goes, Ends, Idle, Fresh, Found
  <1> QED BY <1>1, <1>2, <1>3, <1>4, <1>5 DEF EvidenceInv

\* Every step keeps the invariant.
LEMMA NextKeeps == EvidenceInv /\ [Next]_vars => EvidenceInv'
  <1> SUFFICES ASSUME EvidenceInv, [Next]_vars PROVE EvidenceInv'
    OBVIOUS
  <1>1. ASSUME NEW r \in Requests, NEW e \in Evidence,
               \/ \E c \in Contents : Create(r, e, c)
               \/ CreateDvrClip(r, e)
               \/ FindOne(r, e) \/ VerifyIntegrity(r, e)
               \/ ExportEvidence(r, e) \/ Remove(r, e)
        PROVE  EvidenceInv'
    BY <1>1, CreateKeeps, CreateDvrClipKeeps, LoadKeeps
    DEF FindOne, VerifyIntegrity, ExportEvidence, Remove
  <1>2. ASSUME NEW r \in Requests,
               \/ FileWritten(r) \/ RowSaved(r) \/ EmitEvidenceCreated(r)
               \/ GenerateDownloadToken(r) \/ ComputeHash(r) \/ Verdict(r)
               \/ Pack(r) \/ SendPackage(r) \/ SoftDelete(r)
        PROVE  EvidenceInv'
    BY <1>2, FileWrittenKeeps, RowSavedKeeps, EmitEvidenceCreatedKeeps,
       GenerateDownloadTokenKeeps, ComputeHashKeeps, VerdictKeeps, PackKeeps,
       SendPackageKeeps, SoftDeleteKeeps
  <1>3. ASSUME NEW r \in Requests,
               \/ \E t \in Tokens : ResolveDownloadToken(r, t)
               \/ FindForDownload(r) \/ InvalidateDownloadToken(r)
               \/ DownloadEvidence(r) \/ Fail(r)
        PROVE  EvidenceInv'
    BY <1>3, ResolveDownloadTokenKeeps, FindForDownloadKeeps,
       InvalidateDownloadTokenKeeps, DownloadEvidenceKeeps, FailKeeps
  <1>4. ASSUME \/ \E t \in Tokens : TokenExpires(t)
               \/ \E e \in Evidence : Touch(e)
               \/ Crash \/ RedisError
        PROVE  EvidenceInv'
    BY <1>4, TokenExpiresKeeps, TouchKeeps, CrashKeeps, RedisErrorKeeps
  <1>5. CASE UNCHANGED vars
    BY <1>5
    DEF vars, EvidenceInv, EvidenceTypeOK, RowHasItsFile, Uploaded,
        TellsTheTruth, CreatorOwnsIt, FileFollowsCreator, HandlerHasRow,
        TokenHasRow, ClipHasNoFile, TouchedIsDamaged
  <1> QED BY <1>1, <1>2, <1>3, <1>4, <1>5 DEF Next

\* EvidenceInv is an invariant of the evidence service.
THEOREM EvidenceInvHolds == Spec => []EvidenceInv
  BY InitInv, NextKeeps, PTL DEF Spec

\* The types of all stores and handlers.
THEOREM EvidenceTypeCorrect == Spec => []EvidenceTypeOK
  <1>1. EvidenceInv => EvidenceTypeOK BY DEF EvidenceInv
  <1> QED BY EvidenceInvHolds, <1>1, PTL

\* No row without its whole file: whatever fails and whenever the process
\* dies between writeFile and save (create).
THEOREM RowAlwaysHasItsFile == Spec => []RowHasItsFile
  <1>1. EvidenceInv => RowHasItsFile BY DEF EvidenceInv
  <1> QED BY EvidenceInvHolds, <1>1, PTL

\* What the dashboards are told of an evidence is true (emitEvidenceCreated,
\* the alert of verifyIntegrity).
THEOREM DashboardsAreToldTheTruth == Spec => []TellsTheTruth
  <1>1. EvidenceInv => TellsTheTruth BY DEF EvidenceInv
  <1> QED BY EvidenceInvHolds, <1>1, PTL

\* A handler that is in progress goes on in its own steps only: others leave
\* it, and a crash ends it.
LEMMA OnlyItself ==
  ASSUME EvidenceInv, [Next]_vars, NEW r \in Requests, req[r] # Idle
  PROVE  \/ req'[r] = req[r] \/ req'[r] = Idle
         \/ FileWritten(r) \/ RowSaved(r) \/ EmitEvidenceCreated(r)
         \/ GenerateDownloadToken(r) \/ ComputeHash(r) \/ Verdict(r)
         \/ Pack(r) \/ SendPackage(r) \/ SoftDelete(r)
         \/ FindForDownload(r) \/ InvalidateDownloadToken(r)
         \/ DownloadEvidence(r) \/ Fail(r)
  <1>1. ASSUME NEW q \in Requests, q # r,
               \/ FileWritten(q) \/ RowSaved(q) \/ EmitEvidenceCreated(q)
               \/ GenerateDownloadToken(q) \/ ComputeHash(q) \/ Verdict(q)
               \/ Pack(q) \/ SendPackage(q) \/ SoftDelete(q)
               \/ FindForDownload(q) \/ InvalidateDownloadToken(q)
               \/ DownloadEvidence(q) \/ Fail(q)
        PROVE  req'[r] = req[r]
    BY <1>1
    DEF EvidenceInv, EvidenceTypeOK, FileWritten, RowSaved, Goes, Ends,
        EmitEvidenceCreated, GenerateDownloadToken, ComputeHash, Verdict,
        Pack, SendPackage, SoftDelete, FindForDownload,
        InvalidateDownloadToken, DownloadEvidence, Fail
  <1>2. ASSUME NEW q \in Requests,
               \/ \E x \in Evidence :
                    \/ \E c \in Contents : Create(q, x, c)
                    \/ CreateDvrClip(q, x)
                    \/ FindOne(q, x) \/ VerifyIntegrity(q, x)
                    \/ ExportEvidence(q, x) \/ Remove(q, x)
               \/ \E t \in Tokens : ResolveDownloadToken(q, t)
        PROVE  req'[r] = req[r]
    BY <1>2
    DEF EvidenceInv, EvidenceTypeOK, Create, CreateDvrClip, FindOne,
        VerifyIntegrity, ExportEvidence, Remove, Load, Begin,
        ResolveDownloadToken
  <1>3. ASSUME \/ Crash \/ RedisError
               \/ \E t \in Tokens : TokenExpires(t)
               \/ \E x \in Evidence : Touch(x)
               \/ UNCHANGED vars
        PROVE  req'[r] = req[r] \/ req'[r] = Idle
    BY <1>3 DEF Crash, RedisError, TokenExpires, Touch, vars
  <1> QED BY <1>1, <1>2, <1>3 DEF Next

\* One that is not in progress can only begin.
LEMMA IdleBegins ==
  ASSUME EvidenceInv, [Next]_vars, NEW r \in Requests, req[r] = Idle
  PROVE  req'[r].pc \in {"idle", "writing", "saving", "viewed", "hashing",
                         "packing", "removing", "resolved"}
  <1>1. ASSUME NEW q \in Requests,
               \/ FileWritten(q) \/ RowSaved(q) \/ EmitEvidenceCreated(q)
               \/ GenerateDownloadToken(q) \/ ComputeHash(q) \/ Verdict(q)
               \/ Pack(q) \/ SendPackage(q) \/ SoftDelete(q)
               \/ FindForDownload(q) \/ InvalidateDownloadToken(q)
               \/ DownloadEvidence(q) \/ Fail(q)
        PROVE  q # r /\ req'[r] = req[r]
    BY <1>1
    DEF EvidenceInv, EvidenceTypeOK, FileWritten, RowSaved, Goes, Ends, At,
        EmitEvidenceCreated, GenerateDownloadToken, ComputeHash, Verdict,
        Pack, SendPackage, SoftDelete, FindForDownload, Idle,
        InvalidateDownloadToken, DownloadEvidence, Fail
  <1>2. ASSUME NEW q \in Requests,
               \/ \E x \in Evidence :
                    \/ \E c \in Contents : Create(q, x, c)
                    \/ CreateDvrClip(q, x)
                    \/ FindOne(q, x) \/ VerifyIntegrity(q, x)
                    \/ ExportEvidence(q, x) \/ Remove(q, x)
               \/ \E t \in Tokens : ResolveDownloadToken(q, t)
        PROVE  req'[r].pc \in {"idle", "writing", "saving", "viewed", "hashing",
                               "packing", "removing", "resolved"}
    BY <1>2
    DEF EvidenceInv, EvidenceTypeOK, Create, CreateDvrClip, FindOne,
        VerifyIntegrity, ExportEvidence, Remove, Load, Begin, Idle,
        ResolveDownloadToken
  <1>3. ASSUME \/ Crash \/ RedisError
               \/ \E t \in Tokens : TokenExpires(t)
               \/ \E x \in Evidence : Touch(x)
               \/ UNCHANGED vars
        PROVE  req'[r] = Idle
    BY <1>3 DEF Crash, RedisError, TokenExpires, Touch, vars
  <1> QED BY <1>1, <1>2, <1>3 DEF Next, Idle

\* Only computeHash gives a verdict, and where it reads a file whose row it
\* has loaded, the verdict is the truth about that file (verifyIntegrity).
LEMMA VerdictStep ==
  ASSUME EvidenceInv, [Next]_vars, NEW r \in Requests,
         req[r].pc = "hashing", req'[r].pc \in {"verified", "compromised"}
  PROVE  req'[r].pc = "verified" <=> req[r].evidence \notin touched
  <1> DEFINE e == req[r].evidence
  <1>1. /\ req[r] \in Handler /\ e \in Evidence
        /\ row[e] # None /\ row[e].hash = req[r].hash /\ row[e] \in Row
    BY Distinct DEF EvidenceInv, EvidenceTypeOK, HandlerHasRow, Handler, Idle
  <1>2. e \notin touched /\ req[r].hash # ClipUrl => disk[e] = req[r].hash
    BY <1>1 DEF EvidenceInv, RowHasItsFile, Uploaded
  <1>3. e \in touched => disk[e] # req[r].hash
    BY <1>1, Distinct DEF EvidenceInv, TouchedIsDamaged, Row, Hash
  <1>4. req[r].hash = ClipUrl => disk[e] = None
    BY <1>1 DEF EvidenceInv, ClipHasNoFile
  <1>5. ComputeHash(r)
    <2>1. req[r] # Idle /\ req'[r] # req[r] /\ req'[r] # Idle
      BY DEF Idle
    <2>2. ASSUME \/ FileWritten(r) \/ RowSaved(r) \/ EmitEvidenceCreated(r)
                 \/ GenerateDownloadToken(r) \/ Verdict(r)
                 \/ Pack(r) \/ SendPackage(r) \/ SoftDelete(r)
                 \/ FindForDownload(r) \/ InvalidateDownloadToken(r)
                 \/ DownloadEvidence(r) \/ Fail(r)
          PROVE  req'[r] = Idle
      BY <2>2
      DEF EvidenceInv, EvidenceTypeOK, FileWritten, RowSaved, At, Ends,
          EmitEvidenceCreated, GenerateDownloadToken, Verdict, Pack,
          SendPackage, SoftDelete, FindForDownload, InvalidateDownloadToken,
          DownloadEvidence, Fail
    <2> QED BY <2>1, <2>2, OnlyItself
  <1>6. disk[e] # None /\ disk[e] = req[r].hash => req'[r].pc = "verified"
    BY <1>1, <1>5
    DEF ComputeHash, At, Goes, EvidenceInv, EvidenceTypeOK, Handler, Idle
  <1>7. disk[e] # None /\ disk[e] # req[r].hash => req'[r].pc = "compromised"
    BY <1>1, <1>5
    DEF ComputeHash, At, Goes, EvidenceInv, EvidenceTypeOK, Handler, Idle
  <1>8. disk[e] # None
    BY <1>1, <1>5 DEF ComputeHash, Ends, EvidenceInv, EvidenceTypeOK, Idle
  <1> QED
    BY <1>2, <1>3, <1>4, <1>6, <1>7, <1>8

\* VerdictIsTrue (verifyIntegrity) for every number of evidences and requests.
THEOREM VerdictsAreTrue == Spec => VerdictIsTrue
  <1>1. EvidenceInv /\ [Next]_vars =>
          [\A r \in Requests :
             /\ req[r].pc = "hashing"
             /\ req'[r].pc \in {"verified", "compromised"}
             => (req'[r].pc = "verified" <=>
                   req[r].evidence \notin touched)]_vars
    BY VerdictStep
  <1> QED BY EvidenceInvHolds, <1>1, PTL DEF Spec, VerdictIsTrue

\* A handler is packing without media only where Pack found none; nothing
\* after it changes what it stands for.
LEMMA PackageStep ==
  ASSUME EvidenceInv, PackageHasItsMedia, [Next]_vars, NEW r \in Requests,
         req'[r].pc = "bare"
  PROVE  req'[r].hash = ClipUrl \/ req'[r].evidence \in touched'
  <1>1. touched \subseteq touched'
    BY DEF Next, Create, CreateDvrClip, FindOne, VerifyIntegrity,
           ExportEvidence, Remove, Load, ResolveDownloadToken, FileWritten,
           RowSaved, EmitEvidenceCreated, GenerateDownloadToken, ComputeHash,
           Verdict, Pack, SendPackage, SoftDelete, FindForDownload,
           InvalidateDownloadToken, DownloadEvidence, Fail, Crash, RedisError,
           TokenExpires, Touch, vars
  <1>2. CASE req'[r] = req[r]
    BY <1>1, <1>2 DEF PackageHasItsMedia
  <1>3. CASE Pack(r)
    <2> DEFINE e == req[r].evidence
    <2>1. /\ e \in Evidence /\ row[e] \in Row /\ row[e] # None
          /\ row[e].hash = req[r].hash /\ row[e].hash \in Hash
      BY <1>3, Distinct
      DEF Pack, At, EvidenceInv, EvidenceTypeOK, HandlerHasRow, Handler, Idle,
          Row
    <2>2. /\ req'[r].hash = req[r].hash
          /\ req'[r].evidence = e
          /\ disk[e] # None => req'[r].pc = "packed"
      BY <1>3, <2>1
      DEF Pack, At, Goes, EvidenceInv, EvidenceTypeOK, Handler, Idle
    <2>3. e \notin touched /\ row[e].hash # ClipUrl => disk[e] # None
      BY <2>1, Distinct DEF EvidenceInv, RowHasItsFile, Uploaded, Hash
    <2> QED BY <1>1, <2>1, <2>2, <2>3
  <1>4. req'[r] = req[r] \/ Pack(r)
    <2>1. CASE req[r] = Idle
      BY <2>1, IdleBegins DEF Idle
    <2>2. ASSUME \/ FileWritten(r) \/ RowSaved(r) \/ EmitEvidenceCreated(r)
                 \/ GenerateDownloadToken(r) \/ ComputeHash(r) \/ Verdict(r)
                 \/ SendPackage(r) \/ SoftDelete(r) \/ FindForDownload(r)
                 \/ InvalidateDownloadToken(r) \/ DownloadEvidence(r)
                 \/ Fail(r)
          PROVE  FALSE
      BY <2>2
      DEF EvidenceInv, EvidenceTypeOK, FileWritten, RowSaved, At, Goes, Ends,
          Idle, EmitEvidenceCreated, GenerateDownloadToken, ComputeHash,
          Verdict, SendPackage, SoftDelete, FindForDownload, Handler,
          InvalidateDownloadToken, DownloadEvidence, Fail
    <2>3. req'[r] # Idle
      BY DEF Idle
    <2> QED BY <2>1, <2>2, <2>3, OnlyItself
  <1> QED BY <1>2, <1>3, <1>4

\* An export never loses its media to a removal, a failure or a crash
\* (exportEvidence, remove).
THEOREM PackagesHaveTheirMedia == Spec => []PackageHasItsMedia
  <1>1. Init => PackageHasItsMedia
    BY DEF Init, PackageHasItsMedia, Idle
  <1>2. EvidenceInv /\ PackageHasItsMedia /\ [Next]_vars =>
          PackageHasItsMedia'
    BY PackageStep DEF PackageHasItsMedia
  <1> QED BY EvidenceInvHolds, <1>1, <1>2, PTL DEF Spec

\* A download carries the hash of its row, and a row has its whole file: what
\* is sent is what was hashed, whatever removes the evidence meanwhile
\* (prepareDownload, downloadEvidence).
THEOREM DownloadsAreWhole == Spec => []DownloadIsWhole
  <1>1. EvidenceInv => DownloadIsWhole
    <2> SUFFICES ASSUME EvidenceInv, NEW r \in Requests, req[r].pc = "serving",
                        req[r].hash # ClipUrl, req[r].evidence \notin touched
                 PROVE  disk[req[r].evidence] = req[r].hash
      BY DEF DownloadIsWhole
    <2>1. req[r].evidence \in Evidence
      BY DEF EvidenceInv, EvidenceTypeOK, Handler, Idle
    <2>2. row[req[r].evidence] # None /\ row[req[r].evidence].hash = req[r].hash
      BY DEF EvidenceInv, HandlerHasRow
    <2> QED BY <2>1, <2>2 DEF EvidenceInv, RowHasItsFile, Uploaded
  <1> QED BY EvidenceInvHolds, <1>1, PTL

-----------------------------------------------------------------------------
(* The refinement.  A step changes the archive at one piece at most, and only *)
(* RowSaved, EmitEvidenceCreated, Verdict, SoftDelete and Touch do.           *)

\* What the invariant says of a piece, as the archive sees it.
LEMMA Piece ==
    ASSUME EvidenceInv, NEW e \in Evidence
    PROVE  /\ Archive!Kept(e) <=> row[e] # None
           /\ row[e] # None =>
                 row[e] \in Row /\ row[e].hash \in Contents \cup {ClipUrl}
           /\ row[e] # None /\ e \in touched => e \notin Whole
  <1>1. row[e] # None => row[e] \in Row /\ row[e].hash \in Contents \cup {ClipUrl}
    BY DEF EvidenceInv, EvidenceTypeOK, Row, Hash
  <1>2. Archive!Kept(e) <=> row[e] # None
    BY <1>1, Distinct DEF Archive!Kept, Seal
  <1>3. row[e] # None /\ e \in touched => e \notin Whole
    BY <1>1, Distinct
    DEF EvidenceInv, ClipHasNoFile, TouchedIsDamaged, Whole, Uploaded
  <1> QED BY <1>1, <1>2, <1>3

\* Files of pieces that are not kept, tokens and handlers are not seen.
LEMMA Unseen ==
    ASSUME UNCHANGED <<row, announced, alarmed, touched>>,
           \A e \in Evidence : row[e] # None => disk'[e] = disk[e]
    PROVE  UNCHANGED Archive!vars
  <1>1. Seal' = Seal /\ Withdrawn' = Withdrawn
    BY DEF Seal, Withdrawn
  <1>2. Whole' = Whole
    BY DEF Whole, Uploaded
  <1> QED BY <1>1, <1>2 DEF Archive!vars

LEMMA CreateIsUnseen ==
    ASSUME EvidenceInv, NEW r \in Requests, NEW e \in Evidence,
           NEW c \in Contents, Create(r, e, c)
    PROVE  UNCHANGED Archive!vars
  <1>1. \A x \in Evidence : row[x] # None => disk'[x] = disk[x]
    BY DEF Create, Fresh, EvidenceInv, EvidenceTypeOK
  <1> QED BY <1>1, Unseen DEF Create

LEMMA FileWrittenIsUnseen ==
    ASSUME EvidenceInv, NEW r \in Requests, FileWritten(r)
    PROVE  UNCHANGED Archive!vars
  <1>1. row[req[r].evidence] = None
    BY DEF FileWritten, At, EvidenceInv, CreatorOwnsIt
  <1>2. \A x \in Evidence : row[x] # None => disk'[x] = disk[x]
    BY <1>1 DEF FileWritten, EvidenceInv, EvidenceTypeOK
  <1> QED BY <1>2, Unseen DEF FileWritten

\* The row is the moment a piece is kept: its file is all there.
LEMMA RowSavedKeepsPiece ==
    ASSUME EvidenceInv, NEW r \in Requests, RowSaved(r)
    PROVE  Archive!Next
  <1> DEFINE e == req[r].evidence
             h == req[r].hash
  <1>1. /\ e \in Evidence /\ row[e] = None /\ h \in Hash
        /\ e \notin touched => h = ClipUrl \/ disk[e] = h
        /\ e \in touched => h # ClipUrl /\ disk[e] \in {Damaged, None}
    BY Distinct
    DEF EvidenceInv, EvidenceTypeOK, CreatorOwnsIt, FileFollowsCreator,
        TouchedIsDamaged, Handler, RowSaved, At, Idle
  <1>2. row' = [row EXCEPT ![e] = [hash |-> h, deleted |-> FALSE]]
    BY DEF RowSaved
  <1>3. [hash |-> h, deleted |-> FALSE] # None
    <2>1. [hash |-> h, deleted |-> FALSE] \in Row
      BY <1>1 DEF Row
    <2> QED BY <2>1, Distinct
  <1>4. Seal' = [Seal EXCEPT ![e] = h]
    BY <1>1, <1>2, <1>3 DEF Seal, EvidenceInv, EvidenceTypeOK
  <1>5. Withdrawn' = Withdrawn
    BY <1>1, <1>2, <1>3 DEF Withdrawn, EvidenceInv, EvidenceTypeOK
  <1>6. Whole' = Whole \cup ({e} \ touched)
    <2>1. \A x \in Evidence \ {e} : x \in Whole' <=> x \in Whole
      BY <1>2 DEF Whole, Uploaded, RowSaved, EvidenceInv, EvidenceTypeOK
    <2>2. e \notin Whole
      BY <1>1 DEF Whole
    <2>3. row'[e].hash = h /\ row'[e] # None /\ disk' = disk
      BY <1>1, <1>2, <1>3 DEF RowSaved, EvidenceInv, EvidenceTypeOK
    <2>4. e \in Whole' <=> (h # ClipUrl => disk[e] = h)
      BY <1>1, <2>3 DEF Whole, Uploaded
    <2>5. (h # ClipUrl => disk[e] = h) <=> e \notin touched
      BY <1>1, Distinct DEF Hash
    <2> QED BY <1>1, <2>1, <2>2, <2>4, <2>5 DEF Whole
  <1>7. Archive!Keep(e, h)
    BY <1>1, <1>4, <1>5, <1>6, Piece DEF Archive!Keep, RowSaved
  <1> QED BY <1>1, <1>7 DEF Archive!Next

LEMMA EmitTells ==
    ASSUME EvidenceInv, NEW r \in Requests, EmitEvidenceCreated(r)
    PROVE  Archive!Next
  <1> DEFINE e == req[r].evidence
  <1>1. e \in Evidence /\ row[e] # None
    BY Distinct
    DEF EmitEvidenceCreated, At, EvidenceInv, EvidenceTypeOK, HandlerHasRow,
        Handler, Idle
  <1>2. Seal' = Seal /\ Whole' = Whole /\ Withdrawn' = Withdrawn
    BY DEF EmitEvidenceCreated, Seal, Whole, Uploaded, Withdrawn
  <1>3. Archive!Tell(e)
    BY <1>1, <1>2, Piece DEF Archive!Tell, EmitEvidenceCreated
  <1> QED BY <1>1, <1>3 DEF Archive!Next

LEMMA VerdictDenounces ==
    ASSUME EvidenceInv, NEW r \in Requests, Verdict(r)
    PROVE  Archive!Next \/ UNCHANGED Archive!vars
  <1> DEFINE e == req[r].evidence
  <1>1. CASE At(r, "compromised")
    <2>1. e \in Evidence /\ row[e] # None /\ e \in touched
      BY <1>1, Distinct
      DEF At, EvidenceInv, EvidenceTypeOK, HandlerHasRow, Handler, Idle
    <2>2. Seal' = Seal /\ Whole' = Whole /\ Withdrawn' = Withdrawn
      BY DEF Verdict, Seal, Whole, Uploaded, Withdrawn
    <2>3. Archive!Denounce(e)
      BY <1>1, <2>1, <2>2, Piece DEF Archive!Denounce, Verdict
    <2> QED BY <2>1, <2>3 DEF Archive!Next
  <1>2. CASE ~At(r, "compromised")
    BY <1>2, Unseen DEF Verdict
  <1> QED BY <1>1, <1>2

LEMMA SoftDeleteWithdraws ==
    ASSUME EvidenceInv, NEW r \in Requests, SoftDelete(r)
    PROVE  Archive!Next
  <1> DEFINE e == req[r].evidence
             removed == [hash |-> row[e].hash, deleted |-> TRUE]
  <1>1. e \in Evidence /\ row[e] # None
    BY Distinct
    DEF SoftDelete, At, EvidenceInv, EvidenceTypeOK, HandlerHasRow, Handler,
        Idle
  <1>2. row' = [row EXCEPT ![e] = removed]
    BY DEF SoftDelete
  <1>3. removed # None
    <2>1. removed \in Row
      BY <1>1, Piece DEF Row, Hash
    <2> QED BY <2>1, Distinct
  <1>4. row'[e] = removed /\ \A x \in Evidence \ {e} : row'[x] = row[x]
    BY <1>1, <1>2 DEF EvidenceInv, EvidenceTypeOK
  <1>5. \A x \in Evidence :
          (row'[x] # None <=> row[x] # None) /\ row'[x].hash = row[x].hash
    BY <1>1, <1>3, <1>4
  <1>6. Seal' = Seal
    BY <1>5 DEF Seal
  <1>7. Whole' = Whole
    BY <1>5 DEF Whole, Uploaded, SoftDelete
  <1>8. Withdrawn' = Withdrawn \cup {e}
    BY <1>1, <1>3, <1>4 DEF Withdrawn
  <1>9. Archive!Withdraw(e)
    BY <1>1, <1>6, <1>7, <1>8, Piece DEF Archive!Withdraw, SoftDelete
  <1> QED BY <1>1, <1>9 DEF Archive!Next

LEMMA TouchHarms ==
    ASSUME EvidenceInv, NEW e \in Evidence, Touch(e)
    PROVE  Archive!Next
  <1>1. Seal' = Seal /\ Withdrawn' = Withdrawn
    BY DEF Touch, Seal, Withdrawn
  <1>2. /\ \A x \in Evidence \ {e} : disk'[x] = disk[x]
        /\ disk'[e] \in {Damaged, None}
    BY DEF Touch, EvidenceInv, EvidenceTypeOK
  <1>3. e \notin Whole'
    <2>1. CASE row[e] = None
      BY <2>1 DEF Touch, Whole
    <2>2. CASE row[e] # None
      <3>1. row[e].hash \in Contents
        BY <2>2, Piece DEF Touch, EvidenceInv, ClipHasNoFile
      <3>2. Uploaded(e)' /\ row' = row
        BY <2>2, <3>1, Distinct DEF Touch, Uploaded
      <3>3. disk'[e] # row'[e].hash
        BY <1>2, <3>1, <3>2, Distinct
      <3> QED BY <3>2, <3>3 DEF Whole
    <2> QED BY <2>1, <2>2
  <1>4. \A x \in Evidence \ {e} : x \in Whole' <=> x \in Whole
    BY <1>2 DEF Whole, Uploaded, Touch
  <1>5. Whole' = Whole \ {e}
    BY <1>3, <1>4 DEF Whole
  <1>6. Archive!Harm(e)
    BY <1>1, <1>5 DEF Archive!Harm, Touch
  <1> QED BY <1>6 DEF Archive!Next

LEMMA ArchiveInit == Init => Archive!Init
  BY DEF Init, Archive!Init, Seal, Whole, Withdrawn

LEMMA ArchiveStep ==
    EvidenceInv /\ [Next]_vars => [Archive!Next]_Archive!vars
  <1> SUFFICES ASSUME EvidenceInv, [Next]_vars
               PROVE  Archive!Next \/ UNCHANGED Archive!vars
    BY DEF Archive!vars
  <1>1. ASSUME NEW r \in Requests, NEW e \in Evidence, NEW c \in Contents,
               Create(r, e, c)
        PROVE  UNCHANGED Archive!vars
    BY <1>1, CreateIsUnseen
  <1>2. ASSUME NEW r \in Requests,
               FileWritten(r) \/ RowSaved(r) \/ EmitEvidenceCreated(r)
                 \/ Verdict(r) \/ SoftDelete(r)
        PROVE  Archive!Next \/ UNCHANGED Archive!vars
    BY <1>2, FileWrittenIsUnseen, RowSavedKeepsPiece, EmitTells,
       VerdictDenounces, SoftDeleteWithdraws
  <1>3. ASSUME NEW e \in Evidence, Touch(e)
        PROVE  Archive!Next
    BY <1>3, TouchHarms
  <1>4. ASSUME NEW r \in Requests,
               \/ \E e \in Evidence :
                    \/ CreateDvrClip(r, e)
                    \/ FindOne(r, e) \/ VerifyIntegrity(r, e)
                    \/ ExportEvidence(r, e) \/ Remove(r, e)
               \/ \E t \in Tokens : ResolveDownloadToken(r, t)
               \/ GenerateDownloadToken(r) \/ ComputeHash(r) \/ Pack(r)
               \/ SendPackage(r) \/ FindForDownload(r)
               \/ InvalidateDownloadToken(r) \/ DownloadEvidence(r) \/ Fail(r)
        PROVE  UNCHANGED Archive!vars
    BY <1>4, Unseen
    DEF CreateDvrClip, FindOne, VerifyIntegrity, ExportEvidence, Remove, Load,
        ResolveDownloadToken, GenerateDownloadToken, ComputeHash, Pack,
        SendPackage, FindForDownload, InvalidateDownloadToken,
        DownloadEvidence, Fail
  <1>5. ASSUME Crash \/ RedisError \/ (\E t \in Tokens : TokenExpires(t))
                 \/ UNCHANGED vars
        PROVE  UNCHANGED Archive!vars
    BY <1>5, Unseen DEF Crash, RedisError, TokenExpires, vars
  <1> QED BY <1>1, <1>2, <1>3, <1>4, <1>5 DEF Next

\* However handlers, failures, crashes and people with access to the disk
\* interleave, the disk, the table and what is said of them amount to the
\* archive of EvidenceArchive: seals and media are for good, and no verdict or
\* announcement is wrong when it is given.
THEOREM EvidencesAreAnArchive == Spec => ImplementsArchive
  <1>1. Init => Archive!Init
    BY ArchiveInit
  <1>2. EvidenceInv /\ [Next]_vars => [Archive!Next]_Archive!vars
    BY ArchiveStep
  <1> QED
    BY EvidenceInvHolds, <1>1, <1>2, PTL DEF Spec, ImplementsArchive, Archive!Spec

\* What a step of the archive means for a row.
LEMMA CustodyStep ==
    ASSUME EvidenceInv, [Next]_vars, NEW e \in Evidence, row[e] # None
    PROVE  /\ row'[e] # None
           /\ row'[e].hash = row[e].hash
           /\ row[e].deleted => row'[e].deleted
  <1>1. [Archive!Next]_Archive!vars
    BY ArchiveStep
  <1>2. Archive!Kept(e) /\ Seal[e] = row[e].hash
    BY Piece DEF Seal
  <1>3. Seal'[e] = Seal[e]
    BY <1>1, <1>2
    DEF Archive!Next, Archive!vars, Archive!Kept, Archive!Keep, Archive!Harm,
        Archive!Withdraw, Archive!Tell, Archive!Denounce, Seal
  <1>4. Withdrawn \subseteq Withdrawn'
    BY <1>1
    DEF Archive!Next, Archive!vars, Archive!Keep, Archive!Harm,
        Archive!Withdraw, Archive!Tell, Archive!Denounce
  <1>5. row'[e] # None
    BY <1>2, <1>3 DEF Seal, Archive!Kept
  <1>6. row'[e].hash = row[e].hash
    BY <1>2, <1>3, <1>5 DEF Seal
  <1>7. row[e].deleted => row'[e].deleted
    BY <1>4 DEF Withdrawn
  <1> QED BY <1>5, <1>6, <1>7

\* The refinement brings the chain of custody: no interleaving of creations,
\* removals, failures and crashes changes a hash or brings a removed evidence
\* back.
THEOREM CustodyAlwaysHolds == Spec => CustodyIsForGood
  <1>1. EvidenceInv /\ [Next]_vars =>
          [\A e \in Evidence :
             row[e] # None =>
                 /\ row'[e] # None
                 /\ row'[e].hash = row[e].hash
                 /\ row[e].deleted => row'[e].deleted]_vars
    BY CustodyStep
  <1> QED BY EvidenceInvHolds, <1>1, PTL DEF Spec, CustodyIsForGood
=============================================================================
