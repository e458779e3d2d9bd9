SPECIFICATION Spec
CONSTANTS
  Evidence = {e1, e2}
  Contents = {c1}
  Partial = Partial
  Damaged = Damaged
  ClipUrl = ClipUrl
  Requests = {r1, r2}
  Tokens = {t1}
  None = None
SYMMETRY EvidenceSymmetry
INVARIANTS RowHasItsFile TellsTheTruth PackageHasItsMedia DownloadIsWhole
PROPERTIES VerdictIsTrue ImplementsArchive
