SPECIFICATION MCSpec
CONSTANTS
  Hosted = {k1}
  Local = {l1}
  Creators = {c1, c2}
  MaxIssues = 2
  NoIssue = NoIssue
  NoCall = NoCall
  Apps = {a1}
  NoPreview = NoPreview
  Processes = {"old", "new"}
  Known <- MCKnown
  Owners = {o1, o2}
  Agents = {g1}
  MaxPolicy = 3
  MaxRows = 2
  Streams = {s1, s2}
  MaxEvents = 3
  MaxSets = 3
  MaxRestarts = 1
  KeyIds = {1, 2}
  Signers = {p1, p2}
  MaxTime = 1
  MaxRings = 2
  NoResult = NoResult
  Feedback = {f1, f2}
  Texts = {"t1"}
  Statuses = {"new", "planned"}
  MaxRevisions = 2
  NoRecord = NoRecord
CONSTRAINT Followed
CHECK_DEADLOCK FALSE
INVARIANTS
  ServicesSound
  RecordsSound
  FeedSound
  HubSound
PROPERTIES
  ServicesForward
  ImplementsIssueOnce
  ImplementsPreviewLifecycle
