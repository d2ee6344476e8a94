SPECIFICATION HubSpec
CONSTANTS
  Feedback = {f1}
  Texts = {"t1", "t2"}
  Statuses = {"new", "planned"}
  MaxRevisions = 3
  NoRecord = NoRecord
CHECK_DEADLOCK FALSE
INVARIANT NothingOverwritten
