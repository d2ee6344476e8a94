SPECIFICATION DispatchSpec
CONSTANTS
  Plain = {}
  Managed = {o1}
  Starts = {}
  Dispatchers = {d1}
  Readers = {k1}
  Producer = TRUE
  Metered = TRUE
  Injected = FALSE
  MaxRestarts = 1
  MaxAttempts = 1
  NoJob = NoJob
  NoCall = NoCall
  NoHold = NoHold
INVARIANTS
  VerifiersAbsent
