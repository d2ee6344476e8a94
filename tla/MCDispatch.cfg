SPECIFICATION FairDispatchSpec
CONSTANTS
  Plain = {p1}
  Managed = {o1}
  Starts = {c1, c2}
  Dispatchers = {d1, d2}
  Readers = {k1}
  Producer = TRUE
  Metered = TRUE
  Injected = TRUE
  MaxRestarts = 2
  MaxAttempts = 3
  NoJob = NoJob
  NoCall = NoCall
  NoHold = NoHold
CONSTRAINT Followed
INVARIANTS
  DispatchSound
  RunsBounded
PROPERTIES
  AbortWins
  AbortEnds
  ImplementsBoundAttempt
  StopEnds
