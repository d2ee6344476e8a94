SPECIFICATION FairCloudSpec
CONSTANTS
  runA = runA
  runB = runB
  w1 = w1
  w2 = w2
  r1 = r1
  k1 = k1
  card = card
  Runs = {runA}
  BindingOf <- Alone
  OpIds <- AloneOps
  Observers = {c1}
  Works = {w1}
  Orders = {r1}
  Writers = {k1}
  Cards = {card}
  Receipts = {p1, p2}
  Plans <- MCPlans
  Ceilings = {2}
  MaxGeneration = 1
  WorkDeadline = 2
  Grace = 1
  MaxTime = 3
  NoBudget = NoBudget
  NoOp = NoOp
  NoWriter = NoWriter
  NoReceipt = NoReceipt
  NoCard = NoCard
  NoRun = NoRun
  NoResource = NoResource
  NoVerifier = NoVerifier
  Nobody = Nobody
CHECK_DEADLOCK FALSE
INVARIANTS
  CloudSound
  TeardownAccounts
  CancellationWins
PROPERTIES
  NoPaymentAfterTeardown
  ImplementsWorkerSlot
  Terminates
