SPECIFICATION PaidSpec
CONSTANTS
  Works = {w1}
  OpIds = {o1, o2, o3}
  Orders = {r1}
  Writers = {k1}
  Requests = {h1, h2}
  UnreliableStore = FALSE
  card = card
  Cards = {card}
  Receipts = {p1, p2}
  Plans <- ShortPlan
  Ceilings = {4}
  MaxGeneration = 2
  MaxTime = 0
  NoBudget = NoBudget
  NoOp = NoOp
  NoWriter = NoWriter
  NoReceipt = NoReceipt
  NoCard = NoCard
  NoAttempt = NoAttempt
  NoRequest = NoRequest
  NoId = NoId
  NoWork = NoWork
INVARIANTS
  NoOrphan
  SpentWithinCeiling
PROPERTIES
  Answered
