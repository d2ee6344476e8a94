SPECIFICATION LedgerSpec
CONSTANTS
  Works = {w1}
  OpIds = {o1, o2, o3}
  Orders = {r1, r2}
  Writers = {k1, k2}
  card = card
  oldCard = oldCard
  Cards = {card, oldCard}
  Receipts = {p1, p2, p3}
  Plans <- MCPlans
  Ceilings <- MCCeilings
  MaxGeneration = 2
  MaxTime = 2
  NoBudget = NoBudget
  NoOp = NoOp
  NoWriter = NoWriter
  NoReceipt = NoReceipt
  NoCard = NoCard
SYMMETRY MCSymmetry
INVARIANTS
  LedgerTypeOK
  OneUnresolved
  UnresolvedIsCurrent
  UnknownFenced
  CeilingHeld
  CompletionOrder
PROPERTIES
  AuthorityOneWay
  ExposureRetained
