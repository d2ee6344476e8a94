SPECIFICATION MCSpec
CONSTANTS
  Policies <- MCPolicies
  NoProposal = NoProposal
  Handlers = {h1, h2}
  MaxRequests = 2
  MaxRevision = 1
  MaxRestarts = 1
  NoCall = NoCall
  Runs = {r1, r2}
  MaxPolicies = 3
  NoRun = NoRun
  NoPolicy = NoPolicy
  Servers = {s1, s2}
  Attempts = {t1, t2}
  Limit = 2
  Message = Message
  NoMessage = NoMessage
  NoRow = NoRow
  NoWork = NoWork
  NoServer = NoServer
  Sites = {1, 2}
  Kinds <- MCKinds
  Device = 2
  MaxEvents = 3
  NoBinding = NoBinding
  MaxDesk = 2
  MaxLoads = 2
  Views = {"new", "builder", "connections"}
  MaxAddresses = 3
  MaxForms = 1
  MaxAsked = 2
  Panels = {"preview", "connections"}
  MaxActions = 2
  MaxReads = 2
  Unread = Unread
CONSTRAINT Followed
CHECK_DEADLOCK FALSE
INVARIANTS
  PublicationSound
  TrustSound
  QualificationSound
  WebSound
PROPERTIES
  DispatchedUnfailed
  ImplementsDraftPublication
