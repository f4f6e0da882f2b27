SPECIFICATION FairSpec
CONSTANTS
  Callers = {c1, c2}
  Reqs = {r1, r2, r3}
  NoReq = NoReq
CHECK_DEADLOCK FALSE
INVARIANTS
  TypeOK
  NoDanglingRequest
  NoRequestLeak
PROPERTIES
  KeepsPromise
  CallReturns
  AbandonedIsDeleted
