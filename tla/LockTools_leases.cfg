SPECIFICATION FairSpec
CONSTANTS
  Agent = {a1, a2}
  Nobody = Nobody
  Expiries = {2}
  Deadline = 1
  MaxCalls = 4
  MaxClock = 5
INVARIANTS TypeOK CountedIsLeased ReleasedIsFree
PROPERTIES AcquireReturns
