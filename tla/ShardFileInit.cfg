SPECIFICATION FairSpec
CONSTANTS
  Callers = {c1, c2, c3}
  NoCaller = NoCaller
INVARIANTS TypeOK SuccessIsUsable OneOutcome AliveWhilePending
PROPERTIES OutcomeIsFinal EveryCallAnswered
CHECK_DEADLOCK FALSE
