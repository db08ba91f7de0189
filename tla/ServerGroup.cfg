SPECIFICATION FairSpec
CONSTANT Calls <- MCCalls
CHECK_DEADLOCK FALSE
INVARIANT TypeOK
INVARIANT WithinLimits
INVARIANT NoUseAfterClose
INVARIANT OutcomeIsEarned
PROPERTY EndsWithAllClosed
