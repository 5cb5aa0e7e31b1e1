SPECIFICATION Spec
CONSTANT Budget = 3
INVARIANT TypeOK
INVARIANT NothingLost
INVARIANT ClientTakesLegalOutput
PROPERTY CutOffHolds
PROPERTY RunReturns
