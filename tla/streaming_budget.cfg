SPECIFICATION Spec
CONSTANT Budget = 3
INVARIANT NotTwiceTheBudget
