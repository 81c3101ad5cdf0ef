SPECIFICATION Spec
INVARIANT DeadlineIsFailure
