SPECIFICATION Spec
INVARIANT ConfigLevelFaithful
\* Nothing changes after the initial state.
CHECK_DEADLOCK FALSE
