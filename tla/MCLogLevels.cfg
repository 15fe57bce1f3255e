SPECIFICATION Spec
INVARIANT LoggersAgree
INVARIANT LevelRoundTrip
\* Nothing changes after the initial state.
CHECK_DEADLOCK FALSE
