----------------------------- MODULE MCLogLevels -----------------------------
(* The level gates of LogLevels on every pair of LogLevels and every       *)
(* logging method, each input an initial state.                            *)
EXTENDS LogLevels

VARIABLES level, level2, method

vars == <<level, level2, method>>

Init ==
    /\ level \in LogLevelValues
    /\ level2 \in LogLevelValues
    /\ method \in Methods

Spec == Init /\ [][UNCHANGED vars]_vars

\* simplelog and the slog adapter let the same methods' messages through
\* at every LogLevel.
LoggersAgree == LoggersAgreeAt(level, method)

\* mapSlogLevelToLogLevel undoes mapLogLevelToSlog, which keeps the order
\* of the LogLevels.
LevelRoundTrip == LevelRoundTripAt(level, level2)

\* The config's log_level gates slog's methods as the spec's table says.
ConfigLevelFaithful == ConfigLevelFaithfulAt(level, method)
=============================================================================
