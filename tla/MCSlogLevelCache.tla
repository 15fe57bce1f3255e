-------------------------- MODULE MCSlogLevelCache --------------------------
(* The level cache with one or two adapters, callers logging at Debug or   *)
(* Info, and SetLogLevel called twice with ALL or INFO: enough for a level *)
(* to be turned on and off again.                                          *)
EXTENDS SlogLevelCache

CONSTANTS a1, a2, t1, t2

MCOneAdapter == {a1}
MCTwoAdapters == {a1, a2}
MCCallers == {t1}
MCCallLevels == {LevelDebug, LevelInfo}
MCSetLevels == {AllLevel, InfoLevel}
MCMaxSets == 2
=============================================================================
