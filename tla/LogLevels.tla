------------------------------ MODULE LogLevels ------------------------------
(***************************************************************************)
(* The three level gates of the logging code: the simple logger            *)
(* (simplelog), which compares its log.LogLevel with each method's         *)
(* threshold; the slog adapter (slogadapter), which maps the LogLevel to   *)
(* an slog.Level and lets slog compare; and the default slog handler that  *)
(* NewProxyFromConfigData builds from the config's log_level.  A message   *)
(* is named by the method that logs it.                                    *)
(***************************************************************************)
EXTENDS Integers

\* log.LogLevel: 0: ALL; 1: INFO; 2: WARN; 3: ERROR; 4: FATAL; 5: OFF.
AllLevel == 0
InfoLevel == 1
WarnLevel == 2
ErrorLevel == 3
FatalLevel == 4
OffLevel == 5
LogLevelValues == AllLevel..OffLevel

\* slog's levels, and the adapter's LevelTrace and LevelFatal.
LevelTrace == -8
LevelDebug == -4
LevelInfo == 0
LevelWarn == 4
LevelError == 8
LevelFatal == 12

\* The logging methods, by severity.
Methods == {"Trace", "Debug", "Info", "Warn", "Error", "Fatal"}

\* The slog level each method of the adapter logs at.
MethodLevel(m) ==
    CASE m = "Trace" -> LevelTrace [] m = "Debug" -> LevelDebug
      [] m = "Info" -> LevelInfo   [] m = "Warn" -> LevelWarn
      [] m = "Error" -> LevelError [] m = "Fatal" -> LevelFatal

\* The LogLevel each method of SimpleLogger compares with.
SimpleThreshold(m) ==
    CASE m \in {"Trace", "Debug"} -> AllLevel [] m = "Info" -> InfoLevel
      [] m = "Warn" -> WarnLevel [] m = "Error" -> ErrorLevel
      [] m = "Fatal" -> FatalLevel

\* SimpleLogger prints a method's message when l.logLevel <= its threshold.
SimpleEnabled(level, m) == level <= SimpleThreshold(m)

\* Mutant: FATAL mapped to slog's LevelError, as logLevelFromConfig does.
mapLogLevelToSlogFatalAsError(level) ==
    CASE level = AllLevel -> LevelTrace
      [] level = InfoLevel -> LevelInfo
      [] level = WarnLevel -> LevelWarn
      [] level = ErrorLevel -> LevelError
      [] level = FatalLevel -> LevelError
      [] level = OffLevel -> 100
      [] OTHER -> LevelInfo

\* mapLogLevelToSlog.
mapLogLevelToSlog(level) ==
    CASE level = AllLevel -> LevelTrace
      [] level = InfoLevel -> LevelInfo
      [] level = WarnLevel -> LevelWarn
      [] level = ErrorLevel -> LevelError
      [] level = FatalLevel -> LevelFatal
      [] level = OffLevel -> 100
      [] OTHER -> LevelInfo

\* The upper end of the slog levels each case of mapSlogLevelToLogLevel
\* takes (the LevelTrace case is inside the LevelDebug one).
SlogBound == [l \in AllLevel..FatalLevel |->
                 CASE l = AllLevel -> LevelDebug [] l = InfoLevel -> LevelInfo
                   [] l = WarnLevel -> LevelWarn [] l = ErrorLevel -> LevelError
                   [] l = FatalLevel -> LevelFatal]

\* The least of a nonempty set of LogLevels.
Least(S) == CHOOSE l \in S : \A l2 \in S : l <= l2

\* Mutant: the INFO case taken as strictly below LevelInfo.
mapSlogLevelToLogLevelStrictInfo(level) ==
    LET C == {l \in AllLevel..FatalLevel :
                 IF l = InfoLevel THEN level < SlogBound[l]
                 ELSE level <= SlogBound[l]}
    IN IF C = {} THEN OffLevel ELSE Least(C)

\* mapSlogLevelToLogLevel: the switch takes the first case whose bound the
\* level is within, and the bounds increase with the LogLevel.
mapSlogLevelToLogLevel(level) ==
    LET C == {l \in AllLevel..FatalLevel : level <= SlogBound[l]}
    IN IF C = {} THEN OffLevel ELSE Least(C)

\* The adapter passes a message on when slog's level variable, set by
\* SetLogLevel, lets its level through.
SlogEnabled(level, m) == MethodLevel(m) >= mapLogLevelToSlog(level)

\* logLevelFromConfig(cfg.LogLevel).
logLevelFromConfig(level) ==
    CASE level = 0 -> LevelDebug
      [] level = 1 -> LevelInfo
      [] level = 2 -> LevelWarn
      [] level = 3 -> LevelError
      [] level = 4 -> LevelError
      [] level = 5 -> 1000
      [] OTHER -> LevelInfo

\* The default handler passes slog.Debug/Info/Warn/Error calls on.
ConfigEnabled(level, m) == MethodLevel(m) >= logLevelFromConfig(level)

-----------------------------------------------------------------------------
(* Properties of one input: MCLogLevels enumerates the inputs.             *)

\* Both registered loggers let the same messages through at every
\* LogLevel: a program that swaps simplelog for the slog adapter logs
\* exactly the same methods' messages.
LoggersAgreeAt(level, method) ==
    SimpleEnabled(level, method) = SlogEnabled(level, method)

\* mapSlogLevelToLogLevel undoes mapLogLevelToSlog on every LogLevel, and
\* the order of LogLevels is the order of the slog levels they map to.
LevelRoundTripAt(level, level2) ==
    /\ mapSlogLevelToLogLevel(mapLogLevelToSlog(level)) = level
    /\ level < level2 => mapLogLevelToSlog(level) < mapLogLevelToSlog(level2)

\* The config's log_level lets through the messages its spec meaning says
\* (spec section 6: 0=debug, 1=info, 2=warn, 3=error, 4=fatal, 5=off), as
\* the LogLevel of the same number does, for the methods slog has.
ConfigLevelFaithfulAt(level, method) ==
    method \in {"Debug", "Info", "Warn", "Error"} =>
        ConfigEnabled(level, method) = SimpleEnabled(level, method)

=============================================================================
