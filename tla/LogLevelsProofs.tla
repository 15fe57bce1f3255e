--------------------------- MODULE LogLevelsProofs ---------------------------
(***************************************************************************)
(* Proofs about the level gates of LogLevels: they hold for every LogLevel *)
(* and every logging method, as the loglevels run checks by enumeration.   *)
(***************************************************************************)
EXTENDS MCLogLevels, TLAPS

\* mapLogLevelToSlog sends each LogLevel to the slog level of its name
\* (the Off level above every method's level).
LEMMA MapValues ==
    /\ mapLogLevelToSlog(AllLevel) = LevelTrace
    /\ mapLogLevelToSlog(InfoLevel) = LevelInfo
    /\ mapLogLevelToSlog(WarnLevel) = LevelWarn
    /\ mapLogLevelToSlog(ErrorLevel) = LevelError
    /\ mapLogLevelToSlog(FatalLevel) = LevelFatal
    /\ mapLogLevelToSlog(OffLevel) = 100
BY DEF mapLogLevelToSlog, AllLevel, InfoLevel, WarnLevel, ErrorLevel,
       FatalLevel, OffLevel, LevelTrace, LevelInfo, LevelWarn, LevelError,
       LevelFatal

\* simplelog's SimpleLogger and the slog adapter let the same methods'
\* messages through at every LogLevel.
THEOREM LoggersAgreeHolds ==
    \A lv \in LogLevelValues, m \in Methods : LoggersAgreeAt(lv, m)
<1> SUFFICES ASSUME NEW lv \in LogLevelValues, NEW m \in Methods
             PROVE  SimpleEnabled(lv, m) = SlogEnabled(lv, m)
  BY DEF LoggersAgreeAt
<1>1. lv \in {AllLevel, InfoLevel, WarnLevel, ErrorLevel, FatalLevel, OffLevel}
  BY DEF LogLevelValues, AllLevel, InfoLevel, WarnLevel, ErrorLevel,
         FatalLevel, OffLevel
<1>2. QED
  BY <1>1, MapValues DEF Methods, SimpleEnabled, SimpleThreshold,
     SlogEnabled, MethodLevel, AllLevel, InfoLevel, WarnLevel, ErrorLevel,
     FatalLevel, OffLevel, LevelTrace, LevelDebug, LevelInfo, LevelWarn,
     LevelError, LevelFatal

-----------------------------------------------------------------------------

\* The bound of each case of mapSlogLevelToLogLevel's switch.
LEMMA BoundValues ==
    /\ SlogBound[0] = -4 /\ SlogBound[1] = 0 /\ SlogBound[2] = 4
    /\ SlogBound[3] = 8 /\ SlogBound[4] = 12
BY DEF SlogBound, AllLevel, InfoLevel, WarnLevel, ErrorLevel, FatalLevel,
       LevelDebug, LevelInfo, LevelWarn, LevelError, LevelFatal

\* Least picks the element of a set of integers below all the others.
LEMMA LeastIs ==
    ASSUME NEW S \in SUBSET Int, NEW x \in S, \A y \in S : x <= y
    PROVE  Least(S) = x
<1>1. \A y \in S : Least(S) <= y
  BY DEF Least
<1>2. Least(S) \in S
  BY DEF Least
<1>3. Least(S) <= x /\ x <= Least(S) /\ Least(S) \in Int
  BY <1>1, <1>2
<1>4. QED
  BY <1>3

\* The cases of the switch that a mapped LogLevel below OFF falls in are
\* exactly those of the LogLevel itself and above.
LEMMA CasesOfMapped ==
    ASSUME NEW lv \in AllLevel..FatalLevel
    PROVE  {l \in AllLevel..FatalLevel :
                mapLogLevelToSlog(lv) <= SlogBound[l]}
           = {l \in AllLevel..FatalLevel : lv <= l}
<1> DEFINE B(l) == SlogBound[l]
<1>1. \A l \in 0..4 : B(l) \in Int /\ (B(l) = -4 \/ B(l) = 4 * l - 4)
  BY BoundValues
<1>2. lv \in 0..4 /\ mapLogLevelToSlog(lv) = IF lv = 0 THEN -8
                                                     ELSE 4 * lv - 4
  BY MapValues DEF AllLevel, InfoLevel, WarnLevel, ErrorLevel,
     FatalLevel, OffLevel, LevelTrace, LevelInfo, LevelWarn, LevelError,
     LevelFatal
<1>3. \A l \in 0..4 : (mapLogLevelToSlog(lv) <= B(l)) <=> (lv <= l)
  BY <1>2, BoundValues
<1>4. QED
  BY <1>3 DEF AllLevel, FatalLevel

\* mapSlogLevelToLogLevel undoes mapLogLevelToSlog, and mapLogLevelToSlog
\* keeps the order of the LogLevels, for every pair of LogLevels.
THEOREM LevelRoundTripHolds ==
    \A lv, lv2 \in LogLevelValues : LevelRoundTripAt(lv, lv2)
<1> SUFFICES ASSUME NEW lv \in LogLevelValues, NEW lv2 \in LogLevelValues
             PROVE  LevelRoundTripAt(lv, lv2)
  OBVIOUS
<1>1. mapSlogLevelToLogLevel(mapLogLevelToSlog(lv)) = lv
  <2>1. CASE lv = OffLevel
    <3>1. \A l \in AllLevel..FatalLevel : ~(mapLogLevelToSlog(lv) <= SlogBound[l])
      BY <2>1, MapValues, BoundValues DEF AllLevel, FatalLevel, OffLevel
    <3>2. QED
      BY <2>1, <3>1 DEF mapSlogLevelToLogLevel
  <2>2. CASE lv # OffLevel
    <3>1. lv \in AllLevel..FatalLevel
      BY <2>2 DEF LogLevelValues, AllLevel, FatalLevel, OffLevel
    <3>2. Least({l \in AllLevel..FatalLevel : lv <= l}) = lv
      BY <3>1, LeastIs DEF AllLevel, FatalLevel
    <3>3. QED
      BY <3>1, <3>2, CasesOfMapped DEF mapSlogLevelToLogLevel
  <2>3. QED
    BY <2>1, <2>2
<1>2. lv < lv2 => mapLogLevelToSlog(lv) < mapLogLevelToSlog(lv2)
  <2>1. \A l \in LogLevelValues :
            mapLogLevelToSlog(l) = IF l = 0 THEN -8 ELSE IF l = 5 THEN 100
                                   ELSE 4 * l - 4
    BY MapValues DEF LogLevelValues, AllLevel, InfoLevel, WarnLevel,
       ErrorLevel, FatalLevel, OffLevel, LevelTrace, LevelInfo, LevelWarn,
       LevelError, LevelFatal
  <2>2. QED
    BY <2>1 DEF LogLevelValues, AllLevel, OffLevel
<1>3. QED
  BY <1>1, <1>2 DEF LevelRoundTripAt


-----------------------------------------------------------------------------
(* The loglevels run's invariants, for every LogLevel and method its       *)
(* initial states pick: nothing changes afterwards, so the facts above     *)
(* give each of them in every state.                                       *)

\* Inputs stay in their ranges: the run's steps only stutter.
InputsOK == level \in LogLevelValues /\ level2 \in LogLevelValues
            /\ method \in Methods

\* In every state of the loglevels run, simplelog and the slog adapter let
\* the same method's messages through at the chosen LogLevel.
THEOREM LoggersAgreeAlways == Spec => []LoggersAgree
<1>1. Init => InputsOK
  BY DEF Init, InputsOK
<1>2. InputsOK /\ [UNCHANGED vars]_vars => InputsOK'
  BY DEF InputsOK, vars
<1>3. InputsOK => LoggersAgree
  BY LoggersAgreeHolds DEF InputsOK, LoggersAgree
<1>4. QED
  BY <1>1, <1>2, <1>3, PTL DEF Spec

\* In every state of the loglevels run, mapSlogLevelToLogLevel undoes
\* mapLogLevelToSlog on the chosen LogLevel, and mapLogLevelToSlog orders
\* the chosen pair as the LogLevels are ordered.
THEOREM LevelRoundTripAlways == Spec => []LevelRoundTrip
<1>1. Init => InputsOK
  BY DEF Init, InputsOK
<1>2. InputsOK /\ [UNCHANGED vars]_vars => InputsOK'
  BY DEF InputsOK, vars
<1>3. InputsOK => LevelRoundTrip
  BY LevelRoundTripHolds DEF InputsOK, LevelRoundTrip
<1>4. QED
  BY <1>1, <1>2, <1>3, PTL DEF Spec

=============================================================================
