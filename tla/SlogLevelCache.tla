---------------------------- MODULE SlogLevelCache ----------------------------
(***************************************************************************)
(* The enabled-level cache of the slog adapter (slogadapter adapter.go).   *)
(* Every logging method (Error, Warn, Info, Debug, Trace and their f       *)
(* forms) asks isEnabledCached(level) twice, once as its guard and once in *)
(* lazyFormat: a hit returns the cached answer; a miss asks the handler,   *)
(* which compares the level with the shared slog.LevelVar, and stores the  *)
(* answer.  SetLogLevel sets the LevelVar and then clears the cache;       *)
(* SetFormat, SetOutput and SetErrorHandler clear it through               *)
(* recreateHandler.  WithAttrs and WithGroup make adapters that share the  *)
(* LevelVar and start with a cache of their own.                           *)
(*                                                                         *)
(* Callers are goroutines logging through any adapter; one goroutine calls *)
(* SetLogLevel, at most MaxSets times.  The cache's sync.Map and the       *)
(* LevelVar are atomic per operation; cacheMu is held only around each     *)
(* Load, each Store and the whole clear.                                   *)
(***************************************************************************)
EXTENDS LogLevels, Naturals

CONSTANTS
    Adapters,   \* the adapter and those derived from it by WithAttrs
    Callers,    \* goroutines calling a logging method
    CallLevels, \* slog levels of the methods they call
    SetLevels,  \* LogLevels SetLogLevel is called with
    MaxSets     \* bound on the calls of SetLogLevel

\* An entry of enabledCache: absent, true or false.
CacheValues == {"none", "yes", "no"}

\* What the handler's Enabled answers: the level is at least the LevelVar's.
Enabled(l, lv) == l >= lv

Answer(b) == IF b THEN "yes" ELSE "no"

VARIABLES
    levelVar,   \* the shared slog.LevelVar
    cache,      \* enabledCache of each adapter
    pc,         \* where each caller is
    adapter,    \* the adapter each caller logs through
    lvl,        \* the level of each caller's method
    round,      \* which of the two isEnabledCached calls it is in
    val,        \* the answer a caller computed on a miss
    spc,        \* where the SetLogLevel goroutine is
    sadapter,   \* the adapter it is called on
    sets        \* calls of SetLogLevel so far

vars == <<levelVar, cache, pc, adapter, lvl, round, val, spc, sadapter, sets>>

TypeOK ==
    /\ levelVar \in {mapLogLevelToSlog(l) : l \in LogLevelValues}
    /\ cache \in [Adapters -> [CallLevels -> CacheValues]]
    /\ pc \in [Callers -> {"idle", "check", "compute", "store"}]
    /\ adapter \in [Callers -> Adapters]
    /\ lvl \in [Callers -> CallLevels]
    /\ round \in [Callers -> {1, 2}]
    /\ val \in [Callers -> BOOLEAN]
    /\ spc \in {"idle", "clear"}
    /\ sadapter \in Adapters
    /\ sets \in 0..MaxSets

\* NewSlogAdapter: the LevelVar at Info, every cache empty.
Init ==
    /\ levelVar = LevelInfo
    /\ cache = [a \in Adapters |-> [l \in CallLevels |-> "none"]]
    /\ pc = [t \in Callers |-> "idle"]
    /\ adapter \in [Callers -> Adapters]
    /\ lvl \in [Callers -> CallLevels]
    /\ round = [t \in Callers |-> 1]
    /\ val = [t \in Callers |-> FALSE]
    /\ spc = "idle"
    /\ sadapter \in Adapters
    /\ sets = 0

-----------------------------------------------------------------------------
(* A logging method.                                                       *)

\* Going on with the answer b of isEnabledCached: false returns, true after
\* the guard goes to lazyFormat's call, true after lazyFormat logs the
\* message and returns.
Proceed(t, b) ==
    IF b /\ round[t] = 1
    THEN pc' = [pc EXCEPT ![t] = "check"] /\ round' = [round EXCEPT ![t] = 2]
    ELSE pc' = [pc EXCEPT ![t] = "idle"] /\ round' = [round EXCEPT ![t] = 1]

\* A goroutine calls a logging method of level l on adapter a.
Call(t, a, l) ==
    /\ pc[t] = "idle"
    /\ pc' = [pc EXCEPT ![t] = "check"]
    /\ adapter' = [adapter EXCEPT ![t] = a]
    /\ lvl' = [lvl EXCEPT ![t] = l]
    /\ UNCHANGED <<levelVar, cache, round, val, spc, sadapter, sets>>

\* enabledCache.Load(level) under cacheMu.RLock: a hit is the answer.
Lookup(t) ==
    /\ pc[t] = "check"
    /\ LET e == cache[adapter[t]][lvl[t]]
       IN IF e = "none"
          THEN pc' = [pc EXCEPT ![t] = "compute"] /\ UNCHANGED round
          ELSE Proceed(t, e = "yes")
    /\ UNCHANGED <<levelVar, cache, adapter, lvl, val, spc, sadapter, sets>>

\* s.handler.Enabled(level), outside cacheMu.
Compute(t) ==
    /\ pc[t] = "compute"
    /\ val' = [val EXCEPT ![t] = Enabled(lvl[t], levelVar)]
    /\ pc' = [pc EXCEPT ![t] = "store"]
    /\ UNCHANGED <<levelVar, cache, adapter, lvl, round, spc, sadapter, sets>>

\* enabledCache.Store(level, enabled) under cacheMu.RLock, then the answer.
Store(t) ==
    /\ pc[t] = "store"
    /\ cache' = [cache EXCEPT ![adapter[t]][lvl[t]] = Answer(val[t])]
    /\ Proceed(t, val[t])
    /\ UNCHANGED <<levelVar, adapter, lvl, val, spc, sadapter, sets>>

-----------------------------------------------------------------------------
(* Reconfiguring the adapter.                                              *)

\* SetLogLevel(level) on adapter a, first half: the atomic store of
\* logLevel (which nothing reads) and levelVar.Set.
SetLevel(a, l) ==
    /\ spc = "idle"
    /\ sets < MaxSets
    /\ levelVar' = mapLogLevelToSlog(l)
    /\ spc' = "clear"
    /\ sadapter' = a
    /\ sets' = sets + 1
    /\ UNCHANGED <<cache, pc, adapter, lvl, round, val>>

\* clearEnabledCache under cacheMu.Lock: a's cache only.
ClearCache ==
    /\ spc = "clear"
    /\ cache' = [cache EXCEPT ![sadapter] = [l \in CallLevels |-> "none"]]
    /\ spc' = "idle"
    /\ UNCHANGED <<levelVar, pc, adapter, lvl, round, val, sadapter, sets>>

\* SetFormat, SetOutput or SetErrorHandler on adapter a, under s.mu:
\* recreateHandler ends with clearEnabledCache.
Recreate(a) ==
    /\ cache' = [cache EXCEPT ![a] = [l \in CallLevels |-> "none"]]
    /\ UNCHANGED <<levelVar, pc, adapter, lvl, round, val, spc, sadapter,
                   sets>>

-----------------------------------------------------------------------------

\* isEnabledCached and the logging methods around it.
caller(t) ==
    \/ \E a \in Adapters, l \in CallLevels : Call(t, a, l)
    \/ Lookup(t) \/ Compute(t) \/ Store(t)

\* SlogAdapter.SetLogLevel.
SetLogLevel == (\E a \in Adapters, l \in SetLevels : SetLevel(a, l)) \/ ClearCache

Next ==
    \/ \E t \in Callers : caller(t)
    \/ SetLogLevel
    \/ \E a \in Adapters : Recreate(a)

Spec == Init /\ [][Next]_vars

-----------------------------------------------------------------------------
(* Properties.                                                             *)

\* Whenever no SetLogLevel is under way and no caller is about to store,
\* every answer in every adapter's cache is the handler's answer for the
\* current level: a cached answer never outlives the level it was computed
\* for, so that after SetLogLevel returns a method logs exactly when its
\* level is enabled.
CacheCoherent ==
    (spc = "idle" /\ \A t \in Callers : pc[t] # "store") =>
        \A a \in Adapters, l \in CallLevels :
            cache[a][l] # "none" => cache[a][l] = Answer(Enabled(l, levelVar))

=============================================================================
