----------------------------- MODULE ChainClock -----------------------------
(***************************************************************************)
(* How the API processes know the height of the chain: the background      *)
(* process fetches it and stores it in Redis under one key and the time of *)
(* the storing under another, both with a time to live; an API worker      *)
(* reads the two keys and extrapolates by one block per BlockTime.         *)
(*                                                                         *)
(* The two stores and the two reads are four separate Redis commands of    *)
(* two processes. A process connects to Redis once, when it starts, and    *)
(* nothing in the code calls RedisCache.reconnect: a process that started  *)
(* during an outage treats every read as a miss and every write as lost.   *)
(* A fetch that fails stores nothing and is not an action. The cadence of  *)
(* the refreshes is left open: the loop of the background process waits    *)
(* for the slower calls it makes between them.                             *)
(***************************************************************************)
EXTENDS Integers

CONSTANTS
    Workers,        \* the API processes (uvicorn --workers)
    Updater,        \* the background process (scripts/background_updater.py)
    BlockTime,      \* CHAIN_BLOCK_TIME_SECONDS: the chain makes at most one block in it
    KeyTTL,         \* the time to live of both keys
    MaxLag,         \* bound: how long one refresh takes, from fetch to last store
    MaxTime,        \* bound: the clock stops here
    MaxMishaps      \* bound: outages, cleared caches and deaths of the updater

ASSUME ClockAssumption ==
    /\ Updater \notin Workers
    /\ BlockTime \in Nat \ {0}
    /\ KeyTTL \in Nat \ {0}       \* Redis refuses to keep a value for no time
    /\ {MaxLag, MaxTime, MaxMishaps} \subseteq Nat

Processes == Workers \cup {Updater}

VARIABLES
    now,            \* time.time()
    height,         \* the chain's own height
    minted,         \* when the chain made its last block
    redisUp,        \* Redis answers
    keys,           \* the two Redis keys, with the time they expire
    linked,         \* which processes reached Redis when they started
    refresh,        \* where the background process is in refresh_block_now
    mishaps         \* how many went wrong so far

clockVars == <<now, height, minted, redisUp, keys, linked, refresh, mishaps>>

Stopped == [at |-> "stopped", block |-> 0, since |-> 0]
Absent  == [value |-> 0, until |-> 0]
Keys    == {"current_block", "block_timestamp"}

\* get: a value that expired, or that Redis does not answer for, is a miss.
Present(key) == now < keys[key].until
Readable(process, key) == redisUp /\ linked[process] /\ Present(key)

\* set with KeyTTL; the caller is told of a failure and goes on.
Store(key, value) ==
    keys' = IF redisUp /\ linked[Updater]
            THEN [keys EXCEPT ![key] = [value |-> value, until |-> now + KeyTTL]]
            ELSE keys

\* get_current_block_estimate, from the two values it read.
Estimate(base, stamp, time) ==
    base + (IF time > stamp THEN time - stamp ELSE 0) \div BlockTime

ClockInit ==
    /\ now = 0 /\ height = 0 /\ minted = 0
    /\ redisUp \in BOOLEAN
    /\ keys = [key \in Keys |-> Absent]
    /\ linked = [p \in Processes |-> redisUp]
    /\ refresh = Stopped
    /\ mishaps = 0

-----------------------------------------------------------------------------
(* The world *)

Busy == refresh.at \in {"fetched", "stored"}

Tick_Immortal ==    \* mutant
    /\ now < MaxTime
    /\ Busy => now < refresh.since + MaxLag
    /\ now' = now + 1
    /\ keys' = [key \in Keys |-> IF keys[key].until = 0 THEN Absent
                                 ELSE [keys[key] EXCEPT !.until = now + 2]]
    /\ UNCHANGED <<height, minted, redisUp, linked, refresh, mishaps>>

Tick ==
    /\ now < MaxTime
    /\ Busy => now < refresh.since + MaxLag
    /\ now' = now + 1
    /\ keys' = [key \in Keys |-> IF now + 1 < keys[key].until THEN keys[key] ELSE Absent]
    /\ UNCHANGED <<height, minted, redisUp, linked, refresh, mishaps>>

\* The chain may be slow, or halt: nothing makes it mint.
Mint ==
    /\ now >= minted + BlockTime
    /\ height' = height + 1
    /\ minted' = now
    /\ UNCHANGED <<now, redisUp, keys, linked, refresh, mishaps>>

RedisFails ==
    /\ mishaps < MaxMishaps /\ mishaps' = mishaps + 1
    /\ redisUp
    /\ redisUp' = FALSE
    /\ UNCHANGED <<now, height, minted, keys, linked, refresh>>

\* Redis comes back with the keys it had, or empty.
RedisReturns ==
    /\ ~redisUp
    /\ redisUp' = TRUE
    /\ keys' \in {keys, [key \in Keys |-> Absent]}
    /\ UNCHANGED <<now, height, minted, linked, refresh, mishaps>>

\* POST /debug/cache-clear: clear_pattern("*") takes the chain keys with it.
ClearCache(w) ==
    /\ mishaps < MaxMishaps /\ mishaps' = mishaps + 1
    /\ redisUp /\ linked[w]
    /\ keys' = [key \in Keys |-> Absent]
    /\ UNCHANGED <<now, height, minted, redisUp, linked, refresh>>

-----------------------------------------------------------------------------
(* The background process *)

\* Importing redis_cache connects, or gives up for the life of the process.
UpdaterStarts ==
    /\ refresh.at = "stopped"
    /\ refresh' = [refresh EXCEPT !.at = "waiting"]
    /\ linked' = [linked EXCEPT ![Updater] = redisUp]
    /\ UNCHANGED <<now, height, minted, redisUp, keys, mishaps>>

\* main(): the wait for Redis asks is_available(), which is what start-up
\* found; run_forever calls main() again and again in the same process.
EnterLoop_Primed ==     \* mutant
    /\ refresh.at = "waiting"
    /\ linked[Updater] /\ Present("current_block")
    /\ refresh' = [refresh EXCEPT !.at = "idle"]
    /\ UNCHANGED <<now, height, minted, redisUp, keys, linked, mishaps>>

EnterLoop ==
    /\ refresh.at = "waiting"
    /\ linked[Updater]
    /\ refresh' = [refresh EXCEPT !.at = "idle"]
    /\ UNCHANGED <<now, height, minted, redisUp, keys, linked, mishaps>>

\* refresh_block_now: fetch the height, then store it, then store the time.
FetchBlock ==
    /\ refresh.at = "idle"
    /\ refresh' = [at |-> "fetched", block |-> height, since |-> now]
    /\ UNCHANGED <<now, height, minted, redisUp, keys, linked, mishaps>>

\* The key that is stored first; the other one follows.
FirstKey_Stamp == "block_timestamp"     \* mutant

FirstKey == "current_block"

Fresh(key) == IF key = "current_block" THEN refresh.block ELSE now

StoreFirst ==
    /\ refresh.at = "fetched"
    /\ Store(FirstKey, Fresh(FirstKey))
    /\ refresh' = [refresh EXCEPT !.at = "stored"]
    /\ UNCHANGED <<now, height, minted, redisUp, linked, mishaps>>

StoreSecond ==
    /\ refresh.at = "stored"
    /\ \E key \in Keys \ {FirstKey} : Store(key, Fresh(key))
    /\ refresh' = [Stopped EXCEPT !.at = "idle"]
    /\ UNCHANGED <<now, height, minted, redisUp, linked, mishaps>>

\* The process may be killed anywhere; PM2 starts another one.
UpdaterDies ==
    /\ mishaps < MaxMishaps /\ mishaps' = mishaps + 1
    /\ refresh.at # "stopped"
    /\ refresh' = Stopped
    /\ UNCHANGED <<now, height, minted, redisUp, keys, linked>>

UpdaterSteps == UpdaterStarts \/ EnterLoop \/ FetchBlock \/ StoreFirst \/ StoreSecond

ClockNext ==
    \/ Tick \/ Mint \/ RedisFails \/ RedisReturns
    \/ UpdaterSteps \/ UpdaterDies
    \/ \E w \in Workers : ClearCache(w)

-----------------------------------------------------------------------------
ClockTypeOK ==
    /\ now \in 0..MaxTime
    /\ height \in Nat
    /\ minted \in 0..now
    /\ redisUp \in BOOLEAN
    /\ keys \in [Keys -> [value : Nat, until : 0..(MaxTime + KeyTTL)]]
    /\ linked \in [Processes -> BOOLEAN]
    /\ refresh \in [at : {"stopped", "waiting", "idle", "fetched", "stored"},
                    block : Nat, since : 0..MaxTime]
    /\ mishaps \in 0..MaxMishaps
=============================================================================
