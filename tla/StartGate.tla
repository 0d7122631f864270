----------------------------- MODULE StartGate -----------------------------
(***************************************************************************)
(* What a start_round request passes before it reaches the canonical       *)
(* tables: the validator's stake (require_validator_auth, with a copy of   *)
(* the metagraph's stakes per process), the height of the chain            *)
(* (ChainClock), the season/round configuration (RuntimeConfig) and the    *)
(* window of the round. It composes those two components: the processes    *)
(* that read the clock are the processes that keep a configuration.        *)
(*                                                                         *)
(* A process takes one start at a time here; its request crosses three     *)
(* points where other processes move: while the metagraph is read over the *)
(* network, between the two Redis reads, and at the await that loads a     *)
(* missing configuration. Signatures are valid, and the TESTING override   *)
(* is off. A request answered with 401, 403, 409, 500 or 503 leaves        *)
(* nothing but a reloaded stake copy.                                      *)
(***************************************************************************)
EXTENDS ChainClock, RuntimeConfig

CONSTANTS
    RoundBlocks,        \* ConfigSeasonRound.round_blocks()
    AuthDisabled,       \* AUTH_DISABLED
    StakeTTL,           \* VALIDATOR_AUTH_CACHE_TTL
    MaxLoad,            \* bound on the time from reading the metagraph to having it
    StartBlocks         \* the start_block values of the payloads

ASSUME GateAssumption ==
    /\ Servers = Workers
    /\ RoundBlocks \in [Configs -> Nat]
    /\ AuthDisabled \in BOOLEAN
    /\ StakeTTL \in Nat \ {0}
    /\ MaxLoad \in Nat
    /\ StartBlocks \subseteq Nat

VARIABLES
    rich,       \* who has MIN_VALIDATOR_STAKE on chain
    poorSince,  \* history: when a validator lost it
    stakes,     \* _stakes_cache: who had it when the process last loaded, and until when
    load,       \* the metagraph on its way to each process: who has it there, and since when
    request,    \* the start request each process is serving
    admitted    \* the last start that passed the gate

vars == <<clockVars, configVars, rich, poorSince, stakes, load, request, admitted>>

Idle == [at |-> "idle", by |-> None, start |-> 0, base |-> 0, block |-> 0,
         height |-> 0, config |-> None, torn |-> FALSE]
Nobody == [by |-> None, start |-> 0, end |-> 0, height |-> 0, then |-> 0,
           config |-> None, torn |-> FALSE]
NoLoad == [of |-> {}, since |-> 0]

Init ==
    /\ ClockInit
    /\ ConfigInit
    /\ rich = Validators
    /\ poorSince = [v \in Validators |-> MaxTime]      \* not yet
    /\ stakes = [w \in Workers |-> [of |-> {}, until |-> 0]]
    /\ load = [w \in Workers |-> NoLoad]
    /\ request = [w \in Workers |-> Idle]
    /\ admitted = Nobody

-----------------------------------------------------------------------------
(* Authentication *)

\* A validator loses its stake, or its registration, once.
LoseStake(v) ==
    /\ ~AuthDisabled
    /\ v \in rich
    /\ rich' = rich \ {v}
    /\ poorSince' = [poorSince EXCEPT ![v] = now]
    /\ UNCHANGED <<clockVars, configVars, stakes, load, request, admitted>>

\* _get_cached_stakes goes by the copy while it lives. (A copy is empty only before
\* the first load: the metagraph has members.)
CopyLives_Forever(w) == stakes[w].until # 0  \* mutant

CopyLives(w) == now < stakes[w].until

\* The copy a load ends in: its life is counted from then, and not from when the
\* metagraph was read. A hotkey without a readable stake has none.
LoadedStakes_Expired(w) == [of |-> load[w].of, until |-> 0 - StakeTTL]  \* mutant

LoadedStakes(w) == [of |-> load[w].of, until |-> now + StakeTTL]

Loading(w) == request[w].at = "metagraph"

\* What a start request carries while the stakes are loaded.
Claimed(v, s) ==
    [at |-> "metagraph", by |-> v, start |-> s, base |-> 0, block |-> 0,
     height |-> 0, config |-> None, torn |-> FALSE]

\* _load_metagraph_stakes reads the chain for a request that finds no copy. The
\* call blocks its process.
LoadStakes(w, v, s) ==
    /\ ~AuthDisabled
    /\ request[w] = Idle
    /\ ~CopyLives(w)
    /\ request' = [request EXCEPT ![w] = Claimed(v, s)]
    /\ load' = [load EXCEPT ![w] = [of |-> rich, since |-> now]]
    /\ UNCHANGED <<clockVars, configVars, rich, poorSince, stakes, admitted>>

\* The chain does not answer: 503, and the copy stays as it is.
LoadFails(w) ==
    /\ Loading(w)
    /\ request' = [request EXCEPT ![w] = Idle]
    /\ load' = [load EXCEPT ![w] = NoLoad]
    /\ UNCHANGED <<clockVars, configVars, rich, poorSince, stakes, admitted>>

-----------------------------------------------------------------------------
(* start_round, up to the window check *)

\* What a start request carries once the height is read.
Asked(v, s, base) ==
    [at |-> "height", by |-> v, start |-> s, base |-> base, block |-> 0,
     height |-> 0, config |-> None, torn |-> FALSE]

\* The end of require_validator_auth, and the first read of
\* get_current_block_estimate; enough: the minimum stake, by the copy gone by.
PassOrRefuse(w, v, s, enough) ==
    request' = [request EXCEPT ![w] =
        IF enough /\ Readable(w, "current_block")
        THEN Asked(v, s, keys["current_block"].value)
        ELSE Idle]

\* require_validator_auth with a copy that lives, or switched off.
Ask(w, v, s) ==
    /\ request[w] = Idle
    /\ AuthDisabled \/ CopyLives(w)
    /\ PassOrRefuse(w, v, s, AuthDisabled \/ v \in stakes[w].of)
    /\ UNCHANGED <<clockVars, configVars, rich, poorSince, stakes, load, admitted>>

\* The metagraph is there, and the request goes on with it.
AskLoaded(w) ==
    /\ Loading(w)
    /\ stakes' = [stakes EXCEPT ![w] = LoadedStakes(w)]
    /\ load' = [load EXCEPT ![w] = NoLoad]
    /\ PassOrRefuse(w, request[w].by, request[w].start, request[w].by \in load[w].of)
    /\ UNCHANGED <<clockVars, configVars, rich, poorSince, admitted>>

\* The window check: the end of the round is computed from the process's copy.
InWindow(s, block, config) == s <= block /\ block <= s + RoundBlocks[config]

\* What an admitted start is remembered by.
Admission(r, then, config) ==
    [by |-> r.by, start |-> r.start, end |-> r.start + RoundBlocks[config],
     height |-> height, then |-> then, config |-> config, torn |-> r.torn]

\* The second read; with a loaded configuration the check follows at once, and
\* without one the row is read, or the start refused if there is no row.
ReadStamp(w) ==
    LET r     == request[w]
        block == Estimate(r.base, keys["block_timestamp"].value, now)
    IN  /\ r.at = "height"
        /\ IF ~Readable(w, "block_timestamp") \/ (copy[w] = None /\ row = None)
           THEN request' = [request EXCEPT ![w] = Idle] /\ UNCHANGED admitted
           ELSE IF copy[w] # None
           THEN /\ request' = [request EXCEPT ![w] = Idle]
                /\ admitted' = IF InWindow(r.start, block, copy[w])
                               THEN Admission(r, height, copy[w]) ELSE admitted
           ELSE /\ request' = [request EXCEPT ![w].at = "loading", ![w].block = block,
                                              ![w].height = height, ![w].config = row]
                /\ UNCHANGED admitted
        /\ UNCHANGED <<clockVars, configVars, rich, poorSince, stakes, load>>

\* The await of refresh_config_season_round_cache is over: the row read then
\* becomes the copy, whatever the copy has become meanwhile.
FinishLoad(w) ==
    LET r == request[w]
    IN  /\ r.at = "loading"
        /\ copy' = [copy EXCEPT ![w] = r.config]
        /\ request' = [request EXCEPT ![w] = Idle]
        /\ admitted' = IF InWindow(r.start, r.block, r.config)
                       THEN Admission(r, r.height, r.config) ELSE admitted
        /\ UNCHANGED <<clockVars, row, pending, sent, past, rich, poorSince, stakes, load>>

-----------------------------------------------------------------------------
(* The processes together *)

\* A store of the background process tears a reading that is between its reads.
Torn(r) == [r EXCEPT !.torn = (r.at = "height") \/ r.torn]

ClockStep ==
    /\ ClockNext
    /\ now' # now => \A w \in Workers : Loading(w) => now < load[w].since + MaxLoad
    /\ request' = IF keys' # keys
                  THEN [w \in Workers |-> Torn(request[w])] ELSE request
    /\ UNCHANGED <<configVars, rich, poorSince, stakes, load, admitted>>

ConfigStep ==
    /\ ConfigNext
    /\ UNCHANGED <<clockVars, rich, poorSince, stakes, load, request, admitted>>

\* A process dies with what it was doing, and its successor starts.
RestartWorker(w) ==
    /\ RestartConfig(w)
    /\ linked' = [linked EXCEPT ![w] = redisUp]
    /\ stakes' = [stakes EXCEPT ![w] = [of |-> {}, until |-> 0]]
    /\ load' = [load EXCEPT ![w] = NoLoad]
    /\ request' = [request EXCEPT ![w] = Idle]
    /\ UNCHANGED <<now, height, minted, redisUp, keys, refresh, mishaps>>
    /\ UNCHANGED <<rich, poorSince, admitted>>

Next ==
    \/ ClockStep
    \/ ConfigStep
    \/ \E v \in Validators : LoseStake(v)
    \/ \E w \in Workers :
           \/ \E v \in Validators, s \in StartBlocks : LoadStakes(w, v, s) \/ Ask(w, v, s)
           \/ LoadFails(w) \/ AskLoaded(w)
           \/ ReadStamp(w) \/ FinishLoad(w) \/ RestartWorker(w)

Spec == Init /\ [][Next]_vars

\* The background process keeps going as long as it lives; Redis, when it
\* fails, is brought back.
FairSpec ==
    Spec /\ WF_vars(UpdaterSteps /\ ClockStep) /\ WF_vars(RedisReturns /\ ClockStep)

-----------------------------------------------------------------------------
(* Properties *)

TypeOK ==
    /\ ClockTypeOK
    /\ ConfigTypeOK
    /\ rich \subseteq Validators
    /\ poorSince \in [Validators -> 0..MaxTime]
    /\ stakes \in [Workers -> [of : SUBSET Validators, until : 0..(MaxTime + StakeTTL)]]
    /\ load \in [Workers -> [of : SUBSET Validators, since : 0..MaxTime]]
    /\ request \in [Workers ->
           [at : {"idle", "metagraph", "height", "loading"}, by : {None} \cup Validators,
            start : Nat, base : Nat, block : Nat, height : Nat, config : {None} \cup Configs,
            torn : BOOLEAN]]
    /\ admitted \in
           [by : {None} \cup Validators, start : Nat, end : Nat, height : Nat, then : Nat,
            config : {None} \cup Configs, torn : BOOLEAN]

\* However long the chain or the background process stalls, and whichever
\* stores a reading falls between, no round is admitted further before its
\* first block than the keys live: a clock nobody refreshes closes the gate.
NeverAdmittedEarly == admitted.start <= admitted.height + (KeyTTL - 1) \div BlockTime

\* The height is stored before its time stamp, so a start whose two reads no
\* store came between is admitted late by no more than a refresh takes, even
\* when it read both in the middle of one. (Not after an outage: when only the
\* store of the height is lost, the old height gets a new time stamp.)
LateByTheLagOnly ==
    admitted # Nobody /\ ~admitted.torn /\ mishaps = 0 =>
        admitted.then <= admitted.end + 1 + (MaxLag + BlockTime - 1) \div BlockTime

\* A validator that lost its stake passes the authentication no longer than a
\* copy of the stakes lives and the metagraph takes to arrive.
StakeIsRecent ==
    [][\A w \in Workers : request[w].at # "height" /\ request'[w].at = "height"
        => now < poorSince[request'[w].by] + MaxLoad + StakeTTL]_vars

\* While the background process lives and reached Redis when it started, the
\* two keys come back after every outage and every cleared cache.
ClockComesBack ==
    <>[](linked[Updater] /\ refresh.at # "stopped")
        => []<>(\A key \in Keys : Present(key))

=============================================================================
