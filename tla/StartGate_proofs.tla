-------------------------- MODULE StartGate_proofs --------------------------
(***************************************************************************)
(* Theorems of StartGate: the gate a start passes, for any processes,      *)
(* validators, configurations, times to live and lengths of rounds.        *)
(***************************************************************************)
EXTENDS StartGate, TLAPS

(* How far an estimate may run ahead of the chain while the keys live.     *)
Ahead == (KeyTTL - 1) \div BlockTime

(* What Redis keeps, and the background process is about to store, is no   *)
(* higher than the chain; the time stamp lives KeyTTL from when it says.   *)
ClockSound ==
    /\ keys["current_block"].value <= height
    /\ refresh.block <= height
    /\ keys["block_timestamp"].value <= now
    /\ keys["block_timestamp"].until <= keys["block_timestamp"].value + KeyTTL

(* The row was committed, and what is not committed came from the process. *)
ConfigSound ==
    /\ row \in {None} \cup past
    /\ \A w \in Servers : pending[w] \in {None} \cup sent[w]
    /\ CopyIsPastOrOwn

(* The metagraph on its way is no older than a load takes, and names nobody  *)
(* who had lost the stake when it was read; a copy lives from its arrival.   *)
StakesSound ==
    /\ \A v \in Validators : v \in rich \/ AuthDisabled => poorSince[v] = MaxTime
    /\ \A w \in Workers :
           /\ stakes[w].until <= now + StakeTTL
           /\ \A v \in stakes[w].of : stakes[w].until <= poorSince[v] + MaxLoad + StakeTTL
           /\ load[w].since <= now
           /\ \A v \in load[w].of : load[w].since <= poorSince[v]
           /\ Loading(w) => now <= load[w].since + MaxLoad

(* What a request has read so far.                                         *)
RequestSound(r) ==
    /\ r.base <= height
    /\ r.height <= height
    /\ r.at = "loading" => r.block <= r.height + Ahead /\ r.config # None
    /\ r.config \in {None} \cup past
RequestsSound == \A w \in Workers : RequestSound(request[w])

IInv == TypeOK /\ ClockSound /\ ConfigSound /\ StakesSound /\ RequestsSound /\ NeverAdmittedEarly

-----------------------------------------------------------------------------
Requesting == [at : {"idle", "metagraph", "height", "loading"}, by : {None} \cup Validators, start : Nat,
               base : Nat, block : Nat, height : Nat, config : {None} \cup Configs,
               torn : BOOLEAN]
Admitting == [by : {None} \cup Validators, start : Nat, end : Nat, height : Nat, then : Nat,
              config : {None} \cup Configs, torn : BOOLEAN]

(* Division by a positive number keeps the order.                          *)
LEMMA DivisionKeepsOrder ==
    ASSUME NEW a \in Nat, NEW b \in Nat, NEW d \in Nat \ {0}, a <= b
    PROVE  a \div d \in Nat /\ a \div d <= b \div d
<1> DEFINE p == a \div d
           q == b \div d
<1>1. p \in Int /\ a = d * p + (a % d) /\ a % d \in 0..(d - 1)
  OBVIOUS
<1>2. q \in Int /\ b = d * q + (b % d) /\ b % d \in 0..(d - 1)
  OBVIOUS
<1> HIDE DEF p, q
<1>3. p >= 0
  <2> SUFFICES ASSUME p + 1 <= 0 PROVE FALSE BY <1>1
  <2>1. d * (p + 1) <= 0 BY <1>1
  <2> QED BY <1>1, <2>1
<1>4. p <= q
  <2> SUFFICES ASSUME q + 1 <= p PROVE FALSE BY <1>1, <1>2
  <2>1. d * (q + 1) <= d * p BY <1>1, <1>2
  <2>2. d * (q + 1) = d * q + d BY <1>2
  <2>3. d * p \in Int /\ d * q \in Int BY <1>1, <1>2
  <2> QED BY <1>1, <1>2, <2>1, <2>2, <2>3
<1> QED BY <1>1, <1>3, <1>4 DEF p, q

(* An estimate from a time stamp that is still kept.                       *)
LEMMA EstimateIsBounded ==
    ASSUME TypeOK, ClockSound, Present("block_timestamp"), NEW base \in Nat
    PROVE  /\ Ahead \in Nat
           /\ Estimate(base, keys["block_timestamp"].value, now) \in Nat
           /\ Estimate(base, keys["block_timestamp"].value, now) <= base + Ahead
<1> DEFINE stamp == keys["block_timestamp"].value
           past2 == IF now > stamp THEN now - stamp ELSE 0
<1>1. /\ now \in Nat /\ stamp \in Nat /\ keys["block_timestamp"].until \in Nat
      /\ KeyTTL \in Nat \ {0} /\ BlockTime \in Nat \ {0}
  BY ClockAssumption DEF TypeOK, ClockTypeOK, Keys
<1>2. now < stamp + KeyTTL BY <1>1 DEF ClockSound, Present
<1>3. past2 \in Nat /\ KeyTTL - 1 \in Nat /\ past2 <= KeyTTL - 1 BY <1>1, <1>2
<1> HIDE DEF past2
<1>4. past2 \div BlockTime \in Nat /\ past2 \div BlockTime <= (KeyTTL - 1) \div BlockTime
  BY <1>1, <1>3, DivisionKeepsOrder
<1>5. (KeyTTL - 1) \div BlockTime \in Nat BY <1>1, <1>3, DivisionKeepsOrder
<1>6. Estimate(base, stamp, now) = base + past2 \div BlockTime BY DEF Estimate, past2
<1> QED BY <1>4, <1>5, <1>6 DEF Ahead

-----------------------------------------------------------------------------
(* The two keys are tables of their own; a store changes one of them.      *)
LEMMA StoreIs ==
    ASSUME ClockTypeOK, NEW key \in Keys, NEW value \in Nat, Store(key, value)
    PROVE  /\ keys' \in [Keys -> [value : Nat, until : 0..(MaxTime + KeyTTL)]]
           /\ \A other \in Keys \ {key} : keys'[other] = keys[other]
           /\ keys'[key] \in {keys[key], [value |-> value, until |-> now + KeyTTL]}
<1>1. now + KeyTTL \in 0..(MaxTime + KeyTTL) BY ClockAssumption DEF ClockTypeOK
<1> QED BY <1>1 DEF Store, ClockTypeOK

(* Redis and the background process keep what they know sound.             *)
LEMMA ClockKeeps ==
    ASSUME ClockTypeOK, ClockSound, ClockNext
    PROVE  ClockTypeOK' /\ ClockSound' /\ height' >= height /\ now' \in {now, now + 1}
<1> USE ClockAssumption
<1>1. CASE Tick
  <2>1. now' = now + 1 /\ now' \in 0..MaxTime BY <1>1 DEF Tick, ClockTypeOK
  <2>2. \A key \in Keys : keys'[key] \in {keys[key], Absent} BY <1>1 DEF Tick
  <2>3. Absent \in [value : Nat, until : 0..(MaxTime + KeyTTL)] BY DEF Absent
  <2>4. keys' \in [Keys -> [value : Nat, until : 0..(MaxTime + KeyTTL)]]
    BY <1>1, <2>2, <2>3 DEF Tick, ClockTypeOK
  <2>5. ClockTypeOK' BY <1>1, <2>1, <2>4 DEF Tick, ClockTypeOK
  <2>6. ClockSound' BY <1>1, <2>1, <2>2, <2>4 DEF Tick, ClockSound, ClockTypeOK, Keys, Absent
  <2> QED BY <1>1, <2>1, <2>5, <2>6 DEF Tick, ClockTypeOK
<1>2. CASE Mint
  <2>1. height \in Nat /\ height' = height + 1 /\ now \in Nat /\ now' = now /\ minted' = now
    BY <1>2 DEF Mint, ClockTypeOK
  <2>2. ClockTypeOK' BY <1>2, <2>1 DEF Mint, ClockTypeOK
  <2>3. ClockSound' BY <1>2, <2>1 DEF Mint, ClockTypeOK, ClockSound, Keys
  <2> QED BY <2>1, <2>2, <2>3
<1>3. CASE RedisFails
  <2>1. mishaps' \in 0..MaxMishaps BY <1>3 DEF RedisFails, ClockTypeOK
  <2>2. ClockTypeOK' BY <1>3, <2>1 DEF RedisFails, ClockTypeOK
  <2>3. ClockSound' BY <1>3 DEF RedisFails, ClockSound
  <2> QED BY <1>3, <2>2, <2>3 DEF RedisFails, ClockTypeOK
<1>4. ASSUME keys' = [key \in Keys |-> Absent],
             UNCHANGED <<now, height, minted, linked, refresh>>,
             redisUp' \in BOOLEAN, mishaps' \in 0..MaxMishaps
      PROVE  ClockTypeOK' /\ ClockSound'
  BY <1>4 DEF ClockTypeOK, ClockSound, Absent, Keys
<1>5. CASE RedisReturns
  <2>1. CASE keys' = keys BY <1>5, <2>1 DEF RedisReturns, ClockTypeOK, ClockSound
  <2>2. CASE keys' # keys BY <1>4, <1>5, <2>2 DEF RedisReturns, ClockTypeOK
  <2> QED BY <2>1, <2>2
<1>6. CASE \E w \in Workers : ClearCache(w) BY <1>4, <1>6 DEF ClearCache, ClockTypeOK
<1>7. CASE UpdaterStarts \/ EnterLoop \/ UpdaterDies
  BY <1>7 DEF UpdaterStarts, EnterLoop, UpdaterDies, ClockTypeOK, ClockSound, Stopped
<1>8. CASE FetchBlock BY <1>8 DEF FetchBlock, ClockTypeOK, ClockSound
<1>9. ASSUME NEW key \in Keys, Store(key, Fresh(key)),
             UNCHANGED <<now, height, minted, redisUp, linked, mishaps>>,
             refresh' \in [at : {"stopped", "waiting", "idle", "fetched", "stored"},
                            block : Nat, since : 0..MaxTime],
             refresh'.block <= height
      PROVE  ClockTypeOK' /\ ClockSound'
  <2>1. Fresh(key) \in Nat BY DEF Fresh, ClockTypeOK
  <2>2. /\ keys' \in [Keys -> [value : Nat, until : 0..(MaxTime + KeyTTL)]]
        /\ \A other \in Keys \ {key} : keys'[other] = keys[other]
        /\ keys'[key] \in {keys[key], [value |-> Fresh(key), until |-> now + KeyTTL]}
    BY <1>9, <2>1, StoreIs
  <2>3. ClockTypeOK' BY <1>9, <2>2 DEF ClockTypeOK
  <2>4. CASE key = "current_block"
    BY <1>9, <2>2, <2>4 DEF ClockSound, ClockTypeOK, Fresh, Keys
  <2>5. CASE key = "block_timestamp"
    BY <1>9, <2>2, <2>5 DEF ClockSound, ClockTypeOK, Fresh, Keys
  <2> QED BY <2>3, <2>4, <2>5 DEF Keys
<1>10. CASE StoreFirst
  <2>1. FirstKey \in Keys BY DEF FirstKey, Keys
  <2>2. refresh' = [refresh EXCEPT !.at = "stored"] BY <1>10 DEF StoreFirst
  <2>3. refresh'.block <= height /\ refresh' \in [at : {"stopped", "waiting", "idle", "fetched", "stored"},
                            block : Nat, since : 0..MaxTime]
    BY <2>2 DEF ClockTypeOK, ClockSound
  <2> QED BY <1>9, <1>10, <2>1, <2>3 DEF StoreFirst, ClockTypeOK
<1>11. CASE StoreSecond
  <2>1. refresh' = [at |-> "idle", block |-> 0, since |-> 0] BY <1>11 DEF StoreSecond, Stopped
  <2>2. refresh'.block <= height /\ refresh' \in [at : {"stopped", "waiting", "idle", "fetched", "stored"},
                            block : Nat, since : 0..MaxTime]
    BY <2>1 DEF ClockTypeOK
  <2> QED BY <1>9, <1>11, <2>2 DEF StoreSecond, ClockTypeOK
<1>12. height' >= height /\ now' \in {now, now + 1}
  BY DEF ClockNext, Tick, Mint, RedisFails, RedisReturns, ClearCache, UpdaterSteps, UpdaterStarts,
         EnterLoop, FetchBlock, StoreFirst, StoreSecond, UpdaterDies, ClockTypeOK
<1> QED BY <1>1, <1>2, <1>3, <1>5, <1>6, <1>7, <1>8, <1>10, <1>11, <1>12 DEF ClockNext, UpdaterSteps

(* What is not of the clock stays sound while time and chain go on; time   *)
(* goes on for a load only as long as loads take.                          *)
LEMMA OthersFollow ==
    ASSUME IInv, height' >= height, now' \in {now, now + 1}, height' \in Nat,
           UNCHANGED <<rich, poorSince, stakes, load>>,
           \A w \in Workers : request'[w].at = request[w].at,
           now' # now => \A w \in Workers : Loading(w) => now < load[w].since + MaxLoad
    PROVE  StakesSound'
<1>1. /\ now \in Nat /\ StakeTTL \in Nat /\ MaxLoad \in Nat
      /\ \A w \in Workers : stakes[w].until \in Nat /\ load[w].since \in Nat
  BY ClockAssumption, GateAssumption DEF IInv, TypeOK, ClockTypeOK
<1>2. \A w \in Workers : Loading(w)' = Loading(w) BY DEF Loading
<1>3. ASSUME NEW w \in Workers
      PROVE  /\ stakes[w].until <= now' + StakeTTL
             /\ load[w].since <= now'
             /\ Loading(w) => now' <= load[w].since + MaxLoad
  BY <1>1 DEF IInv, StakesSound
<1> QED BY <1>2, <1>3 DEF IInv, StakesSound

(* A reading that is torn is the same reading otherwise.                   *)
LEMMA TornIs ==
    ASSUME NEW r \in Requesting
    PROVE  /\ Torn(r) \in Requesting
           /\ Torn(r).base = r.base /\ Torn(r).at = r.at /\ Torn(r).block = r.block
           /\ Torn(r).height = r.height /\ Torn(r).config = r.config
<1> DEFINE torn == (r.at = "height") \/ r.torn
<1>1. torn \in BOOLEAN OBVIOUS
<1>2. Torn(r) = [r EXCEPT !.torn = torn] BY DEF Torn
<1> HIDE DEF torn
<1> QED BY <1>1, <1>2 DEF Requesting

(* A step of the clock tears readings.                                     *)
LEMMA ClockStepKeeps ==
    ASSUME IInv, ClockStep
    PROVE  IInv' /\ \A w \in Workers : request'[w].at = request[w].at
<1>t. TypeOK /\ ClockSound /\ ConfigSound /\ StakesSound /\ RequestsSound /\ NeverAdmittedEarly
  BY DEF IInv
<1>1. ClockTypeOK' /\ ClockSound' /\ height' >= height /\ now' \in {now, now + 1}
  BY <1>t, ClockKeeps DEF ClockStep, TypeOK
<1>3. \A w \in Workers : request[w] \in Requesting /\ RequestSound(request[w])
  BY <1>t DEF TypeOK, RequestsSound, Requesting
<1>4. ASSUME NEW w \in Workers
      PROVE  /\ request'[w] \in Requesting /\ RequestSound(request[w])'
             /\ request'[w].at = request[w].at
  <2>1. request'[w] = request[w] \/ request'[w] = Torn(request[w]) BY DEF ClockStep
  <2>2. /\ request'[w] \in Requesting
        /\ request'[w].base = request[w].base /\ request'[w].at = request[w].at
        /\ request'[w].block = request[w].block /\ request'[w].height = request[w].height
        /\ request'[w].config = request[w].config
    BY <1>3, <2>1, TornIs
  <2>3. past' = past BY DEF ClockStep, configVars
  <2> QED BY <1>1, <1>t, <1>3, <2>2, <2>3 DEF RequestSound, TypeOK, ClockTypeOK, Requesting
<1>2. StakesSound' BY <1>1, <1>4, OthersFollow DEF ClockStep, ClockTypeOK
<1>5. TypeOK'
  <2>1. request' \in [Workers -> Requesting]
    <3>1. request' = [w \in Workers |-> request'[w]] BY <1>t DEF ClockStep, TypeOK
    <3> QED BY <1>4, <3>1
  <2> QED BY <1>t, <1>1, <2>1 DEF TypeOK, ClockStep, configVars, ConfigTypeOK, Requesting
<1>6. ConfigSound' BY <1>t DEF ConfigSound, CopyIsPastOrOwn, ClockStep, configVars
<1> QED BY <1>t, <1>1, <1>2, <1>4, <1>5, <1>6 DEF IInv, RequestsSound, NeverAdmittedEarly, ClockStep

-----------------------------------------------------------------------------
(* What a process holds of the configuration.                              *)
LEMMA ConfigKeeps ==
    ASSUME ConfigTypeOK, ConfigSound, ConfigNext
    PROVE  ConfigTypeOK' /\ ConfigSound' /\ past \subseteq past'
<1> USE ConfigAssumption DEF ConfigTypeOK, ConfigSound, CopyIsPastOrOwn
<1>1. ASSUME NEW w \in Servers, NEW v \in Validators, NEW c \in Configs, Upsert(w, v, c)
      PROVE  ConfigTypeOK' /\ ConfigSound' /\ past \subseteq past'
  BY <1>1 DEF Upsert
<1>2. ASSUME NEW w \in Servers, Commit(w) PROVE ConfigTypeOK' /\ ConfigSound' /\ past \subseteq past'
  BY <1>2 DEF Commit
<1>3. ASSUME NEW w \in Servers, RollBack(w) PROVE ConfigTypeOK' /\ ConfigSound' /\ past \subseteq past'
  BY <1>3 DEF RollBack
<1> QED BY <1>1, <1>2, <1>3 DEF ConfigNext, SyncRuntimeConfig, FinishMetadata

(* A step of the configuration leaves the gate and the clock alone.        *)
LEMMA ConfigStepKeeps ==
    ASSUME IInv, ConfigStep
    PROVE  IInv'
<1>1. ConfigTypeOK' /\ ConfigSound' /\ past \subseteq past'
  BY ConfigKeeps DEF IInv, TypeOK, ConfigStep
<1>2. ClockTypeOK' /\ ClockSound' BY DEF IInv, TypeOK, ClockTypeOK, ClockSound, ConfigStep, clockVars
<1>3. TypeOK' BY <1>1, <1>2 DEF IInv, TypeOK, ConfigStep
<1>4. StakesSound' BY DEF IInv, StakesSound, Loading, ConfigStep, clockVars
<1>5. RequestsSound' BY <1>1 DEF IInv, RequestsSound, RequestSound, ConfigStep, clockVars
<1> QED BY <1>1, <1>2, <1>3, <1>4, <1>5 DEF IInv, NeverAdmittedEarly, ConfigStep

(* A validator loses its stake: what was read before is there MaxLoad after  *)
(* at most, and lives StakeTTL from then.                                    *)
LEMMA LoseStakeKeeps ==
    ASSUME IInv, NEW v \in Validators, LoseStake(v)
    PROVE  IInv'
<1>1. ClockTypeOK' /\ ClockSound' BY DEF IInv, TypeOK, ClockTypeOK, ClockSound, LoseStake, clockVars
<1>2. ConfigTypeOK' /\ ConfigSound'
  BY DEF IInv, TypeOK, ConfigTypeOK, ConfigSound, CopyIsPastOrOwn, LoseStake, configVars
<1>3. now \in 0..MaxTime BY DEF IInv, TypeOK, ClockTypeOK
<1>4. TypeOK' BY <1>1, <1>2, <1>3 DEF IInv, TypeOK, LoseStake
<1>5. StakesSound'
  <2>1. MaxLoad \in Nat /\ StakeTTL \in Nat /\ MaxTime \in Nat BY ClockAssumption, GateAssumption
  <2>2. /\ poorSince \in [Validators -> 0..MaxTime] /\ poorSince' = [poorSince EXCEPT ![v] = now]
        /\ rich' = rich \ {v} /\ ~AuthDisabled /\ UNCHANGED <<now, stakes, load, request>>
        /\ \A w \in Workers : stakes[w].until \in Nat /\ load[w].since \in Nat
    BY <1>3 DEF IInv, TypeOK, LoseStake, clockVars
  <2>3. \A w \in Workers : Loading(w)' = Loading(w) BY <2>2 DEF Loading
  <2> QED BY <1>3, <2>1, <2>2, <2>3 DEF IInv, TypeOK, StakesSound
<1>6. RequestsSound' BY DEF IInv, RequestsSound, RequestSound, LoseStake, clockVars, configVars
<1> QED BY <1>1, <1>2, <1>4, <1>5, <1>6 DEF IInv, NeverAdmittedEarly, LoseStake

(* The end of the authentication, and the first read of the clock.         *)
LEMMA PassKeeps ==
    ASSUME IInv, NEW w \in Workers, NEW v \in {None} \cup Validators, NEW s \in Nat,
           NEW enough \in BOOLEAN, PassOrRefuse(w, v, s, enough),
           UNCHANGED <<height, keys, past>>
    PROVE  /\ request' \in [Workers -> Requesting]
           /\ RequestsSound'
           /\ request'[w].at # "metagraph"
           /\ request'[w].at = "height" => enough /\ request'[w].by = v
           /\ \A u \in Workers \ {w} : request'[u] = request[u]
<1>t. TypeOK /\ ClockSound /\ RequestsSound /\ request \in [Workers -> Requesting]
  BY DEF IInv, TypeOK, Requesting
<1> DEFINE base == keys["current_block"].value
           asked == Asked(v, s, base)
<1>1. base \in Nat /\ base <= height /\ height \in Nat
  BY <1>t DEF TypeOK, ClockTypeOK, ClockSound, Keys
<1>2. request' = [request EXCEPT ![w] =
           IF enough /\ Readable(w, "current_block") THEN asked ELSE Idle]
  BY DEF PassOrRefuse
<1>3. asked \in Requesting /\ Idle \in Requesting BY <1>1 DEF Requesting, Idle, Asked
<1>4. RequestSound(asked) /\ RequestSound(Idle) BY <1>1 DEF RequestSound, Idle, Asked
<1>5. asked.by = v /\ asked.at = "height" /\ Idle.at = "idle" BY DEF Asked, Idle
<1> HIDE DEF asked
<1>6. /\ request'[w] \in {asked, Idle}
      /\ request'[w] = Idle \/ enough
      /\ \A u \in Workers \ {w} : request'[u] = request[u]
      /\ request' \in [Workers -> Requesting]
  BY <1>t, <1>2, <1>3
<1>7. RequestsSound' BY <1>t, <1>4, <1>6 DEF RequestsSound, RequestSound
<1> QED BY <1>5, <1>6, <1>7

(* A start finds a copy that lives, or nobody asks: it begins to read the  *)
(* clock, or is turned away.                                               *)
LEMMA AskKeeps ==
    ASSUME IInv, NEW w \in Workers, NEW v \in Validators, NEW s \in StartBlocks, Ask(w, v, s)
    PROVE  /\ IInv'
           /\ request'[w].at = "height" =>
                  now < poorSince[v] + MaxLoad + StakeTTL /\ request'[w].by = v
           /\ \A u \in Workers \ {w} : request'[u] = request[u]
<1>t. TypeOK /\ ClockSound /\ ConfigSound /\ StakesSound /\ RequestsSound /\ NeverAdmittedEarly
  BY DEF IInv
<1>1. /\ UNCHANGED <<clockVars, configVars, rich, poorSince, stakes, load, admitted>>
      /\ PassOrRefuse(w, v, s, AuthDisabled \/ v \in stakes[w].of)
      /\ AuthDisabled \/ now < stakes[w].until
      /\ s \in Nat
  BY GateAssumption DEF Ask, CopyLives
<1>2. UNCHANGED <<now, height, keys, past>> BY <1>1 DEF clockVars, configVars
<1>3. (AuthDisabled \/ v \in stakes[w].of) \in BOOLEAN OBVIOUS
<1>4. /\ request' \in [Workers -> Requesting]
      /\ RequestsSound'
      /\ request'[w].at # "metagraph"
      /\ request'[w].at = "height" => (AuthDisabled \/ v \in stakes[w].of) /\ request'[w].by = v
      /\ \A u \in Workers \ {w} : request'[u] = request[u]
  BY <1>1, <1>2, <1>3, PassKeeps
<1>5. StakesSound' BY <1>t, <1>1, <1>2, <1>4 DEF StakesSound, Loading
<1>6. ClockTypeOK' /\ ClockSound' BY <1>t, <1>1 DEF TypeOK, ClockTypeOK, ClockSound, clockVars
<1>7. ConfigTypeOK' /\ ConfigSound'
  BY <1>t, <1>1 DEF TypeOK, ConfigTypeOK, ConfigSound, CopyIsPastOrOwn, configVars
<1>8. TypeOK' BY <1>t, <1>1, <1>4, <1>6, <1>7 DEF TypeOK, Requesting
<1>9. IInv' BY <1>t, <1>1, <1>4, <1>5, <1>6, <1>7, <1>8 DEF IInv, NeverAdmittedEarly
<1>10. AuthDisabled \/ v \in stakes[w].of => now < poorSince[v] + MaxLoad + StakeTTL
  <2>1. /\ now \in 0..MaxTime /\ StakeTTL \in Nat \ {0} /\ MaxLoad \in Nat /\ MaxTime \in Nat
        /\ poorSince[v] \in 0..MaxTime /\ stakes[w].until \in Nat
    BY <1>t, ClockAssumption, GateAssumption DEF TypeOK, ClockTypeOK
  <2>2. CASE AuthDisabled BY <1>t, <2>1, <2>2 DEF StakesSound
  <2>3. CASE v \in stakes[w].of /\ now < stakes[w].until BY <1>t, <2>1, <2>3 DEF StakesSound
  <2> QED BY <1>1, <2>2, <2>3
<1> QED BY <1>4, <1>9, <1>10

(* A start finds no copy that lives, and the metagraph is read.            *)
LEMMA LoadStakesKeeps ==
    ASSUME IInv, NEW w \in Workers, NEW v \in Validators, NEW s \in StartBlocks,
           LoadStakes(w, v, s)
    PROVE  /\ IInv'
           /\ request'[w].at = "metagraph"
           /\ \A u \in Workers \ {w} : request'[u] = request[u]
<1>t. /\ TypeOK /\ ClockSound /\ ConfigSound /\ StakesSound /\ RequestsSound /\ NeverAdmittedEarly
      /\ request \in [Workers -> Requesting]
  BY DEF IInv, TypeOK, Requesting
<1>1. /\ UNCHANGED <<clockVars, configVars, rich, poorSince, stakes, admitted>>
      /\ request' = [request EXCEPT ![w] = Claimed(v, s)]
      /\ load' = [load EXCEPT ![w] = [of |-> rich, since |-> now]]
      /\ s \in Nat
  BY GateAssumption DEF LoadStakes
<1>2. UNCHANGED <<now, height, keys, past>> BY <1>1 DEF clockVars, configVars
<1>3. /\ now \in 0..MaxTime /\ height \in Nat /\ MaxLoad \in Nat /\ MaxTime \in Nat
      /\ rich \subseteq Validators
      /\ load \in [Workers -> [of : SUBSET Validators, since : 0..MaxTime]]
  BY <1>t, ClockAssumption, GateAssumption DEF TypeOK, ClockTypeOK
<1>4. Claimed(v, s) \in Requesting /\ RequestSound(Claimed(v, s)) /\ Claimed(v, s).at = "metagraph"
  BY <1>1, <1>3 DEF Claimed, Requesting, RequestSound
<1>5. /\ request' \in [Workers -> Requesting] /\ request'[w] = Claimed(v, s)
      /\ \A u \in Workers \ {w} : request'[u] = request[u]
  BY <1>t, <1>1, <1>4
<1>6. RequestsSound' BY <1>t, <1>2, <1>4, <1>5 DEF RequestsSound, RequestSound
<1>7. /\ load' \in [Workers -> [of : SUBSET Validators, since : 0..MaxTime]]
      /\ load'[w].of = rich /\ load'[w].since = now
      /\ \A u \in Workers \ {w} : load'[u] = load[u]
  BY <1>1, <1>3
<1>8. StakesSound'
  <2>1. \A u \in Workers \ {w} : Loading(u)' = Loading(u) BY <1>5 DEF Loading
  <2>2. \A x \in rich : now <= poorSince[x] BY <1>t, <1>3 DEF StakesSound
  <2>3. now <= now + MaxLoad BY <1>3
  <2> QED BY <1>t, <1>1, <1>2, <1>7, <2>1, <2>2, <2>3 DEF StakesSound
<1>9. ClockTypeOK' /\ ClockSound' BY <1>t, <1>1 DEF TypeOK, ClockTypeOK, ClockSound, clockVars
<1>10. ConfigTypeOK' /\ ConfigSound'
  BY <1>t, <1>1 DEF TypeOK, ConfigTypeOK, ConfigSound, CopyIsPastOrOwn, configVars
<1>11. TypeOK' BY <1>t, <1>1, <1>5, <1>7, <1>9, <1>10 DEF TypeOK, Requesting
<1> QED BY <1>t, <1>1, <1>4, <1>5, <1>6, <1>8, <1>9, <1>10, <1>11 DEF IInv, NeverAdmittedEarly

(* The load is over: what a process goes by from here on.                  *)
LEMMA LoadOver ==
    ASSUME StakesSound, NEW w \in Workers, UNCHANGED <<now, rich, poorSince>>, now \in Nat,
           load \in [Workers -> [of : SUBSET Validators, since : 0..MaxTime]],
           stakes \in [Workers -> [of : SUBSET Validators, until : 0..(MaxTime + StakeTTL)]],
           load' = [load EXCEPT ![w] = NoLoad],
           request'[w].at # "metagraph",
           \A u \in Workers \ {w} : request'[u] = request[u] /\ stakes'[u] = stakes[u],
           \/ stakes'[w] = stakes[w]
           \/ /\ stakes'[w].until <= now + StakeTTL
              /\ \A v \in stakes'[w].of : stakes'[w].until <= poorSince[v] + MaxLoad + StakeTTL
    PROVE  StakesSound' /\ load' \in [Workers -> [of : SUBSET Validators, since : 0..MaxTime]]
<1>1. MaxTime \in Nat BY ClockAssumption
<1>2. /\ load'[w].of = {} /\ load'[w].since = 0
      /\ \A u \in Workers \ {w} : load'[u] = load[u]
      /\ load' \in [Workers -> [of : SUBSET Validators, since : 0..MaxTime]]
  BY <1>1 DEF NoLoad
<1>3. \A u \in Workers : Loading(u)' => Loading(u) /\ u # w BY DEF Loading
<1>4. ASSUME NEW u \in Workers
      PROVE  /\ stakes'[u].until <= now + StakeTTL
             /\ \A v \in stakes'[u].of : stakes'[u].until <= poorSince[v] + MaxLoad + StakeTTL
  BY DEF StakesSound
<1> QED BY <1>2, <1>3, <1>4 DEF StakesSound

(* The chain does not answer.                                              *)
LEMMA LoadFailsKeeps ==
    ASSUME IInv, NEW w \in Workers, LoadFails(w)
    PROVE  /\ IInv'
           /\ request'[w] = Idle
           /\ \A u \in Workers \ {w} : request'[u] = request[u]
<1>t. /\ TypeOK /\ ClockSound /\ ConfigSound /\ StakesSound /\ RequestsSound /\ NeverAdmittedEarly
      /\ request \in [Workers -> Requesting]
  BY DEF IInv, TypeOK, Requesting
<1>1. /\ UNCHANGED <<clockVars, configVars, rich, poorSince, stakes, admitted>>
      /\ request' = [request EXCEPT ![w] = Idle]
      /\ load' = [load EXCEPT ![w] = NoLoad]
  BY DEF LoadFails
<1>2. UNCHANGED <<now, height, keys, past>> BY <1>1 DEF clockVars, configVars
<1>3. now \in Nat /\ height \in Nat BY <1>t, ClockAssumption DEF TypeOK, ClockTypeOK
<1>4. Idle \in Requesting /\ RequestSound(Idle) /\ Idle.at = "idle"
  BY <1>3 DEF Requesting, Idle, RequestSound
<1>5. /\ request' \in [Workers -> Requesting] /\ request'[w] = Idle
      /\ \A u \in Workers \ {w} : request'[u] = request[u]
  BY <1>t, <1>1, <1>4
<1>6. RequestsSound' BY <1>t, <1>2, <1>4, <1>5 DEF RequestsSound, RequestSound
<1>7. StakesSound' /\ load' \in [Workers -> [of : SUBSET Validators, since : 0..MaxTime]]
  BY <1>t, <1>1, <1>2, <1>3, <1>4, <1>5, LoadOver DEF TypeOK
<1>8. ClockTypeOK' /\ ClockSound' BY <1>t, <1>1 DEF TypeOK, ClockTypeOK, ClockSound, clockVars
<1>9. ConfigTypeOK' /\ ConfigSound'
  BY <1>t, <1>1 DEF TypeOK, ConfigTypeOK, ConfigSound, CopyIsPastOrOwn, configVars
<1>10. TypeOK' BY <1>t, <1>1, <1>5, <1>7, <1>8, <1>9 DEF TypeOK, Requesting
<1> QED BY <1>t, <1>1, <1>5, <1>6, <1>7, <1>8, <1>9, <1>10 DEF IInv, NeverAdmittedEarly

(* The metagraph is there: its age is what it took to arrive.              *)
LEMMA AskLoadedKeeps ==
    ASSUME IInv, NEW w \in Workers, AskLoaded(w)
    PROVE  /\ IInv'
           /\ request'[w].at = "height" =>
                  now < poorSince[request'[w].by] + MaxLoad + StakeTTL
           /\ \A u \in Workers \ {w} : request'[u] = request[u]
<1>t. /\ TypeOK /\ ClockSound /\ ConfigSound /\ StakesSound /\ RequestsSound /\ NeverAdmittedEarly
      /\ request \in [Workers -> Requesting]
  BY DEF IInv, TypeOK, Requesting
<1> DEFINE v == request[w].by
           s == request[w].start
           enough == v \in load[w].of
<1>1. /\ UNCHANGED <<clockVars, configVars, rich, poorSince, admitted>>
      /\ Loading(w)
      /\ PassOrRefuse(w, v, s, enough)
      /\ stakes' = [stakes EXCEPT ![w] = [of |-> load[w].of, until |-> now + StakeTTL]]
      /\ load' = [load EXCEPT ![w] = NoLoad]
  BY DEF AskLoaded, LoadedStakes
<1>2. UNCHANGED <<now, height, keys, past>> BY <1>1 DEF clockVars, configVars
<1>3. v \in {None} \cup Validators /\ s \in Nat /\ enough \in BOOLEAN BY <1>t DEF Requesting
<1>4. /\ request' \in [Workers -> Requesting]
      /\ RequestsSound'
      /\ request'[w].at # "metagraph"
      /\ request'[w].at = "height" => enough /\ request'[w].by = v
      /\ \A u \in Workers \ {w} : request'[u] = request[u]
  <2> HIDE DEF v, s, enough
  <2> QED BY <1>1, <1>2, <1>3, PassKeeps
<1>5. /\ now \in 0..MaxTime /\ MaxLoad \in Nat /\ MaxTime \in Nat /\ StakeTTL \in Nat \ {0}
      /\ load \in [Workers -> [of : SUBSET Validators, since : 0..MaxTime]]
      /\ stakes \in [Workers -> [of : SUBSET Validators, until : 0..(MaxTime + StakeTTL)]]
      /\ poorSince \in [Validators -> 0..MaxTime]
  BY <1>t, ClockAssumption, GateAssumption DEF TypeOK, ClockTypeOK
<1>6. /\ load[w].since \in Nat /\ load[w].of \subseteq Validators
      /\ now <= load[w].since + MaxLoad
      /\ \A x \in load[w].of : load[w].since <= poorSince[x] /\ poorSince[x] \in Nat
  BY <1>t, <1>1, <1>5 DEF StakesSound
<1>7. \A x \in load[w].of : now <= poorSince[x] + MaxLoad BY <1>5, <1>6
<1>8. /\ stakes' \in [Workers -> [of : SUBSET Validators, until : 0..(MaxTime + StakeTTL)]]
      /\ stakes'[w].of = load[w].of /\ stakes'[w].until = now + StakeTTL
      /\ \A u \in Workers \ {w} : stakes'[u] = stakes[u]
  BY <1>1, <1>5, <1>6
<1>9. StakesSound' /\ load' \in [Workers -> [of : SUBSET Validators, since : 0..MaxTime]]
  <2>1. \A x \in stakes'[w].of : stakes'[w].until <= poorSince[x] + MaxLoad + StakeTTL
    BY <1>5, <1>6, <1>7, <1>8
  <2>2. stakes'[w].until <= now + StakeTTL BY <1>5, <1>8
  <2>3. /\ StakesSound /\ UNCHANGED <<now, rich, poorSince>> /\ now \in Nat
        /\ load' = [load EXCEPT ![w] = NoLoad]
        /\ \A u \in Workers \ {w} : request'[u] = request[u] /\ stakes'[u] = stakes[u]
    BY <1>t, <1>1, <1>2, <1>4, <1>5, <1>8
  <2> HIDE DEF v, s, enough
  <2> QED BY ONLY <1>4, <1>5, <2>1, <2>2, <2>3, LoadOver
<1>10. ClockTypeOK' /\ ClockSound' BY <1>t, <1>1 DEF TypeOK, ClockTypeOK, ClockSound, clockVars
<1>11. ConfigTypeOK' /\ ConfigSound'
  BY <1>t, <1>1 DEF TypeOK, ConfigTypeOK, ConfigSound, CopyIsPastOrOwn, configVars
<1>12. TypeOK' BY <1>t, <1>1, <1>4, <1>8, <1>9, <1>10, <1>11 DEF TypeOK, Requesting
<1>13. IInv' BY <1>t, <1>1, <1>4, <1>9, <1>10, <1>11, <1>12 DEF IInv, NeverAdmittedEarly
<1>14. enough => now < poorSince[v] + MaxLoad + StakeTTL BY <1>5, <1>6, <1>7
<1> QED BY <1>4, <1>13, <1>14

(* Who passes the window check with an estimate that is not too far ahead. *)
LEMMA AdmissionIsNotEarly ==
    ASSUME TypeOK, NEW r \in Requesting, NEW block \in Nat, NEW then \in Nat,
           NEW config \in Configs, Ahead \in Nat, block <= height + Ahead,
           InWindow(r.start, block, config)
    PROVE  /\ Admission(r, then, config) \in Admitting
           /\ Admission(r, then, config).start
                <= Admission(r, then, config).height + (KeyTTL - 1) \div BlockTime
<1>1. RoundBlocks[config] \in Nat /\ height \in Nat BY GateAssumption DEF TypeOK, ClockTypeOK
<1>2. r.start \in Nat /\ r.start <= block BY <1>1 DEF Requesting, InWindow
<1>3. Admission(r, then, config) \in Admitting BY <1>1, <1>2 DEF Admission, Admitting, Requesting
<1> QED BY <1>1, <1>2, <1>3 DEF Admission, Ahead

(* A request that is about to load the configuration.                      *)
LEMMA LoadingIs ==
    ASSUME NEW w \in Workers, request \in [Workers -> Requesting], NEW block \in Nat,
           NEW high \in Nat, NEW config \in {None} \cup Configs,
           request' = [request EXCEPT ![w].at = "loading", ![w].block = block,
                                      ![w].height = high, ![w].config = config]
    PROVE  /\ request' \in [Workers -> Requesting]
           /\ request'[w].base = request[w].base /\ request'[w].block = block
           /\ request'[w].height = high /\ request'[w].config = config
           /\ request'[w].at = "loading" /\ request'[w].torn = request[w].torn
           /\ \A u \in Workers \ {w} : request'[u] = request[u]
<1> DEFINE r1 == [request[w] EXCEPT !.at = "loading"]
           r2 == [r1 EXCEPT !.block = block]
           r3 == [r2 EXCEPT !.height = high]
           r4 == [r3 EXCEPT !.config = config]
<1>1. request' = [request EXCEPT ![w] = r4] OBVIOUS
<1>2. /\ r1 \in Requesting /\ r1.base = request[w].base
      /\ r1.at = "loading" /\ r1.torn = request[w].torn
  BY DEF Requesting
<1> HIDE DEF r1
<1>3. /\ r2 \in Requesting /\ r2.base = r1.base /\ r2.block = block
      /\ r2.at = r1.at /\ r2.torn = r1.torn
  BY <1>2 DEF Requesting
<1> HIDE DEF r2
<1>4. /\ r3 \in Requesting /\ r3.base = r2.base /\ r3.block = r2.block /\ r3.height = high
      /\ r3.at = r2.at /\ r3.torn = r2.torn
  BY <1>3 DEF Requesting
<1> HIDE DEF r3
<1>5. /\ r4 \in Requesting /\ r4.base = r3.base /\ r4.block = r3.block
      /\ r4.height = r3.height /\ r4.config = config
      /\ r4.at = r3.at /\ r4.torn = r3.torn
  BY <1>4 DEF Requesting
<1> HIDE DEF r4
<1>6. /\ r4 \in Requesting /\ r4.base = request[w].base /\ r4.block = block
      /\ r4.height = high /\ r4.config = config
      /\ r4.at = "loading" /\ r4.torn = request[w].torn
  BY <1>2, <1>3, <1>4, <1>5
<1>7. request'[w] = r4 BY <1>1
<1>8. \A u \in Workers \ {w} : request'[u] = request[u] BY <1>1
<1>9. request' \in [Workers -> Requesting] BY <1>1, <1>6
<1> QED BY <1>6, <1>7, <1>8, <1>9

(* The end of the reading: the check, or the wait for a configuration.     *)
LEMMA ReadStampKeeps ==
    ASSUME IInv, NEW w \in Workers, ReadStamp(w)
    PROVE  /\ IInv'
           /\ request'[w].at # "height"
           /\ \A u \in Workers \ {w} : request'[u] = request[u]
<1>t. /\ TypeOK /\ ClockSound /\ ConfigSound /\ StakesSound /\ RequestsSound /\ NeverAdmittedEarly
      /\ request \in [Workers -> Requesting]
  BY DEF IInv, TypeOK, Requesting
<1> DEFINE r == request[w]
           block == Estimate(r.base, keys["block_timestamp"].value, now)
<1>1. r \in Requesting /\ RequestSound(r) /\ r.at = "height" /\ height \in Nat
  BY <1>t DEF RequestsSound, ReadStamp, TypeOK, ClockTypeOK
<1>2. Present("block_timestamp") => Ahead \in Nat /\ block \in Nat /\ block <= height + Ahead
  <2> SUFFICES ASSUME Present("block_timestamp")
               PROVE  Ahead \in Nat /\ block \in Nat /\ block <= height + Ahead
    OBVIOUS
  <2>1. r.base \in Nat BY <1>1 DEF Requesting
  <2>2. Ahead \in Nat /\ block \in Nat /\ block <= r.base + Ahead BY <1>t, <2>1, EstimateIsBounded
  <2> QED BY <1>1, <2>1, <2>2 DEF RequestSound
<1> HIDE DEF block
<1>3. UNCHANGED <<now, height, keys, past, rich, poorSince, stakes, load>>
  BY DEF ReadStamp, clockVars, configVars
<1>4. Idle \in Requesting /\ RequestSound(Idle) /\ Idle.at = "idle"
  BY <1>1 DEF Requesting, Idle, RequestSound
<1>5. /\ request' \in [Workers -> Requesting] /\ RequestSound(request[w])'
      /\ \A u \in Workers \ {w} : request'[u] = request[u]
      /\ request'[w].at \in {"idle", "loading"}
      /\ admitted' \in Admitting /\ NeverAdmittedEarly'
  <2>1. CASE request' = [request EXCEPT ![w] = Idle] /\ UNCHANGED admitted
    BY <1>t, <1>3, <1>4, <2>1 DEF NeverAdmittedEarly, TypeOK, Admitting, RequestSound
  <2>2. CASE /\ copy[w] # None /\ Present("block_timestamp")
             /\ request' = [request EXCEPT ![w] = Idle]
             /\ InWindow(r.start, block, copy[w]) /\ admitted' = Admission(r, height, copy[w])
    <3>1. copy[w] \in Configs BY <1>t, <2>2, GateAssumption DEF TypeOK, ConfigTypeOK
    <3>2. admitted' \in Admitting /\ NeverAdmittedEarly'
      BY <1>t, <1>1, <1>2, <2>2, <3>1, AdmissionIsNotEarly DEF NeverAdmittedEarly
    <3> QED BY <1>t, <1>3, <1>4, <2>2, <3>2 DEF RequestSound
  <2>3. CASE /\ Present("block_timestamp") /\ row # None /\ UNCHANGED admitted
             /\ request' = [request EXCEPT ![w].at = "loading", ![w].block = block,
                                           ![w].height = height, ![w].config = row]
    <3>1. row \in {None} \cup Configs BY <1>t DEF TypeOK, ConfigTypeOK
    <3>2. /\ request' \in [Workers -> Requesting]
          /\ request'[w].base = r.base /\ request'[w].block = block
          /\ request'[w].height = height /\ request'[w].config = row
          /\ request'[w].at = "loading"
          /\ \A u \in Workers \ {w} : request'[u] = request[u]
      BY <1>t, <1>1, <1>2, <2>3, <3>1, LoadingIs
    <3>3. RequestSound(request[w])'
      BY <1>t, <1>1, <1>2, <1>3, <2>3, <3>2 DEF RequestSound, ConfigSound
    <3> QED BY <1>t, <2>3, <3>2, <3>3 DEF NeverAdmittedEarly, TypeOK, Admitting
  <2> QED BY <2>1, <2>2, <2>3 DEF ReadStamp, Readable, block
<1>6. RequestsSound' BY <1>t, <1>3, <1>5 DEF RequestsSound, RequestSound
<1>7. StakesSound' BY <1>t, <1>3, <1>5 DEF StakesSound, Loading
<1>8. ClockTypeOK' /\ ClockSound' BY <1>t DEF TypeOK, ClockTypeOK, ClockSound, ReadStamp, clockVars
<1>9. ConfigTypeOK' /\ ConfigSound'
  BY <1>t DEF TypeOK, ConfigTypeOK, ConfigSound, CopyIsPastOrOwn, ReadStamp, configVars
<1>10. TypeOK' BY <1>t, <1>3, <1>5, <1>8, <1>9 DEF TypeOK, Requesting, Admitting
<1> QED BY <1>5, <1>6, <1>7, <1>8, <1>9, <1>10 DEF IInv

(* The configuration that was read becomes the copy.                       *)
LEMMA FinishLoadKeeps ==
    ASSUME IInv, NEW w \in Workers, FinishLoad(w)
    PROVE  /\ IInv'
           /\ request'[w] = Idle
           /\ \A u \in Workers \ {w} : request'[u] = request[u]
<1>t. /\ TypeOK /\ ClockSound /\ ConfigSound /\ StakesSound /\ RequestsSound /\ NeverAdmittedEarly
      /\ request \in [Workers -> Requesting]
  BY DEF IInv, TypeOK, Requesting
<1> DEFINE r == request[w]
<1>1. r \in Requesting /\ RequestSound(r) /\ r.at = "loading" /\ height \in Nat
  BY <1>t DEF RequestsSound, FinishLoad, TypeOK, ClockTypeOK
<1>2. UNCHANGED <<now, height, keys, row, pending, sent, past, rich, poorSince, stakes, load>>
  BY DEF FinishLoad, clockVars
<1>3. Idle \in Requesting /\ RequestSound(Idle) BY <1>1 DEF Requesting, Idle, RequestSound
<1>4. /\ request' \in [Workers -> Requesting] /\ request'[w] = Idle
      /\ \A u \in Workers \ {w} : request'[u] = request[u]
  BY <1>t, <1>3 DEF FinishLoad
<1>5. RequestsSound' BY <1>t, <1>2, <1>3, <1>4 DEF RequestsSound, RequestSound
<1>6. StakesSound'
  <2>1. \A u \in Workers : Loading(u)' => Loading(u) BY <1>4 DEF Loading, Idle
  <2> QED BY <1>t, <1>2, <2>1 DEF StakesSound
<1>7. ClockTypeOK' /\ ClockSound' BY <1>t DEF TypeOK, ClockTypeOK, ClockSound, FinishLoad, clockVars
<1>8. r.config \in {None} \cup Configs /\ copy' = [copy EXCEPT ![w] = r.config]
  BY <1>1 DEF Requesting, FinishLoad
<1>9. ConfigTypeOK' BY <1>t, <1>2, <1>8 DEF TypeOK, ConfigTypeOK
<1>10. ConfigSound'
  BY <1>t, <1>1, <1>2, <1>8 DEF TypeOK, ConfigTypeOK, ConfigSound, CopyIsPastOrOwn, RequestSound
<1>11. admitted' \in Admitting /\ NeverAdmittedEarly'
  <2>1. CASE UNCHANGED admitted BY <1>t, <2>1 DEF NeverAdmittedEarly, TypeOK, Admitting
  <2>2. CASE InWindow(r.start, r.block, r.config) /\ admitted' = Admission(r, r.height, r.config)
    <3>1. r.config \in Configs BY <1>1, <1>8 DEF RequestSound
    <3>2. r.block \in Nat /\ r.height \in Nat BY <1>1 DEF Requesting
    <3>3. Ahead \in Nat
      <4>1. KeyTTL - 1 \in Nat /\ BlockTime \in Nat \ {0} BY ClockAssumption
      <4> QED BY <4>1, DivisionKeepsOrder DEF Ahead
    <3>4. r.block <= height + Ahead BY <1>1, <3>2, <3>3 DEF RequestSound
    <3> QED BY <1>t, <1>1, <2>2, <3>1, <3>2, <3>3, <3>4, AdmissionIsNotEarly DEF NeverAdmittedEarly
  <2> QED BY <2>1, <2>2 DEF FinishLoad
<1>12. TypeOK' BY <1>t, <1>2, <1>4, <1>7, <1>9, <1>11 DEF TypeOK, Requesting, Admitting
<1> QED BY <1>4, <1>5, <1>6, <1>7, <1>9, <1>10, <1>11, <1>12 DEF IInv

(* A new process knows the row, and no stake.                              *)
LEMMA RestartWorkerKeeps ==
    ASSUME IInv, NEW w \in Workers, RestartWorker(w)
    PROVE  /\ IInv'
           /\ request'[w] = Idle
           /\ \A u \in Workers \ {w} : request'[u] = request[u]
<1>t. /\ TypeOK /\ ClockSound /\ ConfigSound /\ StakesSound /\ RequestsSound /\ NeverAdmittedEarly
      /\ request \in [Workers -> Requesting]
  BY DEF IInv, TypeOK, Requesting
<1>1. /\ UNCHANGED <<now, height, minted, redisUp, keys, refresh, mishaps, rich, poorSince, admitted>>
      /\ linked' = [linked EXCEPT ![w] = redisUp]
      /\ request' = [request EXCEPT ![w] = Idle]
      /\ stakes' = [stakes EXCEPT ![w] = [of |-> {}, until |-> 0]]
      /\ load' = [load EXCEPT ![w] = NoLoad]
      /\ UNCHANGED <<row, sent, past>>
      /\ copy' = [copy EXCEPT ![w] = row]
      /\ pending' = [pending EXCEPT ![w] = None]
  BY DEF RestartWorker, RestartConfig
<1>2. height \in Nat /\ now \in Nat /\ StakeTTL \in Nat /\ MaxTime \in Nat
  BY <1>t, ClockAssumption, GateAssumption DEF TypeOK, ClockTypeOK
<1>3. Idle \in Requesting /\ RequestSound(Idle) /\ Idle.at = "idle"
  BY <1>2 DEF Requesting, Idle, RequestSound
<1>4. /\ request' \in [Workers -> Requesting] /\ request'[w] = Idle
      /\ \A u \in Workers \ {w} : request'[u] = request[u]
  BY <1>t, <1>1, <1>3
<1>5. RequestsSound' BY <1>t, <1>1, <1>3, <1>4 DEF RequestsSound, RequestSound
<1>6. /\ stakes' \in [Workers -> [of : SUBSET Validators, until : 0..(MaxTime + StakeTTL)]]
      /\ stakes'[w].of = {} /\ stakes'[w].until = 0
      /\ \A u \in Workers \ {w} : stakes'[u] = stakes[u]
  BY <1>t, <1>1, <1>2 DEF TypeOK
<1>7. StakesSound' /\ load' \in [Workers -> [of : SUBSET Validators, since : 0..MaxTime]]
  <2>1. /\ StakesSound /\ UNCHANGED <<now, rich, poorSince>> /\ now \in Nat
        /\ load \in [Workers -> [of : SUBSET Validators, since : 0..MaxTime]]
        /\ stakes \in [Workers -> [of : SUBSET Validators, until : 0..(MaxTime + StakeTTL)]]
        /\ load' = [load EXCEPT ![w] = NoLoad] /\ request'[w].at # "metagraph"
        /\ \A u \in Workers \ {w} : request'[u] = request[u] /\ stakes'[u] = stakes[u]
    BY <1>t, <1>1, <1>2, <1>3, <1>4, <1>6 DEF TypeOK
  <2>2. /\ stakes'[w].until <= now + StakeTTL
        /\ \A v \in stakes'[w].of : stakes'[w].until <= poorSince[v] + MaxLoad + StakeTTL
    BY <1>2, <1>6
  <2> QED BY ONLY <2>1, <2>2, LoadOver
<1>8. ClockSound' BY <1>t, <1>1 DEF ClockSound
<1>9. ClockTypeOK' BY <1>t, <1>1 DEF TypeOK, ClockTypeOK
<1>10. ConfigTypeOK' BY <1>t, <1>1 DEF TypeOK, ConfigTypeOK
<1>11. ConfigSound' BY <1>t, <1>1 DEF TypeOK, ConfigTypeOK, ConfigSound, CopyIsPastOrOwn
<1>12. TypeOK' BY <1>t, <1>1, <1>4, <1>6, <1>7, <1>9, <1>10 DEF TypeOK, Requesting
<1> QED BY <1>t, <1>1, <1>4, <1>5, <1>7, <1>8, <1>11, <1>12 DEF IInv, NeverAdmittedEarly

-----------------------------------------------------------------------------
(* At the start nobody knows anything, and the copies are the row.         *)
LEMMA InitHolds == Init => IInv
<1> SUFFICES ASSUME Init PROVE IInv OBVIOUS
<1> USE ClockAssumption, ConfigAssumption, GateAssumption DEF Init
<1>1. ClockTypeOK BY DEF ClockInit, ClockTypeOK, Absent, Stopped
<1>2. ConfigTypeOK /\ ConfigSound
  BY DEF ConfigInit, ConfigTypeOK, ConfigSound, CopyIsPastOrOwn
<1>3. ClockSound BY DEF ClockInit, ClockSound, Absent, Keys, Stopped
<1>4. StakesSound BY DEF StakesSound, ClockInit, Loading, Idle, NoLoad
<1>5. Idle \in Requesting /\ RequestSound(Idle) BY DEF Requesting, Idle, RequestSound, ClockInit
<1>6. RequestsSound BY <1>5 DEF RequestsSound
<1>7. Nobody \in Admitting BY DEF Nobody, Admitting
<1>8. Ahead \in Nat
  <2>1. KeyTTL - 1 \in Nat /\ KeyTTL - 1 <= KeyTTL - 1 /\ BlockTime \in Nat \ {0} OBVIOUS
  <2> QED BY ONLY <2>1, DivisionKeepsOrder DEF Ahead
<1>9. NeverAdmittedEarly BY <1>8 DEF NeverAdmittedEarly, Nobody, Ahead
<1>10. /\ poorSince \in [Validators -> 0..MaxTime]
       /\ stakes \in [Workers -> [of : SUBSET Validators, until : 0..(MaxTime + StakeTTL)]]
       /\ load \in [Workers -> [of : SUBSET Validators, since : 0..MaxTime]]
  BY DEF NoLoad
<1>11. TypeOK BY <1>1, <1>2, <1>5, <1>7, <1>10 DEF TypeOK, Requesting, Admitting
<1> QED BY <1>2, <1>3, <1>4, <1>6, <1>9, <1>11 DEF IInv

(* Nothing at all changes.                                                 *)
LEMMA StutterKeeps ==
    ASSUME IInv, UNCHANGED vars
    PROVE  IInv'
<1> USE DEF IInv, vars, clockVars, configVars
<1>1. ClockTypeOK' /\ ClockSound' BY DEF TypeOK, ClockTypeOK, ClockSound
<1>2. ConfigTypeOK' /\ ConfigSound' BY DEF TypeOK, ConfigTypeOK, ConfigSound, CopyIsPastOrOwn
<1>3. StakesSound' /\ RequestsSound' BY DEF StakesSound, Loading, RequestsSound, RequestSound
<1>4. TypeOK' /\ NeverAdmittedEarly' BY <1>1, <1>2 DEF TypeOK, NeverAdmittedEarly
<1> QED BY <1>1, <1>2, <1>3, <1>4

(* One step keeps everything.                                              *)
LEMMA NextKeeps ==
    ASSUME IInv, [Next]_vars
    PROVE  IInv'
BY ClockStepKeeps, ConfigStepKeeps, LoseStakeKeeps, AskKeeps, LoadStakesKeeps, LoadFailsKeeps,
   AskLoadedKeeps, ReadStampKeeps, FinishLoadKeeps,
   RestartWorkerKeeps, StutterKeeps DEF Next

(* The invariant holds in every reachable state.                           *)
THEOREM Invariance == Spec => []IInv
<1> QED BY InitHolds, NextKeeps, PTL DEF Spec

(* Every variable of the gate, the clock and the configuration is of its kind. *)
THEOREM TypeCorrectness == Spec => []TypeOK
<1>1. IInv => TypeOK BY DEF IInv
<1> QED BY <1>1, Invariance, PTL

(* However long the chain or the background process stalls, no round is    *)
(* admitted further before its first block than the keys live.             *)
THEOREM NobodyAdmittedEarly == Spec => []NeverAdmittedEarly
<1>1. IInv => NeverAdmittedEarly BY DEF IInv
<1> QED BY <1>1, Invariance, PTL

(* What a process goes by was committed, or sent through that process.     *)
THEOREM CopiesPastOrOwn == Spec => []CopyIsPastOrOwn
<1>1. IInv => CopyIsPastOrOwn BY DEF IInv, ConfigSound
<1> QED BY <1>1, Invariance, PTL

(* Nobody passes the authentication longer after having lost the stake than  *)
(* the metagraph takes to arrive and a copy of the stakes lives.             *)
THEOREM StakesAlwaysRecent == Spec => StakeIsRecent
<1> DEFINE Recent == \A w \in Workers : request[w].at # "height" /\ request'[w].at = "height"
                        => now < poorSince[request'[w].by] + MaxLoad + StakeTTL
<1>1. IInv /\ [Next]_vars => [Recent]_vars
  <2> SUFFICES ASSUME IInv, Next, NEW w \in Workers,
                      request[w].at # "height", request'[w].at = "height"
               PROVE  now < poorSince[request'[w].by] + MaxLoad + StakeTTL
    OBVIOUS
  <2>1. CASE ClockStep BY <2>1, ClockStepKeeps
  <2>2. CASE ConfigStep BY <2>2 DEF ConfigStep
  <2>3. CASE \E v \in Validators : LoseStake(v) BY <2>3 DEF LoseStake
  <2>4. ASSUME NEW u \in Workers, NEW v \in Validators, NEW s \in StartBlocks, Ask(u, v, s)
        PROVE  now < poorSince[request'[w].by] + MaxLoad + StakeTTL
    BY <2>4, AskKeeps
  <2>5. ASSUME NEW u \in Workers, AskLoaded(u)
        PROVE  now < poorSince[request'[w].by] + MaxLoad + StakeTTL
    BY <2>5, AskLoadedKeeps
  <2>6. ASSUME NEW u \in Workers, NEW v \in Validators, NEW s \in StartBlocks,
               LoadStakes(u, v, s)
        PROVE  FALSE
    BY <2>6, LoadStakesKeeps
  <2>7. ASSUME NEW u \in Workers, LoadFails(u) \/ FinishLoad(u) \/ RestartWorker(u)
        PROVE  FALSE
    BY <2>7, LoadFailsKeeps, FinishLoadKeeps, RestartWorkerKeeps DEF Idle
  <2>8. ASSUME NEW u \in Workers, ReadStamp(u) PROVE FALSE BY <2>8, ReadStampKeeps
  <2> QED BY <2>1, <2>2, <2>3, <2>4, <2>5, <2>6, <2>7, <2>8 DEF Next
<1> QED BY <1>1, Invariance, PTL DEF Spec, StakeIsRecent

-----------------------------------------------------------------------------
(* How many blocks a refresh may cost beyond the time that is estimated.   *)
Behind == (MaxLag + BlockTime - 1) \div BlockTime

(* A chain of height h made its last block at m: the blocks after b were     *)
(* made from t on, one per BlockTime at most.                                *)
Apace(h, m, b, t) == h > b => (h - b - 1) * BlockTime + t <= m

(* As long as nothing went wrong, the background process stores what it    *)
(* fetched MaxLag before at most.                                          *)
RefreshTimely ==
    /\ linked[Updater] => redisUp
    /\ refresh.at \in {"idle", "fetched", "stored"} => linked[Updater]
    /\ Busy => /\ refresh.since <= now /\ now <= refresh.since + MaxLag
               /\ Apace(height, minted, refresh.block, refresh.since)
    /\ refresh.at = "stored" /\ Present("current_block") =>
           keys["current_block"].value = refresh.block

(* What is stored was the height of the chain MaxLag before its time stamp *)
(* at most, also while the stamp is still the one of the store before.     *)
KeysTimely ==
    Present("current_block") =>
        Apace(height, minted, keys["current_block"].value, keys["block_timestamp"].value - MaxLag)

(* A reading nothing came between is of the keys as they are; one that is  *)
(* over knows the height up to the lag.                                    *)
ReadingTimely(r) ==
    ~r.torn =>
        /\ r.at = "height" => Present("current_block") /\ r.base = keys["current_block"].value
        /\ r.at = "loading" => r.height <= r.block + 1 + Behind

AdmittedTimely ==
    admitted # Nobody /\ ~admitted.torn => admitted.then <= admitted.end + 1 + Behind

Timely ==
    mishaps = 0 =>
        /\ RefreshTimely /\ KeysTimely /\ AdmittedTimely
        /\ \A w \in Workers : ReadingTimely(request[w])

-----------------------------------------------------------------------------
(* Counting whole divisions of two terms: what is short of the sum of the  *)
(* two is short of one of them and the other rounded up.                   *)
LEMMA DivisionOfSum ==
    ASSUME NEW k \in Int, NEW a \in Nat, NEW m \in Nat, NEW d \in Nat \ {0}, k * d <= a + m
    PROVE  k <= a \div d + (m + d - 1) \div d
<1> DEFINE p == a \div d
           q == (m + d - 1) \div d
<1>1. p \in Int /\ a = d * p + (a % d) /\ a % d \in 0..(d - 1)
  OBVIOUS
<1>2. q \in Int /\ m + d - 1 = d * q + ((m + d - 1) % d) /\ (m + d - 1) % d \in 0..(d - 1)
  <2>1. m + d - 1 \in Nat OBVIOUS
  <2> QED BY <2>1
<1> HIDE DEF p, q
<1>3. a <= d * p + d - 1 /\ m <= d * q BY <1>1, <1>2
<1>4. k <= p + q
  <2> SUFFICES ASSUME p + q + 1 <= k PROVE FALSE BY <1>1, <1>2
  <2>1. d * (p + q + 1) <= d * k BY <1>1, <1>2
  <2>2. d * (p + q + 1) = d * p + d * q + d BY <1>1, <1>2
  <2>3. d * k = k * d OBVIOUS
  <2>4. d * p \in Int /\ d * q \in Int /\ k * d \in Int BY <1>1, <1>2
  <2> QED BY <1>3, <2>1, <2>2, <2>3, <2>4
<1> QED BY <1>4 DEF p, q

(* What was made since stays true of an earlier time.                      *)
LEMMA ApaceEarlier ==
    ASSUME NEW h \in Nat, NEW m \in Int, NEW b \in Nat, NEW t \in Int, NEW u \in Int, u <= t,
           Apace(h, m, b, t)
    PROVE  Apace(h, m, b, u)
<1>1. BlockTime \in Nat BY ClockAssumption
<1>2. (h - b - 1) * BlockTime \in Int BY <1>1
<1> QED BY <1>1, <1>2 DEF Apace

(* One more block: what was counted before is one block further back.      *)
LEMMA ApaceCounts ==
    ASSUME NEW h \in Nat, NEW m \in Int, NEW n \in Int, NEW b \in Nat, NEW t \in Int, b <= h, t <= n,
           m + BlockTime <= n, Apace(h, m, b, t)
    PROVE  Apace(h + 1, n, b, t)
<1>1. BlockTime \in Nat BY ClockAssumption
<1> DEFINE made == (h - b - 1) * BlockTime
<1>2. made \in Int /\ (h + 1 - b - 1) * BlockTime = made + BlockTime BY <1>1
<1> HIDE DEF made
<1>3. h > b => made + t <= m BY DEF Apace, made
<1>4. CASE h > b BY <1>1, <1>2, <1>3, <1>4 DEF Apace
<1>5. CASE h = b
  <2>1. (h + 1 - b - 1) * BlockTime = 0 BY <1>1, <1>5
  <2> QED BY <1>1, <1>5, <2>1 DEF Apace
<1> QED BY <1>4, <1>5

(* The clock keeps what it stores timely.                                  *)
LEMMA ClockKeepsTimely ==
    ASSUME ClockTypeOK, ClockSound, ClockNext, mishaps = 0, mishaps' = 0, RefreshTimely, KeysTimely
    PROVE  RefreshTimely' /\ KeysTimely'
<1> USE ClockAssumption
<1> DEFINE base  == keys["current_block"].value
           stamp == keys["block_timestamp"].value
<1>t. /\ now \in Nat /\ height \in Nat /\ minted \in Nat /\ minted <= now /\ base \in Nat /\ stamp \in Nat
      /\ refresh.block \in Nat /\ refresh.since \in Nat /\ MaxLag \in Nat /\ KeyTTL \in Nat \ {0}
      /\ base <= height /\ refresh.block <= height /\ stamp <= now
      /\ keys["current_block"].until \in Nat /\ redisUp \in BOOLEAN /\ mishaps \in Nat
  BY DEF ClockTypeOK, ClockSound, Keys
<1>1. CASE Tick
  <2>1. /\ now' = now + 1 /\ (Busy => now < refresh.since + MaxLag)
        /\ UNCHANGED <<height, minted, redisUp, linked, refresh, mishaps>>
        /\ keys'["current_block"] = keys["current_block"] \/ keys'["current_block"] = Absent
        /\ keys'["block_timestamp"] = keys["block_timestamp"] \/ keys'["block_timestamp"] = Absent
    BY <1>1 DEF Tick, Keys
  <2>2. Absent.until = 0 /\ Absent.value = 0 BY DEF Absent
  <2>3. Present("current_block")' => Present("current_block") /\ base' = base
    BY <1>t, <2>1, <2>2 DEF Present
  <2>4. stamp' \in Nat /\ stamp' <= stamp BY <1>t, <2>1, <2>2
  <2>6. RefreshTimely' BY <1>t, <2>1, <2>3 DEF RefreshTimely, Busy
  <2>7. KeysTimely'
    <3> SUFFICES ASSUME Present("current_block")'
                 PROVE  Apace(height', minted', base', stamp' - MaxLag)
      BY DEF KeysTimely
    <3>1. Apace(height, minted, base, stamp - MaxLag) BY <2>3 DEF KeysTimely
    <3>2. stamp - MaxLag \in Int /\ stamp' - MaxLag \in Int /\ stamp' - MaxLag <= stamp - MaxLag
      BY <1>t, <2>4
    <3>3. \A t \in Int, u \in Int : u <= t /\ Apace(height, minted, base, t) => Apace(height, minted, base, u)
      BY <1>t, ApaceEarlier
    <3>4. Apace(height, minted, base, stamp' - MaxLag) BY <3>1, <3>2, <3>3
    <3> QED BY <2>1, <2>3, <3>4
  <2> QED BY <2>6, <2>7
<1>2. CASE Mint
  <2>1. /\ height' = height + 1 /\ minted' = now /\ minted + BlockTime <= now
        /\ UNCHANGED <<now, redisUp, keys, linked, refresh, mishaps>>
    BY <1>2, <1>t DEF Mint
  <2>2. \A b \in Nat, t \in Int : b <= height /\ t <= now /\ Apace(height, minted, b, t)
            => Apace(height', minted', b, t)
    BY <1>t, <2>1, ApaceCounts
  <2>3. RefreshTimely' BY <1>t, <2>1, <2>2 DEF RefreshTimely, Busy, Present
  <2>4. stamp - MaxLag \in Int /\ stamp - MaxLag <= now BY <1>t
  <2>5. KeysTimely' BY <1>t, <2>1, <2>2, <2>4 DEF KeysTimely, Present
  <2> QED BY <2>3, <2>5
<1>3. CASE RedisFails \/ UpdaterDies \/ \E w \in Workers : ClearCache(w)
  BY <1>3, <1>t DEF RedisFails, UpdaterDies, ClearCache
<1>4. CASE RedisReturns
  <2>1. /\ ~redisUp /\ redisUp' = TRUE /\ ~linked[Updater]
        /\ UNCHANGED <<now, height, minted, linked, refresh, mishaps>>
        /\ keys' = keys \/ keys' = [key \in Keys |-> Absent]
    BY <1>4 DEF RedisReturns, RefreshTimely
  <2>2. RefreshTimely' BY <2>1 DEF RefreshTimely, Busy
  <2>3. CASE keys' = keys BY <2>1, <2>2, <2>3 DEF KeysTimely, Present
  <2>4. CASE keys' = [key \in Keys |-> Absent]
    <3>1. ~Present("current_block")' BY <1>t, <2>1, <2>4 DEF Present, Keys, Absent
    <3> QED BY <2>2, <3>1 DEF KeysTimely
  <2> QED BY <2>1, <2>3, <2>4
<1>5. ASSUME UNCHANGED <<now, height, minted, redisUp, keys>> PROVE KeysTimely'
  BY <1>5 DEF KeysTimely, Present
<1>6. CASE UpdaterStarts \/ EnterLoop
  <2>1. linked' \in {linked, [linked EXCEPT ![Updater] = redisUp]} /\ refresh'.at \in {"waiting", "idle"}
        /\ (refresh'.at = "idle" => linked'[Updater] /\ linked' = linked)
        /\ UNCHANGED <<now, height, minted, redisUp, keys, mishaps>>
    BY <1>6 DEF UpdaterStarts, EnterLoop, ClockTypeOK
  <2>2. linked'[Updater] => redisUp BY <2>1 DEF RefreshTimely, ClockTypeOK, Processes
  <2> QED BY <1>5, <2>1, <2>2 DEF RefreshTimely, Busy
<1>7. CASE FetchBlock
  <2>1. /\ refresh' = [at |-> "fetched", block |-> height, since |-> now] /\ refresh.at = "idle"
        /\ UNCHANGED <<now, height, minted, redisUp, keys, linked, mishaps>>
    BY <1>7 DEF FetchBlock
  <2>2. Apace(height, minted, height, now) BY <1>t DEF Apace
  <2>3. linked[Updater] BY <2>1 DEF RefreshTimely
  <2> QED BY <1>5, <1>t, <2>1, <2>2, <2>3 DEF RefreshTimely, Busy
<1>8. CASE StoreFirst
  <2>1. /\ refresh.at = "fetched" /\ refresh'.at = "stored" /\ refresh'.block = refresh.block
        /\ refresh'.since = refresh.since /\ Store("current_block", refresh.block)
        /\ UNCHANGED <<now, height, minted, redisUp, linked, mishaps>>
    BY <1>8 DEF StoreFirst, FirstKey, Fresh, ClockTypeOK
  <2>2. redisUp /\ linked[Updater] BY <2>1 DEF RefreshTimely
  <2>3. keys'["current_block"].value = refresh.block /\ stamp' = stamp
    BY <2>1, <2>2 DEF Store, ClockTypeOK, Keys
  <2>4. RefreshTimely' BY <2>1, <2>2, <2>3 DEF RefreshTimely, Busy
  <2>5. Apace(height, minted, refresh.block, refresh.since) /\ stamp - MaxLag <= refresh.since
    BY <1>t, <2>1 DEF RefreshTimely, Busy
  <2>6. Apace(height, minted, refresh.block, stamp - MaxLag) BY <1>t, <2>5, ApaceEarlier
  <2> QED BY <2>1, <2>3, <2>4, <2>6 DEF KeysTimely
<1>9. CASE StoreSecond
  <2>1. /\ refresh.at = "stored" /\ refresh'.at = "idle" /\ Store("block_timestamp", now)
        /\ UNCHANGED <<now, height, minted, redisUp, linked, mishaps>>
    BY <1>9 DEF StoreSecond, FirstKey, Fresh, ClockTypeOK, Keys, Stopped
  <2>2. redisUp /\ linked[Updater] BY <2>1 DEF RefreshTimely
  <2>3. keys'["current_block"] = keys["current_block"] /\ stamp' = now
    BY <2>1, <2>2 DEF Store, ClockTypeOK, Keys
  <2>4. RefreshTimely' BY <2>1, <2>2 DEF RefreshTimely, Busy
  <2>5. Apace(height, minted, refresh.block, refresh.since) /\ now - MaxLag <= refresh.since
    BY <1>t, <2>1 DEF RefreshTimely, Busy
  <2>6. Apace(height, minted, refresh.block, now - MaxLag) BY <1>t, <2>5, ApaceEarlier
  <2>7. Present("current_block")' => base' = refresh.block
    BY <2>1, <2>3 DEF RefreshTimely, Present
  <2> QED BY <2>1, <2>3, <2>4, <2>6, <2>7 DEF KeysTimely
<1> QED BY <1>1, <1>2, <1>3, <1>4, <1>6, <1>7, <1>8, <1>9 DEF ClockNext, UpdaterSteps

(* A reading of keys that stay is not behind them; a store tears it.       *)
LEMMA ClockStepKeepsTimely ==
    ASSUME IInv, Timely, ClockStep
    PROVE  Timely'
<1>t. TypeOK /\ ClockTypeOK /\ ClockSound /\ request \in [Workers -> Requesting]
  BY DEF IInv, TypeOK, Requesting
<1>1. ClockNext /\ UNCHANGED admitted BY DEF ClockStep
<1>2. SUFFICES ASSUME mishaps' = 0 PROVE Timely' BY DEF Timely
<1>3. mishaps = 0
  BY <1>t, <1>1, <1>2 DEF ClockTypeOK, ClockNext, Tick, Mint, RedisFails, RedisReturns, ClearCache,
     UpdaterSteps, UpdaterStarts, EnterLoop, FetchBlock, StoreFirst, StoreSecond, UpdaterDies
<1>4. RefreshTimely' /\ KeysTimely' BY <1>t, <1>1, <1>2, <1>3, ClockKeepsTimely DEF Timely
<1>5. AdmittedTimely' BY <1>1, <1>3 DEF Timely, AdmittedTimely
<1>6. ASSUME NEW w \in Workers PROVE ReadingTimely(request[w])'
  <2>1. ReadingTimely(request[w]) BY <1>3 DEF Timely
  <2>2. CASE keys' # keys
    <3>1. request'[w] = Torn(request[w]) BY <2>2 DEF ClockStep
    <3>2. request[w].at = "height" => Torn(request[w]).torn BY <1>t DEF Torn, Requesting
    <3>3. Torn(request[w]).torn = FALSE => request[w].torn = FALSE BY <1>t DEF Torn, Requesting
    <3>4. Torn(request[w]).at = request[w].at /\ Torn(request[w]).block = request[w].block
          /\ Torn(request[w]).height = request[w].height /\ Torn(request[w]).torn \in BOOLEAN
      BY <1>t, TornIs DEF Requesting
    <3> QED BY <2>1, <3>1, <3>2, <3>3, <3>4 DEF ReadingTimely
  <2>3. CASE keys' = keys
    <3>1. request' = request BY <2>3 DEF ClockStep
    <3>2. Present("current_block") => Present("current_block")'
      <4>1. CASE Tick
        <5>1. /\ now \in Nat /\ now' = now + 1 /\ keys["current_block"].until \in Nat
              /\ keys["current_block"] = IF now + 1 < keys["current_block"].until
                                         THEN keys["current_block"] ELSE Absent
          BY <1>t, <2>3, <4>1 DEF Tick, Keys, ClockTypeOK
        <5> QED BY <2>3, <5>1 DEF Present, Absent
      <4>2. CASE now' = now BY <2>3, <4>2 DEF Present
      <4> QED BY <1>1, <4>1, <4>2 DEF ClockNext, Mint, RedisFails, RedisReturns, ClearCache, UpdaterSteps,
                 UpdaterStarts, EnterLoop, FetchBlock, StoreFirst, StoreSecond, UpdaterDies
    <3> QED BY <2>1, <2>3, <3>1, <3>2 DEF ReadingTimely
  <2> QED BY <2>2, <2>3
<1> QED BY <1>4, <1>5, <1>6 DEF Timely

(* What leaves the clock alone and every reading but one.                  *)
LEMMA ReadersKeepTimely ==
    ASSUME Timely, NEW w \in Workers,
           UNCHANGED <<now, height, minted, redisUp, keys, refresh, mishaps>>,
           linked'[Updater] = linked[Updater],
           \A u \in Workers \ {w} : request'[u] = request[u],
           mishaps = 0 => ReadingTimely(request[w])' /\ AdmittedTimely'
    PROVE  Timely'
<1>1. SUFFICES ASSUME mishaps' = 0 PROVE Timely' BY DEF Timely
<1>2. /\ mishaps = 0 /\ RefreshTimely /\ KeysTimely /\ (\A u \in Workers : ReadingTimely(request[u]))
      /\ ReadingTimely(request[w])' /\ AdmittedTimely'
  BY <1>1 DEF Timely
<1>3. RefreshTimely' BY <1>2 DEF RefreshTimely, Busy, Present
<1>4. KeysTimely' BY <1>2 DEF KeysTimely, Present
<1>5. \A u \in Workers : ReadingTimely(request[u])' BY <1>2 DEF ReadingTimely, Present
<1> QED BY <1>2, <1>3, <1>4, <1>5 DEF Timely

(* The first read is of what is kept.                                      *)
LEMMA PassKeepsTimely ==
    ASSUME IInv, Timely, NEW w \in Workers, NEW v, NEW s, NEW enough \in BOOLEAN,
           PassOrRefuse(w, v, s, enough), UNCHANGED clockVars, UNCHANGED admitted
    PROVE  Timely'
<1> DEFINE asked == Asked(v, s, keys["current_block"].value)
<1>t. request \in [Workers -> Requesting] BY DEF IInv, TypeOK, Requesting
<1>1. UNCHANGED <<now, height, minted, redisUp, keys, linked, refresh, mishaps, admitted>>
  BY DEF clockVars
<1>3. asked.at = "height" /\ asked.base = keys["current_block"].value BY DEF Asked
<1>6. request' = [request EXCEPT ![w] =
           IF enough /\ Readable(w, "current_block") THEN asked ELSE Idle]
  BY DEF PassOrRefuse
<1> HIDE DEF asked
<1>2. /\ \A u \in Workers \ {w} : request'[u] = request[u]
      /\ request'[w] = Idle \/ (request'[w] = asked /\ Present("current_block"))
  BY <1>t, <1>6 DEF Readable
<1>4. ReadingTimely(request[w])'
  <2>1. CASE request'[w] = Idle BY <2>1 DEF ReadingTimely, Idle
  <2>2. CASE request'[w] = asked /\ Present("current_block")
    BY <1>1, <1>3, <2>2 DEF ReadingTimely, Present
  <2> QED BY <1>2, <2>1, <2>2
<1>5. mishaps = 0 => AdmittedTimely' BY <1>1 DEF Timely, AdmittedTimely
<1> QED BY <1>1, <1>2, <1>4, <1>5, ReadersKeepTimely

(* A request that waits for the metagraph has read nothing.                *)
LEMMA LoadingKeepsTimely ==
    ASSUME IInv, Timely, NEW w \in Workers, NEW v \in Validators, NEW s \in StartBlocks,
           LoadStakes(w, v, s)
    PROVE  Timely'
<1>1. request \in [Workers -> Requesting] BY DEF IInv, TypeOK, Requesting
<1>2. UNCHANGED <<now, height, minted, redisUp, keys, linked, refresh, mishaps, admitted>>
  BY DEF LoadStakes, clockVars
<1>3. /\ \A u \in Workers \ {w} : request'[u] = request[u]
      /\ request'[w] = Claimed(v, s)
  BY <1>1 DEF LoadStakes
<1>4. Claimed(v, s).at = "metagraph" BY DEF Idle, Claimed
<1>5. ReadingTimely(request[w])' BY <1>3, <1>4 DEF ReadingTimely
<1>6. mishaps = 0 => AdmittedTimely' BY <1>2 DEF Timely, AdmittedTimely
<1> QED BY <1>2, <1>3, <1>5, <1>6, ReadersKeepTimely

(* An estimate from keys that are timely is not far behind the chain.      *)
LEMMA EstimateIsTimely ==
    ASSUME ClockTypeOK, ClockSound, KeysTimely, Present("current_block")
    PROVE  /\ Behind \in Nat
           /\ height <= Estimate(keys["current_block"].value, keys["block_timestamp"].value, now)
                        + 1 + Behind
<1> USE ClockAssumption
<1> DEFINE base  == keys["current_block"].value
           stamp == keys["block_timestamp"].value
           time  == now - stamp
<1>1. /\ height \in Nat /\ minted \in Nat /\ minted <= now /\ base \in Nat /\ stamp \in Nat
      /\ now \in Nat /\ stamp <= now /\ MaxLag \in Nat /\ BlockTime \in Nat \ {0} /\ time \in Nat
  BY DEF ClockTypeOK, ClockSound, Keys
<1>2. Estimate(base, stamp, now) = base + time \div BlockTime
  <2>1. CASE now > stamp BY <2>1 DEF Estimate
  <2>2. CASE now = stamp BY <1>1, <2>2 DEF Estimate
  <2> QED BY <1>1, <2>1, <2>2
<1>3. time \div BlockTime \in Nat /\ Behind \in Nat
  <2>1. MaxLag + BlockTime - 1 \in Nat BY <1>1
  <2> QED BY <1>1, <2>1, DivisionKeepsOrder DEF Behind
<1>4. height > base => height - base - 1 <= time \div BlockTime + Behind
  <2> SUFFICES ASSUME height > base PROVE height - base - 1 <= time \div BlockTime + Behind OBVIOUS
  <2> DEFINE made == (height - base - 1) * BlockTime
  <2>1. made \in Int BY <1>1
  <2>2. made + (stamp - MaxLag) <= minted BY DEF KeysTimely, Apace
  <2> HIDE DEF made
  <2>3. made <= time + MaxLag BY <1>1, <2>1, <2>2
  <2>4. height - base - 1 \in Int BY <1>1
  <2> HIDE DEF time
  <2> QED BY <1>1, <2>3, <2>4, DivisionOfSum DEF Behind, made
<1> QED BY <1>1, <1>2, <1>3, <1>4

(* Who passes the window check with a height that is not far behind.       *)
LEMMA AdmissionIsTimely ==
    ASSUME NEW r \in Requesting, NEW block \in Nat, NEW then \in Nat, NEW config \in Configs,
           Behind \in Nat, ~r.torn => then <= block + 1 + Behind, InWindow(r.start, block, config),
           admitted' = Admission(r, then, config)
    PROVE  AdmittedTimely'
<1>1. RoundBlocks[config] \in Nat /\ r.start \in Nat BY GateAssumption DEF Requesting
<1>2. admitted'.torn = r.torn /\ admitted'.then = then /\ admitted'.end = r.start + RoundBlocks[config]
  BY DEF Admission
<1> QED BY <1>1, <1>2 DEF AdmittedTimely, InWindow

(* The end of the reading: an admission, or the wait with what was read.   *)
LEMMA ReadStampKeepsTimely ==
    ASSUME IInv, Timely, NEW w \in Workers, ReadStamp(w)
    PROVE  Timely'
<1>t. /\ TypeOK /\ ClockTypeOK /\ ClockSound /\ request \in [Workers -> Requesting] /\ height \in Nat
  BY DEF IInv, TypeOK, Requesting, ClockTypeOK
<1> DEFINE r == request[w]
           block == Estimate(r.base, keys["block_timestamp"].value, now)
<1>1. UNCHANGED <<now, height, minted, redisUp, keys, linked, refresh, mishaps>>
  BY DEF ReadStamp, clockVars
<1>2. r \in Requesting /\ r.at = "height" BY <1>t DEF ReadStamp
<1>3. /\ Present("block_timestamp") => block \in Nat
      /\ mishaps = 0 /\ ~r.torn => Behind \in Nat /\ height <= block + 1 + Behind
  <2>1. r.base \in Nat BY <1>2 DEF Requesting
  <2>2. mishaps = 0 /\ ~r.torn =>
            KeysTimely /\ Present("current_block") /\ r.base = keys["current_block"].value
    BY <1>2 DEF Timely, ReadingTimely
  <2> QED BY <1>t, <2>1, <2>2, EstimateIsBounded, EstimateIsTimely
<1> HIDE DEF block
<1>4. Behind \in Nat
  <2>1. MaxLag + BlockTime - 1 \in Nat /\ BlockTime \in Nat \ {0} BY ClockAssumption
  <2> QED BY <2>1, DivisionKeepsOrder DEF Behind
<1>5. /\ \A u \in Workers \ {w} : request'[u] = request[u]
      /\ mishaps = 0 => ReadingTimely(request[w])' /\ AdmittedTimely'
  <2>1. CASE request' = [request EXCEPT ![w] = Idle] /\ UNCHANGED admitted
    BY <1>t, <2>1 DEF Timely, AdmittedTimely, ReadingTimely, Idle
  <2>2. CASE /\ copy[w] # None /\ Present("block_timestamp")
             /\ request' = [request EXCEPT ![w] = Idle]
             /\ InWindow(r.start, block, copy[w]) /\ admitted' = Admission(r, height, copy[w])
    <3>1. copy[w] \in Configs BY <1>t, <2>2, GateAssumption DEF TypeOK, ConfigTypeOK
    <3>2. mishaps = 0 => AdmittedTimely'
      BY <1>t, <1>2, <1>3, <1>4, <2>2, <3>1, AdmissionIsTimely
    <3> QED BY <1>t, <2>2, <3>2 DEF ReadingTimely, Idle
  <2>3. CASE /\ Present("block_timestamp") /\ row # None /\ UNCHANGED admitted
             /\ request' = [request EXCEPT ![w].at = "loading", ![w].block = block,
                                           ![w].height = height, ![w].config = row]
    <3>1. row \in {None} \cup Configs BY <1>t DEF TypeOK, ConfigTypeOK
    <3>2. /\ request'[w].block = block /\ request'[w].height = height
          /\ request'[w].at = "loading" /\ request'[w].torn = r.torn
          /\ \A u \in Workers \ {w} : request'[u] = request[u]
      BY <1>t, <1>2, <1>3, <2>3, <3>1, LoadingIs
    <3>3. mishaps = 0 => ReadingTimely(request[w])' BY <1>3, <3>2 DEF ReadingTimely
    <3> QED BY <2>3, <3>2, <3>3 DEF Timely, AdmittedTimely
  <2> QED BY <2>1, <2>2, <2>3 DEF ReadStamp, Readable, block
<1> QED BY <1>1, <1>5, ReadersKeepTimely

(* The configuration is there: the check goes by the height read before.   *)
LEMMA FinishLoadKeepsTimely ==
    ASSUME IInv, Timely, NEW w \in Workers, FinishLoad(w)
    PROVE  Timely'
<1>t. TypeOK /\ request \in [Workers -> Requesting] /\ RequestSound(request[w])
  BY DEF IInv, TypeOK, Requesting, RequestsSound
<1> DEFINE r == request[w]
<1>1. UNCHANGED <<now, height, minted, redisUp, keys, linked, refresh, mishaps>>
  BY DEF FinishLoad, clockVars
<1>2. /\ r \in Requesting /\ r.at = "loading" /\ r.config \in Configs
      /\ r.block \in Nat /\ r.height \in Nat
  BY <1>t DEF FinishLoad, Requesting, RequestSound
<1>3. /\ \A u \in Workers \ {w} : request'[u] = request[u]
      /\ request'[w] = Idle
  BY <1>t DEF FinishLoad
<1>4. Behind \in Nat
  <2>1. MaxLag + BlockTime - 1 \in Nat /\ BlockTime \in Nat \ {0} BY ClockAssumption
  <2> QED BY <2>1, DivisionKeepsOrder DEF Behind
<1>5. mishaps = 0 => AdmittedTimely'
  <2>1. CASE UNCHANGED admitted BY <2>1 DEF Timely, AdmittedTimely
  <2>2. CASE InWindow(r.start, r.block, r.config) /\ admitted' = Admission(r, r.height, r.config)
    <3>1. mishaps = 0 /\ ~r.torn => r.height <= r.block + 1 + Behind
      BY <1>2 DEF Timely, ReadingTimely
    <3> QED BY <1>2, <1>4, <2>2, <3>1, AdmissionIsTimely
  <2> QED BY <2>1, <2>2 DEF FinishLoad
<1>6. ReadingTimely(request[w])' BY <1>3 DEF ReadingTimely, Idle
<1> QED BY <1>1, <1>3, <1>5, <1>6, ReadersKeepTimely

(* A new process reads nothing yet; the background process is another one. *)
LEMMA RestartKeepsTimely ==
    ASSUME IInv, Timely, NEW w \in Workers, RestartWorker(w)
    PROVE  Timely'
<1>1. request \in [Workers -> Requesting] /\ linked \in [Processes -> BOOLEAN]
  BY DEF IInv, TypeOK, Requesting, ClockTypeOK
<1>2. linked'[Updater] = linked[Updater] BY <1>1, ClockAssumption DEF RestartWorker, Processes
<1>3. /\ \A u \in Workers \ {w} : request'[u] = request[u]
      /\ request'[w] = Idle
  BY <1>1 DEF RestartWorker
<1>4. ReadingTimely(request[w])' BY <1>3 DEF ReadingTimely, Idle
<1>5. mishaps = 0 => AdmittedTimely' BY DEF RestartWorker, Timely, AdmittedTimely
<1> QED BY <1>2, <1>3, <1>4, <1>5, ReadersKeepTimely DEF RestartWorker

(* Nothing the clock, the readings or the admission are made of changes.   *)
LEMMA OthersKeepTimely ==
    ASSUME Timely, UNCHANGED <<clockVars, request, admitted>>
    PROVE  Timely'
BY DEF Timely, RefreshTimely, KeysTimely, AdmittedTimely, ReadingTimely, Busy, Present, clockVars

(* At the start nobody has read or stored a height.                        *)
LEMMA InitIsTimely == Init => Timely
<1> SUFFICES ASSUME Init PROVE Timely OBVIOUS
<1> USE DEF Init, ClockInit
<1>1. RefreshTimely BY DEF RefreshTimely, Busy, Stopped, Processes
<1>2. KeysTimely BY DEF KeysTimely, Present, Absent, Keys
<1>3. AdmittedTimely BY DEF AdmittedTimely
<1>4. \A w \in Workers : ReadingTimely(request[w]) BY DEF ReadingTimely, Idle
<1> QED BY <1>1, <1>2, <1>3, <1>4 DEF Timely

(* As long as Redis answers, nobody clears it and the background process   *)
(* lives, a start whose two reads no store came between is admitted no     *)
(* later after the end of its round than a refresh takes, and a block.     *)
THEOREM LateByTheLagAtMost == Spec => []LateByTheLagOnly
<1>1. Init => Timely BY InitIsTimely
<1>2. IInv /\ Timely /\ [Next]_vars => Timely'
  <2>1. IInv /\ Timely /\ Next => Timely'
    <3> SUFFICES ASSUME IInv, Timely, Next PROVE Timely' OBVIOUS
    <3>1. ASSUME NEW w \in Workers, NEW v \in Validators, NEW s \in StartBlocks,
                 LoadStakes(w, v, s) \/ Ask(w, v, s)
          PROVE  Timely'
      <4>1. (AuthDisabled \/ v \in stakes[w].of) \in BOOLEAN OBVIOUS
      <4>2. CASE Ask(w, v, s) BY <4>1, <4>2, PassKeepsTimely DEF Ask
      <4> QED BY <3>1, <4>2, LoadingKeepsTimely
    <3>2. ASSUME NEW w \in Workers, LoadFails(w) PROVE Timely'
      <4>1. request \in [Workers -> Requesting] BY DEF IInv, TypeOK, Requesting
      <4>2. UNCHANGED <<now, height, minted, redisUp, keys, linked, refresh, mishaps, admitted>>
        BY <3>2 DEF LoadFails, clockVars
      <4>3. request'[w] = Idle /\ \A u \in Workers \ {w} : request'[u] = request[u]
        BY <3>2, <4>1 DEF LoadFails
      <4>4. ReadingTimely(request[w])' BY <4>3 DEF ReadingTimely, Idle
      <4>5. mishaps = 0 => AdmittedTimely' BY <4>2 DEF Timely, AdmittedTimely
      <4> QED BY <4>2, <4>3, <4>4, <4>5, ReadersKeepTimely
    <3>3. ASSUME NEW w \in Workers, AskLoaded(w) PROVE Timely'
      <4>1. (request[w].by \in load[w].of) \in BOOLEAN OBVIOUS
      <4> QED BY <3>3, <4>1, PassKeepsTimely DEF AskLoaded
    <3>4. CASE ClockStep \/ ConfigStep \/ \E v \in Validators : LoseStake(v)
      BY <3>4, ClockStepKeepsTimely, OthersKeepTimely DEF ConfigStep, LoseStake
    <3>5. ASSUME NEW w \in Workers, ReadStamp(w) \/ FinishLoad(w) \/ RestartWorker(w)
          PROVE  Timely'
      BY <3>5, ReadStampKeepsTimely, FinishLoadKeepsTimely, RestartKeepsTimely
    <3> QED BY <3>1, <3>2, <3>3, <3>4, <3>5 DEF Next
  <2>2. Timely /\ UNCHANGED vars => Timely' BY OthersKeepTimely DEF vars
  <2> QED BY <2>1, <2>2
<1>3. Timely => LateByTheLagOnly BY DEF Timely, AdmittedTimely, LateByTheLagOnly, Behind
<1> QED BY <1>1, <1>2, <1>3, Invariance, PTL DEF Spec

=============================================================================
