------------------------- MODULE SeasonLeadership -------------------------
(***************************************************************************)
(* Who leads a season: what finish_round stores of a round's rewards in    *)
(* round_validator_miners, of its leadership in round_summary, and of the  *)
(* season's leader in seasons.                                             *)
(*                                                                         *)
(* Every validator finishes its own row of a round: it stores its rewards, *)
(* makes the rewards of the round the same for all its validators (the     *)
(* main validator's, if it has any), and, when it may speak for the round, *)
(* writes the round's leadership and recomputes the season's. A backup     *)
(* never overwrites a summary of the main validator.                       *)
(*                                                                         *)
(* A request is one database transaction and one action. A validator has   *)
(* one row per round. Of a miner the reward and the rank after consensus   *)
(* are modelled; scores and times are left out, and so are the columns of  *)
(* what a validator measured itself, best_local_reward and its kin.        *)
(* Whether a backup may speak is CanonicalRounds' Authoritative, a free    *)
(* choice here, and the round after a round exists once that one is over:  *)
(* the main validator finished it, or the reconciler did                   *)
(* (StatusFollowsMain there).                                              *)
(***************************************************************************)
EXTENDS Integers

CONSTANTS
    Validators,     \* the validator uids
    Main,           \* the main one
    Miners,         \* the miner uids that are not BURN_UID
    LastRound,      \* bound: the rounds of the season are 1..LastRound
    TopReward,      \* rewards are 0..TopReward
    LastRank,       \* ranks are 1..LastRank; 9999 stands for none
    Improvement,    \* percentage_to_dethrone
    Restarting,     \* bound: who starts again and registers miners, in which round
    Reports,        \* what finish payloads and agent runs say, see IsReport
    None            \* NULL

Rounds == 1..LastRound
Rewards == 0..TopReward
Ranks == 1..LastRank
Leaders == [uid : Miners, reward : Rewards]
Summaries == [main : BOOLEAN, before : Leaders \cup {None},
              candidate : Leaders \cup {None}, after : Leaders, dethroned : BOOLEAN]
Tables(values) == UNION {[known -> values] : known \in SUBSET Miners}

(* rewards: what the miners get, of the post-consensus payload if there is *)
(* one (reported) and of the agent runs if not. ranks: the payload's,      *)
(* which nothing compares with the rewards; one miner at most ranks first  *)
(* there. The other fields are the payload's summary block.                *)
IsReport(rep) ==
    /\ rep.rewards \in Tables(Rewards) /\ rep.reported \in BOOLEAN
    /\ rep.ranks \in Tables(Ranks \cup {None})
    /\ rep.reported => DOMAIN rep.ranks = DOMAIN rep.rewards
    /\ \A m, n \in DOMAIN rep.ranks : rep.ranks[m] = 1 /\ rep.ranks[n] = 1 => m = n
    /\ rep.before \in Leaders \cup {None}
    /\ rep.candidate \in Miners \cup {None}
    /\ rep.after \in Leaders \cup {None}
    /\ rep.dethroned \in BOOLEAN
    /\ DOMAIN rep.rewards = {} => ~rep.reported
    /\ ~rep.reported => rep.before = None /\ rep.candidate = None /\ rep.after = None

ASSUME LeadershipConstants ==
    /\ Main \in Validators
    /\ Miners \subseteq Nat \ {0} /\ Restarting \subseteq Validators \X Nat
    /\ LastRound \in Nat /\ TopReward \in Nat /\ Improvement \in Nat
    /\ LastRank \in Nat /\ LastRank < 9999
    /\ None \notin Leaders \cup Nat \cup Summaries
    /\ \A rep \in Reports : IsReport(rep)

VARIABLES
    rows,       \* post_consensus_avg_reward by round, validator and miner; a
                \* miner that registered and has no reward yet has None
    ranks,      \* post_consensus_rank, of the same rows
    summary,    \* the row of round_summary of each round, None if there is none
    leader,     \* leader_miner_uid and leader_reward of the season
    closed      \* the rounds that are over

vars == <<rows, ranks, summary, leader, closed>>

----------------------------------------------------------------------------
(* The rewards and the ranks of a round.                                   *)

NoRewards == [m \in {} |-> None]
Only(table, miners) == [m \in DOMAIN table \cap miners |-> table[m]]
Over(new, old) ==
    [m \in DOMAIN new \cup DOMAIN old |-> IF m \in DOMAIN new THEN new[m] ELSE old[m]]

Known(table) == {m \in DOMAIN table : table[m] # None}
Reward(table, m) == IF table[m] = None THEN 0 ELSE table[m]
Scored_NoDefault(m, table) == [uid |-> m, reward |-> table[m]]           \* mutant
Scored(m, table) == [uid |-> m, reward |-> Reward(table, m)]

Beats(table, m, n) ==
    \/ Reward(table, m) > Reward(table, n)
    \/ Reward(table, m) = Reward(table, n) /\ m <= n
Best(table) == CHOOSE m \in DOMAIN table : \A n \in DOMAIN table : Beats(table, m, n)

(* The miner a table ranks first, or the best one if it ranks nobody so.   *)
Leading(places, table) ==
    LET first == {m \in DOMAIN table : places[m] = 1}
    IN  IF first = {} THEN Best(table)
        ELSE CHOOSE m \in first : \A n \in first : m <= n

(* The main validator's value of a column if it has one, or the highest    *)
(* reward or the best rank that anybody has.                               *)
Said(tables, m) == {tables[w][m] : w \in {u \in Validators : m \in Known(tables[u])}}
Highest(rewards) == CHOOSE x \in rewards : \A y \in rewards : x >= y
Lowest(places) == CHOOSE k \in places : \A j \in places : k <= j

Canonical(column, tables, m) ==
    IF m \in Known(tables[Main]) THEN tables[Main][m]
    ELSE IF Said(tables, m) = {} THEN None
    ELSE IF column = "reward" THEN Highest(Said(tables, m)) ELSE Lowest(Said(tables, m))

Canonicalised_OwnRow(column, tables, v) ==                              \* mutant
    [tables EXCEPT ![v] = [m \in DOMAIN tables[v] |-> Canonical(column, tables, m)]]
Canonicalised(column, tables, v) ==
    [w \in Validators |-> [m \in DOMAIN tables[w] |-> Canonical(column, tables, m)]]

(* _populate_round_summary. The loop over the miners queries before each   *)
(* one, and a query flushes the pending row of the one before; nothing     *)
(* flushes the row of the last miner before the UPDATE that canonicalises, *)
(* which is plain SQL. It is written after that, but for the columns that  *)
(* are given the value they had.                                           *)
Populated(column, tables, v, given, last) ==
    LET own == tables[v]
        visible == Over(Only(given, Miners \ {last}), own)
        canonical == Canonicalised(column, [tables EXCEPT ![v] = visible], v)
        unflushed == Only(given, {last})
        pending == IF last \in DOMAIN own /\ unflushed = Only(own, {last})
                   THEN Only(given, {}) ELSE unflushed
    IN  [canonical EXCEPT ![v] = Over(pending, @)]

(* Only a payload ranks; without one a row keeps its rank, a new one has   *)
(* none.                                                                   *)
GivenRanks(r, v, rep) ==
    [m \in DOMAIN rep.rewards |->
        IF rep.reported THEN rep.ranks[m]
        ELSE IF m \in DOMAIN ranks[r][v] THEN ranks[r][v][m] ELSE None]

----------------------------------------------------------------------------
(* The leadership of a round and of the season.                            *)

(* _enrich_validator_summary_post_consensus_from_db: the report's leaders  *)
(* and candidate with the rewards stored, and the first or best miners in  *)
(* place of those it does not name.                                        *)
Enriched(v, r, rep, table, places) ==
    LET before == IF r = 1 THEN None ELSE rep.before
        best == IF rep.reported THEN Leading(rep.ranks, rep.rewards)
                ELSE Leading(places, table)
        winner == IF rep.after = None THEN best ELSE rep.after.uid
        others == IF before = None THEN Only(table, {winner})
                  ELSE Only(table, Miners \ {before.uid})
        challenger == IF rep.candidate = None THEN others ELSE Only(table, {rep.candidate})
    IN  [main |-> v = Main,
         before |-> before,
         candidate |-> IF DOMAIN challenger = {} THEN None
                       ELSE Scored(Best(challenger), table),
         after |-> IF winner \in DOMAIN table THEN Scored(winner, table) ELSE rep.after,
         dethroned |-> rep.dethroned]

(* The WHERE of _upsert_round_summary_from_validator_summary's upsert. The *)
(* decision it computes from the rewards does not outlive the transaction: *)
(* the recomputation below writes the JSON's over it.                      *)
Upserted_LastWins(r, decision) == [summary EXCEPT ![r] = decision]      \* mutant
Upserted(r, decision) ==
    IF summary[r] # None /\ summary[r].main /\ ~decision.main
    THEN summary
    ELSE [summary EXCEPT ![r] = decision]

(* _recompute_and_persist_season_leadership: the leader that the rounds    *)
(* before n leave, in the order of the season.                             *)
LeaderBefore_First(s, n) ==                                             \* mutant
    LET decided == {q \in Rounds : q < n /\ s[q] # None}
    IN  IF decided = {} THEN None
        ELSE s[CHOOSE q \in decided : \A p \in decided : q <= p].after
LeaderBefore(s, n) ==
    LET decided == {q \in Rounds : q < n /\ s[q] # None}
    IN  IF decided = {} THEN None
        ELSE s[CHOOSE q \in decided : \A p \in decided : p <= q].after

(* A leader a report did not know is filled in; everything else is taken   *)
(* from the JSON as it is.                                                 *)
Recomputed_Overwriting(s) ==                                            \* mutant
    [q \in Rounds |-> IF s[q] = None THEN None
                      ELSE [s[q] EXCEPT !.before = LeaderBefore(s, q)]]
Recomputed(s) ==
    [q \in Rounds |-> IF s[q] = None THEN None
                      ELSE [s[q] EXCEPT !.before = IF @ = None THEN LeaderBefore(s, q)
                                                   ELSE @]]

----------------------------------------------------------------------------
(* A round exists once the round before it is over.                        *)
Opened(r) == \A q \in Rounds : q < r => q \in closed

(* finish_round of validator v for round r. last is the miner whose row is *)
(* flushed last: the order of the loop is the database's.                  *)
Finish(v, r, rep, last, authoritative) ==
    LET table == Populated("reward", rows[r], v, rep.rewards, last)
        places == Populated("rank", ranks[r], v, GivenRanks(r, v, rep), last)
        decided == Recomputed(Upserted(r, Enriched(v, r, rep, table[v], places[v])))
        speaks == authoritative /\ DOMAIN table[v] # {}
    IN
    /\ Opened(r)
    /\ v = Main => authoritative
    /\ last \in DOMAIN rep.rewards \/ DOMAIN rep.rewards = {}
    /\ rows' = [rows EXCEPT ![r] = table]
    /\ ranks' = [ranks EXCEPT ![r] = places]
    /\ summary' = IF speaks THEN decided ELSE summary
    /\ leader' = IF speaks THEN LeaderBefore(decided, LastRound + 1) ELSE leader
    /\ closed' = IF v = Main THEN closed \cup {r} ELSE closed

(* start_round purges the row a validator had (OwnRows in CanonicalRounds) *)
(* and with it its miners; start_agent_run registers a miner.              *)
Start(v, r) ==
    /\ Opened(r)
    /\ rows' = [rows EXCEPT ![r][v] = NoRewards]
    /\ ranks' = [ranks EXCEPT ![r][v] = NoRewards]
    /\ UNCHANGED <<summary, leader, closed>>

RegisterMiner(v, r, m) ==
    /\ Opened(r)
    /\ rows' = [rows EXCEPT ![r][v] = Over(@, [n \in {m} |-> None])]
    /\ ranks' = [ranks EXCEPT ![r][v] = Over(@, [n \in {m} |-> None])]
    /\ UNCHANGED <<summary, leader, closed>>

(* The reconciler closes a round that runs past its end, with or without a *)
(* summary of it.                                                          *)
Expire(r) ==
    /\ Opened(r)
    /\ closed' = closed \cup {r}
    /\ UNCHANGED <<rows, ranks, summary, leader>>

Init ==
    /\ rows = [r \in Rounds |-> [v \in Validators |-> NoRewards]]
    /\ ranks = rows
    /\ summary = [r \in Rounds |-> None]
    /\ leader = None
    /\ closed = {}

RequestBy(v) ==
    \E r \in Rounds :
        \/ <<v, r>> \in Restarting /\ Start(v, r)
        \/ \E m \in Miners : <<v, r>> \in Restarting /\ RegisterMiner(v, r, m)
        \/ \E rep \in Reports, last \in Miners, authoritative \in BOOLEAN :
              Finish(v, r, rep, last, authoritative)

Next == (\E v \in Validators : RequestBy(v)) \/ (\E r \in Rounds : Expire(r))

Spec == Init /\ [][Next]_vars

----------------------------------------------------------------------------
(* Properties                                                              *)

(* Every column holds a value of its kind; a round that was decided has a  *)
(* leader.                                                                 *)
TypeOK ==
    /\ rows \in [Rounds -> [Validators -> Tables(Rewards \cup {None})]]
    /\ ranks \in [Rounds -> [Validators -> Tables(Ranks \cup {None})]]
    /\ \A r \in Rounds, v \in Validators : DOMAIN ranks[r][v] = DOMAIN rows[r][v]
    /\ summary \in [Rounds -> Summaries \cup {None}]
    /\ leader \in Leaders \cup {None}
    /\ closed \subseteq Rounds

(* _populate_round_summary writes "that same canonical payload to every    *)
(* validator_round_id in this round", but for the miner it flushes late: a *)
(* validator's rewards differ from the main validator's in one miner at    *)
(* most.                                                                   *)
Strays(r, v) ==
    {m \in Known(rows[r][v]) \cap Known(rows[r][Main]) : rows[r][v][m] # rows[r][Main][m]}
OneStrayAtMost ==
    \A r \in Rounds, v \in Validators : \A m, n \in Strays(r, v) : m = n

(* What the main validator said of a round changes by its own requests     *)
(* only, whatever the backups report: the rewards in its rows (the         *)
(* canonicalisation), and the round's outcome in its summary (the guard of *)
(* the upsert, the recomputation).                                         *)
Outcome(s) == [s EXCEPT !.before = None]
RewardsStand(r) ==
    \A m \in Known(rows[r][Main]) : /\ m \in DOMAIN rows'[r][Main]
                                    /\ rows'[r][Main][m] = rows[r][Main][m]
OutcomeStands(r) ==
    summary[r] # None => (summary[r].main =>
        summary'[r] # None /\ Outcome(summary'[r]) = Outcome(summary[r]))
BackupsNeverOverrule ==
    [][(\A r \in Rounds : RewardsStand(r) /\ OutcomeStands(r)) \/ RequestBy(Main)]_vars

(* Rounds may be summarised late and again, and each summary makes the     *)
(* code rewrite all of the season; yet a request changes what is stored of *)
(* one round, and of the others nothing but a leader before them that was  *)
(* unknown (_recompute_and_persist_season_leadership).                     *)
FillsIn(old, new) == old = new \/ (old.before = None /\ Outcome(new) = Outcome(old))
OneRoundAtATime ==
    [][\E r \in Rounds : \A q \in Rounds \ {r} :
        /\ rows'[q] = rows[q] /\ ranks'[q] = ranks[q]
        /\ IF summary[q] = None THEN summary'[q] = None
           ELSE summary'[q] # None /\ FillsIn(summary[q], summary'[q])]_vars

(* The season's leader is the one its last summarised round left, not the  *)
(* one of the round that was finished last.                                *)
SeasonLeaderIsLatest ==
    /\ \A r \in Rounds :
        summary[r] # None /\ (\A q \in Rounds : q > r => summary[q] = None)
        => leader = summary[r].after
    /\ (\A r \in Rounds : summary[r] = None) => leader = None

(* A round whose leader before it is unknown is the first one summarised.  *)
UnknownOnlyAtTheStart ==
    \A r \in Rounds : summary[r] # None /\ summary[r].before = None
                      => \A q \in Rounds : q < r => summary[q] = None

=============================================================================
