---------------------------- MODULE BoardViews ----------------------------
(***************************************************************************)
(* What the dashboard says of rewards and leaders: the boards of a round   *)
(* and of the season, the summary pages, an agent's page and the overview, *)
(* as operators over the tables of SeasonLeadership. A reader sees one     *)
(* committed state.                                                        *)
(*                                                                         *)
(* A miner with a reward has a name, a repository and tasks, one that only *)
(* registered has none of them: the filters on these are Known. Pages that *)
(* show what a validator measured itself (best_local_reward and its kin)   *)
(* are left out: the validators' view of a round, the overview's list of   *)
(* miners, the catalogue of agents. An average is rounded down.            *)
(***************************************************************************)
EXTENDS SeasonLeadership, Queries, FiniteSets

\* A subnet has a fixed number of uids, for validators and miners alike.
ASSUME UidsAreFinite == IsFiniteSet(Validators) /\ IsFiniteSet(Miners)

---------------------------------------------------------------------------
(* The boards of the season *)

\* The rows a board is made of: those of the validators it looks at.
Entries(who, m) == {e \in Rounds \X who : m \in Known(rows[e[1]][e[2]])}
RewardOf(e, m) == rows[e[1]][e[2]][m]
RankOf(e, m) ==
    IF ranks[e[1]][e[2]][m] = None THEN 9999 ELSE ranks[e[1]][e[2]][m]

\* ORDER BY uid, best_reward DESC, best_rank ASC, round_number ASC
BetterEntry(e, f, m) ==
    \/ RewardOf(e, m) > RewardOf(f, m)
    \/ /\ RewardOf(e, m) = RewardOf(f, m)
       /\ \/ RankOf(e, m) < RankOf(f, m)
          \/ RankOf(e, m) = RankOf(f, m) /\ e[1] <= f[1]
BestEntry(who, m) ==
    CHOOSE e \in Entries(who, m) : \A f \in Entries(who, m) : BetterEntry(e, f, m)

Ranked(who) == {m \in Miners : Entries(who, m) # {}}
Outranks(who, m, n) ==
    LET e == BestEntry(who, m)
        f == BestEntry(who, n)
    IN  \/ RewardOf(e, m) > RewardOf(f, n)
        \/ /\ RewardOf(e, m) = RewardOf(f, n)
           /\ RankOf(e, m) < RankOf(f, n) \/ (RankOf(e, m) = RankOf(f, n) /\ m < n)
SeasonRank(who, m) == Cardinality({n \in Ranked(who) : Outranks(who, n, m)}) + 1

\* get_season_miners: the main validator's rows, and the season's leader.
SeasonBoard ==
    [m \in Ranked({Main}) |->
        [reward |-> RewardOf(BestEntry({Main}, m), m),
         round |-> BestEntry({Main}, m)[1],
         rank |-> SeasonRank({Main}, m),
         reigning |-> leader # None /\ leader.uid = m]]

\* get_latest_round_top_miner, of a season that has a round that is over.
TopMiner ==
    IF closed = {} \/ Ranked({Main}) = {} THEN None
    ELSE CHOOSE m \in Ranked({Main}) : SeasonRank({Main}, m) = 1

---------------------------------------------------------------------------
(* The pages of a round *)

\* get_round_statistics, get_round_miners_data and get_round_summary_data: of a
\* miner's rows in a round, the one of the best rank.
RowsIn(r, m) == {v \in Validators : m \in Known(rows[r][v])}
RowShown(r, m) ==
    CHOOSE v \in RowsIn(r, m) : \A w \in RowsIn(r, m) :
        \/ RankOf(<<r, v>>, m) < RankOf(<<r, w>>, m)
        \/ /\ RankOf(<<r, v>>, m) = RankOf(<<r, w>>, m)
           /\ RewardOf(<<r, v>>, m) >= RewardOf(<<r, w>>, m)
RoundRewards(r) ==
    [m \in {n \in Miners : RowsIn(r, n) # {}} |-> RewardOf(<<r, RowShown(r, m)>>, m)]

TopOf(table) == IF DOMAIN table = {} THEN 0 ELSE Highest({table[m] : m \in DOMAIN table})
Statistics(r) ==
    [miners |-> DOMAIN RoundRewards(r),
     top |-> TopOf(RoundRewards(r)),
     average |-> IF DOMAIN RoundRewards(r) = {} THEN 0
                 ELSE SumOver(RoundRewards(r), DOMAIN RoundRewards(r))
                      \div Cardinality(DOMAIN RoundRewards(r)),
     winner |-> IF summary[r] = None THEN None ELSE summary[r].after.uid,
     winnerReward |-> IF summary[r] = None THEN TopOf(RoundRewards(r))
                      ELSE summary[r].after.reward]

\* sort_by and sort_order, the filters, and the page: the rows come by uid, and
\* the sort is stable.
Place(table, m) ==
    Cardinality({n \in DOMAIN table : n # m /\ Beats(table, n, m)}) + 1
RoundMinersPage(r, page, limit, low, high) ==
    LET kept == Only(RoundRewards(r), {m \in Miners : /\ m \in DOMAIN RoundRewards(r)
                                                      /\ RoundRewards(r)[m] \in low..high})
    IN  {m \in DOMAIN kept : /\ (page - 1) * limit < Place(kept, m)
                             /\ Place(kept, m) <= page * limit}

---------------------------------------------------------------------------
(* The leadership page of a round *)

\* The leader the summarised round before left, if the season has one.
BeforeShown(r) ==
    IF LeaderBefore(summary, r) # None THEN LeaderBefore(summary, r)
    ELSE summary[r].before

\* _pick_candidate_from_post_consensus, of the miners in the payload that is
\* kept with the summary.
Picked(payload, before) ==
    LET others == Only(payload, {m \in Miners : before = None \/ m # before.uid})
    IN  IF DOMAIN others = {} THEN None ELSE Scored(Best(others), others)

\* "A challenger cannot be the same miner as the reigning leader."
CandidateShown_Kept(r, payload) ==                                     \* mutant
    IF summary[r].candidate = None THEN Picked(payload, BeforeShown(r))
    ELSE summary[r].candidate
CandidateShown(r, payload) ==
    LET before == BeforeShown(r)
        stored == summary[r].candidate
        own == before # None /\ stored # None /\ before.uid = stored.uid
    IN  IF stored = None \/ own THEN Picked(payload, before) ELSE stored

\* float(required_improvement_pct or 0.05)
ImprovementShown == IF Improvement = 0 THEN 5 ELSE Improvement

\* _normalize_leadership_chain
Normalized(before, candidate, after) ==
    LET effective == IF candidate # None THEN candidate ELSE after
    IN  IF before = None
        THEN [before |-> None, candidate |-> effective, after |-> effective, dethroned |-> FALSE]
        ELSE IF candidate = None
        THEN [before |-> before, candidate |-> None, after |-> before, dethroned |-> FALSE]
        ELSE LET beaten == candidate.reward * 100 > before.reward * (100 + ImprovementShown)
             IN  [before |-> before, candidate |-> candidate,
                  after |-> IF beaten THEN candidate ELSE before, dethroned |-> beaten]

\* get_round_season_summary_view; None is "available": false.
ShownRound(r, payload) ==
    IF summary[r] = None THEN None
    ELSE Normalized(BeforeShown(r), CandidateShown(r, payload), summary[r].after)

---------------------------------------------------------------------------
(* What a validator's page says of a round *)

\* get_validator_details: some row of rank 1, or else the miner of its best run;
\* a run that has no reward yet comes before all others.
ValidatorWinners(table, places, runs) ==
    LET first == {m \in DOMAIN table : places[m] = 1}
        unrated == DOMAIN runs \ Known(runs)
        best == {m \in DOMAIN runs : \A n \in DOMAIN runs : runs[m] >= runs[n]}
    IN  IF first # {} THEN {Scored(m, table) : m \in first}
        ELSE {[uid |-> m, reward |-> runs[m]] : m \in IF unrated # {} THEN unrated ELSE best}
RoundDetails(table) == [m \in DOMAIN table |-> Reward(table, m)]

---------------------------------------------------------------------------
(* An agent's page *)

\* _stake_weighted_average
WeightedAverage(reward, stake) ==
    LET who == {v \in DOMAIN reward : reward[v] # None /\ stake[v] > 0}
        weight == SumOver(stake, who)
    IN  IF weight = 0 THEN None
        ELSE SumOver([v \in who |-> reward[v] * stake[v]], who) \div weight

\* _get_season_round_metric_rows: competition_reward, rank and top_reward of
\* each round the miner is in.
RoundsOf(m) == {r \in Rounds : \E v \in Validators : m \in DOMAIN rows[r][v]}
CompetitionReward(r, m, stake) ==
    LET who == {v \in Validators : m \in DOMAIN rows[r][v]}
        average == WeightedAverage([v \in who |-> rows[r][v][m]], stake)
    IN  IF average = None THEN 0 ELSE average
BestRankIn(r, m) ==
    LET who == {v \in Validators : m \in DOMAIN rows[r][v]}
    IN  Lowest({RankOf(<<r, v>>, m) : v \in who})
TopRewardOf(r) == IF summary[r] = None THEN None ELSE summary[r].after.reward

\* _best_round_sort_key, and the one of bestRankEver; the rewards are those of
\* the runs, given as own.
BestRound(m, own) ==
    CHOOSE r \in RoundsOf(m) : \A q \in RoundsOf(m) :
        \/ own[r] > own[q]
        \/ /\ own[r] = own[q]
           /\ BestRankIn(r, m) < BestRankIn(q, m) \/ (BestRankIn(r, m) = BestRankIn(q, m) /\ r <= q)
BestRankRound(m, own) ==
    CHOOSE r \in RoundsOf(m) : \A q \in RoundsOf(m) :
        \/ BestRankIn(r, m) < BestRankIn(q, m)
        \/ /\ BestRankIn(r, m) = BestRankIn(q, m)
           /\ own[r] > own[q] \/ (own[r] = own[q] /\ r <= q)

\* get_agent_detail: "not found" if the main validator has no row of the miner
\* in the round, though the page was made for it.
AgentFound(m, own) == RoundsOf(m) # {} /\ m \in DOMAIN rows[BestRound(m, own)][Main]

\* The rank in the season counts the rows of every validator.
RankInSeason(m) == IF m \in Ranked(Validators) THEN SeasonRank(Validators, m) ELSE None

AgentPage(m, own) ==
    [found |-> AgentFound(m, own),
     rank |-> RankInSeason(m),
     leadership |-> IF AgentFound(m, own) THEN summary[BestRound(m, own)] ELSE None]

\* The rounds an agent won are those it leads after, on its page, and those it
\* ranks first in, in its history (get_miner_historical).
RoundsLed(m) == {r \in Rounds : summary[r] # None /\ summary[r].after.uid = m}
RoundsRankedFirst(m) == {r \in RoundsOf(m) : BestRankIn(r, m) = 1}

History(m, own) ==
    [rounds |-> RoundsOf(m), won |-> RoundsRankedFirst(m),
     lost |-> RoundsOf(m) \ RoundsRankedFirst(m),
     best |-> CHOOSE r \in RoundsOf(m) : \A q \in RoundsOf(m) :
                 own[r] > own[q] \/ (own[r] = own[q] /\ r >= q),
     rank |-> IF RankInSeason(m) # None THEN RankInSeason(m)
              ELSE BestRankIn(BestRankRound(m, own), m)]

\* A round whose reward was carried over has no runs: the page takes them from
\* the round with runs whose reward is nearest, the later one of two.
Distance(x, y) == IF x > y THEN x - y ELSE y - x
SourceRound(m, r, target, withRuns) ==
    LET near == {e \in (withRuns \cap 1..r) \X Validators : m \in DOMAIN rows[e[1]][e[2]]}
        gap(e) == Distance(Reward(rows[e[1]][e[2]], m), target)
    IN  IF near = {} THEN None
        ELSE (CHOOSE e \in near : \A f \in near :
                 gap(e) < gap(f) \/ (gap(e) = gap(f) /\ e[1] >= f[1]))[1]

---------------------------------------------------------------------------
(* The overview *)

Summarised(some) == {r \in some : summary[r] # None}
Latest(some) == CHOOSE r \in some : \A q \in some : q <= r

\* row is the best row of the leader, by local rewards, or without a leader of
\* anybody; None if there is none.
OverviewLeaderUid(row) ==
    IF closed = {} THEN None
    ELSE IF leader # None THEN leader.uid
    ELSE IF Summarised(Rounds) # {} THEN summary[Latest(Summarised(Rounds))].after.uid
    ELSE IF row = None THEN None ELSE row.uid

\* leader_after_reward of the last round the leader came out of as the leader,
\* else the reward of its best row, else the season's.
OverviewLeaderReward(row) ==
    LET led == {r \in Summarised(Rounds) : summary[r].after.uid = OverviewLeaderUid(row)}
    IN  IF led # {} THEN summary[Latest(led)].after.reward
        ELSE IF row # None THEN row.reward
        ELSE IF leader # None THEN leader.reward ELSE 0

\* rewardDeltaFromPreviousRound, of the last two rounds that are over.
RewardDelta ==
    LET over == Summarised(closed)
        rest == over \ {Latest(over)}
    IN  IF Cardinality(over) < 2 THEN None
        ELSE summary[Latest(over)].after.reward - summary[Latest(rest)].after.reward

MinersOf(r) == {m \in Miners : \E v \in Validators : m \in DOMAIN rows[r][v]}
NewAgents(r) == MinersOf(r) \ UNION {MinersOf(q) : q \in {p \in Rounds : p < r}}

\* get_overview_leaderboard, of the rounds whose consensus_status is finalized.
Leaderboard(finalized, limit) ==
    {r \in Summarised(finalized) :
        Cardinality({q \in Summarised(finalized) : q > r}) < limit}

\* get_overview_statistics
RegisteredMiners == {m \in Miners : \E r \in Rounds : RowsIn(r, m) # {}}
AverageTaskScore ==
    LET scored == {x \in Rounds \X Validators \X Miners : x[3] \in Known(rows[x[1]][x[2]])}
    IN  IF scored = {} THEN 0
        ELSE SumOver([x \in scored |-> rows[x[1]][x[2]][x[3]]], scored) \div Cardinality(scored)

---------------------------------------------------------------------------
(* Properties *)

\* Whoever asks who leads a season with a round that is over gets one answer,
\* found in three ways: the overview (from seasons, the summaries or the rows),
\* the flag on the board of the season, and the winner of its last summary.
OneLeaderEverywhere ==
    closed # {} /\ leader # None =>
        LET last == Latest(Summarised(Rounds)) IN
        /\ \A row \in Leaders \cup {None} : /\ OverviewLeaderUid(row) = leader.uid
                                          /\ OverviewLeaderReward(row) = leader.reward
        /\ Statistics(last).winner = leader.uid
        /\ Statistics(last).winnerReward = leader.reward
        /\ \A m \in DOMAIN SeasonBoard : SeasonBoard[m].reigning <=> m = leader.uid

\* The leadership pages of a season make a chain, whatever the stored decisions
\* say: nobody challenges itself, the leader shown before a round is the one
\* stored of the round summarised before it, and it is followed by another one
\* only by beating the threshold.
PagesMakeAChain ==
    \A r \in Summarised(Rounds), payload \in {rep.rewards : rep \in Reports} :
        LET shown == ShownRound(r, payload)
            earlier == {q \in Summarised(Rounds) : q < r}
        IN  /\ shown.before # None /\ shown.candidate # None =>
                  shown.before.uid # shown.candidate.uid
            /\ earlier # {} => shown.before = summary[Latest(earlier)].after
            /\ shown.dethroned <=> shown.before # None /\ shown.after # shown.before
            /\ shown.dethroned =>
                  shown.after.reward * 100 > shown.before.reward * (100 + ImprovementShown)

\* The validators of a round that have rewards have the same ones, and ranks.
OneVoice(r) ==
    \A v \in Validators :
        DOMAIN rows[r][v] # {} => rows[r][v] = rows[r][Main] /\ ranks[r][v] = ranks[r][Main]

\* Where no validator's late miner differs from the main validator's, the average
\* of the validators' rewards on an agent's page, weighted by stake, is the main
\* validator's reward. Nobody on the list of a round is before the miner of the
\* top reward. Where the validators speak with one voice, an agent's page gives
\* the rank that the board of the season gives, and no round has a top below the
\* reward shown of it there.
PagesAgree ==
    /\ \A r \in Rounds : (\A v \in Validators : Strays(r, v) = {}) =>
          \A stake \in [Validators -> 1..2] : \A m \in Known(rows[r][Main]) :
              CompetitionReward(r, m, stake) = rows[r][Main][m]
    /\ \A r \in Rounds : \A m \in RoundMinersPage(r, 1, 1, 0, TopReward) :
          RoundRewards(r)[m] = Statistics(r).top
    /\ (\A r \in Rounds : OneVoice(r)) => \A m \in Ranked({Main}) :
          /\ SeasonBoard[m].rank = RankInSeason(m)
          /\ SeasonBoard[m].reward <= Statistics(SeasonBoard[m].round).top

\* Everybody has a rank of its own, and nobody is ranked above a higher reward.
\* What is reported need not be so; nor, once canonicalised, what is stored.
Ordered(table, places) ==
    /\ \A m \in DOMAIN table : places[m] # None
    /\ \A m, n \in DOMAIN table : m # n =>
          /\ places[m] # places[n]
          /\ places[m] < places[n] => Reward(table, m) >= Reward(table, n)

\* The page of a validator takes the winner of a round from the stored ranks, that
\* of the round takes its top from the rewards. Where the validators speak with one
\* voice and the main one's ranks are in the order of its rewards, the page of any
\* validator that ranks somebody first names one winner, and it has the top reward.
WinnersAgree ==
    \A r \in Rounds, v \in Validators, runs \in {rep.rewards : rep \in Reports} :
        /\ OneVoice(r) /\ Ordered(rows[r][Main], ranks[r][Main])
        /\ \E m \in DOMAIN rows[r][v] : ranks[r][v][m] = 1
        => \E w \in Leaders : /\ ValidatorWinners(rows[r][v], ranks[r][v], runs) = {w}
                             /\ w.reward = Statistics(r).top

\* The boards name one leader, tell one chain of challenges and agree with the
\* pages of agents and validators.
BoardsAgree == OneLeaderEverywhere /\ PagesMakeAChain /\ PagesAgree /\ WinnersAgree
===========================================================================
