---------------------- MODULE SeasonLeadership_proofs ----------------------
(***************************************************************************)
(* Theorems about SeasonLeadership and BoardViews, for every set of        *)
(* validators, miners and reports and for every number of rounds.          *)
(***************************************************************************)
EXTENDS BoardViews, Queries_proofs, FiniteSetTheorems, WellFoundedInduction, TLAPS

Marks == Rewards \cup {None}
Places == Ranks \cup {None}

----------------------------------------------------------------------------
(* Tables of rewards.                                                      *)

(* A table is a function on some miners, and any such function is one.     *)
LEMMA TableElim ==
    ASSUME NEW V, NEW t \in Tables(V)
    PROVE  DOMAIN t \subseteq Miners /\ t \in [DOMAIN t -> V]
BY DEF Tables

(* The other way round: how a table is recognised.                         *)
LEMMA TableIntro ==
    ASSUME NEW V, NEW D \in SUBSET Miners, NEW t \in [D -> V]
    PROVE  t \in Tables(V)
BY DEF Tables

(* The part of a table about some miners is a table.                       *)
LEMMA OnlyTable ==
    ASSUME NEW V, NEW t \in Tables(V), NEW S
    PROVE  /\ Only(t, S) \in Tables(V)
           /\ DOMAIN Only(t, S) = DOMAIN t \cap S
           /\ \A m \in DOMAIN t \cap S : Only(t, S)[m] = t[m]
<1>1. DOMAIN t \subseteq Miners /\ t \in [DOMAIN t -> V] BY TableElim
<1>2. Only(t, S) \in [DOMAIN t \cap S -> V] BY <1>1 DEF Only
<1> QED BY <1>1, <1>2, TableIntro DEF Only

(* A table written over another is a table of both's miners.               *)
OverIn(V) ==
    \A t, u \in Tables(V) :
        /\ Over(t, u) \in Tables(V)
        /\ DOMAIN Over(t, u) = DOMAIN t \cup DOMAIN u
        /\ \A m \in DOMAIN t : Over(t, u)[m] = t[m]
        /\ \A m \in DOMAIN u \ DOMAIN t : Over(t, u)[m] = u[m]

(* Of whatever values.                                                     *)
LEMMA OverTables == \A V : OverIn(V)
<1> SUFFICES ASSUME NEW V, NEW t \in Tables(V), NEW u \in Tables(V)
             PROVE  /\ Over(t, u) \in Tables(V)
                    /\ DOMAIN Over(t, u) = DOMAIN t \cup DOMAIN u
                    /\ \A m \in DOMAIN t : Over(t, u)[m] = t[m]
                    /\ \A m \in DOMAIN u \ DOMAIN t : Over(t, u)[m] = u[m]
  BY DEF OverIn
<1>1. /\ DOMAIN t \subseteq Miners /\ t \in [DOMAIN t -> V]
      /\ DOMAIN u \subseteq Miners /\ u \in [DOMAIN u -> V]
  BY TableElim
<1>2. Over(t, u) \in [DOMAIN t \cup DOMAIN u -> V] BY <1>1 DEF Over
<1>3. DOMAIN t \cup DOMAIN u \in SUBSET Miners BY <1>1
<1>4. Over(t, u) \in Tables(V) BY <1>2, <1>3, TableIntro
<1> QED BY <1>4 DEF Over

(* The rewards of a report are a table of rewards and of marks.            *)
LEMMA ReportTable ==
    ASSUME NEW rep \in Reports
    PROVE  IsReport(rep) /\ rep.rewards \in Tables(Rewards) /\ rep.rewards \in Tables(Marks)
<1>r. IsReport(rep) BY LeadershipConstants
<1>1. IsReport(rep) /\ rep.rewards \in Tables(Rewards) BY <1>r DEF IsReport
<1>2. /\ DOMAIN rep.rewards \subseteq Miners
      /\ rep.rewards \in [DOMAIN rep.rewards -> Rewards]
  BY <1>1, TableElim
<1>3. rep.rewards \in [DOMAIN rep.rewards -> Marks]
  BY <1>2 DEF Marks
<1> QED BY <1>1, <1>2, <1>3, TableIntro

(* The ranks a finish gives are a table for the same miners.               *)
LEMMA GivenRanksTable ==
    ASSUME NEW rep \in Reports, NEW r, NEW v, ranks[r][v] \in Tables(Places)
    PROVE  /\ GivenRanks(r, v, rep) \in Tables(Places)
           /\ DOMAIN GivenRanks(r, v, rep) = DOMAIN rep.rewards
<1>1. IsReport(rep) /\ rep.rewards \in Tables(Rewards) BY ReportTable
<1>2. rep.ranks \in Tables(Places) /\ (rep.reported => DOMAIN rep.ranks = DOMAIN rep.rewards)
  BY <1>1 DEF IsReport, Places
<1>3. /\ DOMAIN rep.rewards \subseteq Miners
      /\ \A m \in DOMAIN rep.ranks : rep.ranks[m] \in Places
      /\ \A m \in DOMAIN ranks[r][v] : ranks[r][v][m] \in Places
  BY <1>1, <1>2, TableElim
<1>4. GivenRanks(r, v, rep) \in [DOMAIN rep.rewards -> Places]
  BY <1>2, <1>3 DEF GivenRanks, Places
<1>5. DOMAIN GivenRanks(r, v, rep) = DOMAIN rep.rewards BY DEF GivenRanks
<1> QED BY <1>3, <1>4, <1>5, TableIntro

(* The empty table is a table, of whatever values.                         *)
LEMMA NoRewardsTable == \A V : NoRewards \in Tables(V) /\ DOMAIN NoRewards = {}
<1> SUFFICES ASSUME NEW V PROVE NoRewards \in Tables(V) /\ DOMAIN NoRewards = {} OBVIOUS
<1>1. NoRewards \in [{} -> V] BY DEF NoRewards
<1> QED BY <1>1, TableIntro DEF NoRewards

(* Some miner of a table is its best one, and beats the others.            *)
LEMMA BestIsIn ==
    ASSUME NEW t \in Tables(Marks), DOMAIN t # {}
    PROVE  Best(t) \in DOMAIN t /\ \A n \in DOMAIN t : Beats(t, Best(t), n)
<1> DEFINE D == DOMAIN t
<1>1. D \subseteq Miners /\ t \in [D -> Marks] BY TableElim
<1>2. \A m \in D : Reward(t, m) \in 0..TopReward
  BY <1>1, LeadershipConstants DEF Reward, Marks, Rewards
<1> DEFINE R == {Reward(t, m) : m \in D}
<1>r. R \subseteq 0..TopReward /\ R # {} BY <1>2
<1> HIDE DEF R
<1>n. TopReward \in Nat BY LeadershipConstants
<1>3. PICK top \in R : \A x \in R : top >= x BY <1>n, <1>r, Greatest
<1> USE DEF R
<1>4. {m \in D : Reward(t, m) = top} \subseteq Nat /\ {m \in D : Reward(t, m) = top} # {}
  BY <1>1, LeadershipConstants
<1>5. PICK b \in {m \in D : Reward(t, m) = top} :
        \A n \in {m \in D : Reward(t, m) = top} : b <= n
  BY <1>4, Smallest
<1>6. ASSUME NEW n \in D PROVE Beats(t, b, n)
  <2>1. Reward(t, b) = top /\ top >= Reward(t, n) BY <1>3, <1>5
  <2>2. CASE Reward(t, n) = top BY <1>5, <2>1, <2>2 DEF Beats
  <2>3. CASE Reward(t, n) # top
    <3>1. top \in Int /\ Reward(t, n) \in Int BY <1>2, <2>1
    <3> QED BY <2>1, <2>3, <3>1 DEF Beats
  <2> QED BY <2>2, <2>3
<1>7. \E m \in D : \A n \in D : Beats(t, m, n) BY <1>5, <1>6
<1> QED BY <1>7 DEF Best

(* The miner that leads a table, by rank or else by reward, is one of it.  *)
LEMMA LeadingIsIn ==
    ASSUME NEW t \in Tables(Marks), DOMAIN t # {}, NEW places
    PROVE  Leading(places, t) \in DOMAIN t
<1> DEFINE first == {m \in DOMAIN t : places[m] = 1}
<1>1. first \subseteq DOMAIN t OBVIOUS
<1>2. first \subseteq Nat BY TableElim, LeadershipConstants
<1>3. Leading(places, t) = IF first = {} THEN Best(t)
                           ELSE CHOOSE m \in first : \A n \in first : m <= n
  BY DEF Leading
<1> HIDE DEF first
<1>4. CASE first = {} BY <1>3, <1>4, BestIsIn
<1>5. CASE first # {}
  <2>1. \E m \in first : \A n \in first : m <= n BY <1>2, <1>5, Smallest
  <2> QED BY <1>1, <1>3, <1>5, <2>1
<1> QED BY <1>4, <1>5

(* What is written of a column is a value of it.                           *)
CanonicalIn(column, V) ==
    \A ts \in [Validators -> Tables(V)] : \A m : Canonical(column, ts, m) \in V

(* Of the rewards.                                                         *)
LEMMA CanonicalMark == CanonicalIn("reward", Marks)
<1> SUFFICES ASSUME NEW ts \in [Validators -> Tables(Marks)], NEW m
             PROVE  Canonical("reward", ts, m) \in Marks
  BY DEF CanonicalIn
<1>1. \A w \in Validators : m \in Known(ts[w]) => ts[w][m] \in Rewards
  BY TableElim DEF Known, Marks
<1>2. Said(ts, m) \subseteq 0..TopReward
  BY <1>1 DEF Said, Rewards
<1>3. Said(ts, m) # {} => Highest(Said(ts, m)) \in Said(ts, m)
  <2>1. Said(ts, m) # {} => \E x \in Said(ts, m) : \A y \in Said(ts, m) : x >= y
    <3>1. TopReward \in Nat BY LeadershipConstants
    <3> QED BY <1>2, <3>1, Greatest
  <2> QED BY <2>1 DEF Highest
<1>4. Said(ts, m) # {} => Highest(Said(ts, m)) \in Rewards
  BY <1>2, <1>3 DEF Rewards
<1> QED BY <1>1, <1>4, LeadershipConstants DEF Canonical, Marks

(* And of the ranks.                                                       *)
LEMMA CanonicalPlace == CanonicalIn("rank", Places)
<1> SUFFICES ASSUME NEW ts \in [Validators -> Tables(Places)], NEW m
             PROVE  Canonical("rank", ts, m) \in Places
  BY DEF CanonicalIn
<1>1. \A w \in Validators : m \in Known(ts[w]) => ts[w][m] \in Ranks
  BY TableElim DEF Known, Places
<1>2. Said(ts, m) \subseteq Ranks BY <1>1 DEF Said
<1>3. Said(ts, m) # {} => Lowest(Said(ts, m)) \in Said(ts, m)
  <2>1. Said(ts, m) \subseteq Nat BY <1>2, LeadershipConstants DEF Ranks
  <2>2. Said(ts, m) # {} => \E x \in Said(ts, m) : \A y \in Said(ts, m) : x <= y
    BY <2>1, Smallest
  <2> QED BY <2>2 DEF Lowest
<1>4. Said(ts, m) # {} => Lowest(Said(ts, m)) \in Ranks BY <1>2, <1>3
<1> QED BY <1>1, <1>4, LeadershipConstants DEF Canonical, Places

----------------------------------------------------------------------------
(* What a finish does to a column of the rows of a round.                  *)

(* What the UPDATE that canonicalises reads: all but the last miner's row. *)
Visible(tables, v, given, last) ==
    [tables EXCEPT ![v] = Over(Only(given, Miners \ {last}), tables[v])]

(* It has a table for each validator, and v's has all miners but the last. *)
IsVisible(vis, V, tables, v, given, last) ==
    /\ vis \in [Validators -> Tables(V)]
    /\ \A w \in Validators \ {v} : vis[w] = tables[w]
    /\ DOMAIN vis[v] \subseteq DOMAIN given \cup DOMAIN tables[v]
    /\ DOMAIN tables[v] \subseteq DOMAIN vis[v]
    /\ \A m \in DOMAIN given : m # last => m \in DOMAIN vis[v]

(* Whatever the values of the column are.                                  *)
LEMMA VisibleType ==
    ASSUME NEW V, NEW tables \in [Validators -> Tables(V)], NEW v \in Validators,
           NEW given \in Tables(V), NEW last
    PROVE  IsVisible(Visible(tables, v, given, last), V, tables, v, given, last)
<1>1. tables[v] \in Tables(V) OBVIOUS
<1>3. DOMAIN given \subseteq Miners BY TableElim
<1> DEFINE flushed == Only(given, Miners \ {last})
<1>4. /\ flushed \in Tables(V)
      /\ DOMAIN flushed = DOMAIN given \cap (Miners \ {last})
  BY OnlyTable
<1> HIDE DEF flushed
<1> DEFINE own == Over(flushed, tables[v])
<1>o. OverIn(V) BY OverTables
<1>5. /\ own \in Tables(V)
      /\ DOMAIN own = DOMAIN flushed \cup DOMAIN tables[v]
  BY <1>1, <1>4, <1>o DEF OverIn
<1>6. Visible(tables, v, given, last) = [tables EXCEPT ![v] = own] BY DEF Visible, flushed
<1> HIDE DEF own
<1>7. Visible(tables, v, given, last)[v] = own BY <1>6
<1>8. Visible(tables, v, given, last) \in [Validators -> Tables(V)] BY <1>5, <1>6
<1>9. \A w \in Validators \ {v} : Visible(tables, v, given, last)[w] = tables[w] BY <1>6
<1> QED BY <1>3, <1>4, <1>5, <1>7, <1>8, <1>9 DEF IsVisible

(* Every row gets the canonical value, the last miner's of v excepted.     *)
LEMMA PopulatedIs ==
    ASSUME NEW column, NEW V, CanonicalIn(column, V),
           NEW tables \in [Validators -> Tables(V)], NEW v \in Validators,
           NEW given \in Tables(V), NEW last
    PROVE  LET table == Populated(column, tables, v, given, last)
               vis == Visible(tables, v, given, last)
           IN  /\ table \in [Validators -> Tables(V)]
               /\ \A w \in Validators \ {v} : DOMAIN table[w] = DOMAIN tables[w]
               /\ DOMAIN table[v] = DOMAIN given \cup DOMAIN tables[v]
               /\ \A w \in Validators : \A m \in DOMAIN table[w] :
                    w # v \/ m # last => table[w][m] = Canonical(column, vis, m)
<1> DEFINE vis == Visible(tables, v, given, last)
           own == tables[v]
           canonical == Canonicalised(column, vis, v)
           unflushed == Only(given, {last})
           pending == IF last \in DOMAIN own /\ unflushed = Only(own, {last})
                      THEN Only(given, {}) ELSE unflushed
           table == [canonical EXCEPT ![v] = Over(pending, @)]
<1>1. Populated(column, tables, v, given, last) = table BY DEF Populated, Visible
<1>v. IsVisible(vis, V, tables, v, given, last) BY VisibleType
<1>2. /\ vis \in [Validators -> Tables(V)]
      /\ DOMAIN vis[v] \subseteq DOMAIN given \cup DOMAIN own
      /\ DOMAIN own \subseteq DOMAIN vis[v]
      /\ \A m \in DOMAIN given : m # last => m \in DOMAIN vis[v]
      /\ \A w \in Validators \ {v} : vis[w] = tables[w]
  BY <1>v DEF IsVisible
<1> HIDE DEF vis
<1>7. canonical = [w \in Validators |-> [m \in DOMAIN vis[w] |-> Canonical(column, vis, m)]]
  BY DEF Canonicalised
<1>8. canonical \in [Validators -> Tables(V)]
  <2>1. ASSUME NEW w \in Validators
        PROVE  [m \in DOMAIN vis[w] |-> Canonical(column, vis, m)] \in Tables(V)
    <3>1. DOMAIN vis[w] \subseteq Miners BY <1>2, TableElim
    <3>2. [m \in DOMAIN vis[w] |-> Canonical(column, vis, m)] \in [DOMAIN vis[w] -> V]
      BY <1>2 DEF CanonicalIn
    <3> QED BY <3>1, <3>2, TableIntro
  <2> QED BY <1>7, <2>1
<1>9. /\ pending \in Tables(V)
      /\ DOMAIN pending \subseteq DOMAIN given \cap {last}
      /\ last \in DOMAIN given => last \in DOMAIN pending \cup DOMAIN own
  <2>1. /\ unflushed \in Tables(V)
        /\ DOMAIN unflushed = DOMAIN given \cap {last}
    BY OnlyTable
  <2>2. /\ Only(given, {}) \in Tables(V)
        /\ DOMAIN Only(given, {}) = DOMAIN given \cap {}
    BY OnlyTable
  <2> HIDE DEF unflushed
  <2>3. CASE last \in DOMAIN own /\ unflushed = Only(own, {last})
    BY <2>2, <2>3
  <2>4. CASE ~(last \in DOMAIN own /\ unflushed = Only(own, {last}))
    BY <2>1, <2>4
  <2> QED BY <2>3, <2>4
<1> HIDE DEF pending, canonical
<1> DEFINE stored == canonical[v]
<1>m. stored \in Tables(V) BY <1>8
<1> HIDE DEF stored
<1>10. /\ Over(pending, stored) \in Tables(V)
       /\ DOMAIN Over(pending, stored) = DOMAIN pending \cup DOMAIN stored
       /\ \A m \in DOMAIN stored \ DOMAIN pending : Over(pending, stored)[m] = stored[m]
  <2>1. OverIn(V) BY OverTables
  <2> QED BY <1>m, <1>9, <2>1 DEF OverIn
<1> USE DEF stored
<1>11. table \in [Validators -> Tables(V)] BY <1>8, <1>10
<1>12. table[v] = Over(pending, canonical[v]) BY <1>8
<1>13. \A w \in Validators \ {v} : table[w] = canonical[w] BY <1>8
<1> HIDE DEF table
<1>14. DOMAIN canonical[v] = DOMAIN vis[v] BY <1>7
<1>15. DOMAIN table[v] = DOMAIN pending \cup DOMAIN vis[v]
  BY <1>10, <1>12, <1>14
<1>16. \A w \in Validators \ {v} : DOMAIN table[w] = DOMAIN tables[w]
  BY <1>2, <1>7, <1>13
<1>17. DOMAIN table[v] = DOMAIN given \cup DOMAIN own
  BY <1>2, <1>9, <1>15
<1>19. ASSUME NEW w \in Validators, NEW m \in DOMAIN table[w], w # v \/ m # last
       PROVE  table[w][m] = Canonical(column, vis, m)
  <2>1. CASE w # v
    BY <1>7, <1>13, <2>1
  <2>2. CASE w = v /\ m # last
    <3>1. m \notin DOMAIN pending /\ m \in DOMAIN canonical[v]
      BY <1>9, <1>14, <1>15, <2>2
    <3>2. table[v][m] = canonical[v][m]
      BY <1>10, <1>12, <3>1
    <3> QED BY <1>7, <1>14, <2>2, <3>1, <3>2
  <2> QED BY <1>19, <2>1, <2>2
<1> QED BY <1>1, <1>11, <1>16, <1>17, <1>19 DEF table, vis

----------------------------------------------------------------------------
(* What a finish writes of the leadership.                                 *)

(* The rewards of a miner of a table make a leader.                        *)
LEMMA ScoredType ==
    ASSUME NEW t \in Tables(Marks), NEW m \in DOMAIN t
    PROVE  Scored(m, t) \in Leaders
<1>1. m \in Miners /\ t[m] \in Marks BY TableElim
<1>2. Reward(t, m) \in Rewards
  BY <1>1, LeadershipConstants DEF Reward, Marks, Rewards
<1> QED BY <1>1, <1>2 DEF Scored, Leaders

(* A report that ranks miners, or rows that do, make a summary.            *)
LEMMA EnrichedType ==
    ASSUME NEW v, NEW r, NEW rep \in Reports, NEW t \in Tables(Marks), NEW places,
           DOMAIN t # {}, DOMAIN rep.rewards \subseteq DOMAIN t
    PROVE  /\ Enriched(v, r, rep, t, places) \in Summaries
           /\ Enriched(v, r, rep, t, places).main = (v = Main)
<1> DEFINE before == IF r = 1 THEN None ELSE rep.before
           best == IF rep.reported THEN Leading(rep.ranks, rep.rewards)
                   ELSE Leading(places, t)
           winner == IF rep.after = None THEN best ELSE rep.after.uid
           others == IF before = None THEN Only(t, {winner})
                     ELSE Only(t, Miners \ {before.uid})
           challenger == IF rep.candidate = None THEN others ELSE Only(t, {rep.candidate})
           candidate == IF DOMAIN challenger = {} THEN None ELSE Scored(Best(challenger), t)
           after == IF winner \in DOMAIN t THEN Scored(winner, t) ELSE rep.after
<1>1. IsReport(rep) /\ rep.rewards \in Tables(Marks) BY ReportTable
<1>2. before \in Leaders \cup {None} BY <1>1 DEF IsReport
<1>3. best \in DOMAIN t
  <2>1. CASE rep.reported
    BY <1>1, <2>1, LeadingIsIn DEF IsReport
  <2>2. CASE ~rep.reported BY <2>2, LeadingIsIn
  <2> QED BY <2>1, <2>2
<1>4. after \in Leaders
  <2>1. CASE winner \in DOMAIN t BY <2>1, ScoredType
  <2>2. CASE winner \notin DOMAIN t
    <3>1. rep.after # None BY <1>3, <2>2
    <3> QED BY <1>1, <2>2, <3>1 DEF IsReport
  <2> QED BY <2>1, <2>2
<1>5. ASSUME NEW S
      PROVE  Only(t, S) \in Tables(Marks) /\ DOMAIN Only(t, S) \subseteq DOMAIN t
  <2>1. Only(t, S) \in Tables(Marks) /\ DOMAIN Only(t, S) = DOMAIN t \cap S
    BY OnlyTable
  <2> QED BY <2>1
<1>6. challenger \in Tables(Marks) /\ DOMAIN challenger \subseteq DOMAIN t
  BY <1>5
<1> HIDE DEF challenger, after, before
<1>7. candidate \in Leaders \cup {None}
  BY <1>6, BestIsIn, ScoredType
<1> HIDE DEF candidate
<1>8. rep.dethroned \in BOOLEAN BY <1>1 DEF IsReport
<1>9. Enriched(v, r, rep, t, places)
        = [main |-> v = Main, before |-> before, candidate |-> candidate,
           after |-> after, dethroned |-> rep.dethroned]
  BY DEF Enriched, candidate, challenger, after, before
<1> QED BY <1>2, <1>4, <1>7, <1>8, <1>9 DEF Summaries

(* A season's summaries.                                                   *)
SeasonType(s) == s \in [Rounds -> Summaries \cup {None}]

(* The leader before a round is the one after the last round decided       *)
(* before it, if there is any.                                             *)
LEMMA LeaderBeforeIs ==
    ASSUME NEW s, SeasonType(s), NEW n \in Int
    PROVE  \/ /\ \A q \in Rounds : q < n => s[q] = None
              /\ LeaderBefore(s, n) = None
           \/ \E q \in Rounds :
                /\ q < n /\ s[q] # None
                /\ \A p \in Rounds : p < n /\ s[p] # None => p <= q
                /\ LeaderBefore(s, n) = s[q].after
                /\ LeaderBefore(s, n) \in Leaders
<1> DEFINE decided == {q \in Rounds : q < n /\ s[q] # None}
<1>1. CASE decided = {} BY <1>1 DEF LeaderBefore
<1>2. CASE decided # {}
  <2>1. decided \subseteq 0..LastRound BY LeadershipConstants DEF Rounds
  <2>2. \E q \in decided : \A p \in decided : q >= p
    <3>1. LastRound \in Nat BY LeadershipConstants
    <3> HIDE DEF decided
    <3> QED BY <1>2, <2>1, <3>1, Greatest
  <2> DEFINE top == CHOOSE q \in decided : \A p \in decided : p <= q
  <2>3. top \in decided /\ \A p \in decided : p <= top
    <3>1. \E q \in decided : \A p \in decided : p <= q BY <2>1, <2>2
    <3> QED BY <3>1
  <2>4. LeaderBefore(s, n) = s[top].after BY <1>2 DEF LeaderBefore
  <2> HIDE DEF top
  <2>5. s[top].after \in Leaders BY <2>3 DEF SeasonType, Summaries
  <2> QED BY <2>3, <2>4, <2>5
<1> QED BY <1>1, <1>2

(* The recomputation fills in what is unknown and leaves the rest.         *)
LEMMA RecomputedIs ==
    ASSUME NEW s, SeasonType(s)
    PROVE  /\ SeasonType(Recomputed(s))
           /\ \A q \in Rounds :
                IF s[q] = None THEN Recomputed(s)[q] = None
                ELSE /\ Recomputed(s)[q] \in Summaries /\ Recomputed(s)[q] # None
                     /\ FillsIn(s[q], Recomputed(s)[q])
                     /\ Outcome(Recomputed(s)[q]) = Outcome(s[q])
                     /\ Recomputed(s)[q].after = s[q].after
                     /\ Recomputed(s)[q].main = s[q].main
                     /\ s[q].before # None => Recomputed(s)[q].before = s[q].before
                     /\ s[q].before = None => Recomputed(s)[q].before = LeaderBefore(s, q)
<1>1. ASSUME NEW q \in Rounds, s[q] # None
      PROVE  /\ Recomputed(s)[q] \in Summaries /\ Recomputed(s)[q] # None
             /\ FillsIn(s[q], Recomputed(s)[q])
             /\ Outcome(Recomputed(s)[q]) = Outcome(s[q])
             /\ Recomputed(s)[q].after = s[q].after
             /\ Recomputed(s)[q].main = s[q].main
             /\ s[q].before # None => Recomputed(s)[q].before = s[q].before
             /\ s[q].before = None => Recomputed(s)[q].before = LeaderBefore(s, q)
  <2> DEFINE filled == IF s[q].before = None THEN LeaderBefore(s, q) ELSE s[q].before
  <2>1. s[q] \in Summaries BY <1>1 DEF SeasonType
  <2>2. q \in Int BY DEF Rounds
  <2>3. filled \in Leaders \cup {None} BY <2>1, <2>2, LeaderBeforeIs DEF Summaries
  <2>4. Recomputed(s)[q] = [s[q] EXCEPT !.before = filled] BY <1>1 DEF Recomputed
  <2> HIDE DEF filled
  <2>5. Recomputed(s)[q] \in Summaries BY <2>1, <2>3, <2>4 DEF Summaries
  <2>6. Recomputed(s)[q] # None BY <2>5, LeadershipConstants
  <2>7. /\ Recomputed(s)[q].before = filled
        /\ Recomputed(s)[q].after = s[q].after
        /\ Recomputed(s)[q].main = s[q].main
    BY <2>1, <2>4 DEF Summaries
  <2>8. Outcome(Recomputed(s)[q]) = Outcome(s[q])
    BY <2>1, <2>3, <2>4 DEF Summaries, Outcome
  <2>9. s[q].before # None => Recomputed(s)[q] = s[q]
    BY <2>1, <2>4 DEF filled, Summaries
  <2> QED BY <2>5, <2>6, <2>7, <2>8, <2>9 DEF filled, FillsIn
<1>2. \A q \in Rounds : s[q] = None => Recomputed(s)[q] = None BY DEF Recomputed
<1>3. Recomputed(s) = [q \in Rounds |-> Recomputed(s)[q]] BY DEF Recomputed
<1>4. SeasonType(Recomputed(s)) BY <1>1, <1>2, <1>3 DEF SeasonType
<1> QED BY <1>1, <1>2, <1>4

----------------------------------------------------------------------------
(* What a request does.                                                    *)

(* The rows of a round after a finish, of rewards and of ranks.            *)
RewardsAfter(r, v, rep, last) == Populated("reward", rows[r], v, rep.rewards, last)
RanksAfter(r, v, rep, last) == Populated("rank", ranks[r], v, GivenRanks(r, v, rep), last)

(* They are tables of the same miners, canonical but for the last one.     *)
LEMMA FinishWrites ==
    ASSUME TypeOK, NEW v \in Validators, NEW r \in Rounds, NEW rep \in Reports, NEW last
    PROVE  LET table == RewardsAfter(r, v, rep, last)
               places == RanksAfter(r, v, rep, last)
               vis == Visible(rows[r], v, rep.rewards, last)
           IN  /\ table \in [Validators -> Tables(Marks)]
               /\ places \in [Validators -> Tables(Places)]
               /\ \A w \in Validators : DOMAIN places[w] = DOMAIN table[w]
               /\ \A w \in Validators \ {v} : /\ DOMAIN table[w] = DOMAIN rows[r][w]
                                              /\ vis[w] = rows[r][w]
               /\ DOMAIN rep.rewards \subseteq DOMAIN table[v]
               /\ \A w \in Validators : \A m \in DOMAIN table[w] :
                    w # v \/ m # last => table[w][m] = Canonical("reward", vis, m)
<1> DEFINE table == RewardsAfter(r, v, rep, last)
           places == RanksAfter(r, v, rep, last)
           vis == Visible(rows[r], v, rep.rewards, last)
<1>1. /\ rows[r] \in [Validators -> Tables(Marks)]
      /\ ranks[r] \in [Validators -> Tables(Places)]
      /\ \A w \in Validators : DOMAIN ranks[r][w] = DOMAIN rows[r][w]
  BY DEF TypeOK, Marks, Places
<1>2. rep.rewards \in Tables(Marks) BY ReportTable
<1>3. /\ GivenRanks(r, v, rep) \in Tables(Places)
      /\ DOMAIN GivenRanks(r, v, rep) = DOMAIN rep.rewards
  <2>1. ranks[r][v] \in Tables(Places) BY <1>1
  <2> QED BY <2>1, GivenRanksTable
<1>4. /\ table \in [Validators -> Tables(Marks)]
      /\ \A w \in Validators \ {v} : DOMAIN table[w] = DOMAIN rows[r][w]
      /\ DOMAIN table[v] = DOMAIN rep.rewards \cup DOMAIN rows[r][v]
      /\ \A w \in Validators : \A m \in DOMAIN table[w] :
           w # v \/ m # last => table[w][m] = Canonical("reward", vis, m)
  BY <1>1, <1>2, CanonicalMark, PopulatedIs DEF RewardsAfter
<1>5. /\ places \in [Validators -> Tables(Places)]
      /\ \A w \in Validators \ {v} : DOMAIN places[w] = DOMAIN ranks[r][w]
      /\ DOMAIN places[v] = DOMAIN rep.rewards \cup DOMAIN ranks[r][v]
  BY <1>1, <1>3, CanonicalPlace, PopulatedIs DEF RanksAfter
<1>6. \A w \in Validators \ {v} : vis[w] = rows[r][w]
  <2>1. IsVisible(vis, Marks, rows[r], v, rep.rewards, last) BY <1>1, <1>2, VisibleType
  <2> QED BY <2>1 DEF IsVisible
<1> HIDE DEF table, places, vis
<1> QED BY <1>1, <1>4, <1>5, <1>6 DEF table, places, vis

(* A finish that may not speak leaves the season as it is; one that may    *)
(* upserts its decision and recomputes.                                    *)
LEMMA FinishDecides ==
    ASSUME TypeOK, NEW v \in Validators, NEW r \in Rounds, NEW rep \in Reports,
           NEW last, NEW authoritative, Finish(v, r, rep, last, authoritative)
    PROVE  /\ rows' = [rows EXCEPT ![r] = RewardsAfter(r, v, rep, last)]
           /\ ranks' = [ranks EXCEPT ![r] = RanksAfter(r, v, rep, last)]
           /\ \/ summary' = summary /\ leader' = leader
              \/ \E decision \in Summaries :
                   /\ decision.main = (v = Main)
                   /\ SeasonType(Upserted(r, decision))
                   /\ summary' = Recomputed(Upserted(r, decision))
                   /\ leader' = LeaderBefore(summary', LastRound + 1)
<1> DEFINE table == RewardsAfter(r, v, rep, last)
           places == RanksAfter(r, v, rep, last)
           decision == Enriched(v, r, rep, table[v], places[v])
<1>1. table \in [Validators -> Tables(Marks)] /\ DOMAIN rep.rewards \subseteq DOMAIN table[v]
  BY FinishWrites
<1>2. rows' = [rows EXCEPT ![r] = table] /\ ranks' = [ranks EXCEPT ![r] = places]
  BY DEF Finish, RewardsAfter, RanksAfter
<1>3. table[v] \in Tables(Marks) BY <1>1
<1>5. CASE authoritative /\ DOMAIN table[v] # {}
  <2>1. summary' = Recomputed(Upserted(r, decision))
    BY <1>5 DEF Finish, RewardsAfter, RanksAfter
  <2>2. leader' = LeaderBefore(summary', LastRound + 1)
    BY <1>5, <2>1 DEF Finish, RewardsAfter, RanksAfter
  <2> HIDE DEF table, places
  <2>3. decision \in Summaries /\ decision.main = (v = Main)
    BY <1>1, <1>3, <1>5, EnrichedType
  <2> HIDE DEF decision
  <2>4. SeasonType(Upserted(r, decision))
    BY <2>3 DEF TypeOK, SeasonType, Upserted
  <2> QED BY <1>2, <2>1, <2>2, <2>3, <2>4 DEF table, places
<1>6. CASE ~(authoritative /\ DOMAIN table[v] # {})
  <2>1. summary' = summary /\ leader' = leader BY <1>6 DEF Finish, RewardsAfter
  <2> QED BY <1>2, <2>1
<1> QED BY <1>5, <1>6

(* Registering a miner keeps the values of the others.                     *)
Registered(t, m) == Over(t, [n \in {m} |-> None])
RegisteredIn(V) ==
    \A t \in Tables(V) : \A m \in Miners :
        /\ Registered(t, m) \in Tables(V)
        /\ DOMAIN Registered(t, m) = DOMAIN t \cup {m}
        /\ Known(Registered(t, m)) = Known(t)
        /\ \A n \in Known(t) : n \in DOMAIN Registered(t, m) /\ Registered(t, m)[n] = t[n]

(* Of whatever values.                                                     *)
LEMMA RegisteringKeeps == \A V : None \in V => RegisteredIn(V)
<1> SUFFICES ASSUME NEW V, None \in V, NEW t \in Tables(V), NEW m \in Miners
             PROVE  /\ Registered(t, m) \in Tables(V)
                    /\ DOMAIN Registered(t, m) = DOMAIN t \cup {m}
                    /\ Known(Registered(t, m)) = Known(t)
                    /\ \A n \in Known(t) : /\ n \in DOMAIN Registered(t, m)
                                            /\ Registered(t, m)[n] = t[n]
  BY DEF RegisteredIn
<1> DEFINE blank == [n \in {m} |-> None]
           u == Over(t, blank)
<1>1. blank \in [{m} -> V] OBVIOUS
<1>2. blank \in Tables(V) /\ DOMAIN blank = {m} BY <1>1, TableIntro
<1>3. \A n \in DOMAIN blank : blank[n] = None OBVIOUS
<1>o. OverIn(V) BY OverTables
<1> HIDE DEF blank
<1>4. /\ u \in Tables(V)
      /\ DOMAIN u = DOMAIN t \cup DOMAIN blank
      /\ \A n \in DOMAIN t : u[n] = t[n]
      /\ \A n \in DOMAIN blank \ DOMAIN t : u[n] = blank[n]
  BY <1>2, <1>o DEF OverIn
<1>7. Registered(t, m) = u BY DEF Registered, blank
<1> HIDE DEF u
<1>5. Known(u) = Known(t) BY <1>3, <1>4 DEF Known
<1>6. \A n \in Known(t) : n \in DOMAIN u /\ u[n] = t[n] BY <1>4 DEF Known
<1> QED BY <1>2, <1>4, <1>5, <1>6, <1>7

----------------------------------------------------------------------------
(* Types, the season's leader and the leaders before the rounds.           *)

IInv == TypeOK /\ SeasonLeaderIsLatest /\ UnknownOnlyAtTheStart

(* At the beginning nothing is stored.                                     *)
LEMMA InitIInv == Init => IInv
<1> SUFFICES ASSUME Init PROVE IInv OBVIOUS
<1>1. NoRewards \in Tables(Rewards \cup {None}) /\ NoRewards \in Tables(Ranks \cup {None})
  BY NoRewardsTable
<1>2. TypeOK BY <1>1 DEF Init, TypeOK
<1> QED BY <1>2 DEF Init, IInv, SeasonLeaderIsLatest, UnknownOnlyAtTheStart

(* After a recomputation only the first round summarised may have an       *)
(* unknown leader before it, and the season's is the last one's.           *)
LEMMA RecomputedSeason ==
    ASSUME NEW s, SeasonType(s)
    PROVE  LET t == Recomputed(s) IN
           /\ \A q \in Rounds : t[q] # None /\ t[q].before = None
                => \A p \in Rounds : p < q => t[p] = None
           /\ \A q \in Rounds : t[q] # None /\ (\A p \in Rounds : p > q => t[p] = None)
                => LeaderBefore(t, LastRound + 1) = t[q].after
           /\ (\A q \in Rounds : t[q] = None) => LeaderBefore(t, LastRound + 1) = None
           /\ LeaderBefore(t, LastRound + 1) \in Leaders \cup {None}
<1> DEFINE t == Recomputed(s)
<1>1. /\ SeasonType(t)
      /\ \A q \in Rounds : s[q] = None <=> t[q] = None
      /\ \A q \in Rounds : t[q] # None /\ t[q].before = None => LeaderBefore(s, q) = None
  BY RecomputedIs
<1> HIDE DEF t
<1>2. Rounds \subseteq Int /\ LastRound + 1 \in Int /\ \A q \in Rounds : q < LastRound + 1
  BY LeadershipConstants DEF Rounds
<1>3. ASSUME NEW q \in Rounds, t[q] # None, t[q].before = None, NEW p \in Rounds, p < q
      PROVE  t[p] = None
  <2>1. LeaderBefore(s, q) = None BY <1>1, <1>3
  <2>2. LeaderBefore(s, q) \notin Leaders BY <2>1, LeadershipConstants
  <2>3. \A o \in Rounds : o < q => s[o] = None BY <1>2, <2>2, LeaderBeforeIs
  <2> QED BY <1>1, <1>3, <2>3
<1>4. \/ /\ \A q \in Rounds : t[q] = None
         /\ LeaderBefore(t, LastRound + 1) = None
      \/ \E q \in Rounds :
            /\ t[q] # None
            /\ \A p \in Rounds : t[p] # None => p <= q
            /\ LeaderBefore(t, LastRound + 1) = t[q].after
            /\ LeaderBefore(t, LastRound + 1) \in Leaders
  BY <1>1, <1>2, LeaderBeforeIs
<1>5. ASSUME NEW q \in Rounds, t[q] # None, \A p \in Rounds : p > q => t[p] = None
      PROVE  LeaderBefore(t, LastRound + 1) = t[q].after
  <2>1. PICK top \in Rounds :
            /\ t[top] # None
            /\ \A p \in Rounds : t[p] # None => p <= top
            /\ LeaderBefore(t, LastRound + 1) = t[top].after
    BY <1>4, <1>5
  <2>2. q <= top /\ ~(top > q) BY <1>5, <2>1
  <2>3. top = q BY <1>2, <2>2
  <2> QED BY <2>1, <2>3
<1> QED BY <1>3, <1>4, <1>5 DEF t

(* The columns of the rows have their types and are of the same miners.    *)
ColumnsType ==
    /\ rows \in [Rounds -> [Validators -> Tables(Marks)]]
    /\ ranks \in [Rounds -> [Validators -> Tables(Places)]]
    /\ \A r \in Rounds, v \in Validators : DOMAIN ranks[r][v] = DOMAIN rows[r][v]

(* A start and a registration keep them so.                                *)
LEMMA StartedColumns ==
    ASSUME ColumnsType, NEW v \in Validators, NEW r \in Rounds,
           Start(v, r) \/ \E m \in Miners : RegisterMiner(v, r, m)
    PROVE  ColumnsType'
<1>1. CASE Start(v, r)
  <2>1. NoRewards \in Tables(Marks) /\ NoRewards \in Tables(Places) BY NoRewardsTable
  <2>2. /\ rows' = [rows EXCEPT ![r][v] = NoRewards]
        /\ ranks' = [ranks EXCEPT ![r][v] = NoRewards]
    BY <1>1 DEF Start
  <2> QED BY <2>1, <2>2 DEF ColumnsType
<1>2. ASSUME NEW m \in Miners, RegisterMiner(v, r, m) PROVE ColumnsType'
  <2> DEFINE table == Registered(rows[r][v], m)
             places == Registered(ranks[r][v], m)
  <2>1. None \in Marks /\ None \in Places BY DEF Marks, Places
  <2>2. RegisteredIn(Marks) /\ RegisteredIn(Places) BY <2>1, RegisteringKeeps
  <2>3. /\ table \in Tables(Marks) /\ DOMAIN table = DOMAIN rows[r][v] \cup {m}
        /\ places \in Tables(Places) /\ DOMAIN places = DOMAIN ranks[r][v] \cup {m}
    <3>1. rows[r][v] \in Tables(Marks) /\ ranks[r][v] \in Tables(Places) BY DEF ColumnsType
    <3> QED BY <2>2, <3>1 DEF RegisteredIn
  <2>4. /\ rows' = [rows EXCEPT ![r][v] = table]
        /\ ranks' = [ranks EXCEPT ![r][v] = places]
    BY <1>2 DEF RegisterMiner, Registered
  <2> HIDE DEF table, places
  <2> QED BY <2>3, <2>4 DEF ColumnsType
<1> QED BY <1>1, <1>2

(* So does a finish.                                                       *)
LEMMA FinishedColumns ==
    ASSUME TypeOK, ColumnsType, NEW v \in Validators, NEW r \in Rounds,
           NEW rep \in Reports, NEW last, NEW authoritative,
           Finish(v, r, rep, last, authoritative)
    PROVE  ColumnsType'
<1> DEFINE table == RewardsAfter(r, v, rep, last)
           places == RanksAfter(r, v, rep, last)
<1>1. /\ table \in [Validators -> Tables(Marks)]
      /\ places \in [Validators -> Tables(Places)]
      /\ \A w \in Validators : DOMAIN places[w] = DOMAIN table[w]
  BY FinishWrites
<1>2. rows' = [rows EXCEPT ![r] = table] /\ ranks' = [ranks EXCEPT ![r] = places]
  BY FinishDecides
<1> HIDE DEF table, places
<1> QED BY <1>1, <1>2 DEF ColumnsType

(* Every request preserves the invariant.                                  *)
LEMMA NextIInv == IInv /\ [Next]_vars => IInv'
<1> SUFFICES ASSUME IInv, [Next]_vars PROVE IInv' OBVIOUS
<1>t. TypeOK /\ SeasonLeaderIsLatest /\ UnknownOnlyAtTheStart BY DEF IInv
<1>c. ColumnsType BY <1>t DEF TypeOK, ColumnsType, Marks, Places
<1>1. ASSUME NEW v \in Validators, NEW r \in Rounds, Start(v, r) PROVE IInv'
  <2>1. ColumnsType' BY <1>1, <1>c, StartedColumns
  <2>2. TypeOK' BY <1>1, <1>t, <2>1 DEF Start, TypeOK, ColumnsType, Marks, Places
  <2> QED BY <1>1, <1>t, <2>2
        DEF IInv, Start, SeasonLeaderIsLatest, UnknownOnlyAtTheStart
<1>2. ASSUME NEW v \in Validators, NEW r \in Rounds, NEW m \in Miners, RegisterMiner(v, r, m)
      PROVE  IInv'
  <2>1. ColumnsType' BY <1>2, <1>c, StartedColumns
  <2>3. TypeOK' BY <1>2, <1>t, <2>1 DEF RegisterMiner, TypeOK, ColumnsType, Marks, Places
  <2> QED BY <1>2, <1>t, <2>3
        DEF IInv, RegisterMiner, SeasonLeaderIsLatest, UnknownOnlyAtTheStart
<1>3. ASSUME NEW v \in Validators, NEW r \in Rounds, NEW rep \in Reports, NEW last \in Miners,
             NEW authoritative \in BOOLEAN, Finish(v, r, rep, last, authoritative)
      PROVE  IInv'
  <2>c. ColumnsType' BY <1>3, <1>c, <1>t, FinishedColumns
  <2>1. /\ rows' \in [Rounds -> [Validators -> Tables(Rewards \cup {None})]]
        /\ ranks' \in [Rounds -> [Validators -> Tables(Ranks \cup {None})]]
        /\ \A q \in Rounds, w \in Validators : DOMAIN ranks'[q][w] = DOMAIN rows'[q][w]
    BY <2>c DEF ColumnsType, Marks, Places
  <2>2. closed' \subseteq Rounds BY <1>3, <1>t DEF Finish, TypeOK
  <2>3. CASE summary' = summary /\ leader' = leader
    BY <1>t, <2>1, <2>2, <2>3
    DEF IInv, TypeOK, SeasonLeaderIsLatest, UnknownOnlyAtTheStart
  <2>4. CASE \E s : /\ SeasonType(s) /\ summary' = Recomputed(s)
                    /\ leader' = LeaderBefore(summary', LastRound + 1)
    <3>1. PICK s : /\ SeasonType(s) /\ summary' = Recomputed(s)
                   /\ leader' = LeaderBefore(Recomputed(s), LastRound + 1)
      BY <2>4
    <3> DEFINE t == Recomputed(s)
    <3>2. SeasonType(t) BY <3>1, RecomputedIs
    <3>3. /\ \A q \in Rounds : t[q] # None /\ t[q].before = None
                => \A p \in Rounds : p < q => t[p] = None
          /\ \A q \in Rounds : t[q] # None /\ (\A p \in Rounds : p > q => t[p] = None)
                => LeaderBefore(t, LastRound + 1) = t[q].after
          /\ (\A q \in Rounds : t[q] = None) => LeaderBefore(t, LastRound + 1) = None
          /\ LeaderBefore(t, LastRound + 1) \in Leaders \cup {None}
      BY <3>1, RecomputedSeason
    <3>4. summary' = t /\ leader' = LeaderBefore(t, LastRound + 1) BY <3>1
    <3> HIDE DEF t
    <3>5. TypeOK' BY <2>1, <2>2, <3>2, <3>3, <3>4 DEF TypeOK, SeasonType
    <3>6. SeasonLeaderIsLatest' BY <3>3, <3>4 DEF SeasonLeaderIsLatest
    <3>7. UnknownOnlyAtTheStart' BY <3>3, <3>4 DEF UnknownOnlyAtTheStart
    <3> QED BY <3>5, <3>6, <3>7 DEF IInv
  <2> QED BY <1>3, <1>t, <2>3, <2>4, FinishDecides
<1>4. CASE UNCHANGED vars
  BY <1>t, <1>4 DEF vars, IInv, TypeOK, SeasonLeaderIsLatest, UnknownOnlyAtTheStart
<1>5. ASSUME NEW r \in Rounds, Expire(r) PROVE IInv'
  BY <1>t, <1>5 DEF Expire, IInv, TypeOK, SeasonLeaderIsLatest, UnknownOnlyAtTheStart
<1> QED BY <1>1, <1>2, <1>3, <1>4, <1>5 DEF Next, RequestBy

(* Every reachable season meets the invariant.                             *)
LEMMA Invariance == Spec => []IInv
BY InitIInv, NextIInv, PTL DEF Spec

(* Every column always holds a value of its kind.                          *)
THEOREM TypeCorrectness == Spec => []TypeOK
<1>1. IInv => TypeOK BY DEF IInv
<1> QED BY <1>1, Invariance, PTL

(* In whatever order rounds are summarised, and however often, the         *)
(* season's leader is the one its last summarised round left.              *)
THEOREM LeaderAlwaysLatest == Spec => []SeasonLeaderIsLatest
<1>1. IInv => SeasonLeaderIsLatest BY DEF IInv
<1> QED BY <1>1, Invariance, PTL

(* Only the first summarised round has an unknown leader before it.        *)
THEOREM UnknownAlwaysFirst == Spec => []UnknownOnlyAtTheStart
<1>1. IInv => UnknownOnlyAtTheStart BY DEF IInv
<1> QED BY <1>1, Invariance, PTL

----------------------------------------------------------------------------
(* One round at a time.                                                    *)

(* An upsert touches no other round's summary, and none of the main        *)
(* validator's unless it is its own.                                       *)
LEMMA UpsertedIs ==
    ASSUME SeasonType(summary), NEW r \in Rounds, NEW decision \in Summaries
    PROVE  /\ \A q \in Rounds \ {r} : Upserted(r, decision)[q] = summary[q]
           /\ summary[r] # None /\ summary[r].main /\ ~decision.main
                => Upserted(r, decision) = summary
BY DEF Upserted, SeasonType

(* What OneRoundAtATime says of the rounds that are not r.                 *)
ElsewhereStands(r) ==
    \A q \in Rounds \ {r} :
        /\ rows'[q] = rows[q] /\ ranks'[q] = ranks[q]
        /\ IF summary[q] = None THEN summary'[q] = None
           ELSE summary'[q] # None /\ FillsIn(summary[q], summary'[q])

(* A finish of a round changes nothing of another one but an unknown       *)
(* leader before it.                                                       *)
LEMMA FinishElsewhere ==
    ASSUME IInv, NEW v \in Validators, NEW r \in Rounds, NEW rep \in Reports,
           NEW last, NEW authoritative, Finish(v, r, rep, last, authoritative)
    PROVE  ElsewhereStands(r)
<1>t. TypeOK /\ SeasonType(summary) BY DEF IInv, TypeOK, SeasonType
<1>r. /\ rows \in [Rounds -> [Validators -> Tables(Marks)]]
      /\ ranks \in [Rounds -> [Validators -> Tables(Places)]]
  BY <1>t DEF TypeOK, Marks, Places
<1>1. /\ rows' = [rows EXCEPT ![r] = RewardsAfter(r, v, rep, last)]
      /\ ranks' = [ranks EXCEPT ![r] = RanksAfter(r, v, rep, last)]
  BY <1>t, FinishDecides
<1>2. \A q \in Rounds \ {r} : rows'[q] = rows[q] /\ ranks'[q] = ranks[q] BY <1>1, <1>r
<1>3. CASE summary' = summary BY <1>2, <1>3 DEF FillsIn, ElsewhereStands
<1>4. CASE \E decision \in Summaries : /\ SeasonType(Upserted(r, decision))
                                       /\ summary' = Recomputed(Upserted(r, decision))
  <2>1. PICK decision \in Summaries : /\ SeasonType(Upserted(r, decision))
                                      /\ summary' = Recomputed(Upserted(r, decision))
    BY <1>4
  <2> DEFINE s == Upserted(r, decision)
  <2>2. \A q \in Rounds \ {r} : s[q] = summary[q] BY <1>t, UpsertedIs
  <2>3. SeasonType(s) /\ summary' = Recomputed(s) BY <2>1
  <2> HIDE DEF s
  <2>4. \A q \in Rounds : IF s[q] = None THEN summary'[q] = None
                          ELSE summary'[q] # None /\ FillsIn(s[q], summary'[q])
    BY <2>3, RecomputedIs
  <2> QED BY <1>2, <2>2, <2>4 DEF ElsewhereStands
<1> QED BY <1>t, <1>3, <1>4, FinishDecides

(* A request changes what is stored of one round, and of the others        *)
(* nothing but a leader before them that was unknown.                      *)
THEOREM AlwaysOneRoundAtATime == Spec => OneRoundAtATime
<1>1. IInv /\ [Next]_vars => [\E r \in Rounds : ElsewhereStands(r)]_vars
  <2> SUFFICES ASSUME IInv, Next PROVE \E r \in Rounds : ElsewhereStands(r)
    OBVIOUS
  <2>r. /\ rows \in [Rounds -> [Validators -> Tables(Marks)]]
        /\ ranks \in [Rounds -> [Validators -> Tables(Places)]]
    BY DEF IInv, TypeOK, Marks, Places
  <2>1. ASSUME NEW v \in Validators, NEW r \in Rounds, Start(v, r)
        PROVE  ElsewhereStands(r)
    BY <2>1, <2>r DEF Start, FillsIn, ElsewhereStands
  <2>2. ASSUME NEW v \in Validators, NEW r \in Rounds, NEW m \in Miners,
               RegisterMiner(v, r, m)
        PROVE  ElsewhereStands(r)
    BY <2>2, <2>r DEF RegisterMiner, FillsIn, ElsewhereStands
  <2>3. ASSUME NEW r \in Rounds, Expire(r) PROVE ElsewhereStands(r)
    BY <2>3 DEF Expire, FillsIn, ElsewhereStands
  <2> QED BY <2>1, <2>2, <2>3, FinishElsewhere DEF Next, RequestBy
<1> QED BY <1>1, Invariance, PTL DEF Spec, OneRoundAtATime, ElsewhereStands

----------------------------------------------------------------------------
(* Backups never overrule.                                                 *)

(* What a request of a backup leaves of what the main validator said.      *)
LEMMA BackupLeaves ==
    ASSUME IInv, NEW v \in Validators \ {Main}, RequestBy(v), NEW q \in Rounds
    PROVE  RewardsStand(q) /\ OutcomeStands(q)
<1>t. TypeOK /\ SeasonType(summary) BY DEF IInv, TypeOK, SeasonType
<1>r. rows \in [Rounds -> [Validators -> Tables(Marks)]] BY <1>t DEF TypeOK, Marks
<1>m. Main \in Validators /\ Main # v BY LeadershipConstants
<1>1. ASSUME NEW r \in Rounds, Start(v, r) PROVE RewardsStand(q) /\ OutcomeStands(q)
  <2>1. rows'[q][Main] = rows[q][Main] BY <1>1, <1>r, <1>m DEF Start
  <2> QED BY <1>1, <2>1 DEF Start, RewardsStand, OutcomeStands, Known
<1>2. ASSUME NEW r \in Rounds, NEW m \in Miners, RegisterMiner(v, r, m)
      PROVE  RewardsStand(q) /\ OutcomeStands(q)
  <2>1. rows'[q][Main] = rows[q][Main] BY <1>2, <1>r, <1>m DEF RegisterMiner
  <2> QED BY <1>2, <2>1 DEF RegisterMiner, RewardsStand, OutcomeStands, Known
<1>3. ASSUME NEW r \in Rounds, NEW rep \in Reports, NEW last \in Miners,
             NEW authoritative \in BOOLEAN, Finish(v, r, rep, last, authoritative)
      PROVE  RewardsStand(q) /\ OutcomeStands(q)
  <2> DEFINE table == RewardsAfter(r, v, rep, last)
             vis == Visible(rows[r], v, rep.rewards, last)
  <2>1. rows' = [rows EXCEPT ![r] = table] BY <1>3, <1>t, FinishDecides
  <2>3. /\ DOMAIN table[Main] = DOMAIN rows[r][Main]
        /\ vis[Main] = rows[r][Main]
        /\ \A m \in DOMAIN table[Main] : table[Main][m] = Canonical("reward", vis, m)
    BY <1>m, <1>t, FinishWrites
  <2> HIDE DEF table, vis
  <2>5. \A m \in Known(rows[r][Main]) : table[Main][m] = rows[r][Main][m]
    BY <2>3 DEF Canonical, Known
  <2>6. RewardsStand(q)
    <3>1. CASE q = r
      <4>1. rows'[q][Main] = table[Main] BY <2>1, <1>r, <3>1
      <4> QED BY <2>3, <2>5, <3>1, <4>1 DEF RewardsStand, Known
    <3>2. CASE q # r
      <4>1. rows'[q][Main] = rows[q][Main] BY <2>1, <1>r, <3>2
      <4> QED BY <4>1 DEF RewardsStand, Known
    <3> QED BY <3>1, <3>2
  <2>7. CASE summary' = summary BY <2>6, <2>7 DEF OutcomeStands
  <2>8. CASE \E decision \in Summaries : /\ decision.main = (v = Main)
                                         /\ SeasonType(Upserted(r, decision))
                                         /\ summary' = Recomputed(Upserted(r, decision))
    <3>1. PICK decision \in Summaries : /\ decision.main = (v = Main)
                                        /\ SeasonType(Upserted(r, decision))
                                        /\ summary' = Recomputed(Upserted(r, decision))
      BY <2>8
    <3> DEFINE s == Upserted(r, decision)
    <3>2. ~decision.main BY <1>m, <3>1
    <3>3. summary[q] # None /\ summary[q].main => s[q] = summary[q]
      BY <1>t, <3>2, UpsertedIs
    <3>4. SeasonType(s) /\ summary' = Recomputed(s) BY <3>1
    <3> HIDE DEF s
    <3>5. s[q] # None => summary'[q] # None /\ Outcome(summary'[q]) = Outcome(s[q])
      BY <3>4, RecomputedIs
    <3> QED BY <2>6, <3>3, <3>5 DEF OutcomeStands
  <2> QED BY <1>3, <1>t, <2>7, <2>8, FinishDecides
<1> QED BY <1>1, <1>2, <1>3 DEF RequestBy

(* What the main validator said of a round, of its rewards and of its      *)
(* outcome, is changed by its own requests only.                           *)
THEOREM BackupsNeverDo == Spec => BackupsNeverOverrule
<1>1. IInv /\ [Next]_vars =>
        [(\A r \in Rounds : RewardsStand(r) /\ OutcomeStands(r)) \/ RequestBy(Main)]_vars
  <2>1. ASSUME NEW r \in Rounds, Expire(r), NEW q \in Rounds
        PROVE  RewardsStand(q) /\ OutcomeStands(q)
    BY <2>1 DEF Expire, RewardsStand, OutcomeStands, Known
  <2> QED BY <2>1, BackupLeaves DEF Next
<1> QED BY <1>1, Invariance, PTL DEF Spec, BackupsNeverOverrule

----------------------------------------------------------------------------
(* One stray at most.                                                      *)

(* A request that changes the rewards of a validator forgets some of them  *)
(* or is a finish, which leaves one of them apart.                         *)
LEMMA StraysStep == IInv /\ OneStrayAtMost /\ [Next]_vars => OneStrayAtMost'
<1> SUFFICES ASSUME IInv, OneStrayAtMost, [Next]_vars,
                    NEW q \in Rounds, NEW w \in Validators
             PROVE  (\A m, n \in Strays(q, w) : m = n)'
  BY DEF OneStrayAtMost
<1>t. TypeOK BY DEF IInv
<1>r. rows \in [Rounds -> [Validators -> Tables(Marks)]] BY <1>t DEF TypeOK, Marks
<1>m. Main \in Validators BY LeadershipConstants
<1>0. ASSUME \A u \in {w, Main} :
                \A m \in Known(rows'[q][u]) : /\ m \in Known(rows[q][u])
                                              /\ rows'[q][u][m] = rows[q][u][m]
      PROVE  (\A m, n \in Strays(q, w) : m = n)'
  <2>1. Strays(q, w)' \subseteq Strays(q, w) BY <1>0 DEF Strays
  <2> QED BY <2>1 DEF OneStrayAtMost
<1>1. ASSUME NEW v \in Validators, NEW r \in Rounds, Start(v, r)
      PROVE  (\A m, n \in Strays(q, w) : m = n)'
  <2>1. \A u \in {w, Main} : rows'[q][u] = rows[q][u] \/ rows'[q][u] = NoRewards
    BY <1>1, <1>r, <1>m DEF Start
  <2>2. Known(NoRewards) = {} BY DEF Known, NoRewards
  <2> QED BY <1>0, <2>1, <2>2
<1>2. ASSUME NEW v \in Validators, NEW r \in Rounds, NEW m \in Miners, RegisterMiner(v, r, m)
      PROVE  (\A o, n \in Strays(q, w) : o = n)'
  <2> DEFINE more == Registered(rows[r][v], m)
  <2>1. rows' = [rows EXCEPT ![r][v] = more] BY <1>2 DEF RegisterMiner, Registered
  <2>n. None \in Marks BY DEF Marks
  <2>4. RegisteredIn(Marks) BY <2>n, RegisteringKeeps
  <2>2. /\ Known(more) = Known(rows[r][v])
        /\ \A n \in Known(rows[r][v]) : more[n] = rows[r][v][n]
    <3>1. rows[r][v] \in Tables(Marks) BY <1>r
    <3> QED BY <2>4, <3>1 DEF RegisteredIn
  <2> HIDE DEF more
  <2>3. \A u \in {w, Main} : \/ rows'[q][u] = rows[q][u]
                             \/ q = r /\ u = v /\ rows'[q][u] = more
    BY <2>1, <1>r, <1>m
  <2> QED BY <1>0, <2>2, <2>3
<1>3. ASSUME NEW v \in Validators, NEW r \in Rounds, NEW rep \in Reports, NEW last \in Miners,
             NEW authoritative \in BOOLEAN, Finish(v, r, rep, last, authoritative)
      PROVE  (\A m, n \in Strays(q, w) : m = n)'
  <2> DEFINE table == RewardsAfter(r, v, rep, last)
             vis == Visible(rows[r], v, rep.rewards, last)
  <2>1. rows' = [rows EXCEPT ![r] = table] BY <1>3, <1>t, FinishDecides
  <2>3. \A u \in Validators : \A m \in DOMAIN table[u] :
            m # last => table[u][m] = Canonical("reward", vis, m)
    BY <1>t, FinishWrites
  <2> HIDE DEF table, vis
  <2>4. CASE q # r
    <3>1. \A u \in {w, Main} : rows'[q][u] = rows[q][u] BY <2>1, <2>4, <1>r, <1>m
    <3> QED BY <1>0, <3>1
  <2>5. CASE q = r
    <3>1. rows'[q] = table BY <2>1, <2>5, <1>r
    <3>2. \A u \in {w, Main} : \A m \in Known(rows'[q][u]) :
              m # last => rows'[q][u][m] = Canonical("reward", vis, m)
      BY <1>m, <2>3, <3>1 DEF Known
    <3>3. Strays(q, w)' \subseteq {last} BY <3>2 DEF Strays
    <3> QED BY <3>3
  <2> QED BY <2>4, <2>5
<1>4. CASE UNCHANGED vars
  <2>1. rows' = rows BY <1>4 DEF vars
  <2> QED BY <1>0, <2>1
<1>5. ASSUME NEW r \in Rounds, Expire(r)
      PROVE  (\A m, n \in Strays(q, w) : m = n)'
  <2>1. rows' = rows BY <1>5 DEF Expire
  <2> QED BY <1>0, <2>1
<1> QED BY <1>1, <1>2, <1>3, <1>4, <1>5 DEF Next, RequestBy

(* A validator's rewards differ from the main validator's in one miner at  *)
(* most.                                                                   *)
THEOREM AlwaysOneStrayAtMost == Spec => []OneStrayAtMost
<1>1. Init => OneStrayAtMost
  <2>1. Known(NoRewards) = {} BY DEF Known, NoRewards
  <2> QED BY <2>1, LeadershipConstants DEF Init, OneStrayAtMost, Strays
<1> QED BY <1>1, StraysStep, Invariance, PTL DEF Spec

----------------------------------------------------------------------------
(* The rows a board is made of.                                            *)

RowsAreTables ==
    \A r \in Rounds, v \in Validators : /\ rows[r][v] \in Tables(Marks)
                                        /\ ranks[r][v] \in Tables(Places)
                                        /\ DOMAIN ranks[r][v] = DOMAIN rows[r][v]

(* An entry of a board is a round, a validator, a reward and a rank.       *)
LEMMA EntryIs ==
    ASSUME RowsAreTables, NEW who \in SUBSET Validators, NEW m, NEW e \in Entries(who, m)
    PROVE  /\ e = <<e[1], e[2]>> /\ e[1] \in Rounds /\ e[2] \in who
           /\ m \in Miners /\ m \in Known(rows[e[1]][e[2]])
           /\ RewardOf(e, m) \in 0..TopReward /\ RankOf(e, m) \in Nat
<1>1. /\ e = <<e[1], e[2]>> /\ e[1] \in Rounds /\ e[2] \in who
      /\ m \in Known(rows[e[1]][e[2]])
  BY DEF Entries
<1> DEFINE t == rows[e[1]][e[2]]
           p == ranks[e[1]][e[2]]
<1>2. t \in Tables(Marks) /\ p \in Tables(Places) /\ DOMAIN p = DOMAIN t
  BY <1>1 DEF RowsAreTables
<1>3. /\ DOMAIN t \subseteq Miners
      /\ \A n \in DOMAIN t : t[n] \in Marks /\ p[n] \in Places
  BY <1>2, TableElim
<1>4. m \in Miners /\ t[m] \in Rewards /\ p[m] \in Places
  BY <1>1, <1>3 DEF Known, Marks
<1>5. RankOf(e, m) \in Nat
  <2>1. Ranks \subseteq Nat BY LeadershipConstants DEF Ranks
  <2>2. RankOf(e, m) = IF p[m] = None THEN 9999 ELSE p[m] BY DEF RankOf
  <2> HIDE DEF p
  <2>3. p[m] = None \/ p[m] \in Nat BY <1>4, <2>1 DEF Places
  <2> QED BY <2>2, <2>3
<1> QED BY <1>1, <1>4, <1>5 DEF RewardOf, Rewards

(* Of some entries one is the best: the highest reward, then the best      *)
(* rank, then the earliest round.                                          *)
LEMMA BestEntryIs ==
    ASSUME RowsAreTables, NEW who \in SUBSET Validators, NEW m, Entries(who, m) # {}
    PROVE  /\ BestEntry(who, m) \in Entries(who, m)
           /\ \A f \in Entries(who, m) : BetterEntry(BestEntry(who, m), f, m)
<1> DEFINE E == Entries(who, m)
           R == {RewardOf(e, m) : e \in E}
<1>e. \A e \in E : /\ e[1] \in Rounds /\ RewardOf(e, m) \in 0..TopReward
                   /\ RankOf(e, m) \in Nat
  BY EntryIs
<1>n. Rounds \subseteq Nat /\ TopReward \in Nat BY LeadershipConstants DEF Rounds
<1>1. R \subseteq 0..TopReward /\ R # {} BY <1>e
<1> HIDE DEF R
<1>2. PICK top \in R : \A x \in R : top >= x BY <1>1, <1>n, Greatest
<1> DEFINE E1 == {e \in E : RewardOf(e, m) = top}
           K == {RankOf(e, m) : e \in E1}
<1>3. E1 # {} BY <1>2 DEF R
<1>4. K \subseteq Nat /\ K # {} BY <1>e, <1>3
<1> HIDE DEF K
<1>5. PICK k \in K : \A x \in K : k <= x BY <1>4, Smallest
<1> DEFINE E2 == {e \in E1 : RankOf(e, m) = k}
           N == {e[1] : e \in E2}
<1>6. E2 # {} BY <1>5 DEF K
<1>7. N \subseteq Nat /\ N # {} BY <1>e, <1>n, <1>6
<1> HIDE DEF N
<1>8. PICK first \in N : \A x \in N : first <= x BY <1>7, Smallest
<1>9. PICK b \in E2 : b[1] = first BY <1>8 DEF N
<1>10. ASSUME NEW f \in E PROVE BetterEntry(b, f, m)
  <2>1. CASE f \notin E1
    <3>1. RewardOf(f, m) \in R /\ RewardOf(f, m) # top /\ RewardOf(b, m) = top
      BY <2>1 DEF R
    <3>2. RewardOf(b, m) > RewardOf(f, m) BY <1>2, <1>e, <1>n, <3>1
    <3> QED BY <3>2 DEF BetterEntry
  <2>2. CASE f \in E1 \ E2
    <3>1. RankOf(f, m) \in K /\ RankOf(f, m) # k /\ RankOf(b, m) = k
      BY <2>2 DEF K
    <3>2. RankOf(b, m) < RankOf(f, m) BY <1>5, <1>e, <3>1
    <3> QED BY <3>2, <2>2 DEF BetterEntry
  <2>3. CASE f \in E2
    <3>1. b[1] <= f[1] BY <1>8, <1>9, <2>3 DEF N
    <3> QED BY <3>1, <2>3 DEF BetterEntry
  <2> QED BY <2>1, <2>2, <2>3
<1>11. \E e \in E : \A f \in E : BetterEntry(e, f, m) BY <1>10
<1> QED BY <1>11 DEF BestEntry

(* Two entries each as good as the other have one reward, rank and round.  *)
LEMMA NoneBetter ==
    ASSUME NEW m, NEW e, NEW f, BetterEntry(e, f, m), BetterEntry(f, e, m),
           RewardOf(e, m) \in Int, RewardOf(f, m) \in Int,
           RankOf(e, m) \in Int, RankOf(f, m) \in Int, e[1] \in Int, f[1] \in Int
    PROVE  RewardOf(e, m) = RewardOf(f, m) /\ RankOf(e, m) = RankOf(f, m) /\ e[1] = f[1]
BY DEF BetterEntry

(* Where the validators of every round speak with one voice, it does not   *)
(* matter whose entries a board is made of.                                *)
LEMMA OneVoiceOneEntry ==
    ASSUME RowsAreTables, \A r \in Rounds : OneVoice(r)
    PROVE  /\ Ranked(Validators) = Ranked({Main})
           /\ \A m \in Ranked({Main}) :
                LET e == BestEntry(Validators, m)
                    f == BestEntry({Main}, m)
                IN  /\ RewardOf(e, m) = RewardOf(f, m)
                    /\ RankOf(e, m) = RankOf(f, m)
<1>m. Main \in Validators /\ {Main} \in SUBSET Validators BY LeadershipConstants
<1>n. Rounds \subseteq Int BY LeadershipConstants DEF Rounds
<1>1. ASSUME NEW m, NEW e \in Entries(Validators, m)
      PROVE  LET f == <<e[1], Main>> IN
             /\ f \in Entries({Main}, m)
             /\ RewardOf(e, m) = RewardOf(f, m)
             /\ RankOf(e, m) = RankOf(f, m)
  <2>1. /\ e[1] \in Rounds /\ e[2] \in Validators
        /\ m \in Known(rows[e[1]][e[2]])
    BY <1>1, <1>m, EntryIs
  <2>2. /\ rows[e[1]][e[2]] = rows[e[1]][Main]
        /\ ranks[e[1]][e[2]] = ranks[e[1]][Main]
    BY <2>1 DEF OneVoice, Known
  <2> QED BY <2>1, <2>2 DEF Entries, RewardOf, RankOf
<1>2. \A m : Entries({Main}, m) \subseteq Entries(Validators, m) BY <1>m DEF Entries
<1>3. Ranked(Validators) = Ranked({Main})
  <2>1. \A m \in Miners : Entries(Validators, m) # {} <=> Entries({Main}, m) # {}
    BY <1>1, <1>2
  <2> QED BY <2>1 DEF Ranked
<1>4. ASSUME NEW m \in Ranked({Main})
      PROVE  LET e == BestEntry(Validators, m)
                 f == BestEntry({Main}, m)
             IN  /\ RewardOf(e, m) = RewardOf(f, m)
                 /\ RankOf(e, m) = RankOf(f, m)
  <2> DEFINE e == BestEntry(Validators, m)
             f == BestEntry({Main}, m)
             g == <<e[1], Main>>
  <2>1. Entries({Main}, m) # {} /\ Entries(Validators, m) # {} BY <1>2 DEF Ranked
  <2>2. /\ e \in Entries(Validators, m)
        /\ \A d \in Entries(Validators, m) : BetterEntry(e, d, m)
        /\ f \in Entries({Main}, m)
        /\ \A d \in Entries({Main}, m) : BetterEntry(f, d, m)
    BY <1>m, <2>1, BestEntryIs
  <2> HIDE DEF e, f
  <2>3. /\ g \in Entries({Main}, m)
        /\ RewardOf(e, m) = RewardOf(g, m) /\ RankOf(e, m) = RankOf(g, m)
    BY <1>1, <2>2
  <2>4. BetterEntry(e, f, m) /\ BetterEntry(f, g, m) BY <1>2, <2>2, <2>3
  <2>5. e[1] = g[1] OBVIOUS
  <2>6. BetterEntry(f, e, m) BY <2>3, <2>4, <2>5 DEF BetterEntry
  <2>7. /\ RewardOf(e, m) \in Int /\ RankOf(e, m) \in Int /\ e[1] \in Int
        /\ RewardOf(f, m) \in Int /\ RankOf(f, m) \in Int /\ f[1] \in Int
    <3>1. \A who \in SUBSET Validators : \A d \in Entries(who, m) :
             RewardOf(d, m) \in Int /\ RankOf(d, m) \in Int /\ d[1] \in Int
      BY <1>n, EntryIs
    <3> QED BY <1>m, <2>2, <3>1
  <2>8. RewardOf(e, m) = RewardOf(f, m) /\ RankOf(e, m) = RankOf(f, m)
    BY <2>4, <2>6, <2>7, NoneBetter
  <2> QED BY <2>8 DEF e, f
<1> QED BY <1>3, <1>4

(* Nor whose rank in the season is told.                                   *)
LEMMA OneVoiceOneRank ==
    ASSUME RowsAreTables, \A r \in Rounds : OneVoice(r), NEW m \in Ranked({Main})
    PROVE  SeasonRank(Validators, m) = SeasonRank({Main}, m)
<1> DEFINE above(who) == {n \in Ranked(who) : Outranks(who, n, m)}
<1>1. Ranked(Validators) = Ranked({Main}) BY OneVoiceOneEntry
<1>2. \A n \in Ranked({Main}) :
        /\ RewardOf(BestEntry(Validators, n), n) = RewardOf(BestEntry({Main}, n), n)
        /\ RankOf(BestEntry(Validators, n), n) = RankOf(BestEntry({Main}, n), n)
  BY OneVoiceOneEntry
<1>3. \A n \in Ranked({Main}) : Outranks(Validators, n, m) <=> Outranks({Main}, n, m)
  BY <1>2 DEF Outranks
<1>4. above(Validators) = above({Main}) BY <1>1, <1>3
<1> QED BY <1>4 DEF SeasonRank

(* The top of a table of rewards is as high as any of them.                *)
LEMMA TopIs ==
    ASSUME NEW t, NEW m \in DOMAIN t, \A n \in DOMAIN t : t[n] \in 0..TopReward
    PROVE  t[m] <= TopOf(t)
<1> DEFINE R == {t[n] : n \in DOMAIN t}
<1>1. R \subseteq 0..TopReward /\ R # {} /\ t[m] \in R OBVIOUS
<1>2. TopOf(t) = Highest(R) BY DEF TopOf
<1> HIDE DEF R
<1>n. TopReward \in Nat BY LeadershipConstants
<1>3. \E x \in R : \A y \in R : x >= y BY <1>1, <1>n, Greatest
<1>4. Highest(R) \in R /\ \A y \in R : Highest(R) >= y BY <1>3 DEF Highest
<1>5. Highest(R) >= t[m] BY <1>1, <1>4
<1>6. \A x \in R : x \in Int BY <1>1
<1>7. Highest(R) \in Int /\ t[m] \in Int BY <1>1, <1>4, <1>6
<1> QED BY <1>2, <1>5, <1>7

(* A value that no other exceeds is the top.                               *)
LEMMA TopOfIs ==
    ASSUME NEW t, NEW x \in Nat,
           \A n \in DOMAIN t : t[n] \in 0..TopReward /\ t[n] <= x,
           (\E n \in DOMAIN t : t[n] = x) \/ (DOMAIN t = {} /\ x = 0)
    PROVE  TopOf(t) = x
<1>1. CASE DOMAIN t = {} BY <1>1 DEF TopOf
<1>2. CASE DOMAIN t # {}
  <2> DEFINE R == {t[n] : n \in DOMAIN t}
  <2>1. R \subseteq Nat /\ x \in R /\ \A y \in R : y <= x
    BY <1>2, LeadershipConstants
  <2>2. TopOf(t) = Highest(R) BY <1>2 DEF TopOf
  <2> HIDE DEF R
  <2>3. \E y \in R : \A z \in R : y >= z BY <2>1
  <2>4. Highest(R) \in R /\ \A y \in R : Highest(R) >= y BY <2>3 DEF Highest
  <2>5. Highest(R) <= x /\ Highest(R) >= x BY <2>1, <2>4
  <2>6. Highest(R) \in Nat /\ x \in Nat BY <2>1, <2>4
  <2> QED BY <2>2, <2>5, <2>6
<1> QED BY <1>1, <1>2

(* The row shown of a miner in a round is one of its rows.                 *)
LEMMA RowShownIs ==
    ASSUME RowsAreTables, NEW r \in Rounds, NEW m, RowsIn(r, m) # {}
    PROVE  RowShown(r, m) \in RowsIn(r, m)
<1> DEFINE V == RowsIn(r, m)
           K == {RankOf(<<r, v>>, m) : v \in V}
<1>1. ASSUME NEW v \in V
      PROVE  RankOf(<<r, v>>, m) \in Nat /\ RewardOf(<<r, v>>, m) \in 0..TopReward
  <2>1. <<r, v>> \in Entries(Validators, m) BY DEF RowsIn, Entries
  <2> QED BY <2>1, EntryIs
<1>2. K \subseteq Nat /\ K # {} BY <1>1
<1> HIDE DEF K
<1>3. PICK k \in K : \A x \in K : k <= x BY <1>2, Smallest
<1> DEFINE W == {v \in V : RankOf(<<r, v>>, m) = k}
           R == {RewardOf(<<r, v>>, m) : v \in W}
<1>4. W # {} BY <1>3 DEF K
<1>5. R \subseteq 0..TopReward /\ R # {} BY <1>1, <1>4
<1> HIDE DEF R
<1>n. TopReward \in Nat BY LeadershipConstants
<1>6. PICK top \in R : \A x \in R : top >= x BY <1>5, <1>n, Greatest
<1>7. PICK v \in W : RewardOf(<<r, v>>, m) = top BY <1>6 DEF R
<1>8. ASSUME NEW w \in V
      PROVE  \/ RankOf(<<r, v>>, m) < RankOf(<<r, w>>, m)
             \/ /\ RankOf(<<r, v>>, m) = RankOf(<<r, w>>, m)
                /\ RewardOf(<<r, v>>, m) >= RewardOf(<<r, w>>, m)
  <2>1. CASE w \in W BY <1>6, <1>7, <2>1 DEF R
  <2>2. CASE w \notin W
    <3>1. RankOf(<<r, w>>, m) \in K /\ RankOf(<<r, w>>, m) # k BY <2>2 DEF K
    <3>2. RankOf(<<r, v>>, m) = k /\ k <= RankOf(<<r, w>>, m) BY <1>3, <1>7, <3>1
    <3>3. RankOf(<<r, w>>, m) \in Nat /\ k \in Nat BY <1>1, <1>2
    <3>4. RankOf(<<r, v>>, m) < RankOf(<<r, w>>, m) BY <3>1, <3>2, <3>3
    <3> QED BY <3>4
  <2> QED BY <2>1, <2>2
<1> QED BY <1>8 DEF RowShown

(* What the page of a round shows are rewards.                             *)
LEMMA RoundRewardsType ==
    ASSUME RowsAreTables, NEW r \in Rounds
    PROVE  /\ DOMAIN RoundRewards(r) = {n \in Miners : RowsIn(r, n) # {}}
           /\ \A n \in DOMAIN RoundRewards(r) : RoundRewards(r)[n] \in 0..TopReward
<1>1. DOMAIN RoundRewards(r) = {n \in Miners : RowsIn(r, n) # {}} BY DEF RoundRewards
<1>2. ASSUME NEW n \in {k \in Miners : RowsIn(r, k) # {}}
      PROVE  RoundRewards(r)[n] \in 0..TopReward
  <2> DEFINE v == RowShown(r, n)
  <2>1. v \in RowsIn(r, n) BY RowShownIs
  <2>2. RoundRewards(r)[n] = RewardOf(<<r, v>>, n) BY DEF RoundRewards
  <2> HIDE DEF v
  <2>3. <<r, v>> \in Entries(Validators, n) BY <2>1 DEF RowsIn, Entries
  <2>4. RewardOf(<<r, v>>, n) \in 0..TopReward BY <2>3, EntryIs
  <2> QED BY <2>2, <2>4
<1> QED BY <1>1, <1>2

(* Where the validators of a round speak with one voice, its page shows    *)
(* what the main one has.                                                  *)
LEMMA RoundRewardsAre ==
    ASSUME RowsAreTables, NEW r \in Rounds, OneVoice(r)
    PROVE  /\ DOMAIN RoundRewards(r) = Known(rows[r][Main])
           /\ \A n \in DOMAIN RoundRewards(r) : /\ RoundRewards(r)[n] \in 0..TopReward
                                                /\ RoundRewards(r)[n] = rows[r][Main][n]
<1>m. Main \in Validators BY LeadershipConstants
<1>1. DOMAIN RoundRewards(r) = {n \in Miners : RowsIn(r, n) # {}} BY DEF RoundRewards
<1>2. ASSUME NEW n \in Miners, NEW v \in RowsIn(r, n)
      PROVE  rows[r][v] = rows[r][Main]
  BY DEF RowsIn, Known, OneVoice
<1>3. {n \in Miners : RowsIn(r, n) # {}} = Known(rows[r][Main])
  <2>1. rows[r][Main] \in Tables(Marks) BY <1>m DEF RowsAreTables
  <2>2. Known(rows[r][Main]) \subseteq Miners BY <2>1, TableElim DEF Known
  <2>3. ASSUME NEW n \in Miners
        PROVE  RowsIn(r, n) # {} <=> n \in Known(rows[r][Main])
    BY <1>m, <1>2 DEF RowsIn
  <2> QED BY <2>2, <2>3
<1>4. ASSUME NEW n \in DOMAIN RoundRewards(r)
      PROVE  RoundRewards(r)[n] = rows[r][Main][n]
  <2> DEFINE v == RowShown(r, n)
  <2>1. v \in RowsIn(r, n) /\ n \in Miners BY <1>1, RowShownIs
  <2>2. RoundRewards(r)[n] = rows[r][v][n] BY <1>1 DEF RoundRewards, RewardOf
  <2> HIDE DEF v
  <2> QED BY <1>2, <2>1, <2>2
<1> QED BY <1>1, <1>3, <1>4, RoundRewardsType

(* Its page's top is not below any reward on the board of the season.      *)
LEMMA NoRewardAboveTheTop ==
    ASSUME RowsAreTables, \A q \in Rounds : OneVoice(q), NEW m, NEW e \in Entries({Main}, m)
    PROVE  RewardOf(e, m) <= Statistics(e[1]).top
<1> DEFINE r == e[1]
<1>m. Main \in Validators /\ {Main} \in SUBSET Validators BY LeadershipConstants
<1>1. /\ e = <<r, Main>> /\ r \in Rounds /\ m \in Miners
      /\ m \in Known(rows[r][Main])
  <2>1. /\ e = <<e[1], e[2]>> /\ e[1] \in Rounds /\ e[2] \in {Main} /\ m \in Miners
        /\ m \in Known(rows[e[1]][e[2]])
    BY <1>m, EntryIs
  <2>2. e[2] = Main BY <2>1
  <2> QED BY <2>1, <2>2
<1> HIDE DEF r
<1>2. \A n \in DOMAIN RoundRewards(r) : /\ RoundRewards(r)[n] \in 0..TopReward
                                         /\ RoundRewards(r)[n] = rows[r][Main][n]
  BY <1>1, RoundRewardsAre
<1>3. m \in DOMAIN RoundRewards(r) BY <1>1, RoundRewardsAre
<1>4. RoundRewards(r)[m] <= TopOf(RoundRewards(r)) BY <1>2, <1>3, TopIs
<1>5. RewardOf(e, m) = RoundRewards(r)[m] BY <1>1, <1>2, <1>3 DEF RewardOf
<1>6. Statistics(r).top = TopOf(RoundRewards(r)) BY DEF Statistics
<1> QED BY <1>4, <1>5, <1>6 DEF r

(* Rounds that are some have a latest one.                                 *)
LEMMA LatestIs ==
    ASSUME NEW some \in SUBSET Rounds, some # {}
    PROVE  Latest(some) \in some /\ \A q \in some : q <= Latest(some)
<1>1. some \subseteq 0..LastRound /\ LastRound \in Nat BY LeadershipConstants DEF Rounds
<1>2. PICK x \in some : \A y \in some : x >= y BY <1>1, Greatest
<1>3. \A y \in some : y <= x BY <1>1, <1>2
<1> QED BY <1>3 DEF Latest

(* Nobody on the list of a round is before the miner of the top reward.    *)
LEMMA FirstHasTheTop ==
    ASSUME RowsAreTables, NEW r \in Rounds, NEW m \in RoundMinersPage(r, 1, 1, 0, TopReward)
    PROVE  RoundRewards(r)[m] = Statistics(r).top
<1> DEFINE shown == RoundRewards(r)
           all == {n \in Miners : n \in DOMAIN RoundRewards(r)
                                 /\ RoundRewards(r)[n] \in 0..TopReward}
           kept == Only(shown, all)
           before == {n \in DOMAIN kept : n # m /\ Beats(kept, n, m)}
<1>1. DOMAIN shown \subseteq Miners /\ \A n \in DOMAIN shown : shown[n] \in 0..TopReward
  BY RoundRewardsType
<1>2. DOMAIN kept = DOMAIN shown /\ \A n \in DOMAIN kept : kept[n] = shown[n]
  BY <1>1 DEF Only
<1>3. m \in DOMAIN kept /\ Place(kept, m) <= 1 * 1 BY DEF RoundMinersPage
<1> HIDE DEF shown, kept
<1>4. Place(kept, m) = Cardinality(before) + 1 BY DEF Place
<1>5. before = {}
  <2>1. IsFiniteSet(before)
    <3>1. before \in SUBSET Miners BY <1>1, <1>2
    <3> QED BY <3>1, FS_Subset, UidsAreFinite
  <2> HIDE DEF before
  <2>2. Cardinality(before) \in Nat /\ (Cardinality(before) = 0 => before = {})
    BY <2>1, FS_CardinalityType, FS_EmptySet
  <2> QED BY <1>3, <1>4, <2>2
<1>6. ASSUME NEW n \in DOMAIN shown PROVE shown[n] <= shown[m]
  <2>1. shown[n] \in Nat /\ shown[m] \in Nat /\ shown[n] # None /\ shown[m] # None
    BY <1>1, <1>2, <1>3, LeadershipConstants
  <2>2. n = m \/ ~Beats(kept, n, m) BY <1>2, <1>5
  <2>3. Reward(kept, n) = shown[n] /\ Reward(kept, m) = shown[m]
    BY <1>2, <1>3, <2>1 DEF Reward
  <2> HIDE DEF before
  <2> QED BY <2>1, <2>2, <2>3 DEF Beats
<1>7. shown[m] \in Nat /\ m \in DOMAIN shown BY <1>1, <1>2, <1>3, LeadershipConstants
<1>8. TopOf(shown) = shown[m] BY <1>1, <1>6, <1>7, TopOfIs
<1> QED BY <1>8 DEF Statistics, shown

(* The page of a validator that ranks a miner first names one winner, and  *)
(* it has the top reward of the round.                                     *)
LEMMA WinnersAgreeWhenTyped == TypeOK => WinnersAgree
<1> SUFFICES ASSUME TypeOK, NEW r \in Rounds, NEW v \in Validators, NEW runs,
                    OneVoice(r), Ordered(rows[r][Main], ranks[r][Main]),
                    NEW m \in DOMAIN rows[r][v], ranks[r][v][m] = 1
             PROVE  \E w \in Leaders :
                        /\ ValidatorWinners(rows[r][v], ranks[r][v], runs) = {w}
                        /\ w.reward = Statistics(r).top
  BY DEF WinnersAgree
<1> DEFINE t == rows[r][Main]
           p == ranks[r][Main]
           shown == RoundRewards(r)
           first == {n \in DOMAIN t : p[n] = 1}
<1>m. Main \in Validators BY LeadershipConstants
<1>1. RowsAreTables BY DEF TypeOK, RowsAreTables, Marks, Places
<1>2. rows[r][v] = t /\ ranks[r][v] = p /\ m \in DOMAIN t /\ p[m] = 1 BY DEF OneVoice
<1>3. t \in Tables(Marks) /\ p \in Tables(Places) /\ DOMAIN p = DOMAIN t
  BY <1>1, <1>m DEF RowsAreTables
<1>4. /\ DOMAIN shown = Known(t)
      /\ \A n \in DOMAIN shown : shown[n] \in 0..TopReward /\ shown[n] = t[n]
  BY <1>1, RoundRewardsAre
<1>5. Ordered(t, p) OBVIOUS
<1>6. Statistics(r).top = TopOf(shown) BY DEF Statistics
<1>7. ValidatorWinners(rows[r][v], ranks[r][v], runs) = ValidatorWinners(t, p, runs) BY <1>2
<1> HIDE DEF t, p, shown
<1>8. first = {m}
  <2>1. m \in first BY <1>2
  <2>2. \A n \in first : n = m BY <1>2, <1>5 DEF Ordered
  <2> QED BY <2>1, <2>2
<1>9. ValidatorWinners(t, p, runs) = {Scored(m, t)}
  <2>1. first # {} BY <1>8
  <2>2. ValidatorWinners(t, p, runs) = {Scored(n, t) : n \in first}
    BY <2>1 DEF ValidatorWinners
  <2> HIDE DEF first
  <2> QED BY <1>8, <2>2
<1>10. \A n \in DOMAIN t : Reward(t, n) \in Nat
  <2>1. \A n \in DOMAIN t : t[n] \in Marks BY <1>3, TableElim
  <2> QED BY <2>1, LeadershipConstants DEF Reward, Marks, Rewards
<1>11. ASSUME NEW n \in DOMAIN t PROVE Reward(t, n) <= Reward(t, m)
  <2>1. CASE n = m BY <1>2, <1>10, <2>1
  <2>2. CASE n # m
    <3>1. p[n] # None /\ p[n] # 1 BY <1>2, <1>5, <2>2 DEF Ordered
    <3>2. p[n] \in Places BY <1>3, TableElim
    <3>3. 1 < p[n] BY <3>1, <3>2, LeadershipConstants DEF Places, Ranks
    <3>4. Reward(t, m) >= Reward(t, n) BY <1>2, <1>5, <2>2, <3>3 DEF Ordered
    <3> QED BY <1>2, <1>10, <3>4
  <2> QED BY <2>1, <2>2
<1>12. TopOf(shown) = Reward(t, m)
  <2>1. \A n \in DOMAIN shown : /\ n \in DOMAIN t /\ shown[n] = Reward(t, n)
                                /\ shown[n] \in 0..TopReward
    BY <1>4 DEF Known, Reward
  <2>2. \A n \in DOMAIN shown : shown[n] <= Reward(t, m) BY <1>11, <2>1
  <2>3. Reward(t, m) \in Nat BY <1>2, <1>10
  <2>4. CASE m \in DOMAIN shown BY <2>1, <2>2, <2>3, <2>4, TopOfIs
  <2>5. CASE m \notin DOMAIN shown
    <3>1. Reward(t, m) = 0 BY <1>2, <1>4, <2>5 DEF Known, Reward
    <3>2. \A n \in DOMAIN shown : shown[n] = 0
      <4>1. \A n \in DOMAIN shown : shown[n] \in Nat BY <2>1, LeadershipConstants
      <4> QED BY <2>2, <3>1, <4>1
    <3>3. (\E n \in DOMAIN shown : shown[n] = 0) \/ DOMAIN shown = {} BY <3>2
    <3>4. TopOf(shown) = 0
      <4>1. \A n \in DOMAIN shown : shown[n] \in 0..TopReward /\ shown[n] <= 0 BY <2>1, <3>2
      <4> QED BY <3>3, <4>1, TopOfIs
    <3> QED BY <3>1, <3>4
  <2> QED BY <2>4, <2>5
<1>13. Scored(m, t) \in Leaders BY <1>2, <1>3, ScoredType
<1>14. Scored(m, t).reward = Reward(t, m) BY DEF Scored
<1> QED BY <1>6, <1>7, <1>9, <1>12, <1>13, <1>14

(* Without strays the average of a miner's rewards, weighted by stake, is  *)
(* the main validator's.                                                   *)
LEMMA AverageOfOneVoice ==
    ASSUME RowsAreTables, NEW r \in Rounds, \A v \in Validators : Strays(r, v) = {},
           NEW stake \in [Validators -> 1..2], NEW m \in Known(rows[r][Main])
    PROVE  CompetitionReward(r, m, stake) = rows[r][Main][m]
<1> DEFINE c == rows[r][Main][m]
           reward == [v \in {v \in Validators : m \in DOMAIN rows[r][v]} |-> rows[r][v][m]]
           who == {v \in DOMAIN reward : reward[v] # None /\ stake[v] > 0}
           product == [v \in who |-> reward[v] * stake[v]]
<1>m. Main \in Validators /\ None \notin Nat \cap Rewards BY LeadershipConstants
<1>1. c \in Nat /\ c # None
  <2>1. rows[r][Main] \in Tables(Marks) /\ m \in DOMAIN rows[r][Main] /\ c # None
    BY <1>m DEF RowsAreTables, Known
  <2>2. c \in Marks BY <2>1, TableElim
  <2> QED BY <2>1, <2>2, LeadershipConstants DEF Marks, Rewards
<1>2. \A v \in who : reward[v] = c BY DEF Strays, Known
<1>s. \A v \in Validators : stake[v] \in Nat /\ stake[v] > 0
  <2> SUFFICES ASSUME NEW v \in Validators PROVE stake[v] \in Nat /\ stake[v] > 0
    OBVIOUS
  <2>1. stake[v] \in 1..2 OBVIOUS
  <2>2. \A n \in 1..2 : n \in Nat /\ n > 0 OBVIOUS
  <2> QED BY <2>1, <2>2
<1>3. who \subseteq Validators /\ Main \in who
  <2>1. m \in DOMAIN rows[r][Main] BY DEF Known
  <2>2. Main \in DOMAIN reward /\ reward[Main] = c BY <1>m, <2>1
  <2>3. who \subseteq Validators OBVIOUS
  <2> HIDE DEF reward, c
  <2> QED BY <1>m, <1>1, <1>s, <2>2, <2>3
<1>4. IsFiniteSet(who) BY <1>3, FS_Subset, UidsAreFinite
<1>5. \A v \in who : stake[v] \in Nat /\ stake[v] > 0 /\ product[v] = c * stake[v]
  <2> SUFFICES ASSUME NEW v \in who PROVE product[v] = c * stake[v]
    BY <1>3, <1>s
  <2>1. reward[v] = c BY <1>2
  <2>2. product[v] = reward[v] * stake[v] OBVIOUS
  <2> HIDE DEF c, who, product, reward
  <2> QED BY <2>1, <2>2
<1> HIDE DEF c, who, product, reward
<1>6. /\ SumOver(stake, who) \in Nat
      /\ SumOver(stake, who) > 0
      /\ SumOver(product, who) = c * SumOver(stake, who)
  <2>1. who # {} BY <1>3
  <2>2. /\ SumOver(stake, who) \in Nat
        /\ who # {} => SumOver(stake, who) > 0
        /\ SumOver(product, who) = c * SumOver(stake, who)
    BY <1>1, <1>4, <1>5, SumOfMultiples
  <2> QED BY <2>1, <2>2
<1>7. (c * SumOver(stake, who)) \div SumOver(stake, who) = c BY <1>1, <1>6, QuotientOfMultiple
<1>8. WeightedAverage(reward, stake)
        = IF SumOver(stake, who) = 0 THEN None ELSE SumOver(product, who) \div SumOver(stake, who)
  BY DEF WeightedAverage, who, product
<1>9. WeightedAverage(reward, stake) = c
  BY <1>6, <1>7, <1>8
<1>10. CompetitionReward(r, m, stake)
         = IF WeightedAverage(reward, stake) = None THEN 0 ELSE WeightedAverage(reward, stake)
  BY DEF CompetitionReward, reward
<1> QED BY <1>1, <1>9, <1>10 DEF c

(* The pages and the boards agree in every season of the right types.      *)
LEMMA PagesAgreeWhenTyped == TypeOK => PagesAgree
<1> SUFFICES ASSUME TypeOK PROVE PagesAgree OBVIOUS
<1>1. RowsAreTables BY DEF TypeOK, RowsAreTables, Marks, Places
<1>2. ASSUME NEW r \in Rounds, \A v \in Validators : Strays(r, v) = {},
             NEW stake \in [Validators -> 1..2], NEW m \in Known(rows[r][Main])
      PROVE  CompetitionReward(r, m, stake) = rows[r][Main][m]
  BY <1>1, <1>2, AverageOfOneVoice
<1>3. ASSUME \A r \in Rounds : OneVoice(r), NEW m \in Ranked({Main})
      PROVE  /\ SeasonBoard[m].rank = RankInSeason(m)
             /\ SeasonBoard[m].reward <= Statistics(SeasonBoard[m].round).top
  <2> DEFINE e == BestEntry({Main}, m)
  <2>2. /\ SeasonBoard[m].rank = SeasonRank({Main}, m)
        /\ SeasonBoard[m].reward = RewardOf(e, m)
        /\ SeasonBoard[m].round = e[1]
    BY <1>3 DEF SeasonBoard
  <2>3. m \in Ranked(Validators) BY <1>1, <1>3, OneVoiceOneEntry
  <2>4. RankInSeason(m) = SeasonRank(Validators, m) BY <2>3 DEF RankInSeason
  <2>5. SeasonRank(Validators, m) = SeasonRank({Main}, m)
    BY <1>1, <1>3, OneVoiceOneRank
  <2>6. e \in Entries({Main}, m)
    <3>1. Entries({Main}, m) # {} /\ {Main} \in SUBSET Validators
      BY <1>3, LeadershipConstants DEF Ranked
    <3> QED BY <1>1, <3>1, BestEntryIs
  <2>7. RewardOf(e, m) <= Statistics(e[1]).top BY <1>1, <1>3, <2>6, NoRewardAboveTheTop
  <2> QED BY <2>2, <2>4, <2>5, <2>7
<1>4. \A r \in Rounds : \A m \in RoundMinersPage(r, 1, 1, 0, TopReward) :
         RoundRewards(r)[m] = Statistics(r).top
  BY <1>1, FirstHasTheTop
<1> QED BY <1>2, <1>3, <1>4 DEF PagesAgree

----------------------------------------------------------------------------
(* One leader, and one chain of challenges.                                *)

(* A season with a leader names it everywhere.                             *)
LEMMA OneLeaderWhenLatest == TypeOK /\ SeasonLeaderIsLatest => OneLeaderEverywhere
<1> SUFFICES ASSUME TypeOK, SeasonLeaderIsLatest, closed # {}, leader # None
             PROVE  LET last == Latest(Summarised(Rounds)) IN
                    /\ \A row \in Leaders \cup {None} :
                          /\ OverviewLeaderUid(row) = leader.uid
                          /\ OverviewLeaderReward(row) = leader.reward
                    /\ Statistics(last).winner = leader.uid
                    /\ Statistics(last).winnerReward = leader.reward
                    /\ \A m \in DOMAIN SeasonBoard :
                          SeasonBoard[m].reigning <=> m = leader.uid
  BY DEF OneLeaderEverywhere
<1> DEFINE S == Summarised(Rounds)
           last == Latest(S)
           led == {r \in S : summary[r].after.uid = leader.uid}
<1>n. Rounds \subseteq Int BY LeadershipConstants DEF Rounds
<1>1. S \in SUBSET Rounds /\ S # {} BY DEF Summarised, SeasonLeaderIsLatest
<1> HIDE DEF S
<1>2. last \in S /\ \A q \in S : q <= last BY <1>1, LatestIs
<1> HIDE DEF last
<1>3. last \in Rounds /\ summary[last] # None BY <1>1, <1>2 DEF S, Summarised
<1>4. \A q \in Rounds : q > last => summary[q] = None
  <2> SUFFICES ASSUME NEW q \in Rounds, q > last, summary[q] # None PROVE FALSE OBVIOUS
  <2>1. q \in S BY DEF S, Summarised
  <2> QED BY <1>2, <1>3, <1>n, <2>1
<1>5. leader = summary[last].after BY <1>3, <1>4 DEF SeasonLeaderIsLatest
<1>6. \A row : OverviewLeaderUid(row) = leader.uid BY DEF OverviewLeaderUid
<1>7. led \in SUBSET Rounds /\ last \in led BY <1>1, <1>2, <1>5
<1>8. led \subseteq S OBVIOUS
<1> HIDE DEF led
<1>9. Latest(led) = last
  <2>1. Latest(led) \in led /\ \A q \in led : q <= Latest(led) BY <1>7, LatestIs
  <2>2. Latest(led) \in Int /\ last \in Int BY <1>7, <2>1, <1>n
  <2> QED BY <1>2, <1>7, <1>8, <2>1, <2>2
<1>10. ASSUME NEW row PROVE OverviewLeaderReward(row) = leader.reward
  <2>1. led = {r \in Summarised(Rounds) : summary[r].after.uid = OverviewLeaderUid(row)}
    BY <1>6 DEF led, S
  <2> QED BY <1>5, <1>7, <1>9, <2>1 DEF OverviewLeaderReward
<1>11. Statistics(last).winner = leader.uid /\ Statistics(last).winnerReward = leader.reward
  BY <1>3, <1>5 DEF Statistics
<1>12. \A m \in DOMAIN SeasonBoard : SeasonBoard[m].reigning <=> m = leader.uid
  BY DEF SeasonBoard
<1> QED BY <1>6, <1>10, <1>11, <1>12 DEF last, S

(* The miner picked from a payload is not the leader before.               *)
LEMMA PickedIs ==
    ASSUME NEW payload \in Tables(Marks), NEW before
    PROVE  \/ Picked(payload, before) = None
           \/ /\ Picked(payload, before) \in Leaders
              /\ before # None => Picked(payload, before).uid # before.uid
<1> DEFINE M == {m \in Miners : before = None \/ m # before.uid}
           others == Only(payload, M)
<1>1. others \in Tables(Marks) /\ DOMAIN others = DOMAIN payload \cap M BY OnlyTable
<1>2. Picked(payload, before) = IF DOMAIN others = {} THEN None
                                ELSE Scored(Best(others), others)
  BY DEF Picked
<1> HIDE DEF others
<1>3. CASE DOMAIN others = {} BY <1>2, <1>3
<1>4. CASE DOMAIN others # {}
  <2>1. Best(others) \in DOMAIN others BY <1>1, <1>4, BestIsIn
  <2>2. Scored(Best(others), others) \in Leaders BY <1>1, <2>1, ScoredType
  <2>3. Scored(Best(others), others).uid = Best(others) BY DEF Scored
  <2> QED BY <1>1, <1>2, <1>4, <2>1, <2>2, <2>3
<1> QED BY <1>3, <1>4

(* The pages of a season of the right types make a chain.                  *)
LEMMA PagesMakeAChainWhenTyped == TypeOK => PagesMakeAChain
<1> SUFFICES ASSUME TypeOK, NEW r \in Summarised(Rounds),
                    NEW payload \in {rep.rewards : rep \in Reports}
             PROVE  LET shown == ShownRound(r, payload)
                        earlier == {q \in Summarised(Rounds) : q < r}
                    IN  /\ shown.before # None /\ shown.candidate # None =>
                              shown.before.uid # shown.candidate.uid
                        /\ earlier # {} => shown.before = summary[Latest(earlier)].after
                        /\ shown.dethroned <=>
                              shown.before # None /\ shown.after # shown.before
                        /\ shown.dethroned =>
                              shown.after.reward * 100
                                > shown.before.reward * (100 + ImprovementShown)
  BY DEF PagesMakeAChain
<1> DEFINE before == BeforeShown(r)
           candidate == CandidateShown(r, payload)
           after == summary[r].after
           shown == ShownRound(r, payload)
           earlier == {q \in Summarised(Rounds) : q < r}
<1>1. r \in Rounds /\ summary[r] # None BY DEF Summarised
<1>n. Rounds \subseteq Int BY LeadershipConstants DEF Rounds
<1>2. SeasonType(summary) BY DEF TypeOK, SeasonType
<1>3. summary[r] \in Summaries BY <1>1, <1>2 DEF SeasonType
<1>4. shown = Normalized(before, candidate, after) BY <1>1 DEF ShownRound
<1>5. before # None /\ candidate # None => before.uid # candidate.uid
  <2>1. payload \in Tables(Marks) BY ReportTable
  <2>2. \/ Picked(payload, before) = None
        \/ before # None => Picked(payload, before).uid # before.uid
    BY <2>1, PickedIs
  <2> HIDE DEF before
  <2> QED BY <2>2 DEF CandidateShown, before
<1>6. earlier # {} => before = summary[Latest(earlier)].after /\ before # None
  <2> SUFFICES ASSUME earlier # {}
               PROVE  before = summary[Latest(earlier)].after /\ before # None
    OBVIOUS
  <2>1. earlier = {q \in Rounds : q < r /\ summary[q] # None} BY DEF Summarised
  <2>2. LeaderBefore(summary, r) = summary[Latest(earlier)].after
    BY <2>1 DEF LeaderBefore, Latest
  <2>3. LeaderBefore(summary, r) \in Leaders BY <1>1, <1>2, <1>n, <2>1, LeaderBeforeIs
  <2>4. LeaderBefore(summary, r) # None BY <2>3, LeadershipConstants
  <2> QED BY <2>2, <2>4 DEF BeforeShown
<1> HIDE DEF before, candidate, after, shown, earlier
<1>7. CASE before = None
  <2>1. shown.before = None /\ shown.dethroned = FALSE BY <1>4, <1>7 DEF Normalized
  <2> QED BY <1>6, <1>7, <2>1 DEF shown, earlier
<1>8. CASE before # None /\ candidate = None
  <2>1. /\ shown.before = before /\ shown.candidate = None
        /\ shown.after = before /\ shown.dethroned = FALSE
    BY <1>4, <1>8 DEF Normalized
  <2> QED BY <1>6, <1>8, <2>1 DEF shown, earlier
<1>9. CASE before # None /\ candidate # None
  <2> DEFINE beaten == candidate.reward * 100 > before.reward * (100 + ImprovementShown)
  <2>1. /\ shown.before = before /\ shown.candidate = candidate
        /\ shown.after = (IF beaten THEN candidate ELSE before)
        /\ shown.dethroned = beaten
    BY <1>4, <1>9 DEF Normalized
  <2>2. candidate # before BY <1>5, <1>9
  <2>3. shown.dethroned <=> shown.before # None /\ shown.after # shown.before
    BY <1>9, <2>1, <2>2
  <2>4. shown.dethroned =>
           shown.after.reward * 100 > shown.before.reward * (100 + ImprovementShown)
    BY <2>1
  <2> QED BY <1>5, <1>6, <1>9, <2>1, <2>3, <2>4 DEF shown, earlier
<1> QED BY <1>7, <1>8, <1>9

(* The boards name one leader, tell one chain of challenges, and agree     *)
(* with the agents' pages wherever the validators agree.                   *)
THEOREM BoardsAlwaysAgree == Spec => []BoardsAgree
<1>1. IInv => BoardsAgree
  BY OneLeaderWhenLatest, PagesMakeAChainWhenTyped, PagesAgreeWhenTyped, WinnersAgreeWhenTyped
  DEF IInv, BoardsAgree
<1> QED BY <1>1, Invariance, PTL

============================================================================
