----------------------------- MODULE RoundViews -----------------------------
(***************************************************************************)
(* What the dashboard says of the official rounds: the read services of    *)
(* the rounds pages and of the overview, as operators over the tables of   *)
(* CanonicalRounds. A reader sees one committed state.                     *)
(*                                                                         *)
(* round_id is assigned in an order nobody should rely on and is not       *)
(* modelled: a round is named by its slot, as the URLs season/round do. A  *)
(* progress is a percentage, rounded down. The start times of a            *)
(* validator's rows follow the schedule. Task counts are in RunViews.      *)
(***************************************************************************)
EXTENDS CanonicalRounds, FiniteSets

(* The attempts for one slot are counted.                                  *)
ASSUME AttemptsAssumption == Attempts \subseteq Nat /\ IsFiniteSet(Attempts)

Rounds == {slot \in Slots : roundStatus[slot] # "none"}
NoRound == <<0, 0>>

OverStatuses == {"finished", "evaluating_finished"}
Over(slot) == roundStatus[slot] \in OverStatuses
Active(slot) == roundStatus[slot] = "active"

\* ORDER BY season_number DESC, round_number_in_season DESC
Newer(a, b) == a[1] > b[1] \/ (a[1] = b[1] /\ a[2] > b[2])
Newest(slots) ==
    IF slots = {} THEN NoRound
    ELSE CHOOSE a \in slots : \A b \in slots \ {a} : Newer(a, b)

-----------------------------------------------------------------------------
(* Which rounds and seasons there are *)

\* get_latest_season_number
LatestSeason == Season(Newest(Rounds))

\* get_available_seasons: the seasons that have a round, not all of seasons.
AvailableSeasons == {Season(slot) : slot \in Rounds}

\* get_available_agents_seasons: those with a round that is over.
AgentsSeasons == {Season(slot) : slot \in {r \in Rounds : Over(r)}}

LatestOf(seasons) == IF seasons = {} THEN 0 ELSE CHOOSE s \in seasons : \A t \in seasons : t <= s

\* get_agents_season_rank: a season without a round that is over is answered
\* with the board of the latest one that has.
RankedSeason(s) == IF s \in AgentsSeasons THEN s ELSE LatestOf(AgentsSeasons)

\* A round's place in get_available_rounds, which is also the order of pages.
Position(slot) == Cardinality({r \in Rounds : Newer(r, slot)}) + 1

\* get_rounds_list: LIMIT and OFFSET.
RoundsPage(page, limit) ==
    {slot \in Rounds : (page - 1) * limit < Position(slot) /\ Position(slot) <= page * limit}

\* list_rounds with skip: the page that holds the first wanted round, without
\* what comes before it, and never anything of the page after.
SkipPage(skip, limit) ==
    LET page == (skip \div limit) + 1
    IN  {slot \in RoundsPage(page, limit) :
            Position(slot) > (page - 1) * limit + (skip % limit)}

\* get_overview_rounds_list: the status filters a page that is cut already, and
\* the total is what is left of the page.
OverviewRounds(page, limit, status) ==
    {slot \in RoundsPage(page, limit) : roundStatus[slot] = status}

-----------------------------------------------------------------------------
(* The current round *)

\* get_current_round, and the current flag of get_rounds_list.
CurrentRound ==
    IF \E slot \in Rounds : Active(slot)
    THEN Newest({slot \in Rounds : Active(slot)})
    ELSE Newest(Rounds)

\* get_overview_metrics and get_overview_network_status call this one current,
\* and take rewards from the newest round that is over.
OverviewRound == Newest(Rounds)
MetricsRound == Newest({slot \in Rounds : Over(slot)})

RoundBefore(slot) == Newest({r \in Rounds : Season(r) = Season(slot) /\ Newer(slot, r)})
RoundAfter(slot) ==
    LET later == {r \in Rounds : Season(r) = Season(slot) /\ Newer(r, slot)}
    IN  IF later = {} THEN NoRound ELSE CHOOSE a \in later : \A b \in later \ {a} : Newer(b, a)

-----------------------------------------------------------------------------
(* The names of a round *)

\* The id the payloads carry; the row ids stay below it.
EncodedId(slot) == 10000 * slot[1] + slot[2]
Encoded(n) == n >= 10000 /\ n % 10000 > 0
EncodedSlot(n) == <<n \div 10000, n % 10000>>

\* get_round_detail_by_round_id, given the round_id of every row.
ByRowId(n, rowId) ==
    IF \E r \in Rounds : rowId[r] = n THEN CHOOSE r \in Rounds : rowId[r] = n ELSE NoRound

\* _resolve_round_identifier: an encoded id that names no round may be a row's.
Resolved(n, rowId) ==
    IF Encoded(n) /\ EncodedSlot(n) \in Rounds THEN EncodedSlot(n) ELSE ByRowId(n, rowId)

\* _round_detail_from_identifier: an encoded id is never anything else.
Detailed(n, rowId) ==
    IF Encoded(n) THEN (IF EncodedSlot(n) \in Rounds THEN EncodedSlot(n) ELSE NoRound)
    ELSE ByRowId(n, rowId)

-----------------------------------------------------------------------------
(* How far a round is *)

AtMost(n, top) == IF n > top THEN top ELSE n
AtLeast(n, low) == IF n < low THEN low ELSE n
Percent(done, span) == AtLeast(AtMost((100 * done) \div span, 100), 0)

\* _round_row_to_payload, used by the list, by get_current_round (with the
\* height the chain state knows) and by get_round_detail (without).
ListedHeight(slot, known) ==
    IF known # {} THEN CHOOSE h \in known : TRUE
    ELSE IF Active(slot) THEN StartBlock(slot) ELSE EndBlock(slot)

ListedProgress(slot, known) ==
    IF Active(slot) THEN Percent(ListedHeight(slot, known) - StartBlock(slot), RoundBlocks)
    ELSE IF Over(slot) THEN 100 ELSE 0

ListedRemaining(slot, known) ==
    IF Active(slot) THEN AtLeast(EndBlock(slot) - ListedHeight(slot, known), 0) ELSE 0

\* get_round_progress_data: from the height alone, whatever the status.
ProgressHeight(slot, known) ==
    IF known # {} THEN CHOOSE h \in known : TRUE
    ELSE IF roundStatus[slot] = "finished" THEN EndBlock(slot) ELSE StartBlock(slot)

Progress(slot, known) ==
    Percent(ProgressHeight(slot, known) - StartBlock(slot), RoundBlocks)
Remaining(slot, known) == AtLeast(EndBlock(slot) - ProgressHeight(slot, known), 0)

-----------------------------------------------------------------------------
(* Who takes part *)

\* get_round_detail: one entry per row, each of them "finished".
RowsOf(slot) == {id \in linked : id.slot = slot}

\* _count_round_validators, and the overview's currentValidators.
ValidatorsCount(slot) == Cardinality({id.uid : id \in RowsOf(slot)})

\* get_round_status_view
StatusView(slot, known) ==
    [status |-> roundStatus[slot], progress |-> Progress(slot, known),
     remaining |-> Remaining(slot, known), validators |-> ValidatorsCount(slot),
     complete |-> Over(slot), previous |-> RoundBefore(slot), next |-> RoundAfter(slot)]

\* get_overview_validators_list keeps, of a validator's rows, the first by
\* round status (active first) and start time.
Precedes(a, b) ==
    \/ Active(a.slot) /\ ~Active(b.slot)
    \/ /\ Active(a.slot) <=> Active(b.slot)
       /\ Newer(a.slot, b.slot) \/ (a.slot = b.slot /\ a.attempt > b.attempt)

KeptRow_Newest(v) ==   \* mutant
    CHOOSE a \in {id \in linked : id.uid = v} :
        \A b \in {id \in linked : id.uid = v} \ {a} :
            Newer(a.slot, b.slot) \/ (a.slot = b.slot /\ a.attempt > b.attempt)

KeptRow(v) ==
    CHOOSE a \in {id \in linked : id.uid = v} :
        \A b \in {id \in linked : id.uid = v} \ {a} : Precedes(a, b)

ShownValidators == {id.uid : id \in linked}

Label(v) ==
    IF Active(KeptRow(v).slot) THEN "Evaluating"
    ELSE IF KeptRow(v).slot = CurrentRound THEN "Waiting"
    ELSE "Inactive"

-----------------------------------------------------------------------------
(* Properties *)

\* However the rows of a validator are ordered and whichever of them the list
\* keeps, it is shown as evaluating iff it takes part in a round that runs, and
\* as waiting only while nothing runs at all.
LabelsAreTrue ==
    \A v \in ShownValidators :
        /\ Label(v) = "Evaluating" <=> \E id \in linked : id.uid = v /\ Active(id.slot)
        /\ Label(v) = "Waiting" => ~\E slot \in Rounds : Active(slot)
        /\ Label(v) = "Inactive" => \A id \in RowsOf(CurrentRound) : id.uid # v

\* The pages of the list, by page or by skipping whole pages, show each round
\* once, though every page is a query of its own; skipping part of a page shows
\* the rest of that page, in order and without a gap.
PagesTile ==
    \A limit \in 1..3 :
        /\ \A page \in 1..3 : SkipPage((page - 1) * limit, limit) = RoundsPage(page, limit)
        /\ \A slot \in Rounds :
              LET place == Position(slot) IN
              /\ Cardinality({page \in 1..(Cardinality(Rounds) + 1) :
                                 slot \in RoundsPage(page, limit)}) = 1
              /\ \A skip \in 0..(place - 1) :
                    slot \in SkipPage(skip, limit)
                        <=> place <= ((skip \div limit) + 1) * limit

\* Queries of the same fact agree. A round's progress by its row and by the
\* height, while it runs and when it is over and its last block is reached; the
\* way from a round to the next one and back; the round behind an id that was
\* shown, or behind the number of its row; the season whose board is ranked and
\* the round the overview takes its rewards from.
ViewsAgree ==
    /\ \A slot \in Rounds :
          /\ Active(slot) \/ (Over(slot) /\ block >= EndBlock(slot)) =>
                ListedProgress(slot, {block}) = StatusView(slot, {block}).progress
          /\ LET next == StatusView(slot, {}).next
             IN  next # NoRound => StatusView(next, {}).previous = slot
          /\ LET rowId == [r \in Rounds |-> Position(r)]
             IN  \A n \in {EncodedId(slot), rowId[slot]} :
                     Resolved(n, rowId) = slot /\ Detailed(n, rowId) = slot
    /\ RankedSeason(LatestSeason) = Season(MetricsRound)

\* Two pages disagree on which round is the current one only about a round
\* that has reached its planned end and waits to be closed.
StaleCurrentIsEnding ==
    CurrentRound # OverviewRound => block >= EndBlock(CurrentRound)

\* The rounds pages tell the truth about validators, agree with each other, and
\* lose no round when they are turned.
RoundPagesAgree == LabelsAreTrue /\ PagesTile /\ ViewsAgree /\ StaleCurrentIsEnding
=============================================================================
