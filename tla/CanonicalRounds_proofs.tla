----------------------- MODULE CanonicalRounds_proofs -----------------------
(***************************************************************************)
(* Theorems about CanonicalRounds and RoundViews, for every set of         *)
(* validators, every stake, schedule and grace, and any number of ids per  *)
(* validator.                                                              *)
(*                                                                         *)
(* The inductive invariant Inv adds to the properties what their proofs    *)
(* lean on: a round has an opener exactly when it exists, the season of a  *)
(* round that exists exists, nobody finished a round that does not, and    *)
(* the two unique indexes hold.                                            *)
(***************************************************************************)
EXTENDS RoundViews, Queries_proofs, FiniteSetTheorems, WellFoundedInduction, TLAPS

(* A round exists with an opener and inside a season that exists.          *)
RoundsAreWhole ==
    \A slot \in Slots :
        /\ roundStatus[slot] = "none" <=> openedBy[slot] = NoOne
        /\ roundStatus[slot] # "none" => seasonStatus[Season(slot)] # "none"

(* Only what exists was finished by anybody.                               *)
ReportedRounds == \A slot \in Slots : roundStatus[slot] = "none" => reported[slot] = "none"

Inv == /\ TypeOK /\ RowLinks /\ RoundsAreWhole /\ ReportedRounds
       /\ IndexesAccept(roundStatus, seasonStatus)

----------------------------------------------------------------------------
(* What the helpers return.                                                *)

(* A slot belongs to a season.                                             *)
LEMMA SlotHasSeason == \A slot \in Slots : Season(slot) \in Seasons
BY DEF Slots, Season

(* The blocks of the schedule are integers.                                *)
LEMMA ScheduleTypes ==
    \A slot \in Slots : StartBlock(slot) \in Int /\ EndBlock(slot) \in Int
<1> SUFFICES ASSUME NEW slot \in Slots
             PROVE  StartBlock(slot) \in Int /\ EndBlock(slot) \in Int
    OBVIOUS
<1>1. slot[1] \in Int /\ slot[2] \in Int
    BY DEF Slots, Seasons
<1>2. RoundsPerSeason \in Int /\ RoundBlocks \in Int /\ FirstBlock \in Int
    BY Constants DEF Constants, ScheduleAssumption
<1>3. (slot[1] - 1) * RoundsPerSeason + (slot[2] - 1) \in Int
    BY <1>1, <1>2
<1> QED BY <1>2, <1>3 DEF StartBlock, EndBlock

(* Opening a round never loses one, and leaves the other rounds alone.     *)
LEMMA OpeningTypes ==
    ASSUME TypeOK, NEW slot \in Slots
    PROVE  /\ WithRound(slot) \in [Slots -> RoundStatuses]
           /\ WithRound(slot)[slot] # "none"
           /\ \A other \in Slots \ {slot} : WithRound(slot)[other] = roundStatus[other]
           /\ roundStatus[slot] # "none" => WithRound(slot) = roundStatus
BY DEF TypeOK, WithRound, RoundStatuses

(* Closing stale seasons only turns active seasons into finished ones, and *)
(* only seasons without a running round.                                   *)
LEMMA ClosingTypes ==
    ASSUME TypeOK, NEW s \in Seasons
    PROVE  /\ CloseStaleSeasons(s) \in [Seasons -> SeasonStatuses]
           /\ CloseStaleSeasons(s)[s] = seasonStatus[s]
           /\ \A n \in Seasons :
                 \/ CloseStaleSeasons(s)[n] = seasonStatus[n]
                 \/ /\ n # s /\ seasonStatus[n] = "active"
                    /\ CloseStaleSeasons(s)[n] = "finished"
                    /\ ~ActiveRoundIn(n, roundStatus)
<1>1. ~(s < s)
    BY DEF Seasons
<1> QED BY <1>1 DEF TypeOK, CloseStaleSeasons, SeasonStatuses

----------------------------------------------------------------------------
(* The invariant, action by action.                                        *)

(* The rows after a start are well-formed: what is purged is purged        *)
(* everywhere, and what is linked has its round.                           *)
LEMMA RegisterRows ==
    ASSUME Inv, NEW id \in Ids, Register(id), roundStatus' = WithRound(id.slot)
    PROVE  /\ registered' \subseteq Ids
           /\ linked' \subseteq registered' /\ pending' \subseteq registered'
           /\ flagged' \subseteq registered' /\ started' \subseteq registered'
           /\ runs' \subseteq registered'
           /\ RowLinks'
<1>0. id.slot \in Slots
    BY DEF Ids
<1>1. Linkable(Season(id.slot), WithRound(id.slot)) \subseteq registered
    BY DEF Linkable, Inv, TypeOK
<1>2. /\ registered' \subseteq Ids
      /\ linked' \subseteq registered' /\ pending' \subseteq registered'
      /\ flagged' \subseteq registered' /\ started' \subseteq registered'
      /\ runs' \subseteq registered'
    BY <1>1 DEF Register, Inv, TypeOK
<1>3. pending' = registered' \ linked'
    <2>1. id \in registered => id \in OwnRows(id)
        BY DEF OwnRows
    <2>2. Linkable(Season(id.slot), WithRound(id.slot)) \cap linked = {}
        BY DEF Linkable
    <2> QED BY <1>1, <2>1, <2>2 DEF Register, Inv, TypeOK, RowLinks
<1>4. ASSUME NEW r \in linked' PROVE roundStatus'[r.slot] # "none"
    <2>1. r \in linked \/ r \in Linkable(Season(id.slot), WithRound(id.slot)) \/ r = id
        BY DEF Register
    <2>2. CASE r \in linked
        <3>1. r.slot \in Slots /\ roundStatus[r.slot] # "none"
            BY <2>2 DEF Inv, TypeOK, RowLinks, Ids
        <3> QED BY <3>1, <1>0, OpeningTypes DEF Inv
    <2>3. CASE r \in Linkable(Season(id.slot), WithRound(id.slot))
        BY <2>3 DEF Linkable
    <2>4. CASE r = id
        BY <2>4, <1>0, OpeningTypes DEF Inv
    <2> QED BY <2>1, <2>2, <2>3, <2>4
<1> QED BY <1>2, <1>3, <1>4 DEF RowLinks

(* A start that passes keeps the invariant, whatever seasons it closed     *)
(* before.                                                                 *)
LEMMA OpenOrAttachInv ==
    ASSUME Inv, NEW id \in Ids, NEW seasonsBefore \in [Seasons -> SeasonStatuses],
           \A n \in Seasons : seasonStatus[n] # "none" => seasonsBefore[n] # "none",
           OpenOrAttach(id, seasonsBefore)
    PROVE  Inv'
<1>0. id.slot \in Slots /\ id.uid \in Validators /\ Season(id.slot) \in Seasons
    BY SlotHasSeason DEF Ids
<1>1. /\ roundStatus' \in [Slots -> RoundStatuses]
      /\ seasonStatus' \in [Seasons -> SeasonStatuses]
      /\ openedBy' \in [Slots -> Validators \cup {NoOne}]
      /\ block' \in Nat
    BY <1>0, OpeningTypes
       DEF OpenOrAttach, Inv, TypeOK, WithSeason, WithOpener, SeasonStatuses
<1>2. TypeOK' /\ RowLinks'
    BY <1>1, RegisterRows DEF OpenOrAttach, TypeOK, Inv
<1>3. ASSUME NEW slot \in Slots
      PROVE  /\ roundStatus'[slot] = "none" <=> openedBy'[slot] = NoOne
             /\ roundStatus'[slot] # "none" => seasonStatus'[Season(slot)] # "none"
    <2>1. Season(slot) \in Seasons
        BY SlotHasSeason
    <2>2. NoOne \notin Validators
        BY Constants DEF Constants, ValidatorsAssumption
    <2>3. CASE slot = id.slot
        BY <1>0, <2>1, <2>2, <2>3
           DEF OpenOrAttach, WithRound, WithOpener, WithSeason, Inv, TypeOK, RoundsAreWhole
    <2>4. CASE slot # id.slot
        BY <1>0, <2>1, <2>4
           DEF OpenOrAttach, WithRound, WithOpener, WithSeason, Inv, TypeOK, RoundsAreWhole
    <2> QED BY <2>3, <2>4
<1>4. ReportedRounds'
    BY <1>0, OpeningTypes DEF OpenOrAttach, Inv, ReportedRounds
<1> QED BY <1>2, <1>3, <1>4 DEF OpenOrAttach, Inv, RoundsAreWhole

(* Starts of the main validator and of backups keep the invariant.         *)
LEMMA StartInv ==
    ASSUME Inv, NEW id \in Ids, MainStart(id) \/ BackupStart(id)
    PROVE  Inv'
<1>0. Season(id.slot) \in Seasons
    BY SlotHasSeason DEF Ids
<1>1. CASE MainStart(id)
    <2>1. \A n \in Seasons : seasonStatus[n] # "none" =>
              CloseStaleSeasons(Season(id.slot))[n] # "none"
        BY <1>0, ClosingTypes DEF Inv
    <2> QED BY <1>0, <1>1, <2>1, ClosingTypes, OpenOrAttachInv DEF MainStart, Inv
<1>2. CASE BackupStart(id)
    BY <1>2, OpenOrAttachInv DEF BackupStart, Inv, TypeOK
<1> QED BY <1>1, <1>2

(* The actions that leave the official tables as they are.                 *)
LEMMA RowsOnlyInv ==
    ASSUME Inv, NEW id \in Ids,
           \/ ShadowStart(id)
           \/ StartAgentRun(id)
           \/ UploadRoundLog(id) \/ RecordRoundLogUrl(id)
    PROVE  Inv'
<1>1. UNCHANGED <<block, official>>
    BY DEF ShadowStart, StartAgentRun, UploadRoundLog, RecordRoundLogUrl
<1>2. RoundsAreWhole' /\ ReportedRounds' /\ IndexesAccept(roundStatus, seasonStatus)'
    BY <1>1 DEF Inv, RoundsAreWhole, ReportedRounds, official, IndexesAccept
<1>3. CASE ShadowStart(id)
    BY <1>1, <1>2, <1>3 DEF Inv, TypeOK, RowLinks, ShadowStart, official
<1>4. CASE StartAgentRun(id)
    <2>1. id \in registered
        BY <1>4 DEF StartAgentRun, RunsAllowed, Inv, TypeOK
    <2>2. TypeOK'
        BY <1>1, <1>4, <2>1 DEF Inv, TypeOK, StartAgentRun, Linkable, official
    <2>3. RowLinks'
        BY <1>1, <1>4, <2>1 DEF Inv, TypeOK, RowLinks, StartAgentRun, Linkable, official
    <2> QED BY <1>2, <2>2, <2>3 DEF Inv
<1>5. CASE UploadRoundLog(id)
    <2>2. TypeOK'
        BY <1>1, <1>5 DEF Inv, TypeOK, UploadRoundLog, official
    <2>3. RowLinks'
        BY <1>1, <1>5 DEF Inv, TypeOK, RowLinks, UploadRoundLog, official
    <2> QED BY <1>2, <2>2, <2>3 DEF Inv
<1>6. CASE RecordRoundLogUrl(id)
    <2>2. TypeOK'
        BY <1>1, <1>6 DEF Inv, TypeOK, RecordRoundLogUrl, Reflagged, official
    <2>3. RowLinks'
        BY <1>1, <1>6 DEF Inv, TypeOK, RowLinks, RecordRoundLogUrl, official
    <2> QED BY <1>2, <2>2, <2>3 DEF Inv
<1> QED BY <1>3, <1>4, <1>5, <1>6

(* A finish neither makes a round nor loses one.                           *)
LEMMA FinishInv ==
    ASSUME Inv, NEW id \in Ids, NEW status \in FinishStatuses,
           NEW chainKnown \in BOOLEAN, NEW withSummary \in BOOLEAN,
           FinishRound(id, status, chainKnown, withSummary)
    PROVE  Inv'
<1>0. id.slot \in Slots /\ Season(id.slot) \in Seasons
    BY SlotHasSeason DEF Ids
<1>1. status \in RoundStatuses /\ status # "none"
    BY Constants DEF Constants, StatusesAssumption, RoundStatuses
<1>2. /\ roundStatus' \in [Slots -> RoundStatuses]
      /\ \A slot \in Slots : roundStatus'[slot] = "none" <=> roundStatus[slot] = "none"
    BY <1>0, <1>1 DEF FinishRound, FinishedRounds, Inv, TypeOK, RowLinks
<1>3. /\ seasonStatus' \in [Seasons -> SeasonStatuses]
      /\ \A n \in Seasons : seasonStatus[n] # "none" => seasonStatus'[n] # "none"
    BY <1>0 DEF FinishRound, SyncedSeasons, Inv, TypeOK, SeasonStatuses
<1>4. TypeOK'
    <2>1. reported' \in [Slots -> RoundStatuses]
        BY <1>0, <1>1 DEF FinishRound, Inv, TypeOK
    <2> QED BY <1>2, <1>3, <2>1 DEF FinishRound, Inv, TypeOK, Reflagged
<1>5. RowLinks'
    BY <1>2 DEF FinishRound, Inv, TypeOK, RowLinks, Ids
<1>6. RoundsAreWhole'
    BY <1>2, <1>3, SlotHasSeason DEF FinishRound, Inv, RoundsAreWhole
<1>7. ReportedRounds'
    <2>1. id \in linked => roundStatus[id.slot] # "none"
        BY DEF Inv, RowLinks
    <2> QED BY <1>0, <1>2, <2>1 DEF FinishRound, Inv, TypeOK, ReportedRounds
<1> QED BY <1>4, <1>5, <1>6, <1>7 DEF FinishRound, Inv

(* What the reconciler does to one round: it finishes an active one that   *)
(* is past its planned end, or leaves it alone.                            *)
LEMMA ReconciledRounds ==
    ASSUME Inv, Reconcile
    PROVE  /\ roundStatus' \in [Slots -> RoundStatuses]
           /\ \A slot \in Slots :
                 \/ roundStatus'[slot] = roundStatus[slot]
                 \/ /\ roundStatus[slot] = "active" /\ EndBlock(slot) < block
                    /\ roundStatus'[slot] = "finished"
BY DEF Reconcile, Expired, Inv, TypeOK, RoundStatuses

(* Closing rounds breaks nothing: no row and no season depends on a round  *)
(* being active.                                                           *)
LEMMA ReconcileInv == Inv /\ Reconcile => Inv'
<1> SUFFICES ASSUME Inv, Reconcile PROVE Inv'
    OBVIOUS
<1>1. UNCHANGED <<block, seasonStatus, openedBy, reported, rows>>
    BY DEF Reconcile
<1>2. \A slot \in Slots : /\ roundStatus'[slot] = "none" <=> roundStatus[slot] = "none"
                          /\ roundStatus'[slot] = "active" => roundStatus[slot] = "active"
    BY ReconciledRounds
<1>3. TypeOK'
    BY <1>1, ReconciledRounds DEF Inv, TypeOK, rows
<1>4. RowLinks' /\ RoundsAreWhole' /\ ReportedRounds'
    BY <1>1, <1>2 DEF Inv, TypeOK, RowLinks, RoundsAreWhole, ReportedRounds, rows, Ids
<1>5. IndexesAccept(roundStatus, seasonStatus)'
    BY <1>1, <1>2 DEF Inv, IndexesAccept
<1> QED BY <1>3, <1>4, <1>5 DEF Inv

(* The empty tables are well-formed.                                       *)
LEMMA InitInv == Init => Inv
<1> SUFFICES ASSUME Init PROVE Inv
    OBVIOUS
<1>1. FirstBlock \in Nat
    BY Constants DEF Constants, ScheduleAssumption
<1>2. TypeOK
    BY <1>1 DEF Init, TypeOK, SeasonStatuses, RoundStatuses
<1>3. RowLinks /\ RoundsAreWhole /\ ReportedRounds
    BY DEF Init, RowLinks, RoundsAreWhole, ReportedRounds
<1>4. IndexesAccept(roundStatus, seasonStatus)
    BY DEF Init, IndexesAccept
<1> QED BY <1>2, <1>3, <1>4 DEF Inv

(* Every step keeps the invariant.                                         *)
LEMMA NextInv == Inv /\ [Next]_vars => Inv'
<1> SUFFICES ASSUME Inv, [Next]_vars PROVE Inv'
    OBVIOUS
<1>1. CASE UNCHANGED vars
    BY <1>1 DEF vars, official, rows, Inv, TypeOK, RowLinks, RoundsAreWhole, ReportedRounds,
                IndexesAccept
<1>2. CASE AdvanceBlock
    BY <1>2 DEF AdvanceBlock, official, rows, Inv, TypeOK, RowLinks, RoundsAreWhole, ReportedRounds,
                IndexesAccept
<1>3. ASSUME NEW id \in Ids, MainStart(id) \/ BackupStart(id) PROVE Inv'
    BY <1>3, StartInv
<1>4. ASSUME NEW id \in Ids,
             \/ ShadowStart(id)
             \/ StartAgentRun(id)
             \/ UploadRoundLog(id) \/ RecordRoundLogUrl(id)
      PROVE  Inv'
    BY <1>4, RowsOnlyInv
<1>5. ASSUME NEW id \in Ids, NEW status \in FinishStatuses,
             NEW chainKnown \in BOOLEAN, NEW withSummary \in BOOLEAN,
             FinishRound(id, status, chainKnown, withSummary)
      PROVE  Inv'
    BY <1>5, FinishInv
<1> QED BY <1>1, <1>2, <1>3, <1>4, <1>5, ReconcileInv DEF Next

(* The inductive invariant: well-formed rows, rounds that are whole, and   *)
(* at most one active season and one active round per season.              *)
THEOREM Invariance == Spec => []Inv
BY InitInv, NextInv, PTL DEF Spec

(* Whatever validators send, the tables stay well-formed.                  *)
THEOREM TypeCorrectness == Spec => []TypeOK
<1>1. Inv => TypeOK
    BY DEF Inv
<1> QED BY <1>1, Invariance, PTL

(* A row waits exactly as long as it has no round, and links to one that   *)
(* exists.                                                                 *)
THEOREM RowLinksHold == Spec => []RowLinks
<1>1. Inv => RowLinks
    BY DEF Inv
<1> QED BY <1>1, Invariance, PTL

----------------------------------------------------------------------------
(* Who opened what.                                                        *)

(* A step that is no start leaves the openers alone and loses no           *)
(* participant.                                                            *)
LEMMA OpeningStep ==
    ASSUME Inv, Next
    PROVE  \/ openedBy' = openedBy /\ linked \subseteq linked'
           \/ \E id \in Ids : \/ MainStart(id)
                              \/ BackupStart(id)
<1>1. CASE AdvanceBlock
    BY <1>1 DEF AdvanceBlock, official, rows
<1>2. ASSUME NEW id \in Ids, ShadowStart(id) PROVE openedBy' = openedBy /\ linked \subseteq linked'
    BY <1>2 DEF ShadowStart, official
<1>3. ASSUME NEW id \in Ids, StartAgentRun(id) PROVE openedBy' = openedBy /\ linked \subseteq linked'
    BY <1>3 DEF StartAgentRun, official
<1>4. ASSUME NEW id \in Ids, UploadRoundLog(id) \/ RecordRoundLogUrl(id)
      PROVE  openedBy' = openedBy /\ linked \subseteq linked'
    BY <1>4 DEF UploadRoundLog, RecordRoundLogUrl, official
<1>5. ASSUME NEW id \in Ids, NEW status \in FinishStatuses,
             NEW chainKnown \in BOOLEAN, NEW withSummary \in BOOLEAN,
             FinishRound(id, status, chainKnown, withSummary)
      PROVE  openedBy' = openedBy /\ linked \subseteq linked'
    BY <1>5 DEF FinishRound
<1>6. CASE Reconcile
    BY <1>6 DEF Reconcile, rows
<1> QED BY <1>1, <1>2, <1>3, <1>4, <1>5, <1>6 DEF Next

(* A start keeps every participant, if need be under the new id.           *)
LEMMA StartKeepsParticipants ==
    ASSUME Inv, NEW id \in Ids, MainStart(id) \/ BackupStart(id),
           NEW r \in linked
    PROVE  \E n \in linked' : n.uid = r.uid /\ n.slot = r.slot
<1>1. Register(id)
    BY DEF MainStart, BackupStart, OpenOrAttach
<1>2. CASE r \in OwnRows(id)
    BY <1>1, <1>2 DEF Register, OwnRows
<1>3. CASE r \notin OwnRows(id)
    BY <1>1, <1>3 DEF Register, Inv, TypeOK
<1> QED BY <1>2, <1>3

(* Every step keeps the opener of each round among its participants.       *)
LEMMA OpenerStep == Inv /\ OpenerTakesPart /\ [Next]_vars => OpenerTakesPart'
<1> SUFFICES ASSUME Inv, OpenerTakesPart, [Next]_vars,
                    NEW slot \in Slots, openedBy'[slot] # NoOne
             PROVE  \E n \in linked' : n.uid = openedBy'[slot] /\ n.slot = slot
    BY DEF OpenerTakesPart
<1>1. CASE UNCHANGED vars \/ (openedBy' = openedBy /\ linked \subseteq linked')
    BY <1>1 DEF vars, official, rows, OpenerTakesPart
<1>2. ASSUME NEW id \in Ids, MainStart(id) \/ BackupStart(id)
      PROVE  \E n \in linked' : n.uid = openedBy'[slot] /\ n.slot = slot
    <2>1. id.slot \in Slots /\ openedBy' = WithOpener(id.slot, id.uid) /\ id \in linked'
        BY <1>2 DEF MainStart, BackupStart, OpenOrAttach, Register, Ids
    <2>2. CASE openedBy[slot] = NoOne
        BY <2>1, <2>2 DEF WithOpener, Inv, TypeOK
    <2>3. CASE openedBy[slot] # NoOne
        <3>1. openedBy'[slot] = openedBy[slot]
            BY <2>1, <2>3 DEF WithOpener, Inv, TypeOK
        <3>2. PICK r \in linked : r.uid = openedBy[slot] /\ r.slot = slot
            BY <2>3 DEF OpenerTakesPart
        <3> QED BY <1>2, <3>1, <3>2, StartKeepsParticipants
    <2> QED BY <2>2, <2>3
<1> QED BY <1>1, <1>2, OpeningStep

(* The opener of a round keeps a row that is linked to it.                 *)
THEOREM OpenerAlwaysTakesPart == Spec => []OpenerTakesPart
<1>1. Init => OpenerTakesPart
    BY DEF Init, OpenerTakesPart
<1> QED BY <1>1, OpenerStep, Invariance, PTL DEF Spec

(* Every step keeps who takes part in a round.                             *)
LEMMA ParticipantsStep ==
    Inv /\ [Next]_vars => \A r \in linked : \E n \in linked' : n.uid = r.uid /\ n.slot = r.slot
<1>1. CASE UNCHANGED vars
    BY <1>1 DEF vars, rows
<1> QED BY <1>1, OpeningStep, StartKeepsParticipants

(* Whoever is linked to a round stays linked to it.                        *)
THEOREM ParticipantsAlwaysStay == Spec => ParticipantsStay
BY ParticipantsStep, Invariance, PTL DEF Spec, ParticipantsStay

(* Only a start makes an opener, and a backup only after the grace.        *)
LEMMA FallbackStep == Inv /\ FallbackOnlyAfterGrace /\ [Next]_vars => FallbackOnlyAfterGrace'
<1> SUFFICES ASSUME Inv, FallbackOnlyAfterGrace, [Next]_vars,
                    NEW slot \in Slots, openedBy'[slot] # NoOne
             PROVE  IsMain(openedBy'[slot]) \/ block' > StartBlock(slot) + StartGrace
    BY DEF FallbackOnlyAfterGrace
<1>0. /\ StartBlock(slot) \in Int /\ StartGrace \in Int /\ block \in Int
      /\ block' \in Int /\ block <= block'
    <2>1. block' = block \/ block' = block + 1
        BY DEF Next, vars, AdvanceBlock, MainStart, BackupStart, OpenOrAttach, ShadowStart,
               StartAgentRun, UploadRoundLog, RecordRoundLogUrl, FinishRound, Reconcile
    <2>2. block \in Nat /\ StartGrace \in Nat
        BY Constants DEF Inv, TypeOK, Constants, ScheduleAssumption
    <2> QED BY <2>1, <2>2, ScheduleTypes
<1>1. CASE openedBy'[slot] = openedBy[slot]
    BY <1>0, <1>1 DEF FallbackOnlyAfterGrace
<1>2. CASE openedBy'[slot] # openedBy[slot]
    <2>1. PICK id \in Ids : MainStart(id) \/ BackupStart(id)
        BY <1>2, OpeningStep DEF vars, official
    <2>2. /\ openedBy' = WithOpener(id.slot, id.uid) /\ id.slot \in Slots
        BY <2>1 DEF MainStart, BackupStart, OpenOrAttach, Ids
    <2>3. slot = id.slot /\ openedBy[slot] = NoOne /\ openedBy'[slot] = id.uid
        BY <1>2, <2>2 DEF WithOpener, Inv, TypeOK
    <2>4. CASE MainStart(id)
        BY <2>3, <2>4 DEF MainStart, MainMayStart
    <2>5. CASE BackupStart(id)
        <3>1. roundStatus[slot] = "none"
            BY <2>3 DEF Inv, RoundsAreWhole
        <3>2. FallbackGraceElapsed(slot) /\ block' = block
            BY <2>3, <2>5, <3>1 DEF BackupStart, BackupMayOpen, BackupMayAttach, OpenOrAttach
        <3> QED BY <3>2, <1>0 DEF FallbackGraceElapsed
    <2> QED BY <2>1, <2>4, <2>5
<1> QED BY <1>1, <1>2

(* No backup ever opened a round before the grace of the main one was over. *)
THEOREM FallbackAlwaysLate == Spec => []FallbackOnlyAfterGrace
<1>1. Init => FallbackOnlyAfterGrace
    BY DEF Init, FallbackOnlyAfterGrace
<1> QED BY <1>1, FallbackStep, Invariance, PTL DEF Spec

----------------------------------------------------------------------------
(* The main validator's starts.                                            *)

(* The checks of start_round imply what the unique indexes demand.         *)
LEMMA MainStartIndexes == Inv => MainStartMeetsIndexes
<1> SUFFICES ASSUME Inv, NEW id \in Ids, MainMayStart(id)
             PROVE  IndexesAccept(WithRound(id.slot),
                        WithSeason(Season(id.slot), CloseStaleSeasons(Season(id.slot))))
    BY DEF MainStartMeetsIndexes
<1> DEFINE s == Season(id.slot)
           seasons == WithSeason(s, CloseStaleSeasons(s))
           rounds == WithRound(id.slot)
<1>0. id.slot \in Slots /\ s \in Seasons
    BY SlotHasSeason DEF Ids
<1>1. ASSUME NEW n \in Seasons, n # s PROVE seasons[n] # "active"
    BY <1>0, <1>1, ClosingTypes DEF MainMayStart, WithSeason, Inv
<1>2. ASSUME NEW other \in Slots, other # id.slot, Season(other) = s
      PROVE  rounds[other] # "active"
    BY <1>0, <1>2, OpeningTypes DEF MainMayStart, Inv
<1>3. ASSUME NEW s1 \in Slots, NEW s2 \in Slots, rounds[s1] = "active", rounds[s2] = "active",
             Season(s1) = Season(s2)
      PROVE  s1 = s2
    <2>1. CASE Season(s1) = s
        BY <1>2, <1>3, <2>1
    <2>2. CASE Season(s1) # s
        <3>1. roundStatus[s1] = "active" /\ roundStatus[s2] = "active"
            BY <1>0, <1>3, <2>2, OpeningTypes DEF Inv
        <3> QED BY <1>3, <3>1 DEF Inv, IndexesAccept
    <2> QED BY <2>1, <2>2
<1> HIDE DEF s, seasons, rounds
<1>4. \A n1, n2 \in Seasons : seasons[n1] = "active" /\ seasons[n2] = "active" => n1 = n2
    BY <1>1
<1> QED BY <1>3, <1>4 DEF IndexesAccept, s, seasons, rounds

(* What the checks of start_round let pass for the main validator never    *)
(* fails on a unique index.                                                *)
THEOREM MainStartsAlwaysMeetIndexes == Spec => []MainStartMeetsIndexes
BY MainStartIndexes, Invariance, PTL

(* A start purges what the main validator started before in that slot.     *)
LEMMA StartedStep == Inv /\ OneStartedMainRow /\ [Next]_vars => OneStartedMainRow'
<1> SUFFICES ASSUME Inv, OneStartedMainRow, [Next]_vars,
                    NEW r1 \in started', NEW r2 \in started',
                    IsMain(r1.uid), r1.uid = r2.uid, r1.slot = r2.slot
             PROVE  r1 = r2
    BY DEF OneStartedMainRow
<1>1. CASE started' = started
    BY <1>1 DEF OneStartedMainRow
<1>2. ASSUME NEW id \in Ids, ShadowStart(id) PROVE r1 = r2
    <2>1. ~IsMain(id.uid) /\ started' = started \cup {id}
        BY <1>2 DEF ShadowStart, RefusedByAuthority
    <2> QED BY <2>1 DEF OneStartedMainRow
<1>3. ASSUME NEW id \in Ids, MainStart(id) \/ BackupStart(id) PROVE r1 = r2
    <2>1. started' = (started \cap (registered \ OwnRows(id))) \cup {id}
        BY <1>3 DEF MainStart, BackupStart, OpenOrAttach, Register
    <2> QED BY <2>1 DEF OneStartedMainRow, OwnRows
<1>4. ASSUME ~\E id \in Ids : MainStart(id) \/ BackupStart(id) \/ ShadowStart(id)
      PROVE  started' = started
    BY <1>4 DEF Next, vars, rows, AdvanceBlock, StartAgentRun, UploadRoundLog, RecordRoundLogUrl, FinishRound,
                Reconcile
<1> QED BY <1>1, <1>2, <1>3, <1>4

(* The main validator never has two rows it started for one round.         *)
THEOREM OneMainRow == Spec => []OneStartedMainRow
<1>1. Init => OneStartedMainRow
    BY DEF Init, OneStartedMainRow
<1> QED BY <1>1, StartedStep, Invariance, PTL DEF Spec

----------------------------------------------------------------------------
(* The official tables and the timeline they implement.                    *)

(* Only starts, finishes and the reconciler touch the official tables.     *)
LEMMA OfficialStep ==
    ASSUME Inv, Next
    PROVE  \/ roundStatus' = roundStatus /\ seasonStatus' = seasonStatus
           \/ Reconcile
           \/ \E id \in Ids : MainStart(id) \/ BackupStart(id)
           \/ \E id \in Ids, status \in FinishStatuses, chainKnown \in BOOLEAN,
                 withSummary \in BOOLEAN : FinishRound(id, status, chainKnown, withSummary)
<1>1. CASE AdvanceBlock
    BY <1>1 DEF AdvanceBlock, official
<1>2. ASSUME NEW id \in Ids,
             \/ ShadowStart(id)
             \/ StartAgentRun(id)
             \/ UploadRoundLog(id) \/ RecordRoundLogUrl(id)
      PROVE  roundStatus' = roundStatus /\ seasonStatus' = seasonStatus
    BY <1>2 DEF ShadowStart, StartAgentRun, UploadRoundLog, RecordRoundLogUrl, official
<1> QED BY <1>1, <1>2 DEF Next

(* A finish changes at most the status of the round of a main validator    *)
(* that is linked to it.                                                   *)
LEMMA FinishedTypes ==
    ASSUME Inv, NEW id \in Ids, NEW status \in FinishStatuses
    PROVE  LET after == FinishedRounds(id, status) IN
           /\ after \in [Slots -> RoundStatuses]
           /\ \A slot \in Slots :
                 \/ after[slot] = roundStatus[slot]
                 \/ /\ slot = id.slot /\ IsMain(id.uid) /\ id \in linked
                    /\ roundStatus[slot] # "none" /\ after[slot] = status
           /\ status \in RoundStatuses /\ status # "none"
<1>1. status \in RoundStatuses /\ status # "none"
    BY Constants DEF Constants, StatusesAssumption, RoundStatuses
<1>2. id.slot \in Slots
    BY DEF Ids
<1> QED BY <1>1, <1>2 DEF FinishedRounds, Inv, TypeOK, RowLinks

(* The clock finishes only what is active and past its planned end, a      *)
(* finish of a main validator reports what it writes, and nothing else     *)
(* moves a status.                                                         *)
LEMMA StatusStep == Inv /\ StatusFollowsMain /\ [Next]_vars => StatusFollowsMain'
<1> SUFFICES ASSUME Inv, StatusFollowsMain, [Next]_vars PROVE StatusFollowsMain'
    OBVIOUS
<1>1. Inv'
    BY NextInv
<1>2. ASSUME NEW slot \in Slots
      PROVE  /\ block \in Int /\ block' \in Int /\ block <= block' /\ EndBlock(slot) \in Int
             /\ (EndBlock(slot) < block => EndBlock(slot) < block')
    <2>1. block' = block \/ block' = block + 1
        BY DEF Next, vars, AdvanceBlock, MainStart, BackupStart, OpenOrAttach, ShadowStart,
               StartAgentRun, UploadRoundLog, RecordRoundLogUrl, FinishRound, Reconcile
    <2> QED BY <2>1, ScheduleTypes DEF Inv, TypeOK
<1>3. CASE roundStatus' = roundStatus /\ reported' = reported
    BY <1>2, <1>3 DEF StatusFollowsMain
<1>4. ASSUME NEW id \in Ids, MainStart(id) \/ BackupStart(id) PROVE StatusFollowsMain'
    <2>1. /\ roundStatus' = WithRound(id.slot) /\ id.slot \in Slots /\ reported' = reported
          /\ block' = block
        BY <1>4 DEF MainStart, BackupStart, OpenOrAttach, Ids
    <2>2. ASSUME NEW slot \in Slots
          PROVE  \/ roundStatus'[slot] = roundStatus[slot]
                 \/ roundStatus[slot] = "none" /\ roundStatus'[slot] = "active"
        BY <2>1 DEF WithRound, Inv, TypeOK
    <2>3. \A slot \in Slots : roundStatus[slot] = "none" => reported[slot] = "none"
        BY DEF ReportedRounds, Inv
    <2> QED BY <2>1, <2>2, <2>3 DEF StatusFollowsMain
<1>5. ASSUME NEW id \in Ids, NEW status \in FinishStatuses,
             NEW chainKnown \in BOOLEAN, NEW withSummary \in BOOLEAN,
             FinishRound(id, status, chainKnown, withSummary)
      PROVE  StatusFollowsMain'
    <2>1. CASE IsMain(id.uid) /\ id \in linked
        <3>1. /\ roundStatus' = [roundStatus EXCEPT ![id.slot] = status]
              /\ reported' = [reported EXCEPT ![id.slot] = status]
              /\ block' = block /\ status # "none"
            BY <1>5, <2>1, FinishedTypes DEF FinishRound, FinishedRounds
        <3>2. ASSUME NEW slot \in Slots
              PROVE  \/ roundStatus'[slot] = status /\ reported'[slot] = status
                     \/ /\ roundStatus'[slot] = roundStatus[slot]
                        /\ reported'[slot] = reported[slot]
            BY <3>1 DEF Inv, TypeOK
        <3> QED BY <3>1, <3>2 DEF StatusFollowsMain
    <2>2. CASE ~(IsMain(id.uid) /\ id \in linked)
        BY <1>3, <1>5, <2>2 DEF FinishRound, FinishedRounds
    <2> QED BY <2>1, <2>2
<1>6. CASE Reconcile
    <2>1. reported' = reported /\ block' = block
        BY <1>6 DEF Reconcile
    <2> QED BY <1>6, <2>1, ReconciledRounds DEF StatusFollowsMain
<1>7. CASE UNCHANGED <<roundStatus, reported>>
    BY <1>3, <1>7
<1>8. \/ UNCHANGED <<roundStatus, reported>>
      \/ Reconcile
      \/ \E id \in Ids : MainStart(id) \/ BackupStart(id)
      \/ \E id \in Ids, status \in FinishStatuses, chainKnown \in BOOLEAN,
            withSummary \in BOOLEAN : FinishRound(id, status, chainKnown, withSummary)
    <2>1. CASE UNCHANGED vars
        BY <2>1 DEF vars, official
    <2>2. CASE AdvanceBlock
        BY <2>2 DEF AdvanceBlock, official
    <2>3. ASSUME NEW id \in Ids,
                 ShadowStart(id) \/ StartAgentRun(id) \/ UploadRoundLog(id) \/ RecordRoundLogUrl(id)
          PROVE  UNCHANGED <<roundStatus, reported>>
        BY <2>3 DEF ShadowStart, StartAgentRun, UploadRoundLog, RecordRoundLogUrl, official
    <2> QED BY <2>1, <2>2, <2>3 DEF Next
<1> QED BY <1>4, <1>5, <1>6, <1>7, <1>8

(* The status of a round is what a main validator that takes part in it    *)
(* last reported, active until then, and finished by the clock alone.      *)
THEOREM StatusAlwaysFollowsMain == Spec => []StatusFollowsMain
<1>1. Init => StatusFollowsMain
    BY DEF Init, StatusFollowsMain
<1> QED BY <1>1, StatusStep, Invariance, PTL DEF Spec

(* No step turns a round that is over into an active one.                  *)
LEMMA OverStep ==
    ASSUME "active" \notin FinishStatuses
    PROVE  Inv /\ [Next]_vars =>
              \A slot \in Slots :
                  roundStatus[slot] \notin {"none", "active"} => roundStatus'[slot] # "active"
<1> SUFFICES ASSUME Inv, [Next]_vars, NEW slot \in Slots,
                    roundStatus[slot] \notin {"none", "active"}
             PROVE  roundStatus'[slot] # "active"
    OBVIOUS
<1>1. CASE roundStatus' = roundStatus
    BY <1>1
<1>2. ASSUME NEW id \in Ids, MainStart(id) \/ BackupStart(id)
      PROVE  roundStatus'[slot] # "active"
    <2>1. roundStatus' = WithRound(id.slot) /\ id.slot \in Slots
        BY <1>2 DEF MainStart, BackupStart, OpenOrAttach, Ids
    <2> QED BY <2>1 DEF WithRound, Inv, TypeOK
<1>3. ASSUME NEW id \in Ids, NEW status \in FinishStatuses,
             NEW chainKnown \in BOOLEAN, NEW withSummary \in BOOLEAN,
             FinishRound(id, status, chainKnown, withSummary)
      PROVE  roundStatus'[slot] # "active"
    BY <1>3, FinishedTypes DEF FinishRound
<1>4. CASE Reconcile
    BY <1>4, ReconciledRounds
<1> QED BY <1>1, <1>2, <1>3, <1>4, OfficialStep DEF vars, official

(* As long as the main validator does not finish a round with the status   *)
(* "active", a round that is over stays over.                              *)
THEOREM OverAlwaysOver ==
    ASSUME "active" \notin FinishStatuses
    PROVE  Spec => OverIsOver
BY OverStep, Invariance, PTL DEF Spec, OverIsOver

(* A step that opens a round links the shadows of its slot.                *)
LEMMA ShadowsStep ==
    Inv /\ [Next]_vars =>
        \A slot \in Slots :
            roundStatus[slot] = "none" /\ roundStatus'[slot] = "active" =>
                \A r \in registered \cap registered' : r.slot = slot => r \in linked'
<1> SUFFICES ASSUME Inv, [Next]_vars, NEW slot \in Slots,
                    roundStatus[slot] = "none", roundStatus'[slot] = "active",
                    NEW r \in registered \cap registered', r.slot = slot
             PROVE  r \in linked'
    OBVIOUS
<1>1. Next /\ ~(roundStatus' = roundStatus)
    BY DEF vars, official
<1>2. ASSUME NEW id \in Ids, MainStart(id) \/ BackupStart(id) PROVE r \in linked'
    <2>1. Register(id) /\ roundStatus' = WithRound(id.slot) /\ id.slot \in Slots
        BY <1>2 DEF MainStart, BackupStart, OpenOrAttach, Ids
    <2>2. slot = id.slot /\ WithRound(id.slot)[slot] # "none"
        BY <2>1 DEF WithRound, Inv, TypeOK
    <2>3. r = id \/ r \notin OwnRows(id)
        BY <2>1 DEF Register
    <2>4. r \in linked \/ r \in Linkable(Season(id.slot), WithRound(id.slot))
        BY <2>2 DEF Inv, RowLinks, Linkable
    <2> QED BY <2>1, <2>3, <2>4 DEF Register
<1>3. ASSUME NEW id \in Ids, NEW status \in FinishStatuses,
             NEW chainKnown \in BOOLEAN, NEW withSummary \in BOOLEAN,
             FinishRound(id, status, chainKnown, withSummary)
      PROVE  FALSE
    BY <1>3, FinishedTypes DEF FinishRound
<1>4. CASE Reconcile
    BY <1>4, ReconciledRounds
<1> QED BY <1>1, <1>2, <1>3, <1>4, OfficialStep

(* A round that opens takes its shadows along in the same transaction.     *)
THEOREM ShadowsAlwaysFollow == Spec => ShadowsFollowTheRound
BY ShadowsStep, Invariance, PTL DEF Spec, ShadowsFollowTheRound

----------------------------------------------------------------------------
(* Refinement of OfficialTimeline: the state is the same, so that every    *)
(* step must be a step of the timeline or leave it alone.                  *)

(* Both specifications speak of the same slots and seasons.                *)
LEMMA SameSlots == Timeline!Slots = Slots /\ Timeline!Seasons = Seasons
BY DEF Timeline!Slots, Timeline!Seasons, Slots, Seasons

(* The unique indexes are the uniqueness the timeline promises.            *)
LEMMA SameOne ==
    ASSUME Inv, Inv'
    PROVE  /\ Timeline!OneActiveSeason(seasonStatus')
           /\ Timeline!OneActiveRoundPerSeason(roundStatus')
BY SameSlots DEF Inv, IndexesAccept, Season, Timeline!OneActiveSeason,
                 Timeline!OneActiveRoundPerSeason

(* A start is a step of the timeline.                                      *)
LEMMA StartRefines ==
    ASSUME Inv, Inv', NEW id \in Ids, MainStart(id) \/ BackupStart(id)
    PROVE  Timeline!Next
<1> DEFINE s == Season(id.slot)
<1>0. id.slot \in Slots /\ s \in Seasons
    BY SlotHasSeason DEF Ids
<1>1. PICK before \in [Seasons -> SeasonStatuses] :
         /\ OpenOrAttach(id, before)
         /\ before[s] = seasonStatus[s]
         /\ \A n \in Seasons :
               \/ before[n] = seasonStatus[n]
               \/ /\ n # s /\ seasonStatus[n] = "active"
                  /\ before[n] = "finished"
                  /\ ~ActiveRoundIn(n, roundStatus)
    <2>1. CASE MainStart(id)
        BY <1>0, <2>1, ClosingTypes DEF MainStart, Inv
    <2>2. CASE BackupStart(id)
        BY <1>0, <2>2 DEF BackupStart, Inv, TypeOK
    <2> QED BY <2>1, <2>2
<1>2. /\ roundStatus' = WithRound(id.slot)
      /\ seasonStatus' = [before EXCEPT ![s] = IF @ = "none" THEN "active" ELSE @]
    BY <1>1 DEF OpenOrAttach, WithSeason
<1> HIDE DEF s
<1>3. Timeline!RoundsGoOn /\ Timeline!OneRoundAtATime
    BY <1>0, <1>2, SameSlots
       DEF WithRound, Inv, TypeOK, Timeline!RoundsGoOn, Timeline!OneRoundAtATime,
           Timeline!Moved
<1>4. ASSUME NEW n \in Seasons, n # s
      PROVE  /\ seasonStatus'[n] = before[n]
             /\ Timeline!Running(n, roundStatus') => ActiveRoundIn(n, roundStatus)
    <2>1. seasonStatus'[n] = before[n]
        BY <1>0, <1>2, <1>4
    <2>2. ASSUME NEW slot \in Slots, slot[1] = n, roundStatus'[slot] = "active"
          PROVE  ActiveRoundIn(n, roundStatus)
        <3>1. slot # id.slot
            BY <1>4, <2>2 DEF s, Season
        <3>2. roundStatus[slot] = "active"
            BY <1>0, <1>2, <2>2, <3>1, OpeningTypes DEF Inv
        <3> QED BY <2>2, <3>2 DEF ActiveRoundIn, Season
    <2> QED BY <2>1, <2>2, SameSlots DEF Timeline!Running
<1>5. seasonStatus[s] = "none" => seasonStatus'[s] = "active" /\ Timeline!Running(s, roundStatus')
    <2>1. SUFFICES ASSUME seasonStatus[s] = "none"
                   PROVE  seasonStatus'[s] = "active" /\ Timeline!Running(s, roundStatus')
        OBVIOUS
    <2>2. seasonStatus'[s] = "active"
        BY <1>0, <1>1, <1>2, <2>1
    <2>3. roundStatus[id.slot] = "none"
        BY <1>0, <2>1 DEF Inv, RoundsAreWhole, s
    <2>4. roundStatus'[id.slot] = "active"
        BY <1>0, <1>2, <2>3 DEF WithRound, Inv, TypeOK
    <2> QED BY <1>0, <2>2, <2>4, SameSlots DEF Timeline!Running, s, Season
<1>6. seasonStatus[s] # "none" => seasonStatus'[s] = seasonStatus[s]
    BY <1>0, <1>1, <1>2
<1>7. Timeline!SeasonsGoOn
    <2> SUFFICES ASSUME NEW n \in Seasons
                 PROVE  /\ seasonStatus[n] = "none" /\ seasonStatus'[n] # "none" =>
                              seasonStatus'[n] = "active" /\ Timeline!Running(n, roundStatus')
                        /\ seasonStatus[n] # "none" => seasonStatus'[n] # "none"
                        /\ seasonStatus[n] = "active" /\ seasonStatus'[n] = "finished" =>
                              ~Timeline!Running(n, roundStatus')
        BY SameSlots DEF Timeline!SeasonsGoOn
    <2>1. CASE n = s
        BY <2>1, <1>5, <1>6
    <2>2. CASE n # s
        BY <2>2, <1>1, <1>4
    <2> QED BY <2>1, <2>2
<1> QED BY <1>3, <1>7, SameOne DEF Timeline!Next

(* A finish is a step of the timeline.                                     *)
LEMMA FinishRefines ==
    ASSUME Inv, Inv', NEW id \in Ids, NEW status \in FinishStatuses,
           NEW chainKnown \in BOOLEAN, NEW withSummary \in BOOLEAN,
           FinishRound(id, status, chainKnown, withSummary)
    PROVE  Timeline!Next
<1>0. /\ roundStatus' = FinishedRounds(id, status)
      /\ \/ seasonStatus' = seasonStatus
         \/ id \in linked /\ seasonStatus' = SyncedSeasons(Season(id.slot), roundStatus')
      /\ id.slot \in Slots /\ Season(id.slot) \in Seasons
    BY SlotHasSeason DEF FinishRound, Ids
<1>1. Timeline!RoundsGoOn /\ Timeline!OneRoundAtATime
    BY <1>0, FinishedTypes, SameSlots
       DEF Timeline!RoundsGoOn, Timeline!OneRoundAtATime, Timeline!Moved
<1>2. CASE seasonStatus' = seasonStatus
    BY <1>1, <1>2, SameOne, SameSlots DEF Timeline!Next, Timeline!SeasonsGoOn, Inv, TypeOK
<1>3. CASE id \in linked /\ seasonStatus' = SyncedSeasons(Season(id.slot), roundStatus')
    <2>1. seasonStatus[Season(id.slot)] # "none"
        BY <1>0, <1>3 DEF Inv, RowLinks, RoundsAreWhole
    <2>2. ActiveRoundIn(Season(id.slot), roundStatus')
              <=> Timeline!Running(Season(id.slot), roundStatus')
        BY SameSlots DEF ActiveRoundIn, Timeline!Running, Season
    <2>3. Timeline!SeasonsGoOn
        BY <1>0, <1>3, <2>1, <2>2, SameSlots
           DEF SyncedSeasons, Timeline!SeasonsGoOn, Inv, TypeOK
    <2> QED BY <1>1, <2>3, SameOne DEF Timeline!Next
<1> QED BY <1>0, <1>2, <1>3

(* The reconciler's step is a step of the timeline: the clock's.           *)
LEMMA ReconcileRefines ==
    ASSUME Inv, Inv', Reconcile
    PROVE  Timeline!Next
<1>1. Timeline!RoundsGoOn /\ Timeline!OneRoundAtATime
    BY ReconciledRounds, SameSlots
       DEF Timeline!RoundsGoOn, Timeline!OneRoundAtATime, Timeline!Moved
<1>2. seasonStatus' = seasonStatus
    BY DEF Reconcile
<1> QED BY <1>1, <1>2, SameOne, SameSlots DEF Timeline!Next, Timeline!SeasonsGoOn, Inv, TypeOK

(* Every step is a step of the timeline or leaves it alone.                *)
LEMMA StepRefines == Inv /\ Inv' /\ [Next]_vars => [Timeline!Next]_(Timeline!timeline)
<1> SUFFICES ASSUME Inv, Inv', [Next]_vars,
                    ~(roundStatus' = roundStatus /\ seasonStatus' = seasonStatus)
             PROVE  Timeline!Next
    BY DEF Timeline!timeline
<1>1. Next
    BY DEF vars, official
<1> QED BY <1>1, OfficialStep, StartRefines, FinishRefines, ReconcileRefines

(* The official tables implement the timeline: rounds and seasons never    *)
(* vanish, one of each is active at a time, and no season is closed while  *)
(* one of its rounds runs.                                                 *)
THEOREM Refinement == Spec => TimelineSpec
<1>1. Init => Timeline!Init
    BY SameSlots DEF Init, Timeline!Init
<1> QED BY <1>1, InitInv, NextInv, StepRefines, PTL DEF Spec, TimelineSpec, Timeline!Spec

-----------------------------------------------------------------------------
(* The pages of the rounds: the slots in order.                            *)

(* A slot is a pair of numbers.                                            *)
LEMMA SlotIs ==
    ASSUME NEW slot \in Slots
    PROVE  /\ slot = <<slot[1], slot[2]>> /\ Season(slot) = slot[1]
           /\ slot[1] \in Nat \ {0} /\ slot[1] <= LastSeason
           /\ slot[2] \in Nat \ {0} /\ slot[2] <= RoundsPerSeason
BY Constants DEF Slots, Seasons, Season, Constants, ScheduleAssumption

(* There are finitely many slots.                                          *)
LEMMA SlotsAreFinite == IsFiniteSet(Slots)
<1>1. LastSeason \in Nat /\ RoundsPerSeason \in Nat BY Constants DEF Constants, ScheduleAssumption
<1>2. IsFiniteSet(1..LastSeason) /\ IsFiniteSet(1..RoundsPerSeason) BY <1>1, FS_Interval
<1> QED BY <1>2, FS_Product DEF Slots, Seasons

(* The slots are ordered by time.                                          *)
LEMMA NewerIsAnOrder ==
    ASSUME NEW a \in Slots, NEW b \in Slots, NEW c \in Slots
    PROVE  /\ ~Newer(a, a)
           /\ Newer(a, b) => ~Newer(b, a)
           /\ a # b => Newer(a, b) \/ Newer(b, a)
           /\ Newer(a, b) /\ Newer(b, c) => Newer(a, c)
<1>1. /\ a = <<a[1], a[2]>> /\ b = <<b[1], b[2]>>
      /\ {a[1], a[2], b[1], b[2], c[1], c[2]} \subseteq Nat
  BY SlotIs
<1>2. a # b => a[1] # b[1] \/ a[2] # b[2] BY <1>1
<1> QED BY <1>1, <1>2 DEF Newer

(* The newest of some slots is the only one before all others.             *)
LEMMA NewestIs ==
    ASSUME NEW A, A \subseteq Slots
    PROVE  /\ A # {} => /\ Newest(A) \in A
                        /\ \A b \in A \ {Newest(A)} : Newer(Newest(A), b)
           /\ \A a \in A : (\A b \in A \ {a} : Newer(a, b)) => Newest(A) = a
           /\ A = {} => Newest(A) = NoRound
<1>1. ASSUME A # {} PROVE \E a \in A : \A b \in A \ {a} : Newer(a, b)
  <2> DEFINE R == {p \in Slots \X Slots : Newer(p[1], p[2])}
  <2>1. IsFiniteSet(A) BY SlotsAreFinite, FS_Subset
  <2>2. \A a, b \in A : <<a, b>> \in R <=> Newer(a, b) OBVIOUS
  <2> HIDE DEF R
  <2>3. \A a, b \in A : a # b => <<a, b>> \in R \/ <<b, a>> \in R BY <2>2, NewerIsAnOrder
  <2>4. \A a, b, c \in A : <<a, b>> \in R /\ <<b, c>> \in R => <<a, c>> \in R
    BY <2>2, NewerIsAnOrder
  <2>5. \E a \in A : \A b \in A \ {a} : <<a, b>> \in R BY <1>1, <2>1, <2>3, <2>4, GreatestOf
  <2> QED BY <2>2, <2>5
<1>2. A # {} => /\ Newest(A) \in A
                /\ \A b \in A \ {Newest(A)} : Newer(Newest(A), b)
  BY <1>1 DEF Newest
<1>3. ASSUME NEW a \in A, \A b \in A \ {a} : Newer(a, b) PROVE Newest(A) = a
  <2>1. SUFFICES ASSUME Newest(A) # a PROVE FALSE OBVIOUS
  <2>2. Newer(a, Newest(A)) /\ Newer(Newest(A), a) BY <1>2, <1>3, <2>1
  <2> QED BY <1>2, <2>2, NewerIsAnOrder
<1> QED BY <1>2, <1>3 DEF Newest

-----------------------------------------------------------------------------
(* The place of a round in the list                                        *)

(* The rounds before a round, those after it in time, number at most the   *)
(* others.                                                                 *)
LEMMA PositionIs ==
    ASSUME TypeOK, NEW slot \in Rounds
    PROVE  /\ Position(slot) \in Nat \ {0} /\ Position(slot) <= Cardinality(Rounds)
           /\ Cardinality(Rounds) \in Nat /\ Cardinality(Rounds) <= Cardinality(Slots)
           /\ Cardinality(Slots) \in Nat
<1> DEFINE before == {r \in Rounds : Newer(r, slot)}
<1>1. Rounds \subseteq Slots BY DEF Rounds
<1>2. IsFiniteSet(Rounds) /\ Cardinality(Rounds) <= Cardinality(Slots)
  BY <1>1, SlotsAreFinite, FS_Subset
<1>3. before \subseteq Rounds \ {slot}
  <2>1. ~Newer(slot, slot) BY <1>1, NewerIsAnOrder
  <2> QED BY <2>1
<1>4. IsFiniteSet(Rounds \ {slot}) /\ Cardinality(Rounds \ {slot}) = Cardinality(Rounds) - 1
  BY <1>2, FS_RemoveElement
<1>5. IsFiniteSet(before) /\ Cardinality(before) <= Cardinality(Rounds \ {slot})
  BY <1>3, <1>4, FS_Subset
<1>6. /\ Cardinality(before) \in Nat /\ Cardinality(Rounds) \in Nat /\ Cardinality(Slots) \in Nat
  BY <1>2, <1>5, SlotsAreFinite, FS_CardinalityType
<1> HIDE DEF before
<1>7. Position(slot) = Cardinality(before) + 1 BY DEF Position, before
<1> QED BY <1>2, <1>4, <1>5, <1>6, <1>7

(* A newer round comes before an older one; no two have the same place.    *)
LEMMA PositionsDiffer ==
    ASSUME TypeOK, NEW a \in Rounds, NEW b \in Rounds, Newer(a, b)
    PROVE  Position(a) < Position(b)
<1> DEFINE Before(slot) == {r \in Rounds : Newer(r, slot)}
<1>1. Rounds \subseteq Slots BY DEF Rounds
<1>2. IsFiniteSet(Rounds) BY <1>1, SlotsAreFinite, FS_Subset
<1>3. Before(a) \subseteq Before(b) /\ a \in Before(b) /\ a \notin Before(a)
  BY <1>1, NewerIsAnOrder
<1>4. IsFiniteSet(Before(b)) BY <1>2, FS_Subset
<1>5. /\ IsFiniteSet(Before(a)) /\ Cardinality(Before(a)) <= Cardinality(Before(b))
      /\ Cardinality(Before(b)) # Cardinality(Before(a))
  BY <1>3, <1>4, FS_Subset
<1>6. Cardinality(Before(a)) \in Nat /\ Cardinality(Before(b)) \in Nat
  BY <1>4, <1>5, FS_CardinalityType
<1> HIDE DEF Before
<1>7. Position(a) = Cardinality(Before(a)) + 1 /\ Position(b) = Cardinality(Before(b)) + 1
  BY DEF Position, Before
<1> QED BY <1>5, <1>6, <1>7

(* Pages and skips.                                                        *)
LEMMA PagesTileWhenTyped == TypeOK => PagesTile
<1> SUFFICES ASSUME TypeOK, NEW limit \in 1..3
             PROVE  /\ \A page \in 1..3 :
                          SkipPage((page - 1) * limit, limit) = RoundsPage(page, limit)
                    /\ \A slot \in Rounds :
                          /\ Cardinality({page \in 1..(Cardinality(Rounds) + 1) :
                                             slot \in RoundsPage(page, limit)}) = 1
                          /\ \A skip \in 0..(Position(slot) - 1) :
                                slot \in SkipPage(skip, limit)
                                    <=> Position(slot) <= ((skip \div limit) + 1) * limit
  BY DEF PagesTile
<1>1. ASSUME NEW slot \in Rounds
      PROVE  /\ Position(slot) \in Nat \ {0} /\ Position(slot) <= Cardinality(Rounds)
             /\ Cardinality(Rounds) \in Nat
  BY PositionIs
<1>2. ASSUME NEW slot \in Rounds
      PROVE  Cardinality({page \in 1..(Cardinality(Rounds) + 1) : slot \in RoundsPage(page, limit)}) = 1
  <2>1. PICK page \in 1..(Cardinality(Rounds) + 1) : \A other \in 1..(Cardinality(Rounds) + 1) :
            ((other - 1) * limit < Position(slot) /\ Position(slot) <= other * limit)
                <=> other = page
    BY <1>1, PlaceIsOnOnePage
  <2>2. {other \in 1..(Cardinality(Rounds) + 1) : slot \in RoundsPage(other, limit)} = {page}
    BY <2>1 DEF RoundsPage
  <2> QED BY <2>2, FS_Singleton
<1>3. ASSUME NEW page \in 1..3
      PROVE  SkipPage((page - 1) * limit, limit) = RoundsPage(page, limit)
  <2>1. ((page - 1) * limit) \div limit = page - 1 /\ ((page - 1) * limit) % limit = 0
    <3>1. CASE limit = 1 BY <3>1
    <3>2. CASE limit = 2 BY <3>2
    <3>3. CASE limit = 3 BY <3>3
    <3> QED BY <3>1, <3>2, <3>3
  <2>2. \A r \in RoundsPage(page, limit) : Position(r) > (page - 1) * limit
    <3>1. \A r \in Rounds : Position(r) \in Nat BY PositionIs
    <3>2. (page - 1) * limit \in Nat OBVIOUS
    <3> QED BY <3>1, <3>2 DEF RoundsPage
  <2>3. (page - 1) + 1 = page /\ (page - 1) * limit + 0 = (page - 1) * limit OBVIOUS
  <2> QED BY <2>1, <2>2, <2>3 DEF SkipPage
<1>4. ASSUME NEW slot \in Rounds, NEW skip \in 0..(Position(slot) - 1)
      PROVE  slot \in SkipPage(skip, limit) <=> Position(slot) <= ((skip \div limit) + 1) * limit
  <2> DEFINE page == (skip \div limit) + 1
  <2>1. page \in Int /\ (page - 1) * limit + (skip % limit) = skip /\ (page - 1) * limit <= skip
    <3>1. CASE limit = 1 BY <1>1, <3>1
    <3>2. CASE limit = 2 BY <1>1, <3>2
    <3>3. CASE limit = 3 BY <1>1, <3>3
    <3> QED BY <3>1, <3>2, <3>3
  <2>2. slot \in SkipPage(skip, limit) <=>
            /\ (page - 1) * limit < Position(slot) /\ Position(slot) <= page * limit
            /\ Position(slot) > (page - 1) * limit + (skip % limit)
    BY DEF SkipPage, RoundsPage
  <2> HIDE DEF page
  <2>3. Position(slot) > skip /\ skip \in Nat /\ (page - 1) * limit \in Int BY <1>1, <2>1
  <2>4. (page - 1) * limit < Position(slot) BY <1>1, <2>1, <2>3
  <2> QED BY <2>1, <2>2, <2>3, <2>4 DEF page
<1> QED BY <1>2, <1>3, <1>4

-----------------------------------------------------------------------------
(* Queries of the same fact                                                *)

(* A round that has had all its blocks is at 100 per cent.                 *)
LEMMA ProgressAgrees ==
    ASSUME TypeOK, NEW slot \in Rounds, Active(slot) \/ (Over(slot) /\ block >= EndBlock(slot))
    PROVE  ListedProgress(slot, {block}) = StatusView(slot, {block}).progress
<1>1. ListedHeight(slot, {block}) = block /\ ProgressHeight(slot, {block}) = block
  BY DEF ListedHeight, ProgressHeight
<1>2. StatusView(slot, {block}).progress = Percent(block - StartBlock(slot), RoundBlocks)
  BY <1>1 DEF StatusView, Progress
<1>3. CASE Active(slot) BY <1>1, <1>2, <1>3 DEF ListedProgress
<1>4. CASE ~Active(slot) /\ Over(slot) /\ block >= EndBlock(slot)
  <2> DEFINE had == block - StartBlock(slot)
             part == (100 * had) \div RoundBlocks
  <2>1. RoundBlocks \in Nat \ {0} /\ had \in Nat /\ had >= RoundBlocks
    <3>1. RoundBlocks \in Nat \ {0} BY Constants DEF Constants, ScheduleAssumption
    <3>2. slot \in Slots BY DEF Rounds
    <3>3. StartBlock(slot) \in Int /\ EndBlock(slot) = StartBlock(slot) + RoundBlocks /\ block \in Int
      BY <3>2, ScheduleTypes DEF EndBlock, TypeOK
    <3> QED BY <1>4, <3>1, <3>3
  <2> HIDE DEF had
  <2>2. part \in Int /\ 100 * had < RoundBlocks * part + RoundBlocks
    <3>1. 100 * had \in Nat BY <2>1
    <3> QED BY <2>1, <3>1
  <2> HIDE DEF part
  <2>3. part >= 100
    <3>1. SUFFICES ASSUME part + 1 <= 100 PROVE FALSE BY <2>2
    <3>2. RoundBlocks * (part + 1) <= RoundBlocks * 100 BY <2>1, <2>2, <3>1
    <3>3. RoundBlocks * (part + 1) = RoundBlocks * part + RoundBlocks BY <2>1, <2>2
    <3>4. RoundBlocks * part \in Int BY <2>1, <2>2
    <3> QED BY <2>1, <2>2, <3>2, <3>3, <3>4
  <2>4. Percent(had, RoundBlocks) = 100 BY <2>2, <2>3 DEF Percent, AtMost, AtLeast, part
  <2> QED BY <1>2, <1>4, <2>4 DEF ListedProgress, had
<1> QED BY <1>3, <1>4

(* The round after a round has that one before it.                         *)
LEMMA ThereAndBack ==
    ASSUME TypeOK, NEW slot \in Rounds, RoundAfter(slot) # NoRound
    PROVE  RoundBefore(RoundAfter(slot)) = slot
<1> DEFINE later == {r \in Rounds : Season(r) = Season(slot) /\ Newer(r, slot)}
           next == RoundAfter(slot)
           earlier == {r \in Rounds : Season(r) = Season(next) /\ Newer(next, r)}
<1>1. later \subseteq Slots /\ slot \in Slots /\ later # {} BY DEF Rounds, RoundAfter
<1>2. \E a \in later : \A b \in later \ {a} : Newer(b, a)
  <2> DEFINE R == {p \in Slots \X Slots : Newer(p[2], p[1])}
  <2>1. IsFiniteSet(later) BY <1>1, SlotsAreFinite, FS_Subset
  <2>2. \A a, b \in later : <<a, b>> \in R <=> Newer(b, a) BY <1>1
  <2> HIDE DEF R, later
  <2>3. \A a, b \in later : a # b => <<a, b>> \in R \/ <<b, a>> \in R BY <1>1, <2>2, NewerIsAnOrder
  <2>4. \A a, b, c \in later : <<a, b>> \in R /\ <<b, c>> \in R => <<a, c>> \in R
    BY <1>1, <2>2, NewerIsAnOrder
  <2>5. \E a \in later : \A b \in later \ {a} : <<a, b>> \in R
    BY <1>1, <2>1, <2>3, <2>4, GreatestOf
  <2> QED BY <2>2, <2>5
<1>3. next \in later /\ \A b \in later \ {next} : Newer(b, next) BY <1>1, <1>2 DEF RoundAfter
<1> HIDE DEF next
<1>4. slot \in earlier BY <1>3
<1>5. ASSUME NEW r \in earlier \ {slot} PROVE Newer(slot, r)
  <2>1. r \in Slots /\ next \in Slots /\ Newer(next, r) /\ Season(r) = Season(slot)
    BY <1>1, <1>3, <1>5 DEF Rounds
  <2>2. SUFFICES ASSUME Newer(r, slot) PROVE FALSE BY <1>1, <1>5, <2>1, NewerIsAnOrder
  <2>3. r \in later /\ r # next BY <1>5, <2>1, <2>2, NewerIsAnOrder
  <2> QED BY <1>3, <2>1, <2>3, NewerIsAnOrder
<1>6. earlier \subseteq Slots BY DEF Rounds
<1> QED BY <1>4, <1>5, <1>6, NewestIs DEF RoundBefore, next

(* The id of a round, and the number of its row, name that round.          *)
LEMMA IdsNameTheirRound ==
    ASSUME TypeOK, Cardinality(Slots) < 10000, NEW slot \in Rounds,
           NEW n \in {EncodedId(slot), [r \in Rounds |-> Position(r)][slot]}
    PROVE  /\ Resolved(n, [r \in Rounds |-> Position(r)]) = slot
           /\ Detailed(n, [r \in Rounds |-> Position(r)]) = slot
<1> DEFINE rowId == [r \in Rounds |-> Position(r)]
<1>1. slot \in Slots BY DEF Rounds
<1>2. CASE n = EncodedId(slot)
  <2>1. /\ slot = <<slot[1], slot[2]>> /\ slot[1] \in Nat \ {0} /\ slot[2] \in Nat \ {0}
        /\ slot[2] <= RoundsPerSeason
    BY <1>1, SlotIs
  <2>2. slot[2] < 10000
    <3> DEFINE f == [i \in 1..RoundsPerSeason |-> <<1, i>>]
    <3>1. RoundsPerSeason \in Nat /\ LastSeason \in Nat
      BY Constants DEF Constants, ScheduleAssumption
    <3>2. 1 \in Seasons
      <4>1. slot[1] \in Seasons BY <1>1 DEF Slots
      <4> QED BY <3>1, <4>1 DEF Seasons
    <3>3. f \in Injection(1..RoundsPerSeason, Slots)
      BY <3>2 DEF Injection, IsInjective, Slots
    <3>4. Cardinality(1..RoundsPerSeason) <= Cardinality(Slots)
      BY <3>3, SlotsAreFinite, FS_Injection
    <3>5. Cardinality(1..RoundsPerSeason) = RoundsPerSeason
      BY <3>1, FS_Interval
    <3>6. Cardinality(Slots) \in Nat BY SlotsAreFinite, FS_CardinalityType
    <3> QED BY <2>1, <3>1, <3>4, <3>5, <3>6
  <2>3. n = 10000 * slot[1] + slot[2] BY <1>2 DEF EncodedId
  <2>4. n \div 10000 = slot[1] /\ n % 10000 = slot[2] /\ n >= 10000 BY <2>1, <2>2, <2>3
  <2>5. Encoded(n) /\ EncodedSlot(n) = slot BY <2>1, <2>4 DEF Encoded, EncodedSlot
  <2> QED BY <2>5 DEF Resolved, Detailed
<1>3. CASE n = Position(slot)
  <2>1. Position(slot) \in Nat /\ Position(slot) < 10000 BY PositionIs
  <2>2. ~Encoded(n) BY <1>3, <2>1 DEF Encoded
  <2>3. ASSUME NEW r \in Rounds, rowId[r] = n PROVE r = slot
    <3>1. r \in Slots BY DEF Rounds
    <3>2. Position(r) = Position(slot) BY <1>3, <2>3
    <3>3. ~Newer(r, slot) /\ ~Newer(slot, r) BY <2>1, <3>2, PositionsDiffer
    <3> QED BY <1>1, <3>1, <3>3, NewerIsAnOrder
  <2>4. ByRowId(n, rowId) = slot BY <1>3, <2>3 DEF ByRowId
  <2> QED BY <2>2, <2>4 DEF Resolved, Detailed
<1> QED BY <1>2, <1>3

(* The season that is ranked is the one of the newest round that is over.  *)
LEMMA RankedIsOfMetrics ==
    ASSUME TypeOK
    PROVE  RankedSeason(LatestSeason) = Season(MetricsRound)
<1> DEFINE over == {r \in Rounds : Over(r)}
<1>1. Rounds \subseteq Slots /\ over \subseteq Slots BY DEF Rounds
<1>2. MetricsRound = Newest(over) BY DEF MetricsRound
<1>3. CASE over = {}
  <2>1. AgentsSeasons = {} BY <1>3 DEF AgentsSeasons
  <2>2. RankedSeason(LatestSeason) = 0 BY <2>1 DEF RankedSeason, LatestOf
  <2>3. MetricsRound = NoRound BY <1>1, <1>2, <1>3, NewestIs
  <2> QED BY <2>2, <2>3 DEF NoRound, Season
<1>4. CASE over # {}
  <2> DEFINE m == MetricsRound
  <2>1. m \in over /\ \A b \in over \ {m} : Newer(m, b) BY <1>1, <1>2, <1>4, NewestIs
  <2> HIDE DEF m
  <2>2. Season(m) \in AgentsSeasons BY <2>1 DEF AgentsSeasons
  <2>3. \A r \in over : Season(r) \in Nat /\ Season(r) <= Season(m)
    <3> TAKE r \in over
    <3>1. {m[1], m[2], r[1], r[2]} \subseteq Nat BY <1>1, <2>1, SlotIs
    <3>2. r = m \/ Newer(m, r) BY <2>1
    <3> QED BY <3>1, <3>2 DEF Newer, Season
  <2>4. \A s \in AgentsSeasons : s \in Nat /\ s <= Season(m) BY <2>3 DEF AgentsSeasons
  <2>5. LatestOf(AgentsSeasons) = Season(m)
    <3>1. \A s \in AgentsSeasons : (\A t \in AgentsSeasons : t <= s) => s = Season(m)
      BY <2>2, <2>4
    <3> QED BY <2>2, <2>4, <3>1 DEF LatestOf
  <2>6. CASE LatestSeason \in AgentsSeasons
    <3>1. Newest(Rounds) \in Rounds /\ \A b \in Rounds \ {Newest(Rounds)} : Newer(Newest(Rounds), b)
      BY <1>1, <1>4, NewestIs
    <3>2. m \in Rounds BY <2>1
    <3> DEFINE newest == Newest(Rounds)
    <3>3. newest \in Slots /\ m \in Slots /\ (m = newest \/ Newer(newest, m)) BY <1>1, <3>1, <3>2
    <3> HIDE DEF newest
    <3>4. {newest[1], newest[2], m[1], m[2]} \subseteq Nat BY <3>3, SlotIs
    <3>5. Season(m) <= Season(newest) BY <3>3, <3>4 DEF Newer, Season
    <3>6. LatestSeason = Season(newest) BY DEF LatestSeason, newest
    <3>7. Season(m) = LatestSeason BY <2>2, <2>4, <2>6, <3>5, <3>6
    <3> QED BY <2>6, <3>7 DEF RankedSeason, m
  <2>7. CASE LatestSeason \notin AgentsSeasons BY <2>5, <2>7 DEF RankedSeason, m
  <2> QED BY <2>6, <2>7
<1> QED BY <1>3, <1>4

(* Queries agree in every state of the tables.                             *)
LEMMA ViewsAgreeWhenTyped ==
    ASSUME TypeOK, Cardinality(Slots) < 10000
    PROVE  ViewsAgree
<1>1. RankedSeason(LatestSeason) = Season(MetricsRound) BY RankedIsOfMetrics
<1>2. ASSUME NEW slot \in Rounds
      PROVE  /\ Active(slot) \/ (Over(slot) /\ block >= EndBlock(slot)) =>
                    ListedProgress(slot, {block}) = StatusView(slot, {block}).progress
             /\ StatusView(slot, {}).next # NoRound =>
                    StatusView(StatusView(slot, {}).next, {}).previous = slot
             /\ \A n \in {EncodedId(slot), [r \in Rounds |-> Position(r)][slot]} :
                    /\ Resolved(n, [r \in Rounds |-> Position(r)]) = slot
                    /\ Detailed(n, [r \in Rounds |-> Position(r)]) = slot
  <2>1. StatusView(slot, {}).next = RoundAfter(slot) BY DEF StatusView
  <2>2. StatusView(RoundAfter(slot), {}).previous = RoundBefore(RoundAfter(slot)) BY DEF StatusView
  <2>3. StatusView(slot, {}).next # NoRound =>
            StatusView(StatusView(slot, {}).next, {}).previous = slot
    BY <2>1, <2>2, ThereAndBack
  <2>4. \A n \in {EncodedId(slot), [r \in Rounds |-> Position(r)][slot]} :
            /\ Resolved(n, [r \in Rounds |-> Position(r)]) = slot
            /\ Detailed(n, [r \in Rounds |-> Position(r)]) = slot
    BY IdsNameTheirRound
  <2> QED BY <2>3, <2>4, ProgressAgrees
<1> QED BY <1>1, <1>2 DEF ViewsAgree

-----------------------------------------------------------------------------
(* Which round is the current one                                          *)

(* A round exists only from its first block on.                            *)
OpenedOnSchedule == \A slot \in Rounds : block >= StartBlock(slot)

(* The first block of a newer round is after the last one of an older.     *)
LEMMA ScheduleIsInOrder ==
    ASSUME NEW a \in Slots, NEW b \in Slots, Newer(b, a)
    PROVE  StartBlock(b) >= EndBlock(a)
<1> DEFINE n == RoundsPerSeason
           A == (a[1] - 1) * n + (a[2] - 1)
           B == (b[1] - 1) * n + (b[2] - 1)
<1>1. /\ {a[1], a[2], b[1], b[2]} \subseteq Nat \ {0} /\ n \in Nat
      /\ a[2] <= n /\ b[2] <= n /\ RoundBlocks \in Nat \ {0} /\ FirstBlock \in Nat
  BY SlotIs, Constants DEF Constants, ScheduleAssumption
<1>2. A \in Int /\ B \in Int BY <1>1
<1>3. B >= A + 1
  <2>1. CASE a[1] = b[1] /\ b[2] > a[2] BY <1>1, <2>1
  <2>2. CASE b[1] > a[1]
    <3> DEFINE p == b[1] - 1 - a[1]
           old == (a[1] - 1) * n
    <3>1. p \in Nat /\ b[1] - 1 = p + (a[1] - 1) + 1 BY <1>1, <2>2
    <3> HIDE DEF p
    <3>2. (p + (a[1] - 1) + 1) * n = p * n + (a[1] - 1) * n + n BY <1>1, <3>1
    <3>3. p * n \in Nat /\ old \in Int BY <1>1, <3>1
    <3>4. (b[1] - 1) * n = p * n + old + n BY <3>1, <3>2
    <3>5. B = p * n + old + n + (b[2] - 1) /\ A = old + (a[2] - 1) BY <3>4
    <3> HIDE DEF old, A, B
    <3> QED BY <1>1, <3>3, <3>5
  <2> QED BY <2>1, <2>2 DEF Newer
<1> HIDE DEF A, B
<1>4. B * RoundBlocks >= (A + 1) * RoundBlocks
  <2> DEFINE q == B - (A + 1)
  <2>1. q \in Nat BY <1>2, <1>3
  <2>2. q * RoundBlocks \in Nat BY <1>1, <2>1
  <2>3. B * RoundBlocks = q * RoundBlocks + (A + 1) * RoundBlocks BY <1>1, <1>2
  <2>4. (A + 1) * RoundBlocks \in Int BY <1>1, <1>2
  <2> HIDE DEF q
  <2> QED BY <2>2, <2>3, <2>4
<1>5. (A + 1) * RoundBlocks = A * RoundBlocks + RoundBlocks /\ A * RoundBlocks \in Int
      /\ B * RoundBlocks \in Int
  BY <1>1, <1>2
<1>6. StartBlock(b) = FirstBlock + B * RoundBlocks
      /\ EndBlock(a) = FirstBlock + A * RoundBlocks + RoundBlocks
  BY DEF StartBlock, EndBlock, A, B
<1> QED BY <1>1, <1>4, <1>5, <1>6

(* Only a start opens a round, and only inside its window.                 *)
LEMMA OpenedStep == Inv /\ OpenedOnSchedule /\ [Next]_vars => OpenedOnSchedule'
<1> SUFFICES ASSUME Inv, OpenedOnSchedule, [Next]_vars, NEW slot \in Slots, roundStatus'[slot] # "none"
             PROVE  block' >= StartBlock(slot)
  BY DEF OpenedOnSchedule, Rounds
<1>0. StartBlock(slot) \in Int /\ block \in Int /\ block' \in Int /\ block <= block'
  <2>1. block' = block \/ block' = block + 1
    BY DEF Next, vars, AdvanceBlock, MainStart, BackupStart, OpenOrAttach, ShadowStart,
           StartAgentRun, UploadRoundLog, RecordRoundLogUrl, FinishRound, Reconcile
  <2> QED BY <2>1, ScheduleTypes DEF Inv, TypeOK
<1>1. Inv' BY NextInv
<1>2. openedBy'[slot] # NoOne BY <1>1 DEF Inv, RoundsAreWhole
<1>3. CASE openedBy[slot] # NoOne
  <2>1. slot \in Rounds BY <1>3 DEF Inv, RoundsAreWhole, Rounds
  <2> QED BY <1>0, <2>1 DEF OpenedOnSchedule
<1>4. CASE openedBy[slot] = NoOne
  <2>1. PICK id \in Ids : MainStart(id) \/ BackupStart(id)
    BY <1>2, <1>4, OpeningStep DEF vars, official
  <2>2. openedBy' = WithOpener(id.slot, id.uid) /\ InWindow(id.slot) /\ id.slot \in Slots
    BY <2>1 DEF MainStart, BackupStart, OpenOrAttach, Ids
  <2>3. slot = id.slot BY <1>2, <1>4, <2>2 DEF WithOpener, Inv, TypeOK
  <2> QED BY <1>0, <2>2, <2>3 DEF InWindow
<1> QED BY <1>3, <1>4

(* Every round was opened when its first block was there.                  *)
LEMMA OpenedAlways == Spec => []OpenedOnSchedule
<1>1. Init => OpenedOnSchedule BY DEF Init, OpenedOnSchedule, Rounds
<1> QED BY <1>1, OpenedStep, Invariance, PTL DEF Spec

(* The current round is one that runs, or nothing runs and it is the       *)
(* newest there is.                                                        *)
LEMMA CurrentIs ==
    ASSUME TypeOK
    PROVE  /\ (\E slot \in Rounds : Active(slot)) =>
                  CurrentRound \in Rounds /\ Active(CurrentRound)
           /\ (~\E slot \in Rounds : Active(slot)) => CurrentRound = Newest(Rounds)
<1> DEFINE running == {slot \in Rounds : Active(slot)}
<1>1. running \subseteq Slots BY DEF Rounds
<1>2. running # {} => Newest(running) \in running BY <1>1, NewestIs
<1> QED BY <1>2 DEF CurrentRound

(* A round that is overtaken has reached its planned end.                  *)
LEMMA StaleWhenTyped ==
    ASSUME TypeOK, OpenedOnSchedule
    PROVE  StaleCurrentIsEnding
<1> SUFFICES ASSUME CurrentRound # OverviewRound PROVE block >= EndBlock(CurrentRound)
  BY DEF StaleCurrentIsEnding
<1>1. CurrentRound \in Rounds BY CurrentIs DEF OverviewRound
<1>2. Rounds \subseteq Slots BY DEF Rounds
<1>3. OverviewRound \in Rounds /\ Newer(OverviewRound, CurrentRound)
  BY <1>1, <1>2, NewestIs DEF OverviewRound
<1>4. StartBlock(OverviewRound) >= EndBlock(CurrentRound) BY <1>1, <1>2, <1>3, ScheduleIsInOrder
<1>5. block >= StartBlock(OverviewRound) BY <1>3 DEF OpenedOnSchedule
<1>6. block \in Int /\ StartBlock(OverviewRound) \in Int /\ EndBlock(CurrentRound) \in Int
  BY <1>1, <1>2, <1>3, ScheduleTypes DEF TypeOK
<1> QED BY <1>4, <1>5, <1>6

-----------------------------------------------------------------------------
(* Who is shown as what                                                    *)

(* The rows of a validator are finitely many, and ordered.                 *)
LEMMA KeptRowIs ==
    ASSUME TypeOK, RowLinks, NEW v \in ShownValidators
    PROVE  /\ KeptRow(v) \in linked /\ KeptRow(v).uid = v /\ KeptRow(v).slot \in Rounds
           /\ \A id \in linked : id.uid = v /\ id # KeptRow(v) => Precedes(KeptRow(v), id)
<1> DEFINE mine == {id \in linked : id.uid = v}
           R == {p \in mine \X mine : Precedes(p[1], p[2])}
<1>1. /\ mine # {} /\ mine \subseteq Ids /\ Attempts \subseteq Nat
      /\ \A id \in mine : id.slot \in Slots /\ id.attempt \in Attempts /\ id.slot \in Rounds
  BY AttemptsAssumption DEF ShownValidators, TypeOK, RowLinks, Ids, Rounds
<1>2. IsFiniteSet(mine)
  <2> DEFINE f == [id \in mine |-> <<id.slot, id.attempt>>]
  <2>1. \A a, b \in mine : a.slot = b.slot /\ a.attempt = b.attempt => a = b
    BY <1>1 DEF Ids
  <2>2. \A a, b \in mine : f[a] = f[b] => a = b BY <2>1
  <2>3. f \in [mine -> Slots \X Attempts] BY <1>1
  <2>4. f \in Injection(mine, Slots \X Attempts) BY <2>2, <2>3 DEF Injection, IsInjective
  <2>5. IsFiniteSet(Slots \X Attempts) BY SlotsAreFinite, AttemptsAssumption, FS_Product
  <2> QED BY <2>4, <2>5, FS_Injection
<1>3. ASSUME NEW a \in mine, NEW b \in mine, a # b PROVE Precedes(a, b) \/ Precedes(b, a)
  <2>1. a.slot # b.slot \/ a.attempt # b.attempt BY <1>1, <1>3 DEF Ids
  <2>2. a.slot # b.slot => Newer(a.slot, b.slot) \/ Newer(b.slot, a.slot) BY <1>1, NewerIsAnOrder
  <2>3. a.attempt \in Nat /\ b.attempt \in Nat BY <1>1
  <2> QED BY <2>1, <2>2, <2>3 DEF Precedes, Active
<1>4. ASSUME NEW a \in mine, NEW b \in mine, NEW c \in mine, Precedes(a, b), Precedes(b, c)
      PROVE  Precedes(a, c)
  <2>1. Newer(a.slot, b.slot) /\ Newer(b.slot, c.slot) => Newer(a.slot, c.slot)
    BY <1>1, NewerIsAnOrder
  <2>2. {a.attempt, b.attempt, c.attempt} \subseteq Nat BY <1>1
  <2> QED BY <1>4, <2>1, <2>2 DEF Precedes, Active
<1>5. \A a, b \in mine : <<a, b>> \in R <=> Precedes(a, b) OBVIOUS
<1>6. \E a \in mine : \A b \in mine \ {a} : Precedes(a, b)
  <2> HIDE DEF R
  <2>1. \A a, b \in mine : a # b => <<a, b>> \in R \/ <<b, a>> \in R BY <1>3, <1>5
  <2>2. \A a, b, c \in mine : <<a, b>> \in R /\ <<b, c>> \in R => <<a, c>> \in R BY <1>4, <1>5
  <2> HIDE DEF mine
  <2>3. \E a \in mine : \A b \in mine \ {a} : <<a, b>> \in R
    BY <1>1, <1>2, <2>1, <2>2, GreatestOf
  <2> QED BY <1>5, <2>3
<1>7. KeptRow(v) \in mine /\ \A b \in mine \ {KeptRow(v)} : Precedes(KeptRow(v), b)
  BY <1>6 DEF KeptRow
<1> QED BY <1>1, <1>7

(* The label goes by the rounds the validator takes part in.               *)
LEMMA LabelsWhenLinked == TypeOK /\ RowLinks => LabelsAreTrue
<1> SUFFICES ASSUME TypeOK, RowLinks, NEW v \in ShownValidators
             PROVE  /\ Label(v) = "Evaluating" <=> \E id \in linked : id.uid = v /\ Active(id.slot)
                    /\ Label(v) = "Waiting" => ~\E slot \in Rounds : Active(slot)
                    /\ Label(v) = "Inactive" => \A id \in RowsOf(CurrentRound) : id.uid # v
  BY DEF LabelsAreTrue
<1> DEFINE kept == KeptRow(v)
<1>1. /\ kept \in linked /\ kept.uid = v /\ kept.slot \in Rounds
      /\ \A id \in linked : id.uid = v /\ id # kept => Precedes(kept, id)
  BY KeptRowIs
<1>2. Label(v) = IF Active(kept.slot) THEN "Evaluating"
                 ELSE IF kept.slot = CurrentRound THEN "Waiting" ELSE "Inactive"
  BY DEF Label
<1> HIDE DEF kept
<1>3. Label(v) = "Evaluating" <=> \E id \in linked : id.uid = v /\ Active(id.slot)
  <2>1. ASSUME NEW id \in linked, id.uid = v, Active(id.slot) PROVE Active(kept.slot)
    BY <1>1, <2>1 DEF Precedes
  <2> QED BY <1>1, <1>2, <2>1
<1>4. Label(v) = "Waiting" => ~\E slot \in Rounds : Active(slot)
  BY <1>2, CurrentIs
<1>5. ASSUME Label(v) = "Inactive", NEW id \in RowsOf(CurrentRound), id.uid = v PROVE FALSE
  <2>1. ~Active(kept.slot) /\ kept.slot # CurrentRound BY <1>2, <1>5
  <2>2. id \in linked /\ id.slot = CurrentRound BY DEF RowsOf
  <2>3. Precedes(kept, id) BY <1>1, <1>5, <2>1, <2>2
  <2>4. ~Active(CurrentRound) /\ Newer(kept.slot, CurrentRound) BY <2>1, <2>2, <2>3 DEF Precedes
  <2>5. CurrentRound = Newest(Rounds) BY <2>4, CurrentIs
  <2>6. Rounds \subseteq Slots BY DEF Rounds
  <2>7. CurrentRound \in Rounds /\ Newer(CurrentRound, kept.slot)
    BY <1>1, <2>1, <2>5, <2>6, NewestIs
  <2> QED BY <1>1, <2>4, <2>6, <2>7, NewerIsAnOrder
<1> QED BY <1>3, <1>4, <1>5

-----------------------------------------------------------------------------
(* As long as the numbers of the rows stay below the encoded ids, the      *)
(* rounds pages tell the truth about validators, agree with each other on  *)
(* every round, and lose none when they are turned.                        *)
THEOREM RoundPagesAlwaysAgree ==
    ASSUME Cardinality(Slots) < 10000
    PROVE  Spec => []RoundPagesAgree
<1>1. Inv /\ OpenedOnSchedule => RoundPagesAgree
  BY LabelsWhenLinked, PagesTileWhenTyped, ViewsAgreeWhenTyped, StaleWhenTyped
     DEF Inv, RoundPagesAgree
<1> QED BY <1>1, Invariance, OpenedAlways, PTL

=============================================================================
