-------------------------- MODULE CanonicalRounds --------------------------
(***************************************************************************)
(* The official season/round timeline of IWAP and the rows by which          *)
(* validators take part in it: the tables seasons, rounds and                *)
(* round_validators, and the validator endpoints that change them (start,    *)
(* agent-runs/start, round-log, finish), and the reconciler of the           *)
(* background process.                                                       *)
(*                                                                           *)
(* The rules of the code:                                                    *)
(*   - the main validator opens a round, unless another season or another    *)
(*     round of the season is active;                                        *)
(*   - a backup opens a round only when the main one let StartGrace blocks   *)
(*     go by, and only the backup with the highest recorded stake;           *)
(*   - a backup that may not open yet is stored as a shadow: a row without   *)
(*     a round, linked when the round exists;                                *)
(*   - everybody finishes their own row; only the row of the main            *)
(*     validator moves the status of the official round;                     *)
(*   - whatever runs past its planned end is finished by the reconciler.     *)
(*                                                                           *)
(* Each request is one database transaction and one action. A request the    *)
(* code refuses, or rolls back, is a step that changes nothing and is not    *)
(* an action. Validators follow the published block schedule and never use   *)
(* one validator_round_id for two rounds: an id names its validator, its     *)
(* slot (season, round) and the attempt it belongs to. Their start payloads  *)
(* carry the status active, the default of the schema: the code stores the   *)
(* status of the payload that opens a round.                                 *)
(***************************************************************************)
EXTENDS Integers

CONSTANTS
    Validators,         \* the validator uids (positive, so that < is their order)
    Mains,              \* the uids config_app_runtime recognises as main
    Stake,              \* the stake each validator sends in its payloads
    LastSeason,         \* bound: seasons are numbered 1..LastSeason
    RoundsPerSeason,    \* season_blocks() \div round_blocks()
    RoundBlocks,        \* round_blocks()
    FirstBlock,         \* minimum_start_block
    MaxBlock,           \* bound: the chain stops here
    StartGrace,         \* MAIN_VALIDATOR_START_GRACE_BLOCKS
    FinishGrace,        \* MAIN_VALIDATOR_FINISH_GRACE_BLOCKS
    Attempts,           \* bound: the ids one validator may use for one slot
    FinishStatuses,     \* the statuses finish payloads carry
    NoOne               \* opened_by_validator_uid of a round that does not exist

ValidatorsAssumption == Validators \subseteq Nat \ {0} /\ NoOne \notin Validators
(* One main uid, or none configured and then everybody is main.            *)
MainsAssumption == Mains \subseteq Validators
                   /\ (Mains = Validators \/ \E v \in Validators : Mains = {v})
StakeAssumption == Stake \in [Validators -> Nat]
ScheduleAssumption == /\ LastSeason \in Nat /\ RoundsPerSeason \in Nat
                      /\ RoundBlocks \in Nat \ {0}
                      /\ FirstBlock \in Nat \ {0} /\ MaxBlock \in Nat
                      /\ StartGrace \in Nat /\ FinishGrace \in Nat
StatusesAssumption ==
    FinishStatuses \subseteq {"active", "finished", "pending", "evaluating_finished"}

ASSUME Constants == /\ ValidatorsAssumption /\ MainsAssumption /\ StakeAssumption
                    /\ ScheduleAssumption /\ StatusesAssumption

Seasons == 1..LastSeason
Slots == Seasons \X (1..RoundsPerSeason)
Season(slot) == slot[1]
Ids == [uid : Validators, slot : Slots, attempt : Attempts]

SeasonStatuses == {"none", "active", "finished"}
RoundStatuses == {"none", "active", "finished", "pending", "evaluating_finished"}

VARIABLES
    block,          \* the chain height
    seasonStatus,   \* seasons.status, "none" while there is no such row
    roundStatus,    \* rounds.status, "none" while there is no such row
    openedBy,       \* rounds.opened_by_validator_uid
    reported,       \* history: the status a main validator last finished the round with
    registered,     \* the validator_round_ids of round_validators
    linked,         \* ... whose round_id is not NULL
    pending,        \* ... whose pending_round_link is TRUE
    flagged,        \* ... whose is_main_validator is TRUE
    started,        \* ... written from a start payload: stake and blocks are known
    runs            \* ... with agent runs below them

official == <<seasonStatus, roundStatus, openedBy, reported>>
rows == <<registered, linked, pending, flagged, started, runs>>
vars == <<block, official, rows>>

----------------------------------------------------------------------------
(* The block schedule, and who is who.                                     *)

StartBlock(slot) ==
    FirstBlock + ((slot[1] - 1) * RoundsPerSeason + (slot[2] - 1)) * RoundBlocks
EndBlock(slot) == StartBlock(slot) + RoundBlocks

InWindow(slot) == StartBlock(slot) <= block /\ block <= EndBlock(slot)

IsMain(v) == v \in Mains

RecordedStake(v) == IF \E id \in started : id.uid = v THEN Stake[v] ELSE 0
Backups == {id.uid : id \in registered} \ Mains

IsTopBackup(v) ==
    /\ v \in Backups
    /\ \A w \in Backups : \/ RecordedStake(v) > RecordedStake(w)
                          \/ RecordedStake(v) = RecordedStake(w) /\ v <= w

IsHighestStakeBackup(v, stake) ==
    \/ Backups = {}
    \/ IsTopBackup(v)
    \/ \E top \in Backups : /\ IsTopBackup(top)
                            /\ stake >= RecordedStake(top)
                            /\ v < top

----------------------------------------------------------------------------
(* What the schema and its triggers do.                                    *)

ActiveRoundIn(s, status) == \E slot \in Slots : Season(slot) = s /\ status[slot] = "active"

(* uq_rounds_one_active_per_season and uq_seasons_one_active_global: a     *)
(* transaction that would break one of them fails and is rolled back.      *)
IndexesAccept(roundsAfter, seasonsAfter) ==
    /\ \A s1, s2 \in Slots : /\ roundsAfter[s1] = "active" /\ roundsAfter[s2] = "active"
                             /\ Season(s1) = Season(s2)
                             => s1 = s2
    /\ \A n1, n2 \in Seasons : seasonsAfter[n1] = "active" /\ seasonsAfter[n2] = "active"
                               => n1 = n2

(* Inserting into the view validator_rounds creates what is missing; a     *)
(* season or a round that exists is reused with the status it has.         *)
WithRound_Reopening(slot) == [roundStatus EXCEPT ![slot] = "active"]    \* mutant
WithRound(slot) == [roundStatus EXCEPT ![slot] = IF @ = "none" THEN "active" ELSE @]
WithSeason(s, status) == [status EXCEPT ![s] = IF @ = "none" THEN "active" ELSE @]
WithOpener(slot, v) == [openedBy EXCEPT ![slot] = IF @ = NoOne THEN v ELSE @]

(* Every update of a row through the view sets is_main_validator from the  *)
(* identity stored in the row.                                             *)
Reflagged(id) == IF IsMain(id.uid) THEN flagged \cup {id} ELSE flagged \ {id}

(* Rows purged before a validator registers for a slot again.              *)
OwnRows_AllValidators(id) == {r \in registered : r.slot = id.slot}       \* mutant
OwnRows_SameIdOnly(id) == registered \cap {id}                          \* mutant
OwnRows(id) == {r \in registered : r.uid = id.uid /\ r.slot = id.slot}

(* The shadow rows of a season that can be linked, given the rounds.       *)
Linkable_WithoutRound(s, status) == {r \in pending \ linked : Season(r.slot) = s}   \* mutant
Linkable_BeforeInsert(s, status) ==                                     \* mutant
    {r \in pending \ linked : Season(r.slot) = s /\ roundStatus[r.slot] # "none"}
Linkable(s, status) == {r \in pending \ linked : Season(r.slot) = s /\ status[r.slot] # "none"}

----------------------------------------------------------------------------
(* start_round                                                             *)

CloseStaleSeasons(s) ==
    [n \in Seasons |->
        IF seasonStatus[n] = "active" /\ n < s /\ ~ActiveRoundIn(n, roundStatus)
        THEN "finished" ELSE seasonStatus[n]]

MainMayStart_OverOtherSeasons(id) ==                                    \* mutant
    /\ IsMain(id.uid)
    /\ \A other \in Slots \ {id.slot} :
          Season(other) = Season(id.slot) => roundStatus[other] # "active"
MainMayStart(id) ==
    LET s == Season(id.slot) IN
    /\ IsMain(id.uid)
    /\ \A n \in Seasons \ {s} : CloseStaleSeasons(s)[n] # "active"
    /\ \A other \in Slots \ {id.slot} :
          Season(other) = s => roundStatus[other] # "active"

FallbackGraceElapsed_OneEarly(slot) == block >= StartBlock(slot) + StartGrace   \* mutant
FallbackGraceElapsed(slot) == block > StartBlock(slot) + StartGrace

BackupMayOpen(id) ==
    /\ ~IsMain(id.uid)
    /\ roundStatus[id.slot] = "none"
    /\ FallbackGraceElapsed(id.slot)
    /\ ~ActiveRoundIn(Season(id.slot), roundStatus)
    /\ IsHighestStakeBackup(id.uid, Stake[id.uid])

BackupMayAttach(id) == ~IsMain(id.uid) /\ roundStatus[id.slot] = "active"

(* The rows after a start: the validator's own rows of the slot make room  *)
(* for the new one, and the shadows of the season find their rounds.       *)
Register(id) ==
    LET kept == registered \ OwnRows(id)
        shadows == Linkable(Season(id.slot), WithRound(id.slot)) \ OwnRows(id)
    IN
    /\ registered' = kept \cup {id}
    /\ linked' = (linked \cap kept) \cup shadows \cup {id}
    /\ pending' = (pending \cap kept) \ shadows
    /\ flagged' = IF IsMain(id.uid)
                  THEN {r \in flagged \cap kept : ~(r \in linked' /\ r.slot = id.slot)} \cup {id}
                  ELSE flagged \cap kept
    /\ started' = (started \cap kept) \cup {id}
    /\ runs' = runs \cap kept

OpenOrAttach(id, seasonsBefore) ==
    LET s == Season(id.slot) IN
    /\ IndexesAccept(WithRound(id.slot), WithSeason(s, seasonsBefore))
    /\ roundStatus' = WithRound(id.slot)
    /\ seasonStatus' = WithSeason(s, seasonsBefore)
    /\ openedBy' = WithOpener(id.slot, id.uid)
    /\ Register(id)
    /\ UNCHANGED <<block, reported>>

MainStart(id) ==
    /\ InWindow(id.slot)
    /\ MainMayStart(id)
    /\ OpenOrAttach(id, CloseStaleSeasons(Season(id.slot)))

BackupStart(id) ==
    /\ InWindow(id.slot)
    /\ BackupMayOpen(id) \/ BackupMayAttach(id)
    /\ OpenOrAttach(id, seasonStatus)

(* The refusals that name the authority of the main validator are turned   *)
(* into a shadow row; the other refusals leave no trace.                   *)
RefusedByAuthority(id) ==
    /\ ~IsMain(id.uid)
    /\ roundStatus[id.slot] = "none"
    /\ \/ ~FallbackGraceElapsed(id.slot)
       \/ /\ ~ActiveRoundIn(Season(id.slot), roundStatus)
          /\ ~IsHighestStakeBackup(id.uid, Stake[id.uid])

ShadowStart(id) ==
    /\ InWindow(id.slot)
    /\ RefusedByAuthority(id)
    /\ registered' = registered \cup {id}
    /\ pending' = pending \cup ({id} \ linked)
    /\ started' = started \cup {id}
    /\ UNCHANGED <<block, official, linked, flagged, runs>>

----------------------------------------------------------------------------
(* start_agent_run: the first write below a row also links it, when its    *)
(* round exists by then. A row made by a log upload has no start block, so *)
(* that the window check refuses it until it is linked.                    *)
RunsAllowed_WithoutRow(id) == id \notin linked                          \* mutant
RunsAllowed(id) == id \in linked \cup started

StartAgentRun(id) ==
    LET joins == {id} \cap Linkable(Season(id.slot), roundStatus) IN
    /\ RunsAllowed(id)
    /\ InWindow(id.slot)
    /\ runs' = runs \cup {id}
    /\ linked' = linked \cup joins
    /\ pending' = pending \ joins
    /\ UNCHANGED <<block, official, registered, flagged, started>>

----------------------------------------------------------------------------
(* upload_round_log: accepted while the round is active and the validator  *)
(* is not registered for it under another id. An unknown id gets a minimal *)
(* row, which stays unlinked. The URL is written through the view when the *)
(* log has reached S3, in a transaction of its own: it finds the row as it *)
(* is by then, and records nothing when the row is gone.                   *)
NotRegisteredUnderAnotherId(id) ==
    LET mine == {r \in linked : r.uid = id.uid /\ r.slot = id.slot}
    IN  mine = {} \/ id \in mine

UploadRoundLog(id) ==
    /\ roundStatus[id.slot] = "active"
    /\ NotRegisteredUnderAnotherId(id)
    /\ registered' = registered \cup {id}
    /\ pending' = IF id \in registered THEN pending ELSE pending \cup {id}
    /\ UNCHANGED <<block, official, linked, flagged, started, runs>>

(* Of the upload it belongs to only this much is remembered: that a round  *)
(* exists in which it can have begun.                                      *)
RecordRoundLogUrl(id) ==
    /\ id \in registered
    /\ roundStatus[id.slot] # "none"
    /\ flagged' = Reflagged(id)
    /\ UNCHANGED <<block, official, registered, linked, pending, started, runs>>

----------------------------------------------------------------------------
(* finish_round                                                            *)

PlannedEnd(id) == IF id \in linked \cup started THEN EndBlock(id.slot) ELSE 0

(* chainKnown: get_current_block() answers.                                *)
Authoritative(id, chainKnown) ==
    \/ IsMain(id.uid)
    \/ /\ chainKnown
       /\ block > PlannedEnd(id) + FinishGrace
       /\ IsHighestStakeBackup(id.uid, IF id \in started THEN Stake[id.uid] ELSE 0)

FinishedRounds_ByAnybody(id, status) ==                                 \* mutant
    IF id \in linked THEN [roundStatus EXCEPT ![id.slot] = status] ELSE roundStatus
FinishedRounds(id, status) ==
    IF IsMain(id.uid) /\ id \in linked
    THEN [roundStatus EXCEPT ![id.slot] = status]
    ELSE roundStatus

(* _sync_season_bounds_from_rounds *)
SyncedSeasons_AlwaysClosing(s, status) == [seasonStatus EXCEPT ![s] = "finished"]   \* mutant
SyncedSeasons(s, status) ==
    [seasonStatus EXCEPT ![s] = IF ActiveRoundIn(s, status) THEN "active" ELSE "finished"]

(* withSummary: the payload has miners to rank, so that an authoritative   *)
(* finish goes on to the season.                                           *)
FinishRound(id, status, chainKnown, withSummary) ==
    LET roundsAfter == FinishedRounds(id, status)
        seasonsAfter ==
            IF Authoritative(id, chainKnown) /\ id \in linked /\ withSummary
            THEN SyncedSeasons(Season(id.slot), roundsAfter)
            ELSE seasonStatus
    IN
    /\ id \in registered
    /\ IndexesAccept(roundsAfter, seasonsAfter)
    /\ roundStatus' = roundsAfter
    /\ seasonStatus' = seasonsAfter
    /\ reported' = IF IsMain(id.uid) /\ id \in linked
                   THEN [reported EXCEPT ![id.slot] = status] ELSE reported
    /\ flagged' = Reflagged(id)
    /\ UNCHANGED <<block, openedBy, registered, linked, pending, started, runs>>

----------------------------------------------------------------------------
(* reconcile_rounds_and_seasons: another process closes what runs past its *)
(* planned end, which is the end block of the start that opened the round. *)
(* It reads the height from the chain and leaves the seasons alone.        *)
Expired_OpenedByMain(slot) ==                                           \* mutant
    roundStatus[slot] = "active" /\ EndBlock(slot) < block /\ IsMain(openedBy[slot])
Expired(slot) == roundStatus[slot] = "active" /\ EndBlock(slot) < block

Reconcile ==
    /\ \E slot \in Slots : Expired(slot)
    /\ roundStatus' = [slot \in Slots |->
                          IF Expired(slot) THEN "finished" ELSE roundStatus[slot]]
    /\ UNCHANGED <<block, seasonStatus, openedBy, reported, rows>>

----------------------------------------------------------------------------
AdvanceBlock ==
    /\ block < MaxBlock
    /\ block' = block + 1
    /\ UNCHANGED <<official, rows>>

Init ==
    /\ block = FirstBlock
    /\ seasonStatus = [s \in Seasons |-> "none"]
    /\ roundStatus = [slot \in Slots |-> "none"]
    /\ openedBy = [slot \in Slots |-> NoOne]
    /\ reported = [slot \in Slots |-> "none"]
    /\ registered = {} /\ linked = {} /\ pending = {}
    /\ flagged = {} /\ started = {} /\ runs = {}

Next ==
    \/ AdvanceBlock
    \/ Reconcile
    \/ \E id \in Ids :
        \/ MainStart(id)
        \/ BackupStart(id)
        \/ ShadowStart(id)
        \/ StartAgentRun(id)
        \/ UploadRoundLog(id)
        \/ RecordRoundLogUrl(id)
        \/ \E status \in FinishStatuses, chainKnown \in BOOLEAN, withSummary \in BOOLEAN :
              FinishRound(id, status, chainKnown, withSummary)

Spec == Init /\ [][Next]_vars

(* Time passes. Nothing is supposed of validators: a client may stop, and  *)
(* one that was answered does not report again.                            *)
FairSpec == Spec /\ WF_vars(AdvanceBlock)

----------------------------------------------------------------------------
(* Properties                                                              *)

(* Every column holds a value of its kind, and what is said of a row is    *)
(* said of a row that exists: the deletes cascade, the updates find it.    *)
TypeOK ==
    /\ block \in Nat
    /\ seasonStatus \in [Seasons -> SeasonStatuses]
    /\ roundStatus \in [Slots -> RoundStatuses]
    /\ openedBy \in [Slots -> Validators \cup {NoOne}]
    /\ reported \in [Slots -> RoundStatuses]
    /\ registered \subseteq Ids
    /\ linked \subseteq registered /\ pending \subseteq registered
    /\ flagged \subseteq registered /\ started \subseteq registered
    /\ runs \subseteq registered

(* A row waits for its round exactly as long as it has none, and is linked *)
(* to a round that exists (_link_pending_shadow_round_validators,          *)
(* _upsert_miner_snapshot).                                                *)
RowLinks ==
    /\ pending = registered \ linked
    /\ \A id \in linked : roundStatus[id.slot] # "none"

(* The validator that opened a round takes part in it for ever: neither    *)
(* the purge of a repeated start nor anybody else's start loses its row.   *)
OpenerTakesPart ==
    \A slot \in Slots :
        openedBy[slot] # NoOne =>
            \E id \in linked : id.uid = openedBy[slot] /\ id.slot = slot

(* A round of a season that exists was opened by the main validator, or by *)
(* a backup after the grace the main one has (helpers 508-515).            *)
FallbackOnlyAfterGrace ==
    \A slot \in Slots :
        openedBy[slot] # NoOne =>
            IsMain(openedBy[slot]) \/ block > StartBlock(slot) + StartGrace

(* The checks of start_round are enough for the main validator: what they  *)
(* let pass never fails on a unique index of the schema.                   *)
MainStartMeetsIndexes ==
    \A id \in Ids :
        MainMayStart(id) =>
            IndexesAccept(WithRound(id.slot),
                          WithSeason(Season(id.slot), CloseStaleSeasons(Season(id.slot))))

(* The main validator has at most one row it started per round: starting   *)
(* again purges the row before, also when that one was only linked later.  *)
OneStartedMainRow ==
    \A r1, r2 \in started :
        IsMain(r1.uid) /\ r1.uid = r2.uid /\ r1.slot = r2.slot => r1 = r2

(* An official round has the status a main validator that takes part in it *)
(* last finished it with, and until one did it is active, whatever backups *)
(* report and whoever starts in it meanwhile; only what is active past its *)
(* planned end may be finished by the clock.                               *)
StatusFollowsMain ==
    \A slot \in Slots :
        LET said == IF reported[slot] = "none" THEN {"none", "active"} ELSE {reported[slot]}
        IN  \/ roundStatus[slot] \in said
            \/ /\ "active" \in said /\ roundStatus[slot] = "finished"
               /\ EndBlock(slot) < block

(* A round that is over is not opened again by anybody's start.            *)
OverIsOver ==
    [][\A slot \in Slots :
          roundStatus[slot] \notin {"none", "active"} => roundStatus'[slot] # "active"]_vars

(* Who takes part in an official round keeps taking part: a purge replaces *)
(* rows of the validator that starts, and nobody else's.                   *)
ParticipantsStay ==
    [][\A r \in linked : \E n \in linked' : n.uid = r.uid /\ n.slot = r.slot]_vars

(* When a round opens, every shadow stored for it takes part at once, but  *)
(* for those the opener replaces.                                          *)
ShadowsFollowTheRound ==
    [][\A slot \in Slots :
          roundStatus[slot] = "none" /\ roundStatus'[slot] = "active" =>
              \A r \in registered \cap registered' : r.slot = slot => r \in linked']_vars

(* The official tables implement the timeline IWAP promises.               *)
Timeline == INSTANCE OfficialTimeline WITH seasonStatus <- seasonStatus,
                                           roundStatus <- roundStatus
TimelineSpec == Timeline!Spec

(* Where the background process reaches Redis when it starts, and so keeps *)
(* reconciling, every active round gets closed, also one its validators    *)
(* left and one the main validator declares active again while it runs.    *)
RoundsAreClosed ==
    WF_vars(Reconcile) =>
        \A slot \in Slots : roundStatus[slot] = "active" ~> roundStatus[slot] # "active"

(* start_round: "Treat duplicate start as idempotent if it belongs to the  *)
(* same validator". A row that is started again under its own id keeps     *)
(* what was recorded below it.                                             *)
RepeatedStartKeepsRuns ==
    [][registered \cap registered' \cap runs \subseteq runs']_vars

=============================================================================
