# A verification of the IWAP validator pipeline in TLA+

IWAP is the backend that validators of the Autoppia subnet report their rounds
to. This directory holds TLA+ modules of the part of it that keeps state, the
TLC configurations that check them, and theorems about them checked by TLAPS.
Source paths below are relative to the repository (`src/` in `PROJECT.json`).

## 1. Inventory

### The system

FastAPI handlers (`app/api/validator/`) serve requests of several validators at
the same time, each in one SQLAlchemy session and one PostgreSQL transaction
(READ COMMITTED, `app/db/session.py`). What they call
(`app/services/validator/`) reads and writes tables whose keys, partial unique
indexes and view triggers (`scripts/bash/create_tables.sh`) do part of the work:
`validator_rounds` is a view, and writing to it creates seasons and rounds.
Block heights come from Redis, which a background process refreshes; the same
process closes rounds whose end has passed. The dashboard's handlers read the
tables, compute what the pages show, and keep their answers in Redis.

| Component | State | Operations | Hard because |
|---|---|---|---|
| Canonical rounds and authority | `seasons`, `rounds`, `round_validators` | start (main, backup, shadow), first agent run, round-log, finish | validators come in any order; a backup may replace the main one after a grace; shadows are linked later; retries; the triggers decide what a row may change |
| Agent-run, task and evaluation ingestion | `tasks`, `miner_evaluation_runs`, `evaluations`, statistics columns | set_tasks, start_agent_run, add_evaluation, batch, finish | check and write are separate statements; concurrent transactions; partial failure inside a batch; cascaded deletes |
| Season leadership and round summaries | `round_summary`, `round_outcomes`, season leader columns | finish summary, dethroning, recomputation over a season | late summaries rewrite what later rounds were told; main and backup summaries race |
| Runtime configuration | two singleton tables, one cache per process | sync, load, commit, rollback, restart | the cache is set before the commit; processes see different configurations |
| Chain clock | height and time stamp in Redis | refresh, read with extrapolation | two writes and two reads that are not atomic; the extrapolated height may fall back; keys expire |
| Background process | the refresh loop, the reconciler | wait for Redis, refresh, close rounds | outages of Redis and of the chain; it closes rounds others still report to |
| Validator authentication | a copy of the stakes per process | signature and stake check | stale stakes |
| Round arithmetic | none | boundaries of a slot, window test | both ends belong to the window |
| GIFs, task logs, round logs | an object in the store and a row that refers to it | check, store, record | store and database share no transaction; the row may be purged between; connections are held while a slow store is written |
| Dashboard services | none of their own | rounds, boards, runs, tasks, evaluations, external queries | the same fact is computed in several places from several tables |
| Routes and kept answers | Redis entries with a lifetime | route, hit, miss, compute, store, clear | order of registration; shared prefixes; late stores; Redis outages |
| Subnet timeline, directory, price | none | read-only | - |
| Seeding, maintenance scripts, logging, application set-up | - | run by hand or stateless | - |

How they interact: starts and finishes write the official tables *through* the
view, so the triggers are part of every handler; ingestion hangs below a row of
`round_validators` and is deleted with it; finishing a round recomputes the
ingestion's statistics and then the season; every window check asks the chain
clock and the runtime configuration.

### What makes each component correct

* **Canonical rounds**: one timeline (one active season, one active round per
  season; nothing disappears; no season closed over a running round); an official
  round has the status its main validator gave it; backups open late only; shadows
  and participants are never lost; a round gets closed.
* **Ingestion**: what was acknowledged stays with its task list; statistics are
  those of the evaluations; tasks are fixed once they are used; one run per miner.
* **Leadership**: the season's leader is the one its last round left; late and
  repeated summaries do not change what other rounds said; a backup never overrules
  the main validator; rewards of a round are the same for all its validators.
* **Runtime configuration**: what a process decides by was stored by the main
  validator once, or is on its way through that process.
* **Chain clock**: the height never runs too far ahead, is late by a refresh at
  most, and comes back after an outage.
* **Authentication**: a lost stake passes no longer than a copy of it lives and
  its load takes.
* **Uploads**: what is recorded is stored; what was answered stays recorded while
  its row exists; nothing else is left behind than what was refused, replaced or
  purged.
* **Dashboard**: two pages that show one fact agree; paging by one order loses
  nothing.
* **Kept answers**: an answer is that of the handler and the parameters asked
  for, and recent; a refusal is not remembered, and an empty answer no longer than
  any other.

`PROJECT.json` lists every hazard of this kind with its line and the properties
that cover it.

## 2. Modules

### `CanonicalRounds` (and `OfficialTimeline`, `CanonicalRounds_proofs`)

State: `seasonStatus`, `roundStatus`, `openedBy` are the columns of `seasons` and
`rounds` ("none" while there is no row). `registered` is the set of rows of
`round_validators`, by id; `linked`, `pending`, `flagged`, `started`, `runs` are
the subsets of them that have a `round_id`, wait for one, carry
`is_main_validator`, come from a start payload, and have agent runs below them.
`block` is the chain height. `reported` is a history variable: the status with which
a main validator that takes part in a round last finished it.

| Action | Code |
|---|---|
| `MainStart`, `BackupStart` | `start_round` handler, `_ensure_round_authority`, storage `start_round`, insert trigger of the view, linking of shadows |
| `ShadowStart` | the handler's branch for refusals that name the authority of the main validator, `upsert_shadow_round_candidate` |
| `StartAgentRun` | `start_agent_run` as far as it touches the row: window, `_upsert_miner_snapshot` |
| `UploadRoundLog`, `RecordRoundLogUrl` | the two transactions of `upload_round_log`, before and after the file is stored: the row a log may create, and its URL, written to the row of that id if there still is one |
| `FinishRound` | `finish_round`, update trigger of the view, `_sync_season_bounds_from_rounds` |
| `Reconcile` | `scripts/background_updater.py`: active rounds whose end has passed become `finished`; seasons are left alone |
| `AdvanceBlock` | the chain (external) |

Each request is one action, but for the upload of a log. It is a simplification: two starts in flight at once
are not interleaved here, but the unique indexes, which settle such races, are
(`IndexesAccept`). A refused or rolled back request changes nothing and has no
action. Validators follow the published schedule and an id never serves two
slots; an id is a record of validator, slot and attempt, so that "the same id
again" and "a second id" are both there. The main validator, the stakes and the
schedule are constants. A start payload carries the status active (the code stores
what it carries); a finish payload any of `FinishStatuses`. Left out: gates that only refuse (version, runtime
alignment), `submit_round` (used by the seeding tool), texts.

`OfficialTimeline` is the abstract specification: what IWAP promises about
seasons and rounds whoever sends what. `CanonicalRounds` implements it
(`TimelineSpec`) through an INSTANCE whose WITH clause maps the statuses of rows
to the three a timeline tells apart: none, running, over.

`RoundViews` (EXTENDS `CanonicalRounds`) is what the pages about rounds compute:
the list and its pages, current and previous rounds, progress, the status of a
validator, ids in all their forms (`ui_rounds_service_mixin.py`, the overview's
rounds, `app/api/ui/rounds.py`). The operators read the state and change nothing;
`CanonicalRounds_proofs` extends this module and proves that its pages agree.

### `AgentRunIngestion` (and `AgentRunIngestion_proofs`)

State: `tasks`, `runs`, `evals` are the ids in the three tables below one row of
a round, `stats` what the statistics of each run were last computed from: the
tasks `seen` among its evaluations (every evaluation has a positive score, so the
set stands for the numbers) and what a finish payload `says` of its miner. `acked`
are the evaluations a client was told are stored, `replaced` those that went with
a task list, and `request` is what each of the `Workers` is doing: step, values
read, rows written and not committed.

| Actions | Code |
|---|---|
| `SetTasks`, `WriteTasks` | `set_tasks`: the checks; the delete, insert and commit |
| `StartRun`, `WriteRun` | `start_agent_run`: the look-up by id and by miner; the insert and commit |
| `AddEvaluation`, `AddEvaluationsBatch` | the handlers up to the insert |
| `InsertEvaluation`, `SkipEvaluation`, `CommitEvaluations` | `upsert_evaluation_bundle` for one item (savepoint per item in a batch), flush and recomputation, commit |
| `ReleaseFails` | the release of an item's savepoint flushes the update of its run; when that fails the item is rolled back and listed among the errors, but stays in `evaluations_created` |
| `FinishRuns`, `FinishEvaluations`, `CommitFinish` | the statistics part of `finish_round`: load runs, load evaluations, write what differs, with the numbers of `local_evaluation` over them |
| `Fail` | rollback of any request: key or parent gone, deadlock victim, statement time-out, process stop |

What blocks in PostgreSQL is a guard: the same key uncommitted elsewhere, a run
row another transaction has updated, a parent with uncommitted children. Reads
that one request makes before it writes are taken together. An evaluation is
`acked` when the answer counts it as created and does not list it as an error.
Left out: the window check, task logs, the purge of a repeated start (it is in
`CanonicalRounds`).

### `RunOutcome`, `RunViews`, `TaskViews`, `Queries` (and `RunOutcome_proofs`, `Queries_proofs`)

`RunOutcome` EXTENDS `AgentRunIngestion` by what the numbers say of a run: scores
and time-outs of its evaluations, `reason` (`zero_reason`), `attempted`
(`tasks_attempted`) and `ended`. A finish payload may list a run with a reason and a
number of attempts (`Said`), and its local evaluation may give a miner's run counts and
a score (`Declarations`); `claimed` are the runs it gave a number of tasks, received or
attempted, which need not be one the evaluations add up to. Each of its steps is a step
of `AgentRunIngestion` with the columns written in it.
`RunViews` is the lists, the catalogue, the page, the timeline and the comparison of
runs, and a miner's page of a round. `TaskViews` is the lists, pages and analytics of
tasks and evaluations, the query for external clients, and the evaluations on the page
of a validator (`ValidatorPage`): two statements without an order limit the same rows,
so each may count others (`Limited` is every choice of them). They are checked in
`ingest_alone`; `UseCase` gives tasks the use case they are counted under. `Queries` is
what all of them do with rows: add numbers up (`SumOver`), put them in an order, and cut a
page out of them (`Cut`, `PageIn`) by the place each row has (`Spot`). An order is a key,
the column sorted by, and a tie-breaker. The light list of tasks, the external query, the
list of a round and the catalogue of runs name no tie-breaker, so that each statement
may take another one: pages are operators of the order, and `RunOrders` and
`EvaluationOrders` are the orders there may be, any of a key and a tie-breaker
(`RunOrdersAre`, `EvaluationOrdersAre`). What holds then is in two parts. By one order,
each row that matches is on exactly one page (`EachOnOnePage`). Whatever the ties do, a
row is only on pages between the rows that are surely before it and those that may be,
and on its page for sure when these are one (`ByTheirKeys`).
Two assumptions keep filters apart from values: `NullIsNoRow` (a filter left out is no run
and no status) and `PortsHaveNames` (no port is named "unknown").

### `SeasonLeadership` (and `SeasonLeadership_proofs`)

State: `rows` is `round_validator_miners.post_consensus_avg_reward` by round,
validator and miner, `ranks` the `post_consensus_rank` beside it, `summary` the row of `round_summary` of each round (who wrote
it, leader before, candidate, leader after, dethroned), `leader` the leader columns
of `seasons`, `closed` the rounds that are over.

| Action | Code |
|---|---|
| `Finish` | `finish_round`: `_populate_round_summary` (`Populated`), `_enrich_validator_summary_post_consensus_from_db` (`Enriched`), the upsert (`Upserted`), `_recompute_and_persist_season_leadership` (`Recomputed`, `LeaderBefore`) |
| `Start` | the purge of a repeated `start_round`, which takes the miners' rows with it |
| `RegisterMiner` | `start_agent_run`: a miner's row without a reward |

Each request is one transaction and one action; concurrent finishes of one round
are not interleaved. Of a miner the reward and the rank are kept. A report's ranks are
its own: nothing in the code compares them with its rewards. A validator has one row per
round here. Whether a backup may speak for a round is
`CanonicalRounds`' `Authoritative`; here it is a free choice. `closed` are the
rounds that are over, by the main validator's finish or by the reconciler
(`Expire`); a round is opened when none before it in the season is active, which is
`MainMayStart` and `BackupMayOpen` of `CanonicalRounds`.

The UPDATE that makes rewards and ranks of a round the same for all validators is plain
SQL. The loop before it writes rows through the ORM, and its query for the next
miner flushes the row of the one before; SQLAlchemy 2.0 (2.0.47 in `uv.lock`) does
not flush before plain SQL, so the last miner's row is written over the canonical
reward and rank (but for a column that is given the value it had). The comment above the
UPDATE promises the same payload for every row; what holds is `OneStrayAtMost`. A miner
that keeps its own report's rank beside the others' canonical ones may leave a row in
which nobody, or two miners, are first.

`BoardViews` (EXTENDS `SeasonLeadership`) is the boards: the season's ranking, the
winner and statistics of a round, the overview's leader, an agent's page, the
leadership pages with their thresholds, and the winner and the miners of a round on a
validator's page. Ranks are the stored ones (`RankOf`, `BestRankIn`), where the code
reads them. The page of a validator looks for a stored rank of 1; where there is none
the best of the runs is looked for in descending order, in which PostgreSQL puts a NULL
first (`ValidatorWinners`). The pages that read local rewards (the validators' view of a
round with its winner, the overview's list of miners) and the agents' catalogue are left
out: `best_local_*` is materialised for the rows of the finishing validator only
(`validator_storage_summary_mixin.py:1428`), and nothing promises what it has in common
with the post-consensus table.

### `ChainClock`, `RuntimeConfig`, `StartGate` (and `StartGate_proofs`)

What stands between a request and the tables. `ChainClock` is the background
process (wait for Redis, fetch, store the height, store the stamp) and Redis with
its outages, expiry and cache-clear; `RuntimeConfig` the configuration row, each
process's copy, uploads that commit or roll back, loads, and restarts. `StartGate`
composes both with the authentication: a start asks for the stake, waits for the
metagraph if the process has no copy that lives, reads the height, reads the stamp,
loads the configuration if the process has none, and passes the window or not; other
processes move between, and validators lose their stake.

| Actions | Code |
|---|---|
| `ClockStep` | `refresh_block_now`, `background_updater.py` main loop, `/debug/cache-clear`; the chain and Redis (external) |
| `ConfigStep` | `sync_runtime_config`, `upsert_config_season_round`, commit, rollback |
| `Ask`, `LoadStakes`, `AskLoaded`, `LoadFails` | `require_validator_auth` with a copy of the stakes that lives, and with one that is loaded over the network first: its life is counted from the end of the load |
| `ReadStamp`, `FinishLoad` | `get_current_block_estimate`, `_ensure_config_season_round_cache_loaded`, the window check |
| `LoseStake`, `RestartWorker` | the metagraph (external), a process that dies |

One unit of time is the interval of the refresh. Each process serves one start at a
time, the TESTING override is off and signatures are valid.

### `ApiRoutes`, `ResponseCache` (and `ResponseCache_proofs`)

`ApiRoutes` is the table of routes in the order of registration, with what each
does to a request: parameters, status when there is nothing, prefix and lifetime of
a kept answer. `ResponseCache` is a client's request: refused (404, 422), answered
from Redis (`Hit`) or computed (`Miss`, `ReadRows`, `Answer`), while rows are
stored, time passes, and Redis fails or is cleared (`Clear`). Query strings belong
to the arguments; a light task list is kept in its own form only; the redirect to
the latest round is not kept when there is none. One unit is 60 seconds. `stored` is a
history variable, the time each row was stored: `FoundOnceThere` bounds by it how long
an answer without the row, a kept empty one included, is still given.

### `MediaStorage` (and `MediaStorage_proofs`)

An upload of a GIF or a task log: check (`CheckGif`, `CheckLog`), store (`Store`,
`StoreFails`), read the row again (`Find`), write it (`Write`), lose the connection
at any point (`ConnectionLost`), beside the ingestion that starts rounds again
(`StartRound`) and adds runs, tasks and evaluations. `row` is the rows that may
refer to an object and the key each refers to, `objects` the keys in the store,
`told` the rows whose upload was answered with success, `purged` those deleted since
they were written, `left` the keys that were refused, replaced or purged. `Follows`
says what the ORM does with the row it has read: insert it, update it, or nothing
("keep") when all columns have their values already. Then the commit succeeds whether
the row is still there or not. Log rows exist once recorded, evaluations before. The
answers "storage disabled" in the handlers are unreachable: without a bucket
objects go to a local directory. Recordings an evaluation brings in its own payload
are left out.

## 3. Runs

| Run | Question | Result |
|---|---|---|
| `core_seasons` | Does the timeline hold over two seasons of two rounds, with a main validator, a backup and the reconciler, and do the pages tell it alike? | `TypeOK`, `RowLinks`, `FallbackOnlyAfterGrace`, `MainStartMeetsIndexes`, `RoundPagesAgree`, `OverIsOver`, `ShadowsFollowTheRound`, `TimelineSpec` hold |
| `core_repeats` | Do repeated starts under two ids, with two backups of different stake, lose anybody, and does anything a backup sends move a round? | `OpenerTakesPart`, `OneStartedMainRow`, `StatusFollowsMain`, `ParticipantsStay` hold |
| `core_liveness` | Is every round closed, whoever leaves? | `RoundsAreClosed` holds under `FairSpec` |
| `repeated_start` | Is a repeated start idempotent? | violated: the runs below the row are purged |
| `ingest_alone` | One request at a time: tasks locked, one run per miner, exact statistics, a reason for every zero; and do run, task and evaluation pages agree, whatever order ties come in and whatever numbers a finish payload brings? | `TypeOK`, `OneRunPerMiner`, `StatsExact`, `ZeroHasReason`, `RunPagesAgree`, `TaskPagesAgree`, `TasksStayLocked` hold |
| `ingest_together` | Two requests interleaved: what still holds? | `ScoreNeverNull`, `AckedIsStored` hold |
| `lost_statistics` | Are statistics exact then? | violated: lost update |
| `season_order` | Two rounds finished in any order, again, and by a backup: is the season told consistently, also by the boards? | `TypeOK`, `OneStrayAtMost`, `SeasonLeaderIsLatest`, `BackupsNeverOverrule`, `OneRoundAtATime`, `BoardsAgree` hold |
| `gate_clock` | How wrong is the height a start is judged by, and how long does a lost stake pass, the load of the metagraph included? | `TypeOK`, `NeverAdmittedEarly`, `LateByTheLagOnly`, `StakeIsRecent` hold |
| `gate_config` | Which configuration do two processes go by, and does the clock come back after an outage or a cleared cache? | `CopyIsPastOrOwn`, `ClockComesBack` hold |
| `api_cache` | Does each client get its own, recent answer? | `OwnAnswer`, `AnswersAreRecent`, `FoundOnceThere` hold; the assumption `OthersAreServed` lists the endpoints that are shadowed |
| `media_uploads` | What is left of uploads when anything fails? | `ReferencesHold`, `OrphansAreRefused`, `GifsLeaveTheDatabase` hold |

The properties of pages are conjunctions of named parts: `RoundPagesAgree` is
`LabelsAreTrue`, `PagesTile`, `ViewsAgree` and `StaleCurrentIsEnding`; `RunPagesAgree`
is `StatusesAgree`, `RunPageAddsUp` and `AgentRoundAgrees`; `TaskPagesAgree` is
`SearchPagesTile`, `CatalogTiles`, `VerdictsAgree` and `ValidatorPageAddsUp`;
`BoardsAgree` is `OneLeaderEverywhere`, `PagesMakeAChain`, `PagesAgree` and
`WinnersAgree`.

Some conditions in them are as the code is, and say where it does not keep more:
`RunPageAddsUp` compares the numbers of a run with its evaluations unless the run is
`claimed`; the last two parts of `BoardsAgree` ask for `OneVoice` (the validators of a
round that have rewards have the same ones, and ranks) and, for the winner, for ranks in
the order of the rewards (`Ordered`); `AckedIsStored` leaves out evaluations whose task
list was replaced, and `ReferencesHold` rows that were purged. Statistics, tasks and
reasons are right for requests served one after the other, and no more is claimed:
`lost_statistics` shows two at once, and the hazards of `PROJECT.json` name the other
two checks that are stale then.

**Bounds.** Two seasons of two rounds are the least in which both a season change
and a change of round inside a season happen; two blocks per round with
graces of one block put both sides of every boundary, and the block shared by two
rounds, inside the run (`MaxBlock` 6 reaches the second season). `core_liveness` has one
season of two rounds, finish payloads that carry "active", and blocks to spare behind
the last round. Two backups with
different stakes are the least for an election; two ids per validator the least
for a repeat. `core_seasons` uses one id and one backup, `core_repeats` one round:
the product of both is out of reach, and purges never cross slots.
In ingestion two workers are the least for a race; two tasks let a batch
and a single evaluation overlap in one task and differ in another; three runs
(two of one miner) and overlapping task lists are used where one worker keeps
the state space small; scores are 0 and 100, as scores of the service are, with a
time-out. Finish payloads (`Reports`, `Locals`) say nothing, list a run with and one
without a number of attempts, and declare more tasks than the round has or a run that
was stopped; the orders sort by a key that rows share, both ways round, and by one that
none do. `ingest_together` has two task lists, so that one can replace the other under
acknowledged evaluations. In the leadership runs two rounds are the least in which one
round's summary tells another one something, two miners the least for a leader and
a challenger (and for a last miner that is not the only one), two ranks the least that
can contradict the rewards, and three reports are kept: nothing to rank, rewards without
a summary, and a summary whose flags contradict its rewards; rewards up to 3 put a candidate exactly on the threshold of
50 percent. Only the main validator starts again (`Restarting`).

`gate_clock` has one process, four units of time (`MaxTime`), keys that live two,
a fetch that may take one (`MaxLag`), copies of the stakes that live one, a load that
may take one (`MaxLoad`, 0 in `gate_config`, where no time passes), and one outage or
failed fetch (`MaxMishaps`): enough for a key to expire, to come back, and to be torn.
`gate_config` has two processes and lets the clock stand still: the copies depend
on no time. One configuration is enough there, because whose it is, and not which,
is asked. `api_cache` has two clients, four minutes, one row (`MaxRows`), answers
that take up to a minute (`Patience`) and pages kept for 2, 5 and 10 minutes: the
shortest lifetime passes inside the run. Six requests stand for the cases: two
pages of one thing, one page for two parameters, a parameter of the wrong type, an
unknown path. `media_uploads` has three uploads in flight over two connections (one
upload has to wait, two can race for one row), one run and one task of one of two
rounds (a log can name the other round), and two labels (a second object for one
row). Deadlock is checked in the ingestion runs that have no bound on time; the
others stop at a bound and turn it off.

**Fairness.** `WF(AdvanceBlock)`: the chain goes on. Nothing is assumed of any
validator: one may stop, be refused for ever, or report a round active again. That the
reconciler runs is no part of the specification, because an updater that starts while
Redis is down waits for ever (section 5); it is the hypothesis of the property,
`RoundsAreClosed == WF_vars(Reconcile) => ...`: while the background process, which PM2
keeps alive and which reconciles every 30 seconds once it reached Redis, does so. That
seasons are closed as well is not claimed: the reconciler leaves them alone, and a
backup that was answered does not report again. In `FairSpec` of `StartGate`, the
background process takes its next step while it lives, and Redis comes back when
it failed; nothing is assumed of the API processes or the chain. In `MediaStorage`
the database answers a request that has a connection, and the pool answers one
that waits with a time-out; the store may hang for ever.

**Mutants.** Every property of a passing run is paired, in `PROJECT.json`, with a
mutated definition (marked `\* mutant` beside the original) that breaks it.

## 4. Proofs

All theorems hold for every value of the constants that meets the named assumptions
of the module (`Constants`, `Payloads`, `Scores`, `LeadershipConstants`,
`ClockAssumption`, `ConfigAssumption`, `GateAssumption`, `RequestsAreAddressed`,
`CacheAssumption`, `NullIsNoRow`, `RunOrdersAre`, `EvaluationOrdersAre`, `PortsHaveNames`, `RunsAndTasksHaveARound`, `NoneIsNothing`, and `AttemptsAssumption`,
`UidsAreFinite`, `TasksAreFinite`: a round has finitely many validators, miners, tasks
and ids), which TLC evaluates in every run; more assumptions are named where they occur.

`CanonicalRounds_proofs`. The inductive invariant is `TypeOK`, `RowLinks`,
`RoundsAreWhole` (a round has an opener exactly when it exists, and its season
exists), `ReportedRounds` (nobody finished a round that does not exist) and
`IndexesAccept(roundStatus, seasonStatus)`. The last is needed
because a finish of one round is judged against every other round of the season;
`RoundsAreWhole` because an opener of a round that "exists" only in part could be
overwritten by the next start. From it: `TypeCorrectness`, `RowLinksHold`,
`OpenerAlwaysTakesPart`, `ParticipantsAlwaysStay`, `FallbackAlwaysLate`,
`MainStartsAlwaysMeetIndexes`, `OneMainRow`, `StatusAlwaysFollowsMain` (over every
opening, finish and reconciliation),
`OverAlwaysOver` (assuming no finish payload carries "active"),
`ShadowsAlwaysFollow`, and `Refinement` (`Spec => TimelineSpec`).

`RoundPagesAlwaysAgree` adds what the rounds' pages show. That rounds and rows have a
newest, that a row has one place in a list and a place one page, rest on lemmas about
their orders; `OpenedOnSchedule` (no row of a round before its first block) is needed for
progress and current round. The theorem assumes fewer than 10000 rounds: ids from there
on (`10000 * season + round`) could be the number of a row. So every safety property of
the core runs is proved for any number of validators, ids, seasons and blocks.

`AgentRunIngestion_proofs`. The inductive invariant is `TypeOK` with
`UncommittedHaveParents`: uncommitted rows have their run and task, since deletes
wait for them; without it a commit could add an evaluation without a task. From
it: `TypeCorrectness`, `ScoreAlwaysThere`, and `AckedAlwaysStored`, for any task
lists, which adds the invariant `CreatedExist`: what a request is about to answer as
created and not as an error is stored, is its own and uncommitted, or went with a
replaced list. A counted item whose savepoint was not released is among the errors.

`SeasonLeadership_proofs`. The assumption is `LeadershipConstants`: what a report may
say. Lemmas about tables (restriction, override) and about choices (a bounded set
of numbers has a greatest element, so the best miner, the highest reward, the lowest
rank and the last decided round exist) give what one finish does: `PopulatedIs` for a
column of the rows, used for the rewards and for the ranks (`CanonicalMark`,
`CanonicalPlace`), `LeadingIsIn` and `EnrichedType`, `UpsertedIs`, `RecomputedIs` and `LeaderBeforeIs` for the leadership.
The inductive invariant is `TypeOK` with `SeasonLeaderIsLatest` and
`UnknownOnlyAtTheStart`; `TypeOK` alone needs an argument, since a leader is only
typed because the winner chosen is among the stored rows. From it: `TypeCorrectness`,
`LeaderAlwaysLatest`, `UnknownAlwaysFirst`, `AlwaysOneRoundAtATime`,
`BackupsNeverDo`, `AlwaysOneStrayAtMost`, and `UnknownOnlyAtTheStart` (a round without a
leader before it is the first one summarised), for any number of validators, miners,
rounds and reports.

`BoardsAlwaysAgree` adds the boards. They average over validators (weighted by stake),
take ranks from the stored column and pick from what is stored. `OneVoice` is the case in
which pages are to agree: every validator tells the same rewards and ranks, as they do
after canonicalisation but for the stray. Then each miner has one entry
(`OneVoiceOneEntry`) and one rank (`OneVoiceOneRank`), the average is that entry
(`AverageOfOneVoice`, from `SumOfMultiples`), and who is stored as first has the top
reward if the ranks are in order (`FirstHasTheTop`). The chain of challenges and the overview's leader follow from `TypeOK`
and `SeasonLeaderIsLatest`.

`Queries_proofs` holds the lemmas of the page proofs. `SumOver` folds over a
set; that the fold exists and adds one element at a time is proved by a smallest
counterexample (`SumsExist`, `SumIs`), which needs no induction theorem. From it:
a sum of multiples, counting by values, and parts or shares that add up to the whole.
Then rows: an order is total (`OrderIsTotal`), so that the places in it are the numbers
from one on, each of one row (`SpotIs`, `SpotsDiffer`, `SpotsFill`), and a place is on one
page (`PlaceIsOnOnePage`). `PagesTurned` puts these together: the pages cut by one order
hold each row once and, by any order with that key, only rows between `Higher` and
`NotLower`, also where a page is filtered after it was cut. `PagesFill`: only the last one
is not full.

The second half of `AgentRunIngestion_proofs` is about one worker (`Workers = {w}`).
The inductive invariant adds to the one above that statistics are `Exact`, that a miner
has one run, and
`Current`: what the request has read (whether tasks exist, whether the run exists,
which evaluations are counted or found) is what is stored, up to its own rows. It is
the part two requests break, as `lost_statistics` shows. From it:
`AlwaysOneRunPerMiner`, `StatsAlwaysExact`, `TasksAlwaysStayLocked`.

`RunOutcome_proofs` first shows that `RunOutcome` implements `AgentRunIngestion`
(`OutcomeRefinesIngestion`: it only adds columns to its steps), so that the theorems
above carry over. For one worker the invariant then adds `Reasoned` (a run
with statistics and no success has a reason) and `Loaded` (the copy of the run the
session holds is the stored one, and a run about to be closed is closed with a
reason if it needs one). From it: `ZeroAlwaysHasReason`. `Pages` adds that a run
ended has statistics and that a run no payload claimed numbers of (`Tried`) has those of
its evaluations and attempts as many tasks as the round has, which gives
`RunPagesAlwaysAgree`: the lists judge by the columns and the pages by the evaluations, so
they agree only while statistics are exact, that is for one worker. That no task list is
longer than the round is configured for is a hypothesis; without it TLC finds a run page
and a list with different totals (`Expected = 1`).

`VerdictsAlwaysAgree` and `ValidatorPageAlwaysAddsUp` read only evaluations and hold for
any number of workers, from the types of `AgentRunIngestion` alone. The second needs that
evaluations stay finitely many (`EvaluationsStayFinite`), that both limited statements
return as many rows (`LimitedAre`), and that shares of tasks add up over use cases, sites
and the page (`SharesAddUp`). `TaskPagesAlwaysAgree` joins to both that the pages of searches
(`SearchPagesTile`) and of the catalogue (`CatalogTiles`) lose and repeat nothing by one
order, and misplace no row by more than its ties: the rows are a finite set, so
`PagesTurned` holds of each filter with any of the orders.

`StartGate_proofs`. `ClockSound` is about Redis: no height above the chain's, and a
stamp that expires `KeyTTL` after the time it says, which bounds the extrapolation by
`(KeyTTL - 1) \div BlockTime`. `StakesSound` says that a metagraph on its way was read no
longer than `MaxLoad` ago and names nobody who had lost the stake by then, and so that a
copy that holds a validator expires `MaxLoad + StakeTTL` after it lost its stake at the
latest, `ConfigSound` that a pending
configuration came through its process, and `RequestsSound` carries the bounds through
the points where a request waits. From them: `TypeCorrectness`,
`NobodyAdmittedEarly`, `CopiesPastOrOwn`, `StakesAlwaysRecent`. `LateByTheLagAtMost` adds
`Timely`, which relates the chain to what a refresh has fetched (`RefreshTimely`), to
what is stored (`KeysTimely`), to what a request has read (`ReadingTimely`) and to the
verdict (`AdmittedTimely`): each is behind by the blocks of its age and of one fetch at
most (`Apace`), unless Redis failed, was cleared, or stored between the two reads.

`ResponseCache_proofs`. A kept answer belongs to a request with its key (`KeptSound`),
and a computed one to the request that waits for it (`AskingSound`). `CacheAssumption`
says that no two handlers keep answers under one prefix, so the key
tells whose answer it is; TLC also evaluates it for every documented request. `Misses`
says that the rows an answer lacks were stored when it was read or later, which with the
bounds on its age gives `FoundOnceThere`. From it:
`AnswersAlwaysRecent`, `AlwaysFoundOnceThere`, and `AlwaysOwnAnswer`, which assumes
that requests are routed to the handler they mean (the endpoints of `OthersAreServed`
are not).

`MediaStorage_proofs`. `StoredFirst` says that a request past the store has put its
object. `OrphansAreServed` strengthens `OrphansAreRefused`: the request an object
waits for must be past the store, because a second upload of the same object that is
refused says nothing of the first. `KeptRows`: a request that found its row unchanged and
sends no statement is right about it until the row is purged. From them: `ReferencesAlwaysHold`,
`OrphansAlwaysRefused`.

Only model-checked: liveness, which is out of the prover's reach (`RoundsAreClosed`,
`ClockComesBack`, `GifsLeaveTheDatabase`). Every invariant and every action property of the
passing runs is stated by a theorem.

## 5. Findings

Shown by runs that expect a violation:

1. *A repeated start is not idempotent* (`repeated_start`): the purge precedes the
   duplicate check the handler relies on.
2. *Statistics are lost* (`lost_statistics`) when two evaluations of a run are
   stored at the same time, until something recomputes them.

Other disagreements between the code and what the repository says of it, met while
modelling. The models have the code's behaviour; the passing properties leave these
cases out or are stated so that they hold beside them.

Rounds and runs:

* A validator that comes as a shadow under two ids has two rows linked to the round
  (`docs/how_iwap_work.md:56`: one row per validator and round): the shadow upsert
  (`validator_storage_rounds_mixin.py:150`) and the log upload are keyed by id, and
  `ux_round_validators_round_uid` (`create_tables.sh:722`) is a plain index.
* A backup that is the only validator of a round may be refused for ever
  (`docs/how_iwap_work.md:108`), and its season then stays active until a main
  validator's start of a later season closes it: the election (`validator_storage_helpers_mixin.py:241`)
  ranks every validator that ever had a row. The comparison at line 266 also refuses a
  backup without a row yet when another one has as much stake and a greater uid.
* Two requests that start a run for one miner under two ids both succeed
  (`validator_storage_rounds_mixin.py:283`: "An agent run should be unique per
  (validator_round_id, miner_uid)"): no unique key covers the pair.
* The outcome of a round is what the report's flags say: the decision computed from
  the rewards ("Computing from the real rewards is always correct.",
  `validator_storage_summary_mixin.py:868`) is overwritten by the recomputation (line
  177) in the same transaction.
* `zero_reason` ("Reason for score 0", `app/models/core.py:288`) outlives the first
  success of a run: the lists then call it failed, its page completed. `finish_round`
  says it sets `ended_at` for all agent runs (`validator_round_handlers_lifecycle.py:960`);
  only an evaluation does.
* `finish_round` stores the numbers its payload declares (`tasks_received`,
  `tasks_success`, `tasks_attempted`) over those of the evaluations
  (`validator_storage_rounds_mixin.py:629`): the page of such a run, which counts its
  evaluations, need not add up to the lists.
* `evaluations_created` of a batch may count an item twice over: as created inside its
  savepoint (`validator_round_handlers_evaluations.py:197`) and, when the release of the
  savepoint fails, among the errors.
* After a canonicalisation that missed a row ("Reward/rank come from the main validator",
  `validator_storage_summary_mixin.py:1367`) nobody or two miners of that validator may be
  stored as first; its page then falls back to the runs (`validators.py:323`). `best_local_*`
  is materialised for the finishing validator's rows only, so that a round finished late
  leaves the best marks of later rounds as they were.
* `app/models/core.py:283` says a success needs a score of 0.5 or more; the code asks
  for more than 0. Scores of the service are 0 or 1.

Gate:

* A process that has a configuration never looks at the row again, and its copy is
  set before the commit (`validator_round_handlers_lifecycle.py:60`; line 299 says
  "Ensure this worker sees latest config_season_round").
* A background process that starts while Redis is down waits for ever: it asks a flag
  set at import and nothing reconnects (`background_updater.py:278`; line 286 logs
  "will retry in 30s").

Pages:

* Nine documented endpoints are answered by another handler (`OthersAreServed`):
  `/{season}/{round}` (`app/api/ui/rounds.py:163`) takes `basic`, `statistics`,
  `miners`, `validators`, `activity`, `progress`, `timeline` and `summary` of a round id
  and refuses them with 422; `/tasks/{task_id}` takes `/tasks/analytics`.
* `get_round` (`app/api/ui/rounds.py:246`) describes a cache it does not have.
* The list of the rounds with a skip inside a page returns a short page; the overview's
  list filters after paging and reports the filtered page as total. A round that was
  closed early is complete in the list and not in its own progress; in the summary it has
  made none.
* `get_round_miners` (`ui_rounds_service_mixin.py:465`) names an ambiguous column and
  always fails. The consensus status is finalised by the trigger for the main validator's
  row only. A required improvement of 0 is shown as 5 percent.
* The task page shows any one of the task's evaluations; the light list's total counts
  before the run filter and is 0 behind the last page; the evaluations' round filter
  compares with ids of a form no row has; the external query's round filter names a
  column that the ORM lacks, and with a site without a known port it skips twice.
* Searches by score, date or reward have no tie-breaker under OFFSET and LIMIT
  (`tasks_domain_service.py:548`, `external_tasks_query.py:276`,
  `ui_agents_runs_service_mixin.py:1477`), and the catalogue of runs sorts what an unordered
  SELECT gave (line 2348): rows that share a key may be shown on two pages or on none. Its
  sort by "ranking" is one tie, as no run has the key (line 2345).
* An empty 200 answer is kept for its lifetime like any other (`redis_cache.py:350`: "only if
  not None"): what is stored meanwhile is missing from it until then.
* Filters of miners, agents and the miner list apply after paging, and the length of
  the page is reported as total.

Uploads:

* Success is answered for a round log whose URL could not be recorded
  (`validator_round_handlers_logs.py:113`); the validator sends the URL again with its
  finish. A task log keeps its database connection while it is uploaded, a GIF does not.
* Success is answered for a repeated upload whose row was purged between its SELECT and
  its commit: the ORM has nothing to write when no column changes
  (`task_logs.py:103`, `evaluations_domain_service.py:255`), and nothing is recorded.

## 6. Plan

Done: rounds, ingestion and outcome, leadership, the gate, the views, the kept answers
and the uploads, with their proofs. Left, in this order:

1. `ConcurrentStarts`: two starts in flight over the state of `CanonicalRounds`, which it
   should implement up to failed requests.
2. Two finishes of one round in flight, and scores and times beside rewards, in
   `SeasonLeadership`.

Not modelled, for good: trends and activity feeds, the subnet
timeline, directory and prices (read-only and shown by one page each, so nothing can
disagree with them), texts and the wording of errors, logging, seeding, maintenance
scripts run by hand, settings.
