------------------------------ MODULE RunViews ------------------------------
(***************************************************************************)
(* What the user interface shows of agent runs: the lists of runs, the     *)
(* page of a run, the feed and the metrics of a miner, and the comparison. *)
(* A view is computed from the stored rows of one moment. The numbers of a *)
(* run come from its stored statistics, its tasks from the evaluations.    *)
(***************************************************************************)
EXTENDS RunOutcome, Queries, SequencesExt

CONSTANTS
    Site,           \* the web project of each task
    RunOrders       \* the orders a list of runs can come in

Sites == {Site[t] : t \in Tasks}
SitesOf(seen) == {Site[t] : t \in seen}
EntriesOf(r) == {<<r, t>> : t \in Evaluated(evals, r)}

----------------------------------------------------------------------------
(* The status of a run is derived three times over.                        *)

ListStatus(r) ==
    IF reason[r] = "task_timeout" THEN "timeout"
    ELSE IF reason[r] # "none" THEN "failed"
    ELSE IF r \notin ended THEN "running"
    ELSE IF Successes(r) = 0 /\ Total(r) > 0 THEN "failed" ELSE "completed"

PageStatus(r) ==
    IF r \notin ended THEN "running"
    ELSE IF reason[r] = "task_timeout" \/ (Successes(r) = 0 /\ Total(r) > 0)
    THEN "failed" ELSE "completed"

FeedOf(r) ==
    {"run_started"} \cup
    IF r \notin ended THEN {}
    ELSE IF (Successes(r) = 0 /\ Total(r) > 0) \/ reason[r] = "task_timeout"
    THEN {"run_failed"} ELSE {"run_completed"}

----------------------------------------------------------------------------
(* The lists of runs: of the round, of a miner, and what the latter adds.  *)
Listed(r) ==
    [run |-> r, status |-> ListStatus(r), total |-> Total(r),
     attempted |-> attempted[r], successful |-> Successes(r),
     failed |-> Total(r) - Successes(r)]

(* Sorted by the start, which runs may share.                              *)
RoundRuns(order, limit, skip) == Cut(runs, order, skip, limit)

Statuses == {"running", "completed", "failed", "timeout"}

(* A filter that is NULL is no filter.                                     *)
ASSUME NullIsNoRow == Null \notin Runs /\ Null \notin Statuses

(* A list of runs names no tie breaker.                                    *)
ASSUME RunOrdersAre == \A order \in RunOrders : IsOrder(order, Runs)

(* The catalogue filters by a status it derives after the query, sorts     *)
(* what the query returned in no order of its own, and cuts the page.      *)
Catalog(m, status, order, page, limit) ==
    LET asked == {r \in runs : m \in {Null, Miner[r]} /\ status \in {Null, ListStatus(r)}} IN
    [runs |-> PageIn(asked, order, page, limit), total |-> Cardinality(asked)]

AgentRuns(m) ==
    {[item |-> Listed(r), websites |-> Cardinality(SitesOf(Evaluated(evals, r)))] :
        r \in {r \in runs : Miner[r] = m}}

ActivityFeed(m) == UNION {{<<r, event>> : event \in FeedOf(r)} : r \in {r \in runs : Miner[r] = m}}

PerformanceMetrics(m) ==
    LET mine == {r \in runs : Miner[r] = m}
        successful == {r \in mine : Successes(r) > 0}
    IN
    [runs |-> Cardinality(mine), successful |-> Cardinality(successful),
     failed |-> Cardinality(mine) - Cardinality(successful),
     tasks |-> SumOver([r \in mine |-> Total(r)], mine),
     completed |-> SumOver([r \in mine |-> Successes(r)], mine)]

(* A miner's round: the newest of its runs, given as r. Attempts that are  *)
(* not stored are made up of the statistics, and a run without evaluations *)
(* is said to have visited the sites of the round's tasks.                 *)
NormalizedAttempts(r) ==
    IF attempted[r] \notin {Null, 0} THEN attempted[r]
    ELSE IF Total(r) > 0 THEN Total(r) ELSE attempted[r]

AgentRound(r) ==
    LET visited == Cardinality(SitesOf(Evaluated(evals, r)))
        tried == NormalizedAttempts(r)
    IN
    [run |-> r, status |-> ListStatus(r), successful |-> Successes(r), attempted |-> tried,
     websites |-> IF visited > 0 THEN visited
                  ELSE IF tried \notin {Null, 0} THEN Cardinality(SitesOf(tasks)) ELSE 0]

----------------------------------------------------------------------------
(* The page of a run.                                                      *)

PageTasks(r) ==
    {[task |-> e[2], site |-> Site[e[2]],
      status |-> IF Passed(e) THEN "completed" ELSE "failed"] : e \in EntriesOf(r)}

PerformanceByWebsite_AllSites(r) ==                                     \* mutant
    LET successful == {i \in PageTasks(r) : i.status = "completed"} IN
    [site \in SitesOf(Evaluated(evals, r)) |->
        [tasks |-> Cardinality(PageTasks(r)), successful |-> Cardinality(successful)]]

PerformanceByWebsite(r) ==
    [site \in SitesOf(Evaluated(evals, r)) |->
        LET here == {i \in PageTasks(r) : i.site = site} IN
        [tasks |-> Cardinality(here),
         successful |-> Cardinality({i \in here : i.status = "completed"})]]

PageAttempted(r) ==
    IF attempted[r] # Null THEN attempted[r] ELSE Cardinality(PageTasks(r))

PageStatistics(r) ==
    [total |-> Total(r), attempted |-> PageAttempted(r), successful |-> Successes(r),
     failed |-> IF PageAttempted(r) > Successes(r) THEN PageAttempted(r) - Successes(r) ELSE 0,
     websites |-> Cardinality(DOMAIN PerformanceByWebsite(r))]

PageTimeline(r) ==
    {<<"run_started", Null>>}
    \cup {<<IF i.status = "completed" THEN "task_completed" ELSE "task_failed", i.task>> :
             i \in PageTasks(r)}
    \cup (IF r \notin ended THEN {}
          ELSE {<<IF PageStatus(r) = "completed" THEN "run_completed" ELSE "run_failed", Null>>})

(* Runs that are not found are left out; the best is the first of the best,*)
(* by the stored total, and by the stored rate, which is 0 of no tasks.    *)
CompareRuns(chosen) ==
    LET known == {n \in DOMAIN chosen : chosen[n] \in runs}
        size(r) == IF Total(r) > 0 THEN Total(r) ELSE 1
        hits(r) == IF Total(r) > 0 THEN Successes(r) ELSE 0
        moreTasks(q, r) == Total(q) > Total(r)
        higherRate(q, r) == hits(q) * size(r) > hits(r) * size(q)
        first(better(_, _)) ==
            LET beaten(n) == \E k \in known : better(chosen[k], chosen[n]) IN
            IF known = {} THEN Null
            ELSE chosen[CHOOSE n \in known : /\ ~beaten(n)
                                             /\ \A k \in known : k < n => beaten(k)]
    IN
    [mostTasks |-> first(moreTasks), bestSuccessRate |-> first(higherRate), runs |-> known]

----------------------------------------------------------------------------
(* Properties                                                              *)

(* The lists, the page and the feed of a run that has an end tell the same *)
(* outcome, although each derives it on its own and only the lists look at *)
(* every reason, unless its reason has outlived its first success; the     *)
(* lists call a failed run a timeout where the others do not.              *)
StatusesAgree ==
    Quiet => \A r \in runs \cap ended :
        reason[r] = "none" \/ Successes(r) = 0 =>
            LET status == IF ListStatus(r) = "timeout" THEN "failed" ELSE ListStatus(r) IN
            /\ PageStatus(r) = status
            /\ FeedOf(r) = {"run_started",
                            IF status = "failed" THEN "run_failed" ELSE "run_completed"}

(* The statistics a page shows are stored, its tasks, web sites and        *)
(* timeline are computed: they tell the same tasks and web sites, and a    *)
(* run without a success is not compared as better than one that has some. *)
(* As long as no finish payload gave a number of tasks of its own for the  *)
(* run, they tell the same number of successes, and no more tasks are      *)
(* listed than were attempted.                                             *)
RunPageAddsUp ==
    Quiet => \A r \in runs :
        LET shown == PageStatistics(r)
            bySite == PerformanceByWebsite(r)
            listed(status) == Cardinality({i \in PageTasks(r) : i.status = status})
            tasksOf == [site \in DOMAIN bySite |-> bySite[site].tasks]
            successfulOf == [site \in DOMAIN bySite |-> bySite[site].successful]
        IN
        /\ r \notin claimed =>
               /\ shown.successful = listed("completed")
               /\ shown.failed >= listed("failed")
               /\ shown.attempted = shown.successful + shown.failed
        /\ listed("completed") = SumOver(successfulOf, DOMAIN bySite)
        /\ Cardinality(PageTasks(r)) = SumOver(tasksOf, DOMAIN bySite)
        /\ {what[2] : what \in PageTimeline(r)} = {Null} \cup Evaluated(evals, r)
        /\ \A q \in Runs :
               LET best == CompareRuns(<<q, r>>).bestSuccessRate IN
               best = q => Successes(q) > 0 \/ Successes(r) = 0
        /\ \A row \in AgentRuns(Miner[r]) :
               row.item.run = r =>
                   row.websites = shown.websites /\ row.item.successful = shown.successful

(* A miner's round and the page of its run tell the same numbers as far as *)
(* they are stored, and what the round makes up is never less than what    *)
(* the page shows; it visits no sites but those of the round's tasks.      *)
AgentRoundAgrees ==
    Quiet => \A r \in runs :
        LET row == AgentRound(r)
            page == PageStatistics(r)
        IN
        /\ attempted[r] # Null => row.attempted = page.attempted
        /\ Evaluated(evals, r) # {} => /\ row.attempted >= page.attempted
                                       /\ row.websites = page.websites
        /\ page.websites <= row.websites /\ row.websites <= Cardinality(SitesOf(tasks))

(* The pages of a run agree, on its outcome and on its numbers.            *)
RunPagesAgree == StatusesAgree /\ RunPageAddsUp /\ AgentRoundAgrees

=============================================================================
