----------------------------- MODULE TaskViews -----------------------------
(***************************************************************************)
(* The pages and searches of tasks and evaluations, and the query other    *)
(* systems read them with. Each of them judges an evaluation by its score  *)
(* on its own.                                                             *)
(*                                                                         *)
(* A page of a task shows one of the task's evaluations, the first the     *)
(* database returns. The order is not asked for: the views of a task take  *)
(* the choice as a parameter. A search is ordered by the id, the time or   *)
(* the score of the evaluations. Scores are shared by many, and a search   *)
(* names no tie breaker.                                                   *)
(***************************************************************************)
EXTENDS RunViews

CONSTANTS
    Ported,             \* the sites whose port the queries know by name
    UseCase,            \* the use case of each task, Null if it has no name
    EvaluationOrders    \* the orders a search of evaluations can come in

(* "unknown" is what a site without a known port is called.                *)
ASSUME PortsHaveNames == "unknown" \notin Ported

(* A search by the score, with its ties either way, or by the id.          *)
ASSUME EvaluationOrdersAre == \A order \in EvaluationOrders : IsOrder(order, Runs \X Tasks)

----------------------------------------------------------------------------
(* Verdicts on an evaluation                                               *)
TaskStatus_ZeroPasses(e) == IF Score[e] >= 0 THEN "completed" ELSE "failed"  \* mutant
TaskStatus(e) == IF Score[e] >= 50 THEN "completed" ELSE "failed"
ItemStatus(e) ==
    IF Score[e] >= 50 THEN "passed" ELSE IF Score[e] > 0 THEN "failed" ELSE "pending"
ExternalStatus(e) == IF Score[e] >= 70 THEN "completed" ELSE "failed"
ExternalPassed(e) == Score[e] >= 100

----------------------------------------------------------------------------
(* Searches: in SQL the filter comes before the page; the light list of    *)
(* tasks filters by run after it, and reports the number of all            *)
(* evaluations, or zero when the page is empty.                            *)

EvaluationList(run, order, page, limit) == PageIn(EntriesOf(run), order, page, limit)

EvaluationsOf(miner) == {e \in evals : miner \in {Null, Miner[e[1]]}}

LightList(run, miner, order, page, limit) ==
    LET found == EvaluationsOf(miner)
        rows == PageIn(found, order, page, limit)
    IN
    [tasks |-> {e \in rows : run \in {Null, e[1]}},
     total |-> IF rows = {} THEN 0 ELSE Cardinality(found)]

(* A site whose port is not known is looked for among the next rows only,  *)
(* and the page is cut out of what was found once more.                    *)
ExternalSite(t) == IF Site[t] \in Ported THEN Site[t] ELSE "unknown"

ExternalOf(site) == {e \in evals : ExternalSite(e[2]) = site}

ExternalList(site, order, page, limit) ==
    LET near == Cut(evals, order, (page - 1) * limit, 5 * limit) IN
    PageIn(IF site \in Ported THEN ExternalOf(site) ELSE near \cap ExternalOf(site),
           order, page, limit)

----------------------------------------------------------------------------
(* Pages of a task and of an evaluation, and what is computed over tasks   *)

EvaluatedTasks == {e[2] : e \in evals}
Contexts == {shown \in [EvaluatedTasks -> evals] : \A t \in EvaluatedTasks : shown[t][2] = t}

TaskPage(shown, t) ==
    IF t \notin EvaluatedTasks THEN Null
    ELSE [task |-> t, run |-> shown[t][1], evaluation |-> shown[t],
          status |-> TaskStatus(shown[t])]

EvaluationPage(e) ==
    IF e \notin evals THEN Null
    ELSE [task |-> e[2], run |-> e[1], evaluation |-> e, status |-> TaskStatus(e)]

DetailedList(shown, run) ==
    {TaskPage(shown, t) : t \in {t \in EvaluatedTasks : run \in {Null, shown[t][1]}}}

StatusFacets(pages) ==
    [s \in {"completed", "failed"} |-> Cardinality({p \in pages : p.status = s})]

Analytics(shown) ==
    LET is(t) == TaskStatus(shown[t]) = "completed"
        on(site) == {t \in EvaluatedTasks : Site[t] = site}
    IN
    [total |-> Cardinality(EvaluatedTasks),
     completed |-> Cardinality({t \in EvaluatedTasks : is(t)}),
     failed |-> Cardinality({t \in EvaluatedTasks : ~is(t)}),
     bySite |-> [site \in SitesOf(EvaluatedTasks) |->
         [tasks |-> Cardinality(on(site)),
          successful |-> Cardinality({t \in on(site) : is(t)}),
          failed |-> Cardinality({t \in on(site) : ~is(t)})]]]

TaskStatistics(page) ==
    LET completed == IF page.status = "completed" THEN 1 ELSE 0 IN
    [total |-> 1, completed |-> completed, failed |-> 1 - completed,
     activity |-> IF completed = 1 THEN "task_completed" ELSE "task_failed"]

CompareTasks(shown, chosen) == {TaskPage(shown, t) : t \in chosen \cap EvaluatedTasks}

----------------------------------------------------------------------------
(* The page of a validator. Two statements limit the same evaluations anew *)
(* and neither orders them: where there are more than the limit, each may  *)
(* count others. A score is never NULL.                                    *)

Asked(site, useCase) ==
    {e \in evals : site \in {Null, Site[e[2]]} /\ useCase \in {Null, UseCase[e[2]]}}
Limited(some, limit) ==
    kSubset(IF limit < Cardinality(some) THEN limit ELSE Cardinality(some), some)

Tally(some) ==
    [total |-> Cardinality(some),
     success |-> Cardinality({e \in some : Score[e] >= 50}),
     zero |-> Cardinality({e \in some : Score[e] < 50})]
ByTask(some) == [t \in {e[2] : e \in some} |-> Tally({e \in some : e[2] = t})]

AddedUp(groups, who) ==
    [total |-> SumOver([t \in who |-> groups[t].total], who),
     success |-> SumOver([t \in who |-> groups[t].success], who),
     zero |-> SumOver([t \in who |-> groups[t].zero], who)]

\* A use case counts on each site for itself.
WebStats(some) ==
    LET groups == ByTask(some)
        on(site) == {t \in DOMAIN groups : Site[t] = site}
        for(site, case) == {t \in on(site) : UseCase[t] = case}
    IN
    [site \in SitesOf(DOMAIN groups) |->
        [count |-> AddedUp(groups, on(site)),
         useCases |-> [case \in {UseCase[t] : t \in on(site)} |->
             [count |-> AddedUp(groups, for(site, case)), tasks |-> for(site, case)]]]]

EmptyPage == [global |-> Tally({}), webs |-> <<>>, hasMore |-> FALSE]

ValidatorPage(counted, grouped, limit) ==
    IF counted = {} THEN EmptyPage
    ELSE [global |-> Tally(counted), webs |-> WebStats(grouped),
          hasMore |-> Cardinality(counted) >= limit]

----------------------------------------------------------------------------
(* Properties                                                              *)

(* Whoever turns the pages of a search sees every evaluation it is for on  *)
(* one of them, as long as the rows that share a key keep their order from *)
(* one statement to the next. Whether they do or not, an evaluation with a *)
(* key of its own is on the page its key says, also where a page is cut    *)
(* before it is filtered, and the list by id has no others. The total of   *)
(* the light list is that of its pages.                                    *)
SearchPagesTile ==
    \A order \in EvaluationOrders, limit \in 1..2 :
        LET turned == 1..(Cardinality(evals) + 1)
            byList(r) == [n \in turned |-> EvaluationList(r, order, n, limit)]
            byRun(r) == [n \in turned |-> LightList(r, Null, order, n, limit).tasks]
            byMiner(m) == [n \in turned |-> LightList(Null, m, order, n, limit).tasks]
            outside(s) == [n \in turned |-> ExternalList(s, order, n, limit)]
            tile(pages, wanted, some) ==
                /\ EachOnOnePage(pages, wanted)
                /\ ByTheirKeys(pages, wanted, some, order.key, limit)
        IN
        /\ \A r \in runs : /\ tile(byList(r), EntriesOf(r), EntriesOf(r))
                           /\ tile(byRun(r), EntriesOf(r), evals)
        /\ \A m \in {Miner[r] : r \in runs} :
               /\ tile(byMiner(m), EvaluationsOf(m), EvaluationsOf(m))
               /\ LightList(Null, m, order, 1, limit).total = Cardinality(EvaluationsOf(m))
        /\ \A s \in Sites \cap Ported : tile(outside(s), ExternalOf(s), ExternalOf(s))

(* So does whoever turns the pages of the catalogue of runs, of a miner or *)
(* of a status or both, or of the list of a round: only the last page is   *)
(* not full, the total is that of the pages, and no run has two statuses   *)
(* or none.                                                                *)
CatalogTiles ==
    \A order \in RunOrders, limit \in 1..2, m \in Miners \cup {Null} :
        LET turned == 1..(Cardinality(runs) + 1)
            pages(s) == [n \in turned |-> Catalog(m, s, order, n, limit).runs]
            total(s) == Catalog(m, s, order, 1, limit).total
            asked == {r \in runs : m \in {Null, Miner[r]}}
            wanted(s) == {r \in asked : s \in {Null, ListStatus(r)}}
        IN
        /\ \A s \in Statuses \cup {Null} :
               /\ EachOnOnePage(pages(s), wanted(s))
               /\ ByTheirKeys(pages(s), wanted(s), wanted(s), order.key, limit)
               /\ \A n \in 1..Cardinality(runs) :
                      Cardinality(pages(s)[n]) < limit => pages(s)[n + 1] = {}
        /\ SumOver([s \in Statuses |-> total(s)], Statuses) = Cardinality(asked)
        /\ m = Null => \A n \in turned : RoundRuns(order, limit, (n - 1) * limit) = pages(Null)[n]

(* Every page judges an evaluation alike as long as scores are zero or one *)
(* ("Score is binary", external_tasks_query.py): the page of its run, of   *)
(* its task, of itself, the lists, the analytics and the query for others. *)
(* Whichever evaluation the page of a task shows, the numbers add up.      *)
VerdictsAgree ==
    (\A e \in evals : Score[e] \in {0, 100}) =>
        /\ \A e \in evals :
               LET passed == EvaluationPage(e).status = "completed" IN
               /\ passed <=> \E i \in PageTasks(e[1]) :
                                 i.task = e[2] /\ i.status = "completed"
               /\ passed <=> ItemStatus(e) = "passed"
               /\ passed <=> ExternalStatus(e) = "completed"
               /\ passed <=> ExternalPassed(e)
        /\ \A shown \in Contexts :
               LET all == Analytics(shown)
                   tasksOn == [site \in DOMAIN all.bySite |-> all.bySite[site].tasks]
                   passedOn == [site \in DOMAIN all.bySite |-> all.bySite[site].successful]
                   pages == DetailedList(shown, Null)
                   passedOf == [p \in pages |-> TaskStatistics(p).completed]
                   facets == StatusFacets(pages)
               IN
               /\ facets["completed"] = all.completed /\ facets["failed"] = all.failed
               /\ all.completed + all.failed = all.total
               /\ SumOver(tasksOn, DOMAIN all.bySite) = all.total
               /\ SumOver(passedOn, DOMAIN all.bySite) = SumOver(passedOf, pages)
               /\ CompareTasks(shown, Tasks) = pages
               /\ \A p \in pages : p = EvaluationPage(p.evaluation)
               /\ UNION {DetailedList(shown, r) : r \in runs} = pages

(* The page of a validator adds up from the tasks to the use cases, the    *)
(* sites and the whole, and judges as the pages of the evaluations do, as  *)
(* long as it does not say that there are more of them; the numbers of all *)
(* evaluations add up even then. Asked for one site it shows what the      *)
(* whole page shows of it.                                                 *)
ValidatorPageAddsUp ==
    \A site \in Sites \cup {Null}, useCase \in {UseCase[t] : t \in Tasks} \cup {Null} :
    \A limit \in {1, Cardinality(evals) + 1} :
        LET asked == Asked(site, useCase)
            across(parts, field) ==
                SumOver([x \in DOMAIN parts |-> parts[x].count[field]], DOMAIN parts)
        IN
        \A counted, grouped \in Limited(asked, limit) :
            LET page == ValidatorPage(counted, grouped, limit)
                webs == page.webs
            IN
            /\ page.global.total = across(webs, "total")
            /\ \A s \in DOMAIN webs :
                   /\ webs[s].count.total = webs[s].count.success + webs[s].count.zero
                   /\ webs[s].count.total = across(webs[s].useCases, "total")
                   /\ webs[s].count.success = across(webs[s].useCases, "success")
            /\ ~page.hasMore =>
                   /\ page.global.success = across(webs, "success")
                   /\ page.global.success
                        = Cardinality({e \in asked : EvaluationPage(e).status = "completed"})
                   /\ useCase = Null =>
                          \A s \in DOMAIN webs \ {Null} : webs[s].count = Tally(Asked(s, Null))

(* The searches and pages of tasks lose nothing and judge alike.           *)
TaskPagesAgree ==
    SearchPagesTile /\ CatalogTiles /\ VerdictsAgree /\ ValidatorPageAddsUp

=============================================================================
