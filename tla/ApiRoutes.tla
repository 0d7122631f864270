----------------------------- MODULE ApiRoutes -----------------------------
(* The routes of the HTTP interface, in the order they are registered.     *)
(* A request is a method and the segments of a path behind /api/v1. The    *)
(* first route whose shape fits answers it, whatever the types of its      *)
(* parameters: a segment that is no number where the handler declares one  *)
(* is refused with 422 and no later route is tried. A row says which       *)
(* handler of which router answers, what it answers when the thing asked   *)
(* for is not there (its ValueError: 404, or 500 where the handler catches *)
(* every exception, 200 where an empty list or payload is an answer), and  *)
(* under which prefix and for how many seconds the answer is kept.         *)
EXTENDS Naturals, Sequences, FiniteSets, SequencesExt

CONSTANT Numbers  \* the segments that are numbers

Num == "{int}"
Txt == "{str}"

Get(path, name, missing) ==
    [method |-> "GET", path |-> path, name |-> name, missing |-> missing,
     prefix |-> "", ttl |-> 0]
Post(path, name, missing) == [Get(path, name, missing) EXCEPT !.method = "POST"]
Cached(route, prefix, ttl) == [route EXCEPT !.prefix = prefix, !.ttl = ttl]

RoundLists == <<
    Get(<<"ids">>, "list_round_ids", 200),
    Get(<<"seasons">>, "list_round_seasons", 200),
    Cached(Get(<<>>, "list_rounds", 200), "rounds_list", 600),
    Cached(Get(<<"current">>, "get_current_round", 404), "rounds_current", 300)>>

RoundsBySeason == <<
    Get(<<Num, Num, "progress">>, "get_round_progress_by_season", 404),
    Cached(Get(<<Num, Num>>, "get_round_by_season", 404), "round_by_season", 300),
    Get(<<Num, Num, "status">>, "get_round_status_view", 404),
    Get(<<Num, Num, "season-summary">>, "get_round_season_summary_view", 404),
    Get(<<Num, Num, "validators">>, "get_round_validators_view", 404)>>

RoundsById == <<
    Cached(Get(<<Txt, "basic">>, "get_round_basic", 404), "round_basic", 300),
    Get(<<Txt>>, "get_round", 404),
    Cached(Get(<<Txt, "statistics">>, "get_round_statistics", 404), "round_statistics", 180)>>

RoundMembers == <<
    Cached(Get(<<Txt, "miners">>, "get_round_miners", 404), "round_miners", 300),
    Get(<<Txt, "miners", "top">>, "get_top_round_miners", 404),
    Get(<<Txt, "miners", Num>>, "get_round_miner", 404),
    Get(<<Txt, "validators">>, "get_round_validators", 404),
    Get(<<"by-id", Txt, "validators">>, "get_round_validators_by_id_alias", 404),
    Get(<<Txt, "validators", Txt>>, "get_round_validator", 404),
    Get(<<"by-id", Txt, "validators", Txt>>, "get_round_validator_by_id_alias", 404)>>

RoundHistory == <<
    Get(<<Txt, "activity">>, "get_round_activity", 404),
    Get(<<Txt, "progress">>, "get_round_progress", 404),
    Post(<<"compare">>, "compare_rounds", 404),
    Get(<<Txt, "timeline">>, "get_round_timeline", 404),
    Get(<<Txt, "summary">>, "get_round_summary", 404)>>

RoundRuns == <<
    Get(<<Txt, "agent-runs">>, "list_round_agent_runs", 500),
    Get(<<"agent-runs", Txt>>, "get_agent_run", 404)>>

RunPages == <<
    Cached(Get(<<>>, "list_agent_runs", 200), "agent_runs_list_v7", 600),
    Get(<<Txt, "get-agent-run">>, "get_agent_run_complete", 404),
    Get(<<Txt>>, "get_agent_run", 404),
    Get(<<Txt, "personas">>, "get_agent_run_personas", 404),
    Get(<<Txt, "stats">>, "get_agent_run_statistics", 404),
    Get(<<Txt, "summary">>, "get_agent_run_summary", 404),
    Get(<<Txt, "tasks">>, "get_agent_run_tasks", 404),
    Get(<<Txt, "timeline">>, "get_agent_run_timeline", 404),
    Get(<<Txt, "logs">>, "get_agent_run_logs", 404),
    Get(<<Txt, "metrics">>, "get_agent_run_metrics", 404),
    Post(<<"compare">>, "compare_agent_runs", 200)>>

EvaluationPages == <<
    Get(<<>>, "list_evaluations", 200),
    Get(<<"export">>, "export_evaluations_by_season", 200),
    Get(<<Txt>>, "get_evaluation", 404),
    Get(<<Txt, "get-evaluation">>, "get_evaluation_complete", 404),
    Get(<<Txt, "task-details">>, "get_evaluation_as_task_details", 404),
    Get(<<Txt, "personas">>, "get_evaluation_personas", 404),
    Get(<<Txt, "results">>, "get_evaluation_results", 404)>>

EvaluationRecords == <<
    Get(<<Txt, "actions">>, "get_evaluation_actions", 404),
    Get(<<Txt, "trajectory">>, "get_evaluation_trajectory", 404),
    Get(<<Txt, "screenshots">>, "get_evaluation_screenshots", 404),
    Get(<<Txt, "logs">>, "get_evaluation_logs", 404),
    Get(<<Txt, "timeline">>, "get_evaluation_timeline", 404),
    Get(<<Txt, "metrics">>, "get_evaluation_metrics", 404),
    Get(<<Txt, "statistics">>, "get_evaluation_statistics", 404),
    Post(<<Txt, "gif">>, "upload_evaluation_gif", 404)>>

ExternalTasks == <<
    Get(<<"by-season">>, "get_tasks_by_season_endpoint", 200),
    Get(<<"with-solutions">>, "get_tasks_with_solutions_endpoint", 200)>>

\* The lists keep their light form only, behind one prefix; the key holds every
\* filter, and include_facets, which tells the search from the list.
TaskLists == <<
    Cached(Get(<<>>, "list_tasks", 200), "tasks_search_light_v2", 60),
    Cached(Get(<<"search">>, "search_tasks", 200), "tasks_search_light_v2, facets", 60)>>

TaskPages == <<
    Get(<<Txt>>, "get_task", 404),
    Get(<<Txt, "details">>, "get_task_details", 404),
    Get(<<Txt, "personas">>, "get_task_personas", 404),
    Get(<<Txt, "statistics">>, "get_task_statistics", 404),
    Get(<<Txt, "actions">>, "get_task_actions", 404),
    Get(<<Txt, "trajectory">>, "get_task_trajectory", 404),
    Get(<<Txt, "screenshots">>, "get_task_screenshots", 404)>>

TaskRecords == <<
    Get(<<Txt, "results">>, "get_task_results", 404),
    Get(<<Txt, "logs">>, "get_task_logs", 404),
    Get(<<Txt, "timeline">>, "get_task_timeline", 404),
    Get(<<Txt, "metrics">>, "get_task_metrics", 404),
    Get(<<"analytics">>, "get_task_analytics", 200),
    Post(<<"compare">>, "compare_tasks", 200)>>

AgentPicks == <<
    Get(<<>>, "list_agents", 200),
    Cached(Get(<<"latest-round-top-miner">>, "get_latest_round_top_miner", 200),
           "latest_round_top_miner_data", 30),
    Get(<<"rounds">>, "get_rounds_data", 200),
    Get(<<"seasons", Txt, "rank">>, "get_season_rank", 404)>>

AgentPages == <<
    Get(<<"round-details">>, "get_miner_round_details", 404),
    Get(<<Num, "historical">>, "get_miner_historical", 404),
    Get(<<Txt>>, "get_agent", 404),
    Get(<<Txt, "performance">>, "get_agent_performance", 404),
    Get(<<Txt, "runs-by-round">>, "get_agent_runs_by_round", 404),
    Get(<<Txt, "runs">>, "list_agent_runs", 404),
    Get(<<Txt, "activity">>, "get_agent_activity", 404)>>

MinerPages == <<
    Get(<<>>, "list_miners", 200),
    Get(<<Num>>, "get_miner", 404),
    Get(<<Num, "performance">>, "get_miner_performance", 404)>>

OverviewBoard == <<
    Cached(Get(<<"metrics">>, "get_overview_metrics", 200), "overview_metrics", 900),
    Cached(Get(<<"validators">>, "get_validators", 200), "validators_list", 180),
    Get(<<"validators", "filter">>, "get_validators_filter", 200),
    Cached(Get(<<"validators", Txt>>, "get_validator_detail", 404), "validator_detail", 180),
    Cached(Get(<<"rounds", "current">>, "get_current_round", 404), "current_round", 300)>>

OverviewLists == <<
    Get(<<"rounds">>, "list_rounds", 200),
    Get(<<"rounds", Txt>>, "get_round_detail", 404),
    Cached(Get(<<"leaderboard">>, "get_leaderboard", 200), "leaderboard", 600),
    Cached(Get(<<"statistics">>, "get_statistics", 200), "statistics", 600),
    Cached(Get(<<"network-status">>, "get_network_status", 200), "network_status", 600),
    Get(<<"recent-activity">>, "get_recent_activity", 200),
    Get(<<"performance-trends">>, "get_performance_trends", 200)>>

MinerDirectory == <<
    Cached(Get(<<>>, "list_miners", 200), "miner_list", 600),
    Get(<<Num>>, "get_miner_detail", 404)>>

SubnetPages == <<Get(<<Txt, "timeline">>, "get_subnet_timeline", 404)>>

ValidatorPages == <<
    Cached(Get(<<Num, "details">>, "get_validator_details", 200), "validator_details", 120)>>

\* What a validator uploads; the two task-log routes refuse with 409.
ValidatorUploads == <<
    Post(<<"auth-check">>, "validator_auth_check", 200),
    Post(<<"runtime-config">>, "sync_runtime_config", 200),
    Post(<<"start">>, "start_round", 200),
    Post(<<Txt, "tasks">>, "set_tasks", 404),
    Post(<<Txt, "agent-runs">>, "start_agent_run", 404),
    Post(<<Txt, "agent-runs", "start">>, "start_agent_run", 404),
    Post(<<Txt, "agent-runs", Txt, "evaluations", "batch">>, "add_evaluations_batch", 404),
    Post(<<Txt, "evaluations", "batch">>, "add_evaluations_batch", 404),
    Post(<<Txt, "agent-runs", Txt, "evaluations">>, "add_evaluation", 404),
    Post(<<Txt, "evaluations">>, "add_evaluation", 404),
    Post(<<Txt, "finish">>, "finish_round", 404),
    Post(<<Txt, "round-log">>, "upload_round_log", 200),
    Post(<<"logs", "upload">>, "upload_round_log", 200)>>

TaskLogUploads == <<Post(<<>>, "upload_task_execution_log", 409)>>

\* A router puts its name in front of its paths.
Router(name, routes) ==
    [i \in 1..Len(routes) |->
        [routes[i] EXCEPT !.path = <<name>> \o @, !.name = <<name, @>>]]

\* The order of registration.
Routes ==
    Router("validator-rounds", ValidatorUploads)
    \o Router("task-logs", TaskLogUploads)
    \o Router("rounds", RoundLists \o RoundsBySeason \o RoundsById \o RoundMembers
                          \o RoundHistory \o RoundRuns)
    \o Router("agent-runs", RunPages)
    \o Router("evaluations", EvaluationPages \o EvaluationRecords)
    \o Router("tasks", ExternalTasks)
    \o Router("tasks", TaskLists \o TaskPages \o TaskRecords)
    \o Router("agents", AgentPicks \o AgentPages)
    \o Router("miners", MinerPages)
    \o Router("overview", OverviewBoard \o OverviewLists)
    \o Router("miner-list", MinerDirectory)
    \o Router("subnets", SubnetPages)
    \o Router("validators", ValidatorPages)

-----------------------------------------------------------------------------
Fits(route, request) ==
    /\ route.method = request.method
    /\ Len(route.path) = Len(request.path)
    /\ \A i \in DOMAIN route.path : route.path[i] \in {Num, Txt, request.path[i]}

NoRoute == [Get(<<>>, <<"none", "none">>, 404) EXCEPT !.method = "NONE"]

RouteOf(request) ==
    LET fitting == SelectSeq(Routes, LAMBDA route : Fits(route, request))
    IN  IF fitting = <<>> THEN NoRoute ELSE Head(fitting)

WellTyped(route, request) ==
    \A i \in DOMAIN route.path : route.path[i] = Num => request.path[i] \in Numbers

\* What the key of a kept answer tells apart, behind its prefix: the parameters.
Arguments(route, request) ==
    [i \in {j \in DOMAIN route.path : route.path[j] \in {Num, Txt}} |-> request.path[i]]

=============================================================================
