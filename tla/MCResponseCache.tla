-------------------------- MODULE MCResponseCache --------------------------
(* Instances of ResponseCache for TLC.                                     *)
EXTENDS ResponseCache, TLC

Sends(method, path, to) == [method |-> method, path |-> path, to |-> to]

\* Two pages of the current round, two parameters of one kept page, a parameter
\* of the wrong type, and an unknown path.
MCPages == {
    Sends("GET", <<"rounds", "current">>, <<"rounds", "get_current_round">>),
    Sends("GET", <<"overview", "rounds", "current">>, <<"overview", "get_current_round">>),
    Sends("GET", <<"validators", "8", "details">>, <<"validators", "get_validator_details">>),
    Sends("GET", <<"validators", "9", "details">>, <<"validators", "get_validator_details">>),
    Sends("GET", <<"validators", "main", "details">>, <<"validators", "get_validator_details">>),
    Sends("GET", <<"validators">>, <<"none", "none">>)}

\* The handlers README.md leaves out.
Unlisted == {
    <<"rounds", "get_round_validators_by_id_alias">>, <<"rounds", "get_round_validator_by_id_alias">>,
    <<"rounds", "list_round_agent_runs">>, <<"rounds", "get_agent_run">>,
    <<"tasks", "get_task_trajectory">>, <<"evaluations", "get_evaluation_trajectory">>,
    <<"tasks", "get_tasks_by_season_endpoint">>}

\* One request for every endpoint of README.md.
MCDocumented ==
    LET listed == {i \in DOMAIN Routes : Routes[i].name \notin Unlisted}
        example(path) == [i \in DOMAIN path |-> IF path[i] \in {Num, Txt} THEN "8" ELSE path[i]]
    IN  {Sends(Routes[i].method, example(Routes[i].path), Routes[i].name) : i \in listed}

\* The endpoints of README.md a handler registered earlier answers: two segments
\* below rounds are taken for a season and a round, and a word for a task id.
Shadowed ==
    {<<"tasks", "get_task_analytics">>}
    \cup {"rounds"} \X {"get_round_basic", "get_round_statistics", "get_round_miners",
                        "get_round_validators", "get_round_activity", "get_round_progress",
                        "get_round_timeline", "get_round_summary"}

ASSUME OthersAreServed ==
    {request.to : request \in {r \in MCDocumented : RouteOf(r).name # r.to}} = Shadowed

\* Also among the documented requests the runs do not send.
ASSUME PrefixesTellEverywhere == PrefixesTell(MCDocumented)

MCSymmetry == Permutations(Clients)

=============================================================================
