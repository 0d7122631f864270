--------------------------- MODULE ResponseCache ---------------------------
(* The HTTP interface at work: a request is routed, answered from Redis    *)
(* if an answer is kept for it, and otherwise computed from the data it    *)
(* reads and kept. The keeping is the decorator of redis_cache.py; two     *)
(* handlers do the same by hand. Handlers run concurrently in any number   *)
(* of processes, and Redis may fail or be cleared at any moment.           *)
(* The database is a number of rows, and a handler that finds none has     *)
(* nothing to show. Time counts units of Unit seconds.                     *)
EXTENDS ApiRoutes

CONSTANTS Clients, Requests, Unit, MaxTime, MaxRows,
          Patience,  \* bound on the time between reading the data and answering
          None

VARIABLES now, rows,
          stored,    \* when each of the rows was stored
          kept,      \* Redis: the answer behind each key, and until when
          asking,    \* the requests being computed
          reply      \* the reply this step has given, if it gave one

vars == <<now, rows, stored, kept, asking, reply>>

\* A request names the handler its client means.
ASSUME RequestsAreAddressed ==
    \A request \in Requests : DOMAIN request = {"method", "path", "to"}

Route == [request \in Requests |-> RouteOf(request)]

\* No two handlers keep answers under one prefix.
PrefixesTell(requests) ==
    \A r, s \in requests :
        RouteOf(r).prefix = RouteOf(s).prefix /\ RouteOf(r).prefix # "" => RouteOf(r) = RouteOf(s)

\* One prefix, one handler; a lifetime is a number of seconds.
ASSUME CacheAssumption ==
    /\ PrefixesTell(Requests)
    /\ \A request \in Requests : RouteOf(request).ttl \in Nat
    /\ {MaxTime, MaxRows, Patience} \subseteq Nat /\ Unit \in Nat \ {0}

Args(request) == Arguments(Route[request], request)

\* The key: the prefix of the decorator and a hash of the arguments but the session.
Key_PrefixOnly(request) == <<Route[request].prefix>>  \* mutant
Key(request) == <<Route[request].prefix, Args(request)>>

\* setex with the ttl the decorator was given.
Lifetime_Default(route) == IF route.ttl < 300 THEN 300 \div Unit ELSE route.ttl \div Unit  \* mutant
Lifetime(route) == route.ttl \div Unit

Init ==
    /\ now = 0
    /\ rows = 0
    /\ stored = << >>
    /\ kept = << >>
    /\ asking = [c \in Clients |-> None]
    /\ reply = None

Reply(request, status, answer, known) ==
    [request |-> request, by |-> Route[request].name, status |-> status,
     answer |-> answer, at |-> now, known |-> known]

Idle(c) == asking[c] = None

\* No route fits: 404. The types of the parameters do not fit: 422.
Refuse(c, request) ==
    /\ Idle(c)
    /\ LET route == Route[request]
       IN  \/ /\ route = NoRoute
              /\ reply' = Reply(request, 404, None, rows)
           \/ /\ route # NoRoute
              /\ ~WellTyped(route, request)
              /\ reply' = Reply(request, 422, None, rows)
    /\ UNCHANGED <<now, rows, stored, kept, asking>>

Served(request) == Route[request] # NoRoute /\ WellTyped(Route[request], request)

IsKept(request) == Route[request].prefix # "" /\ Key(request) \in DOMAIN kept

Hit(c, request) ==
    /\ Idle(c)
    /\ Served(request)
    /\ IsKept(request)
    /\ LET entry == kept[Key(request)]
       IN  reply' = Reply(request, entry.status, entry.answer, rows)
    /\ UNCHANGED <<now, rows, stored, kept, asking>>

\* Nothing is kept, or Redis does not answer.
Miss(c, request) ==
    /\ Idle(c)
    /\ Served(request)
    /\ asking' = [asking EXCEPT ![c] = [request |-> request, known |-> rows, answer |-> None]]
    /\ reply' = None
    /\ UNCHANGED <<now, rows, stored, kept>>

ReadRows(c) ==
    /\ ~Idle(c)
    /\ asking[c].answer = None
    /\ LET request == asking[c].request
           route == Route[request]
       IN  asking' = [asking EXCEPT ![c].answer =
                          [by |-> route.name, args |-> Args(request),
                           rows |-> rows, at |-> now]]
    /\ reply' = None
    /\ UNCHANGED <<now, rows, stored, kept>>

\* What a handler answers when it has read nothing, and what is kept then: an
\* exception passes through the decorator, an empty payload is kept like any
\* other, and the redirect of agents.py is not kept without a miner.
Status(route, answer) == IF answer.rows = 0 THEN route.missing ELSE 200

Keeps_Misses(route, answer) == route.prefix # ""  \* mutant
Keeps(route, answer) ==
    /\ route.prefix # ""
    /\ Status(route, answer) = 200
    /\ route.prefix = "latest_round_top_miner_data" => answer.rows > 0

Answer(c) ==
    /\ ~Idle(c)
    /\ asking[c].answer # None
    /\ LET request == asking[c].request
           answer == asking[c].answer
           route == Route[request]
           status == Status(route, answer)
           entry == [status |-> status, answer |-> answer, until |-> now + Lifetime(route)]
       IN  /\ reply' = Reply(request, status, answer, asking[c].known)
           /\ \/ /\ Keeps(route, answer)
                 /\ kept' = [k \in DOMAIN kept \cup {Key(request)} |->
                                IF k = Key(request) THEN entry ELSE kept[k]]
              \/ UNCHANGED kept  \* not kept, or Redis did not take it
    /\ asking' = [asking EXCEPT ![c] = None]
    /\ UNCHANGED <<now, rows, stored>>

Store ==
    /\ rows < MaxRows
    /\ rows' = rows + 1
    /\ stored' = Append(stored, now)
    /\ reply' = None
    /\ UNCHANGED <<now, kept, asking>>

\* POST /debug/cache-clear, a flush or a restart of Redis.
Clear ==
    /\ kept # << >>
    /\ kept' = << >>
    /\ reply' = None
    /\ UNCHANGED <<now, rows, stored, asking>>

Waiting(c) == ~Idle(c) /\ asking[c].answer # None

Tick ==
    /\ now < MaxTime
    /\ \A c \in Clients : Waiting(c) => now < asking[c].answer.at + Patience
    /\ now' = now + 1
    /\ kept' = [k \in {j \in DOMAIN kept : now + 1 < kept[j].until} |-> kept[k]]
    /\ reply' = None
    /\ UNCHANGED <<rows, stored, asking>>

Next ==
    \/ Tick \/ Store \/ Clear
    \/ \E c \in Clients :
        \/ ReadRows(c) \/ Answer(c)
        \/ \E request \in Requests : Refuse(c, request) \/ Hit(c, request) \/ Miss(c, request)

Spec == Init /\ [][Next]_vars

-----------------------------------------------------------------------------
(* Properties                                                              *)

Replies == {reply} \ {None}

\* An answer, kept or computed, is the answer of the handler the client means
\* to the client's own parameters: routes registered earlier, answers kept under
\* a prefix another handler uses, and other parameters never stand in for it.
OwnAnswer ==
    \A r \in Replies :
        /\ r.by = r.request.to
        /\ r.answer # None =>
             /\ r.answer.by = r.request.to
             /\ r.answer.args = Args(r.request)

\* What a client is shown was in the database no longer ago than the lifetime of
\* the kept answer and the time it took to compute, whichever process computed
\* it, whoever stored it last and however Redis failed in between.
AnswersAreRecent ==
    \A r \in Replies : r.answer # None =>
        \/ r.at <= r.answer.at + Patience
        \/ r.at < r.answer.at + Patience + Route[r.request].ttl \div Unit

\* What a client is not shown is new. The status 404 is never remembered: who gets
\* it asked before the thing was stored, whatever others were told before. An
\* empty or a shorter answer with status 200 is remembered like any other: what it
\* misses was stored no longer ago than the lifetime of the kept answer and the
\* time it took to compute.
FoundOnceThere ==
    \A r \in Replies :
        /\ r.status = 404 /\ Route[r.request] # NoRoute => r.known = 0
        /\ r.answer # None => \A n \in 1..rows : n > r.answer.rows =>
             \/ r.at <= stored[n] + Patience
             \/ r.at < stored[n] + Patience + Route[r.request].ttl \div Unit

=============================================================================
