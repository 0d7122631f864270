---------------------------- MODULE MediaStorage ----------------------------
(* GIFs of evaluations and execution logs of tasks. An upload is checked   *)
(* against the database, its object is put in the store (S3, or a          *)
(* directory when no bucket is configured), and then a row is made to      *)
(* refer to it. The store and the database share no transaction, and the   *)
(* rounds an upload is about may be started again in between, which        *)
(* deletes everything below them.                                          *)
(*                                                                         *)
(* A request the checks refuse is answered at once and changes nothing: a  *)
(* file that is not a GIF, an unknown evaluation, a round without a row, a *)
(* run that is unknown or of another round.                                *)
EXTENDS Naturals, FiniteSets, Functions

CONSTANTS Clients,      \* requests in flight
          Rounds, Runs, Tasks,
          RunRound,     \* the round of each run
          TaskRound,    \* and of each task
          Labels,       \* the season and round an upload of a log names: part of its key only
          Pool,         \* connections to the database
          None

ASSUME RunsAndTasksHaveARound ==
    RunRound \in [Runs -> Rounds] /\ TaskRound \in [Tasks -> Rounds]

VARIABLES rounds, runs, tasks,  \* ids in round_validators, miner_evaluation_runs, tasks
          row,                  \* the rows that may refer to an object, and to which
          objects,              \* keys in the store
          request,              \* what each client is waiting for
          told,                 \* rows of which an upload was answered with success
          purged,               \* history: rows deleted since they were last written
          left                  \* keys no row has to refer to

vars == <<rounds, runs, tasks, row, objects, request, told, purged, left>>

Gifs == [kind : {"gif"}, task : Tasks, run : Runs]
Logs == [kind : {"log"}, task : Tasks, run : Runs, round : Rounds, label : Labels]

(* The row an upload is for, by its unique key, and the key of its object. *)
Row(up) == <<up.kind, up.task, up.run>>
Key(up) == IF up.kind = "gif" THEN <<"gif", up.task, up.run>>
           ELSE <<"log", up.task, up.run, up.round, up.label>>

(* What a request carries while it is served.                              *)
Steps == {"store", "find", "keep", "update", "insert"}
Serving == [upload : Gifs \cup Logs, step : Steps, tries : {1, 2}]

AllRows == {"gif", "log"} \X Tasks \X Runs
Keys == {Key(up) : up \in Gifs \cup Logs}
Recorded == Range(row) \ {None}

(* None is neither an object's key nor a request.                          *)
ASSUME NoneIsNothing == None \notin Keys \cup Serving

Idle(c) == request[c] = None
Is(c, kind, step) == ~Idle(c) /\ request[c].upload.kind = kind /\ request[c].step = step
At(c, step) == ~Idle(c) /\ request[c].step = step

(* The check of a log leaves its transaction open, and with it the         *)
(* connection, until the answer; the check of a GIF rolls back.            *)
Holds_UntilAnswered(c) == ~Idle(c)                                           \* mutant
Holds(c) == \/ ~Idle(c) /\ request[c].upload.kind = "log"
            \/ Is(c, "gif", "keep") \/ Is(c, "gif", "update")
Free == Cardinality({c \in Clients : Holds(c)}) < Pool

Init ==
    /\ rounds = {} /\ runs = {} /\ tasks = {}
    /\ row = << >>
    /\ objects = {}
    /\ request = [c \in Clients |-> None]
    /\ told = {} /\ purged = {} /\ left = {}

----------------------------------------------------------------------------
(* What the ingestion does meanwhile.                                      *)

(* start_round of a round that is there deletes its runs and tasks, and    *)
(* the foreign keys delete what refers to those.                           *)
Below(v) == {w \in DOMAIN row : TaskRound[w[2]] = v \/ RunRound[w[3]] = v}

StartRound(v) ==
    /\ rounds' = rounds \cup {v}
    /\ runs' = {r \in runs : RunRound[r] # v}
    /\ tasks' = {t \in tasks : TaskRound[t] # v}
    /\ row' = Restrict(row, DOMAIN row \ Below(v))
    /\ purged' = purged \cup Below(v)
    /\ left' = left \cup ({row[w] : w \in Below(v)} \ {None})
    /\ UNCHANGED <<objects, request, told>>

StartRun(r) ==
    /\ RunRound[r] \in rounds
    /\ runs' = runs \cup {r}
    /\ UNCHANGED <<rounds, tasks, row, objects, request, told, purged, left>>

StoreTask(t) ==
    /\ TaskRound[t] \in rounds
    /\ tasks' = tasks \cup {t}
    /\ UNCHANGED <<rounds, runs, row, objects, request, told, purged, left>>

(* A repeated evaluation does not touch the recording.                     *)
Evaluate_Anew(t, r) ==                                                       \* mutant
    /\ t \in tasks /\ r \in runs /\ TaskRound[t] = RunRound[r]
    /\ row' = [w \in DOMAIN row \cup {<<"gif", t, r>>} |->
                 IF w = <<"gif", t, r>> THEN None ELSE row[w]]
    /\ UNCHANGED <<rounds, runs, tasks, objects, request, told, purged, left>>

Evaluate(t, r) ==
    /\ t \in tasks /\ r \in runs /\ TaskRound[t] = RunRound[r]
    /\ row' = [w \in DOMAIN row \cup {<<"gif", t, r>>} |->
                 IF w \in DOMAIN row THEN row[w] ELSE None]
    /\ UNCHANGED <<rounds, runs, tasks, objects, request, told, purged, left>>

----------------------------------------------------------------------------
(* The uploads.                                                            *)

Accept(c, up) ==
    /\ Idle(c) /\ Free
    /\ request' = [request EXCEPT ![c] = [upload |-> up, step |-> "store", tries |-> 1]]
    /\ UNCHANGED <<rounds, runs, tasks, row, objects, told, purged, left>>

CheckGif(c, up) == up \in Gifs /\ Row(up) \in DOMAIN row /\ Accept(c, up)

CheckLog(c, up) ==
    /\ up \in Logs
    /\ up.round \in rounds
    /\ up.run \in runs
    /\ RunRound[up.run] = up.round
    /\ Accept(c, up)

Goes(c, step) == request' = [request EXCEPT ![c].step = step]

(* The store takes the object under its key.                               *)
Store(c) ==
    /\ At(c, "store")
    /\ objects' = objects \cup {Key(request[c].upload)}
    /\ Goes(c, "find")
    /\ UNCHANGED <<rounds, runs, tasks, row, told, purged, left>>

(* 500. Whether the object is there is not known to the client.            *)
Refuse(c) ==
    /\ request' = [request EXCEPT ![c] = None]
    /\ left' = left \cup ({Key(request[c].upload)} \ Recorded)
    /\ UNCHANGED <<rounds, runs, tasks, row, objects, told, purged>>

Succeed(c) ==
    /\ request' = [request EXCEPT ![c] = None]
    /\ told' = told \cup {Row(request[c].upload)}

StoreFails(c) ==
    /\ At(c, "store")
    /\ \E put \in SUBSET {Key(request[c].upload)} :
          /\ objects' = objects \cup put
          /\ left' = left \cup (put \ Recorded)
    /\ request' = [request EXCEPT ![c] = None]
    /\ UNCHANGED <<rounds, runs, tasks, row, told, purged>>

(* The row is read again. A log without one gets one; a GIF whose          *)
(* evaluation is gone is refused, and so is one that gets no connection.   *)
CanQuery(c) == Holds(c) \/ Free

(* What the session will send. Where the row has the values that are set,  *)
(* the ORM has no statement for it; the size of a log may be another.      *)
Follows(up) ==
    IF Row(up) \notin DOMAIN row THEN {"insert"}
    ELSE IF row[Row(up)] # Key(up) THEN {"update"}
    ELSE {"keep"} \cup (IF up.kind = "log" THEN {"update"} ELSE {})

Find(c) ==
    /\ At(c, "find")
    /\ LET up == request[c].upload
           there == Row(up) \in DOMAIN row
       IN  \/ /\ CanQuery(c) /\ (there \/ up.kind = "log")
              /\ \E step \in Follows(up) : Goes(c, step)
              /\ UNCHANGED <<rounds, runs, tasks, row, objects, told, purged, left>>
           \/ /\ up.kind = "gif" /\ (CanQuery(c) => ~there)
              /\ Refuse(c)

(* The row refers to the object and the transaction commits.               *)
Refer(up) ==
    /\ row' = [w \in DOMAIN row \cup {Row(up)} |-> IF w = Row(up) THEN Key(up) ELSE row[w]]
    /\ left' = (left \cup ({row[w] : w \in DOMAIN row \cap {Row(up)}} \ {None})) \ {Key(up)}
    /\ purged' = purged \ {Row(up)}

(* An update finds its row, an insert finds its parents and no such row:   *)
(* otherwise the statement is an error and the upload is refused. Without  *)
(* a statement nothing looks at the row again, and the commit succeeds.    *)
Writable(c) ==
    LET up == request[c].upload
    IN  \/ At(c, "update") /\ Row(up) \in DOMAIN row
        \/ /\ At(c, "insert") /\ Row(up) \notin DOMAIN row
           /\ up.task \in tasks /\ up.run \in runs

Write_Loses(c) ==                                                            \* mutant
    /\ At(c, "keep") \/ At(c, "update") \/ At(c, "insert")
    /\ \/ Writable(c) /\ Succeed(c) /\ Refer(request[c].upload)
       \/ At(c, "keep") /\ Succeed(c) /\ UNCHANGED <<row, purged, left>>
       \/ /\ ~At(c, "keep") /\ ~Writable(c)
          /\ request' = [request EXCEPT ![c] = None]
          /\ UNCHANGED <<row, told, purged, left>>
    /\ UNCHANGED <<rounds, runs, tasks, objects>>

Write(c) ==
    /\ At(c, "keep") \/ At(c, "update") \/ At(c, "insert")
    /\ \/ /\ Writable(c)
          /\ Succeed(c)
          /\ Refer(request[c].upload)
          /\ UNCHANGED <<rounds, runs, tasks, objects>>
       \/ /\ At(c, "keep")
          /\ Succeed(c)
          /\ UNCHANGED <<rounds, runs, tasks, row, objects, purged, left>>
       \/ ~At(c, "keep") /\ ~Writable(c) /\ Refuse(c)

(* The connection is lost while the row is read or written; a commit that  *)
(* was sent may have taken effect. The record of a GIF is tried twice.     *)
MaxTries == 2

ConnectionLost(c) ==
    /\ ~Idle(c) /\ ~At(c, "store")
    /\ LET up == request[c].upload
           again == up.kind = "gif" /\ request[c].tries < MaxTries
       IN  /\ request' = [request EXCEPT ![c] =
                IF again THEN [upload |-> up, step |-> "find", tries |-> @.tries + 1] ELSE None]
           /\ \/ ~At(c, "find") /\ Writable(c) /\ Refer(up)
              \/ /\ left' = IF again THEN left ELSE left \cup ({Key(up)} \ Recorded)
                 /\ UNCHANGED <<row, purged>>
    /\ UNCHANGED <<rounds, runs, tasks, objects, told>>

----------------------------------------------------------------------------
Ingest ==
    \/ \E v \in Rounds : StartRound(v)
    \/ \E r \in Runs : StartRun(r)
    \/ \E t \in Tasks : StoreTask(t)
    \/ \E t \in Tasks, r \in Runs : Evaluate(t, r)

Next ==
    \/ Ingest
    \/ \E c \in Clients :
          \/ \E up \in Gifs : CheckGif(c, up)
          \/ \E up \in Logs : CheckLog(c, up)
          \/ Store(c)
          \/ StoreFails(c)
          \/ Find(c)
          \/ Write(c)
          \/ ConnectionLost(c)

(* The database answers, or its connection is lost; the store may hang.    *)
Spec == Init /\ [][Next]_vars /\ \A c \in Clients : WF_vars(Find(c) \/ Write(c))

----------------------------------------------------------------------------
(* Rows, references, objects and requests are of their kind.               *)
TypeOK ==
    /\ DOMAIN row \subseteq AllRows
    /\ Range(row) \subseteq Keys \cup {None}
    /\ objects \subseteq Keys /\ left \subseteq Keys
    /\ request \in [Clients -> Serving \cup {None}]
    /\ told \subseteq AllRows /\ purged \subseteq AllRows

(* An upload that was answered with success is referred to, unless the       *)
(* round was started again since its row was written: no repeated            *)
(* evaluation, concurrent upload or retry makes the row forget. (A repeated  *)
(* upload that finds its row as it should be, and has it deleted before it   *)
(* commits, is answered with success as well: its row is among the purged.)  *)
(* And every reference leads to an object that was put in the store,         *)
(* whatever failed or was started again between the two.                     *)
(* evaluations.py:380, task_logs.py:198.                                     *)
ReferencesHold ==
    /\ \A w \in told \ purged : w \in DOMAIN row /\ row[w] # None
    /\ Recorded \subseteq objects

(* Nothing is lost silently: an object no row refers to belongs to an      *)
(* upload that is still being served, or that was refused, or replaced     *)
(* under another key, or whose round was started again.                    *)
OrphansAreRefused ==
    \A key \in objects : \/ key \in Recorded \cup left
                         \/ \E c \in Clients : ~Idle(c) /\ Key(request[c].upload) = key

(* A store that hangs does not take the database with it as long as no log *)
(* is being uploaded: uploads of GIFs hold no connection meanwhile, which  *)
(* is what _reset_session_transaction (evaluations.py:32) is for.          *)
GifsLeaveTheDatabase ==
    []<>Free \/ <>[](\E c \in Clients : Is(c, "log", "store"))

=============================================================================
