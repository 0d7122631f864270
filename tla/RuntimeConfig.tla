--------------------------- MODULE RuntimeConfig ---------------------------
(***************************************************************************)
(* The season/round configuration: one row of config_season_round, written *)
(* for the main validator only (the runtime-config endpoint, and the       *)
(* metadata of an official finish), and the copy each API process keeps in *)
(* a module variable.                                                      *)
(*                                                                         *)
(* upsert_config_season_round sets the copy of the process that runs it    *)
(* after the flush and before the commit; no other process is told. The    *)
(* commit may fail, as may any statement between the upsert and it. The    *)
(* upsert locks the row, so a second writer waits for the first one to end *)
(* (its upsert is then an action of its own, after the other's end).       *)
(*                                                                         *)
(* A request of anybody but the main validator changes nothing here and is *)
(* not an action; nor is a finish without the three settings.              *)
(***************************************************************************)
EXTENDS Integers

CONSTANTS
    Servers,        \* the API processes
    Validators,     \* the validators that call the API
    Main,           \* config_app_runtime.main_validator_uid
    Configs,        \* the configurations the payloads carry
    None            \* no configuration

ASSUME ConfigAssumption == None \notin Configs \cup Validators

VARIABLES
    row,        \* the committed row of config_season_round
    copy,       \* _config_season_round_cache of each process
    pending,    \* the configuration a process upserted and did not commit yet
    sent,       \* history: what the main validator sent through each process
    past        \* history: what has ever been the committed row

configVars == <<row, copy, pending, sent, past>>

ConfigInit ==
    /\ row \in {None} \cup Configs
    /\ copy = [w \in Servers |-> row]       \* on_startup
    /\ pending = [w \in Servers |-> None]
    /\ sent = [w \in Servers |-> {}]
    /\ past = {row} \ {None}

-----------------------------------------------------------------------------
\* upsert_config_season_round, in the transaction of its caller.
Upsert(w, v, c) ==
    /\ v = Main
    /\ \A u \in Servers : pending[u] = None
    /\ pending' = [pending EXCEPT ![w] = c]
    /\ copy' = [copy EXCEPT ![w] = c]
    /\ sent' = [sent EXCEPT ![w] = @ \cup {c}]
    /\ UNCHANGED <<row, past>>

Commit(w) ==
    /\ pending[w] # None
    /\ row' = pending[w]
    /\ past' = past \cup {pending[w]}
    /\ pending' = [pending EXCEPT ![w] = None]
    /\ UNCHANGED <<copy, sent>>

\* A later statement or the commit fails: the row is rolled back, the copy is not.
RollBack(w) ==
    /\ pending[w] # None
    /\ pending' = [pending EXCEPT ![w] = None]
    /\ UNCHANGED <<row, copy, sent, past>>

\* on_startup: load the row, or start without a configuration.
RestartConfig_Dirty(w) ==   \* mutant
    /\ \E u \in Servers : copy' = [copy EXCEPT ![w] = IF pending[u] = None THEN row ELSE pending[u]]
    /\ pending' = [pending EXCEPT ![w] = None]
    /\ UNCHANGED <<row, sent, past>>

RestartConfig(w) ==
    /\ copy' = [copy EXCEPT ![w] = row]
    /\ pending' = [pending EXCEPT ![w] = None]
    /\ UNCHANGED <<row, sent, past>>

\* The endpoint: header and payload name the same hotkey, and
\* config_app_runtime names Main before the upsert asks it.
SyncRuntimeConfig(w, v, c) == Upsert(w, v, c)

\* An official finish whose round metadata carry the three settings; whatever
\* the upsert raises is swallowed.
FinishMetadata(w, v, c) == v = Main /\ Upsert(w, v, c)

ConfigNext ==
    \E w \in Servers :
        \/ \E v \in Validators, c \in Configs :
               SyncRuntimeConfig(w, v, c) \/ FinishMetadata(w, v, c)
        \/ Commit(w) \/ RollBack(w)

-----------------------------------------------------------------------------
ConfigTypeOK ==
    /\ row \in {None} \cup Configs
    /\ copy \in [Servers -> {None} \cup Configs]
    /\ pending \in [Servers -> {None} \cup Configs]
    /\ sent \in [Servers -> SUBSET Configs]
    /\ past \subseteq Configs

\* What a process believes the configuration to be was committed at some time,
\* or is an upload of the main validator through that very process.
CopyIsPastOrOwn ==
    \A w \in Servers : copy[w] \in {None} \cup past \cup sent[w]
=============================================================================
