-------------------------- MODULE MediaStorage_proofs --------------------------
(* Theorems of MediaStorage, for any number of clients, rounds, runs, tasks, *)
(* labels and connections: what was acknowledged is there, and nothing in    *)
(* the store is lost silently.                                               *)
EXTENDS MediaStorage, TLAPS

(* A request that is past the store has put its object there: this is what   *)
(* lets its row refer to it later.                                           *)
StoredFirst ==
    \A c \in Clients :
        ~Idle(c) /\ request[c].step # "store" => Key(request[c].upload) \in objects

(* Whose object no row refers to is past the store: a second upload of the   *)
(* same object that the store refuses says nothing of the first one.         *)
Serves(c, key) == ~Idle(c) /\ request[c].step # "store" /\ Key(request[c].upload) = key

OrphansAreServed ==
    \A key \in objects : key \in Recorded \cup left \/ \E c \in Clients : Serves(c, key)

(* A row that is there for an upload, or was deleted since it was written.   *)
Known(w) == w \in purged \/ (w \in DOMAIN row /\ row[w] # None)

(* Who found the row as it should be, and sends nothing, is right about it   *)
(* until it is deleted.                                                      *)
Keeps(c) == ~Idle(c) /\ request[c].step = "keep"
KeptRows ==
    \A c \in Clients :
        Keeps(c) => /\ Known(Row(request[c].upload))
                    /\ Key(request[c].upload) \in Recorded \cup left

IInv == TypeOK /\ StoredFirst /\ ReferencesHold /\ KeptRows /\ OrphansAreServed

------------------------------------------------------------------------------
(* Keys and rows of uploads are of their kind.                               *)
LEMMA UploadTypes ==
    ASSUME NEW up \in Gifs \cup Logs
    PROVE  Key(up) \in Keys /\ Key(up) # None /\ Row(up) \in AllRows
<1>1. Key(up) \in Keys BY DEF Keys
<1>2. Row(up) \in AllRows BY DEF Row, AllRows, Gifs, Logs
<1> QED BY <1>1, <1>2, NoneIsNothing

(* Of a request that is served, the upload is one and the record not None.   *)
LEMMA RequestTypes ==
    ASSUME TypeOK, NEW c \in Clients, ~Idle(c)
    PROVE  /\ request[c] \in Serving
           /\ request[c].upload \in Gifs \cup Logs
           /\ \A step \in Steps :
                  [request[c] EXCEPT !.step = step] \in Serving
<1>1. request[c] \in Serving BY DEF TypeOK, Idle
<1> QED BY <1>1 DEF Serving, Steps

(* A request that changes its step keeps its upload, and the others theirs.  *)
LEMMA GoesKeepsUploads ==
    ASSUME TypeOK, NEW c \in Clients, ~Idle(c),
           NEW step \in Steps, Goes(c, step)
    PROVE  /\ request' \in [Clients -> Serving \cup {None}]
           /\ request'[c] # None /\ request'[c].step = step
           /\ request'[c].upload = request[c].upload
           /\ \A d \in Clients \ {c} : request'[d] = request[d]
<1>1. request[c] \in Serving BY RequestTypes
<1>2. request' = [request EXCEPT ![c] = [request[c] EXCEPT !.step = step]]
  BY <1>1 DEF Goes, TypeOK
<1>3. request'[c] = [request[c] EXCEPT !.step = step] BY <1>2 DEF TypeOK
<1>4. request'[c] \in Serving BY <1>3, RequestTypes
<1>5. request'[c] # None BY <1>4, NoneIsNothing
<1>6. request'[c].step = step /\ request'[c].upload = request[c].upload
  BY <1>1, <1>3 DEF Serving
<1>7. request' \in [Clients -> Serving \cup {None}] BY <1>2, <1>3, <1>4 DEF TypeOK
<1> QED BY <1>2, <1>5, <1>6, <1>7 DEF TypeOK

(* What a row refers to after Refer: the new key, or what it did before.     *)
LEMMA ReferIs ==
    ASSUME TypeOK, NEW up \in Gifs \cup Logs, Refer(up)
    PROVE  /\ DOMAIN row' = DOMAIN row \cup {Row(up)}
           /\ row'[Row(up)] = Key(up)
           /\ \A w \in DOMAIN row \ {Row(up)} : row'[w] = row[w]
           /\ Recorded' \subseteq Recorded \cup {Key(up)}
           /\ Key(up) \in Recorded'
           /\ Recorded \cup left \subseteq Recorded' \cup left'
           /\ left' \subseteq left \cup Recorded
           /\ \A w : Known(w) => Known(w)'
<1>1. /\ DOMAIN row' = DOMAIN row \cup {Row(up)}
      /\ row'[Row(up)] = Key(up)
      /\ \A w \in DOMAIN row \ {Row(up)} : row'[w] = row[w]
  BY DEF Refer
<1>2. Key(up) # None BY UploadTypes
<1>3. Recorded' \subseteq Recorded \cup {Key(up)} BY <1>1 DEF Recorded, Range
<1>4. Key(up) \in Recorded' BY <1>1, <1>2 DEF Recorded, Range
<1>5. left' = (left \cup ({row[w] : w \in DOMAIN row \cap {Row(up)}} \ {None})) \ {Key(up)}
  BY DEF Refer
<1>6. left' \subseteq left \cup Recorded BY <1>5 DEF Recorded, Range
<1>7. ASSUME NEW key \in Recorded PROVE key \in Recorded' \cup left'
  <2>1. PICK w \in DOMAIN row : row[w] = key /\ key # None BY <1>7 DEF Recorded, Range
  <2>2. CASE w = Row(up) BY <2>1, <2>2, <1>4, <1>5
  <2>3. CASE w # Row(up) BY <2>1, <2>3, <1>1 DEF Recorded, Range
  <2> QED BY <2>2, <2>3
<1>8. left \subseteq Recorded' \cup left' BY <1>4, <1>5
<1>9. purged' = purged \ {Row(up)} BY DEF Refer
<1>10. \A w : Known(w) => Known(w)' BY <1>1, <1>2, <1>9 DEF Known
<1> QED BY <1>1, <1>3, <1>4, <1>6, <1>7, <1>8, <1>10

(* A request that ends leaves the others as they are.                        *)
LEMMA EndsKeepsOthers ==
    ASSUME TypeOK, NEW c \in Clients, request' = [request EXCEPT ![c] = None]
    PROVE  /\ request' \in [Clients -> Serving \cup {None}]
           /\ request'[c] = None
           /\ \A d \in Clients \ {c} : request'[d] = request[d]
BY DEF TypeOK

(* The orphans of a step that keeps the objects, the references and the keys *)
(* that are left, but for one key of one client, which it accounts for.      *)
LEMMA OrphansStay ==
    ASSUME OrphansAreServed, NEW c \in Clients,
           \A d \in Clients \ {c} : request'[d] = request[d],
           Recorded \cup left \subseteq Recorded' \cup left',
           \A key \in objects' \ objects : key \in Recorded' \cup left' \/ Serves(c, key)',
           request[c] # None /\ request[c].step # "store" =>
               \/ Key(request[c].upload) \in Recorded' \cup left'
               \/ /\ request'[c] # None /\ request'[c].step # "store"
                  /\ request'[c].upload = request[c].upload
    PROVE  OrphansAreServed'
<1> SUFFICES ASSUME NEW key \in objects', key \notin Recorded' \cup left'
             PROVE  \E d \in Clients : Serves(d, key)'
  BY DEF OrphansAreServed
<1>1. CASE key \notin objects BY <1>1
<1>2. CASE key \in objects
  <2>1. PICK d \in Clients : Serves(d, key) BY <1>2 DEF OrphansAreServed
  <2>2. CASE d = c BY <2>1, <2>2 DEF Serves, Idle
  <2>3. CASE d # c BY <2>1, <2>3 DEF Serves, Idle
  <2> QED BY <2>2, <2>3
<1> QED BY <1>1, <1>2

(* Nor does who keeps a row come to be wrong about it.                       *)
LEMMA KeptStay ==
    ASSUME KeptRows, NEW c \in Clients,
           \A d \in Clients \ {c} : request'[d] = request[d],
           Recorded \cup left \subseteq Recorded' \cup left',
           \A w : Known(w) => Known(w)',
           request'[c] # None /\ request'[c].step = "keep" =>
               /\ Known(Row(request[c].upload))'
               /\ Key(request'[c].upload) \in Recorded' \cup left'
    PROVE  KeptRows'
<1> SUFFICES ASSUME NEW d \in Clients, Keeps(d)'
             PROVE  /\ Known(Row(request[d].upload))'
                    /\ Key(request'[d].upload) \in Recorded' \cup left'
  BY DEF KeptRows
<1>1. CASE d = c
  <2>1. request'[c] # None /\ request'[c].step = "keep" BY <1>1 DEF Keeps, Idle
  <2> QED BY <1>1, <2>1
<1>2. CASE d # c
  <2>1. request'[d] = request[d] BY <1>2
  <2>2. Keeps(d) BY <2>1 DEF Keeps, Idle
  <2>3. Known(Row(request[d].upload)) /\ Key(request[d].upload) \in Recorded \cup left
    BY <2>2 DEF KeptRows
  <2>4. \A w : w = Row(request[d].upload) => Known(w)' BY <2>3
  <2>5. Row(request'[d].upload) = Row(request[d].upload) BY <2>1
  <2>6. Known(Row(request[d].upload))' BY <2>4, <2>5 DEF Known
  <2> QED BY <2>1, <2>3, <2>6
<1> QED BY <1>1, <1>2

------------------------------------------------------------------------------
(* One lemma per kind of step.                                               *)

(* Initially nothing is stored, referred to or served.                       *)
LEMMA InitHolds == Init => IInv
BY DEF Init, IInv, TypeOK, StoredFirst, ReferencesHold, KeptRows, Keeps, OrphansAreServed,
       Recorded, Range, Idle

(* A round that starts over deletes the rows below it; their keys are left.  *)
LEMMA StartRoundKeeps ==
    ASSUME IInv, NEW v \in Rounds, StartRound(v)
    PROVE  IInv'
<1>t. TypeOK /\ StoredFirst /\ ReferencesHold /\ KeptRows /\ OrphansAreServed BY DEF IInv
<1>1. /\ DOMAIN row' = DOMAIN row \ Below(v)
      /\ \A w \in DOMAIN row' : row'[w] = row[w]
  BY DEF StartRound, Restrict
<1>2. Recorded' \subseteq Recorded BY <1>1 DEF Recorded, Range
<1>3. Recorded \cup left \subseteq Recorded' \cup left'
  <2> SUFFICES ASSUME NEW key \in Recorded PROVE key \in Recorded' \cup left'
    BY DEF StartRound
  <2>1. PICK w \in DOMAIN row : row[w] = key /\ key # None BY DEF Recorded, Range
  <2>2. CASE w \in Below(v) BY <2>1, <2>2 DEF StartRound
  <2>3. CASE w \notin Below(v) BY <2>1, <2>3, <1>1 DEF Recorded, Range
  <2> QED BY <2>2, <2>3
<1>4. Below(v) \subseteq DOMAIN row BY DEF Below
<1>5. TypeOK'
  <2>1. left' \subseteq Keys BY <1>t, <1>4 DEF StartRound, TypeOK, Range
  <2>2. Range(row') \subseteq Keys \cup {None} BY <1>t, <1>1 DEF TypeOK, Range
  <2>3. DOMAIN row' \subseteq AllRows /\ purged' \subseteq AllRows
    BY <1>t, <1>1, <1>4 DEF TypeOK, StartRound
  <2> QED BY <1>t, <2>1, <2>2, <2>3 DEF TypeOK, StartRound
<1>6. StoredFirst' BY <1>t DEF StoredFirst, StartRound, Idle
<1>7. ReferencesHold' BY <1>t, <1>1, <1>2 DEF ReferencesHold, StartRound
<1>8. OrphansAreServed' BY <1>t, <1>3 DEF OrphansAreServed, Serves, StartRound, Idle
<1>9. \A w : Known(w) => Known(w)' BY <1>1 DEF Known, StartRound
<1>10. KeptRows'
  <2>1. request' = request BY DEF StartRound
  <2>2. \A d \in Clients : Keeps(d)' => Keeps(d) BY <2>1 DEF Keeps, Idle
  <2>3. \A d \in Clients : Known(Row(request[d].upload)) => Known(Row(request[d].upload))'
    BY <2>1, <1>9 DEF Known
  <2> QED BY <1>t, <1>3, <2>1, <2>2, <2>3 DEF KeptRows
<1> QED BY <1>5, <1>6, <1>7, <1>8, <1>10 DEF IInv

(* An evaluation adds a row that refers to nothing yet.                      *)
LEMMA EvaluateKeeps ==
    ASSUME IInv, NEW t \in Tasks, NEW r \in Runs, Evaluate(t, r)
    PROVE  IInv'
<1>t. TypeOK /\ StoredFirst /\ ReferencesHold /\ KeptRows /\ OrphansAreServed BY DEF IInv
<1>1. /\ DOMAIN row' = DOMAIN row \cup {<<"gif", t, r>>}
      /\ \A w \in DOMAIN row : row'[w] = row[w]
      /\ \A w \in DOMAIN row' \ DOMAIN row : row'[w] = None
  BY DEF Evaluate
<1>2. Recorded' = Recorded BY <1>1 DEF Recorded, Range
<1>3. <<"gif", t, r>> \in AllRows BY DEF AllRows
<1>4. TypeOK'
  <2>1. Range(row') \subseteq Keys \cup {None} BY <1>t, <1>1 DEF TypeOK, Range
  <2> QED BY <1>t, <1>1, <1>3, <2>1 DEF TypeOK, Evaluate
<1>5. StoredFirst' BY <1>t DEF StoredFirst, Evaluate, Idle
<1>6. ReferencesHold' BY <1>t, <1>1, <1>2 DEF ReferencesHold, Evaluate
<1>7. OrphansAreServed' BY <1>t, <1>2 DEF OrphansAreServed, Serves, Evaluate, Idle
<1>8. \A w : Known(w) => Known(w)' BY <1>1 DEF Known, Evaluate
<1>9. KeptRows'
  <2>1. request' = request /\ left' = left BY DEF Evaluate
  <2>2. \A d \in Clients : Keeps(d)' => Keeps(d) BY <2>1 DEF Keeps, Idle
  <2>3. \A d \in Clients : Known(Row(request[d].upload)) => Known(Row(request[d].upload))'
    BY <2>1, <1>8 DEF Known
  <2> QED BY <1>t, <1>2, <2>1, <2>2, <2>3 DEF KeptRows
<1> QED BY <1>4, <1>5, <1>6, <1>7, <1>9 DEF IInv

(* A request that passes the check is about to store.                        *)
LEMMA AcceptKeeps ==
    ASSUME IInv, NEW c \in Clients, NEW up \in Gifs \cup Logs, Accept(c, up)
    PROVE  IInv'
<1>t. TypeOK /\ StoredFirst /\ ReferencesHold /\ KeptRows /\ OrphansAreServed BY DEF IInv
<1> DEFINE new == [upload |-> up, step |-> "store", tries |-> 1]
<1>1. new \in Serving /\ new # None BY NoneIsNothing DEF Serving, Steps
<1>2. /\ request[c] = None /\ request' = [request EXCEPT ![c] = new]
      /\ request' \in [Clients -> Serving \cup {None}]
  BY <1>t, <1>1 DEF Accept, Idle, TypeOK
<1>3. request'[c] = new /\ \A d \in Clients \ {c} : request'[d] = request[d]
  BY <1>t, <1>2 DEF TypeOK
<1>4. TypeOK' BY <1>t, <1>2 DEF TypeOK, Accept
<1>5. StoredFirst' BY <1>t, <1>3 DEF StoredFirst, Accept, Idle
<1>6. ReferencesHold' BY <1>t DEF ReferencesHold, Accept, Recorded
<1>7. OrphansAreServed' BY <1>t, <1>2, <1>3, OrphansStay DEF Accept, Recorded
<1>8. KeptRows' BY <1>t, <1>3, KeptStay DEF Accept, Recorded, Known
<1> QED BY <1>4, <1>5, <1>6, <1>7, <1>8 DEF IInv

(* A refusal keeps everything but the request and accounts for its key.      *)
LEMMA RefuseKeeps ==
    ASSUME IInv, NEW c \in Clients, ~Idle(c), Refuse(c)
    PROVE  IInv'
<1>t. TypeOK /\ StoredFirst /\ ReferencesHold /\ KeptRows /\ OrphansAreServed BY DEF IInv
<1>1. /\ request' \in [Clients -> Serving \cup {None}]
      /\ request'[c] = None
      /\ \A d \in Clients \ {c} : request'[d] = request[d]
  BY <1>t, EndsKeepsOthers DEF Refuse
<1>2. Key(request[c].upload) \in Keys BY <1>t, RequestTypes, UploadTypes
<1>3. TypeOK' BY <1>t, <1>1, <1>2 DEF TypeOK, Refuse
<1>4. StoredFirst' BY <1>t, <1>1 DEF StoredFirst, Refuse, Idle
<1>5. ReferencesHold' BY <1>t DEF ReferencesHold, Refuse, Recorded
<1>6. OrphansAreServed' BY <1>t, <1>1, OrphansStay DEF Refuse, Recorded
<1>7. KeptRows' BY <1>t, <1>1, KeptStay DEF Refuse, Recorded, Known
<1> QED BY <1>3, <1>4, <1>5, <1>6, <1>7 DEF IInv

(* The object that is put is served by its request.                          *)
LEMMA StoreKeeps ==
    ASSUME IInv, NEW c \in Clients, Store(c)
    PROVE  IInv'
<1>t. TypeOK /\ StoredFirst /\ ReferencesHold /\ KeptRows /\ OrphansAreServed BY DEF IInv
<1> DEFINE key == Key(request[c].upload)
<1>1. ~Idle(c) /\ Goes(c, "find") /\ objects' = objects \cup {key} BY DEF Store, At
<1>2. /\ request' \in [Clients -> Serving \cup {None}]
      /\ request'[c] # None /\ request'[c].step = "find"
      /\ request'[c].upload = request[c].upload
      /\ \A d \in Clients \ {c} : request'[d] = request[d]
  <2>1. "find" \in Steps BY DEF Steps
  <2> HIDE DEF key
  <2> QED BY <1>t, <1>1, <2>1, GoesKeepsUploads
<1>3. key \in Keys BY <1>t, <1>1, RequestTypes, UploadTypes
<1>4. TypeOK' BY <1>t, <1>1, <1>2, <1>3 DEF TypeOK, Store
<1>5. StoredFirst' BY <1>t, <1>1, <1>2 DEF StoredFirst, Idle
<1>6. ReferencesHold' BY <1>t, <1>1 DEF ReferencesHold, Store, Recorded
<1>7. OrphansAreServed'
  <2>1. Serves(c, key)' BY <1>2 DEF Serves, Idle
  <2>2. request[c].step = "store" BY DEF Store, At
  <2> QED BY <1>t, <1>1, <1>2, <2>1, <2>2, OrphansStay DEF Store, Recorded
<1>8. KeptRows' BY <1>t, <1>2, KeptStay DEF Store, Recorded, Known
<1> QED BY <1>4, <1>5, <1>6, <1>7, <1>8 DEF IInv

(* Where the store answers with an error, the key is left if it was put.     *)
LEMMA StoreFailsKeeps ==
    ASSUME IInv, NEW c \in Clients, StoreFails(c)
    PROVE  IInv'
<1>t. TypeOK /\ StoredFirst /\ ReferencesHold /\ KeptRows /\ OrphansAreServed BY DEF IInv
<1> DEFINE key == Key(request[c].upload)
<1>1. ~Idle(c) BY DEF StoreFails, At
<1>2. PICK put \in SUBSET {key} : objects' = objects \cup put /\ left' = left \cup (put \ Recorded)
  BY DEF StoreFails
<1>3. /\ request' \in [Clients -> Serving \cup {None}]
      /\ request'[c] = None
      /\ \A d \in Clients \ {c} : request'[d] = request[d]
  BY <1>t, EndsKeepsOthers DEF StoreFails
<1>4. key \in Keys BY <1>t, <1>1, RequestTypes, UploadTypes
<1>5. TypeOK' BY <1>t, <1>2, <1>3, <1>4 DEF TypeOK, StoreFails
<1>6. StoredFirst' BY <1>t, <1>2, <1>3 DEF StoredFirst, Idle
<1>7. ReferencesHold' BY <1>t, <1>2 DEF ReferencesHold, StoreFails, Recorded
<1>8. OrphansAreServed'
  <2>1. Recorded' = Recorded BY DEF StoreFails, Recorded
  <2>2. put \subseteq Recorded' \cup left' BY <1>2, <2>1
  <2>3. request[c].step = "store" BY DEF StoreFails, At
  <2> QED BY <1>t, <1>2, <1>3, <2>1, <2>2, <2>3, OrphansStay
<1>9. KeptRows' BY <1>t, <1>2, <1>3, KeptStay DEF StoreFails, Recorded, Known
<1> QED BY <1>5, <1>6, <1>7, <1>8, <1>9 DEF IInv

(* The search for the row refuses, or goes on to write.                      *)
LEMMA FindKeeps ==
    ASSUME IInv, NEW c \in Clients, Find(c)
    PROVE  IInv'
<1>t. TypeOK /\ StoredFirst /\ ReferencesHold /\ KeptRows /\ OrphansAreServed BY DEF IInv
<1>1. ~Idle(c) /\ request[c].step = "find" BY DEF Find, At
<1>2. CASE Refuse(c) BY <1>1, <1>2, RefuseKeeps
<1>3. CASE ~Refuse(c)
  <2> DEFINE up == request[c].upload
  <2>1. PICK step \in Follows(up) : Goes(c, step) BY <1>3 DEF Find
  <2>2. UNCHANGED <<rounds, runs, tasks, row, objects, told, purged, left>> BY <1>3 DEF Find
  <2>3. step \in Steps /\ step # "store" BY DEF Follows, Steps
  <2>4. step = "keep" => Row(up) \in DOMAIN row /\ row[Row(up)] = Key(up) BY DEF Follows
  <2>5. Key(up) # None BY <1>t, <1>1, RequestTypes, UploadTypes
  <2>6. /\ request' \in [Clients -> Serving \cup {None}]
        /\ request'[c] # None /\ request'[c].step = step
        /\ request'[c].upload = up
        /\ \A d \in Clients \ {c} : request'[d] = request[d]
    BY <1>t, <1>1, <2>1, <2>3, GoesKeepsUploads
  <2>7. TypeOK' BY <1>t, <2>2, <2>6 DEF TypeOK
  <2>8. StoredFirst' BY <1>t, <1>1, <2>2, <2>6 DEF StoredFirst, Idle
  <2>9. ReferencesHold' BY <1>t, <2>2 DEF ReferencesHold, Recorded
  <2>10. OrphansAreServed' BY <1>t, <2>2, <2>3, <2>6, OrphansStay DEF Recorded
  <2>11. KeptRows'
    <3>1. step = "keep" => Key(up) \in Recorded BY <2>4, <2>5 DEF Recorded, Range
    <3>2. step = "keep" => Row(up) \in DOMAIN row /\ row[Row(up)] # None BY <2>4, <2>5
    <3>3. Recorded' = Recorded /\ \A w : Known(w) => Known(w)' BY <2>2 DEF Recorded, Known
    <3>4. Row(request'[c].upload) = Row(up) /\ Key(request'[c].upload) = Key(up) BY <2>6
    <3>5. step = "keep" => Known(Row(request[c].upload))' BY <2>2, <3>2, <3>4 DEF Known
    <3> HIDE DEF up
    <3> QED BY <1>t, <2>2, <2>6, <3>1, <3>3, <3>4, <3>5, KeptStay
  <2> QED BY <2>7, <2>8, <2>9, <2>10, <2>11 DEF IInv
<1> QED BY <1>2, <1>3

(* A step that makes the row of an upload refer to its object, whatever the  *)
(* client is told and whether it goes on.                                    *)
LEMMA ReferKeeps ==
    ASSUME IInv, NEW c \in Clients, ~Idle(c), request[c].step # "store",
           Refer(request[c].upload),
           request' \in [Clients -> Serving \cup {None}],
           \A d \in Clients \ {c} : request'[d] = request[d],
           request'[c] # None =>
               /\ request'[c].step \notin {"store", "keep"}
               /\ request'[c].upload = request[c].upload,
           told' \subseteq told \cup {Row(request[c].upload)},
           UNCHANGED objects
    PROVE  IInv'
<1>t. TypeOK /\ StoredFirst /\ ReferencesHold /\ KeptRows /\ OrphansAreServed BY DEF IInv
<1> DEFINE up == request[c].upload
<1>1. up \in Gifs \cup Logs BY <1>t, RequestTypes
<1>2. Key(up) \in Keys /\ Key(up) # None /\ Row(up) \in AllRows BY <1>1, UploadTypes
<1>3. Key(up) \in objects BY <1>t DEF StoredFirst
<1> HIDE DEF up
<1>4. /\ DOMAIN row' = DOMAIN row \cup {Row(up)}
      /\ row'[Row(up)] = Key(up)
      /\ \A w \in DOMAIN row \ {Row(up)} : row'[w] = row[w]
      /\ Recorded' \subseteq Recorded \cup {Key(up)}
      /\ Key(up) \in Recorded'
      /\ Recorded \cup left \subseteq Recorded' \cup left'
      /\ left' \subseteq left \cup Recorded
      /\ purged' = purged \ {Row(up)}
      /\ \A w : Known(w) => Known(w)'
  <2>1. Refer(up) BY DEF up
  <2>2. purged' = purged \ {Row(up)} BY <2>1 DEF Refer
  <2> QED BY ONLY <1>t, <1>1, <2>1, <2>2, ReferIs
<1>5. TypeOK'
  <2>1. Range(row') \subseteq Keys \cup {None} BY <1>t, <1>2, <1>4 DEF TypeOK, Range
  <2>2. left' \subseteq Keys BY <1>t, <1>4 DEF TypeOK, Recorded
  <2>3. told' \subseteq AllRows /\ purged' \subseteq AllRows BY <1>t, <1>2, <1>4 DEF TypeOK, up
  <2> QED BY <1>t, <1>2, <1>4, <2>1, <2>2, <2>3 DEF TypeOK
<1>6. StoredFirst'
  <2>1. request'[c] # None => Key(request'[c].upload) \in objects BY <1>3 DEF up
  <2> QED BY <1>t, <2>1 DEF StoredFirst, Idle
<1>7. ReferencesHold'
  <2>1. Recorded' \subseteq objects' BY <1>t, <1>3, <1>4 DEF ReferencesHold
  <2>2. ASSUME NEW w \in told' \ purged' PROVE w \in DOMAIN row' /\ row'[w] # None
    <3>1. CASE w = Row(up) BY <3>1, <1>2, <1>4
    <3>2. CASE w # Row(up) BY <1>t, <3>2, <1>4 DEF ReferencesHold, up
    <3> QED BY <3>1, <3>2
  <2> QED BY <2>1, <2>2 DEF ReferencesHold
<1>8. OrphansAreServed' BY <1>t, <1>4, OrphansStay DEF up
<1>9. KeptRows' BY <1>t, <1>4, KeptStay
<1> QED BY <1>5, <1>6, <1>7, <1>8, <1>9 DEF IInv

(* The write refuses, makes the row refer to the object, or has nothing to   *)
(* write.                                                                    *)
LEMMA WriteKeeps ==
    ASSUME IInv, NEW c \in Clients, Write(c)
    PROVE  IInv'
<1>t. TypeOK /\ StoredFirst /\ ReferencesHold /\ KeptRows /\ OrphansAreServed BY DEF IInv
<1> DEFINE up == request[c].upload
<1>1. ~Idle(c) /\ request[c].step # "store" BY DEF Write, At
<1>2. CASE Refuse(c) BY <1>1, <1>2, RefuseKeeps
<1>3. ASSUME Succeed(c)
      PROVE  /\ request' \in [Clients -> Serving \cup {None}]
             /\ request'[c] = None
             /\ \A d \in Clients \ {c} : request'[d] = request[d]
             /\ told' = told \cup {Row(up)}
  BY <1>t, <1>3, EndsKeepsOthers DEF Succeed
<1>4. CASE Succeed(c) /\ Refer(up) /\ UNCHANGED objects
  BY <1>1, <1>3, <1>4, ReferKeeps
<1>5. CASE Keeps(c) /\ Succeed(c) /\ UNCHANGED <<row, objects, purged, left>>
  <2>1. Known(Row(up)) /\ Key(up) \in Recorded \cup left BY <1>t, <1>5 DEF KeptRows
  <2>2. Row(up) \in AllRows BY <1>t, <1>1, RequestTypes, UploadTypes
  <2>3. UNCHANGED Recorded BY <1>5 DEF Recorded
  <2> HIDE DEF up
  <2>4. TypeOK' BY <1>t, <1>3, <1>5, <2>2 DEF TypeOK
  <2>5. StoredFirst' BY <1>t, <1>3, <1>5 DEF StoredFirst, Idle
  <2>6. ReferencesHold' BY <1>t, <1>3, <1>5, <2>1, <2>3 DEF ReferencesHold, Known
  <2>7. OrphansAreServed' BY <1>t, <1>3, <1>5, <2>1, <2>3, OrphansStay DEF up
  <2>8. KeptRows' BY <1>t, <1>3, <1>5, <2>3, KeptStay DEF Known
  <2> QED BY <2>4, <2>5, <2>6, <2>7, <2>8 DEF IInv
<1> QED BY <1>1, <1>2, <1>4, <1>5 DEF Write, At, Keeps

(* A lost connection may lose the answer of a write that was made; a GIF is  *)
(* retried.                                                                  *)
LEMMA ConnectionLostKeeps ==
    ASSUME IInv, NEW c \in Clients, ConnectionLost(c)
    PROVE  IInv'
<1>t. TypeOK /\ StoredFirst /\ ReferencesHold /\ KeptRows /\ OrphansAreServed BY DEF IInv
<1> DEFINE up == request[c].upload
           again == up.kind = "gif" /\ request[c].tries < MaxTries
           next == IF again THEN [upload |-> up, step |-> "find", tries |-> request[c].tries + 1]
                   ELSE None
<1>1. ~Idle(c) /\ request[c].step # "store" BY DEF ConnectionLost, At
<1>2. request[c] \in Serving /\ up \in Gifs \cup Logs BY <1>t, <1>1, RequestTypes
<1>3. request' = [request EXCEPT ![c] = next] BY DEF ConnectionLost
<1>4. again => next \in Serving /\ next.upload = up /\ next.step = "find"
  BY <1>2 DEF Serving, Steps, MaxTries
<1>5. again => next # None BY <1>4, NoneIsNothing
<1>6. ~again => next = None OBVIOUS
<1> HIDE DEF next
<1>7. /\ request' \in [Clients -> Serving \cup {None}]
      /\ request'[c] = next
      /\ \A d \in Clients \ {c} : request'[d] = request[d]
  BY <1>t, <1>3, <1>4, <1>6 DEF TypeOK
<1>8. UNCHANGED <<rounds, runs, tasks, objects, told>> BY DEF ConnectionLost
<1>9. CASE Refer(up) BY <1>1, <1>4, <1>6, <1>7, <1>8, <1>9, ReferKeeps
<1>10. CASE ~Refer(up)
  <2>1. UNCHANGED <<row, purged>> /\ left' = IF again THEN left ELSE left \cup ({Key(up)} \ Recorded)
    BY <1>10 DEF ConnectionLost
  <2>2. Key(up) \in Keys BY <1>2, UploadTypes
  <2>3. Key(up) \in objects BY <1>t, <1>1 DEF StoredFirst
  <2>4. Recorded' = Recorded BY <2>1 DEF Recorded
  <2> HIDE DEF up, again
  <2>5. TypeOK'
    <3>1. left' \subseteq Keys BY <1>t, <2>1, <2>2 DEF TypeOK
    <3> QED BY <1>t, <1>7, <1>8, <2>1, <3>1 DEF TypeOK
  <2>6. StoredFirst' BY <1>t, <1>4, <1>6, <1>7, <1>8, <2>3 DEF StoredFirst, Idle
  <2>7. ReferencesHold' BY <1>t, <1>8, <2>1, <2>4 DEF ReferencesHold
  <2>8. OrphansAreServed'
    <3>1. Recorded \cup left \subseteq Recorded' \cup left' BY <2>1, <2>4
    <3>2. ~again => Key(up) \in Recorded' \cup left' BY <2>1, <2>4
    <3> QED BY <1>t, <1>4, <1>5, <1>7, <1>8, <3>1, <3>2, OrphansStay DEF up
  <2>9. KeptRows'
    <3>1. Recorded \cup left \subseteq Recorded' \cup left' BY <2>1, <2>4
    <3> QED BY <1>t, <1>4, <1>6, <1>7, <2>1, <3>1, KeptStay DEF Known
  <2> QED BY <2>5, <2>6, <2>7, <2>8, <2>9 DEF IInv
<1> QED BY <1>9, <1>10

------------------------------------------------------------------------------
(* The invariant holds in every reachable state.                             *)
THEOREM Invariance == Spec => []IInv
<1>1. Init => IInv BY InitHolds
<1>2. IInv /\ [Next]_vars => IInv'
  <2> SUFFICES ASSUME IInv, [Next]_vars PROVE IInv' OBVIOUS
  <2>1. ASSUME NEW v \in Rounds, StartRound(v) PROVE IInv' BY <2>1, StartRoundKeeps
  <2>2. ASSUME NEW r \in Runs, StartRun(r) PROVE IInv'
    BY <2>2 DEF StartRun, IInv, TypeOK, StoredFirst, ReferencesHold, KeptRows, Keeps, Known,
           OrphansAreServed, Serves, Recorded, Idle
  <2>3. ASSUME NEW t \in Tasks, StoreTask(t) PROVE IInv'
    BY <2>3 DEF StoreTask, IInv, TypeOK, StoredFirst, ReferencesHold, KeptRows, Keeps, Known,
           OrphansAreServed, Serves, Recorded, Idle
  <2>4. ASSUME NEW t \in Tasks, NEW r \in Runs, Evaluate(t, r) PROVE IInv' BY <2>4, EvaluateKeeps
  <2>5. ASSUME NEW c \in Clients, NEW up \in Gifs, CheckGif(c, up) PROVE IInv'
    BY <2>5, AcceptKeeps DEF CheckGif
  <2>6. ASSUME NEW c \in Clients, NEW up \in Logs, CheckLog(c, up) PROVE IInv'
    BY <2>6, AcceptKeeps DEF CheckLog
  <2>7. ASSUME NEW c \in Clients, Store(c) PROVE IInv' BY <2>7, StoreKeeps
  <2>8. ASSUME NEW c \in Clients, StoreFails(c) PROVE IInv' BY <2>8, StoreFailsKeeps
  <2>9. ASSUME NEW c \in Clients, Find(c) PROVE IInv' BY <2>9, FindKeeps
  <2>10. ASSUME NEW c \in Clients, Write(c) PROVE IInv' BY <2>10, WriteKeeps
  <2>11. ASSUME NEW c \in Clients, ConnectionLost(c) PROVE IInv' BY <2>11, ConnectionLostKeeps
  <2>12. CASE UNCHANGED vars
    BY <2>12 DEF vars, IInv, TypeOK, StoredFirst, ReferencesHold, KeptRows, Keeps, Known,
           OrphansAreServed, Serves, Recorded, Idle
  <2> QED BY <2>1, <2>2, <2>3, <2>4, <2>5, <2>6, <2>7, <2>8, <2>9, <2>10, <2>11, <2>12
          DEF Next, Ingest
<1> QED BY <1>1, <1>2, PTL DEF Spec

(* What was acknowledged is referred to, and what is referred to is stored.  *)
THEOREM ReferencesAlwaysHold == Spec => []ReferencesHold
<1>1. IInv => ReferencesHold BY DEF IInv
<1> QED BY <1>1, Invariance, PTL

(* Nothing in the store is lost silently.                                    *)
THEOREM OrphansAlwaysRefused == Spec => []OrphansAreRefused
<1>1. IInv => OrphansAreRefused BY DEF IInv, OrphansAreServed, Serves, OrphansAreRefused
<1> QED BY <1>1, Invariance, PTL

==============================================================================
