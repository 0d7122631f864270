------------------------ MODULE ResponseCache_proofs ------------------------
(***************************************************************************)
(* Theorems of ResponseCache: what a kept answer may say, for any clients, *)
(* requests, lifetimes and rows, and however Redis fails in between.       *)
(***************************************************************************)
EXTENDS ResponseCache, TLAPS

(* What a handler makes of a request, and what a client waits for.         *)
Answers == [by : {Route[r].name : r \in Requests}, args : {Args(r) : r \in Requests},
            rows : Nat, at : Nat]
Askings == [request : Requests, known : Nat, answer : Answers \cup {None}]

(* The answer is the handler's own, to the parameters of the request.      *)
Own(answer, request) == answer.by = Route[request].name /\ answer.args = Args(request)

Typed ==
    /\ now \in Nat /\ rows \in Nat
    /\ stored \in Seq(Nat) /\ Len(stored) = rows
    /\ asking \in [Clients -> Askings \cup {None}]

(* What an answer misses was stored when it was read, or later.            *)
Misses(answer, times, time) ==
    /\ answer.at <= time
    /\ \A n \in 1..Len(times) : n > answer.rows => answer.at <= times[n]

(* Rows only grow, and an answer that was read waits Patience at most.     *)
AskingSound ==
    \A c \in Clients : ~Idle(c) =>
        /\ asking[c].known <= rows
        /\ asking[c].answer # None =>
             /\ Own(asking[c].answer, asking[c].request)
             /\ asking[c].known <= asking[c].answer.rows
             /\ now <= asking[c].answer.at + Patience
             /\ Misses(asking[c].answer, stored, now)

(* A kept answer belongs to a request that has its key. It is a success,   *)
(* and it is no older than it was when it was kept and may be kept.        *)
Belongs(k, entry, request) ==
    /\ Route[request].prefix # ""
    /\ k = Key(request)
    /\ entry.status = 200
    /\ entry.answer \in Answers
    /\ Own(entry.answer, request)
    /\ Misses(entry.answer, stored, now)
    /\ entry.until \in Int
    /\ entry.until <= entry.answer.at + Patience + Lifetime(Route[request])
    /\ now <= entry.answer.at + Patience \/ now < entry.until
KeptSound ==
    \A k \in DOMAIN kept : \E request \in Requests : Belongs(k, kept[k], request)

IInv == Typed /\ AskingSound /\ KeptSound /\ AnswersAreRecent /\ FoundOnceThere

-----------------------------------------------------------------------------
(* Lifetimes are numbers, and shorter than what AnswersAreRecent allows.   *)
LEMMA LifetimeIs ==
    ASSUME NEW request \in Requests
    PROVE  /\ Route[request].ttl \in Nat
           /\ Lifetime(Route[request]) \in Int
           /\ Lifetime(Route[request]) = Route[request].ttl \div Unit
BY CacheAssumption DEF Lifetime, Route

(* Under one key only one handler keeps answers, to one set of parameters. *)
LEMMA KeysTell ==
    ASSUME NEW r \in Requests, NEW s \in Requests, Key(r) = Key(s), Route[r].prefix # ""
    PROVE  Route[r] = Route[s] /\ Args(r) = Args(s)
<1>1. Route[r].prefix = Route[s].prefix /\ Args(r) = Args(s) BY DEF Key
<1>2. Route[r] = RouteOf(r) /\ Route[s] = RouteOf(s) BY DEF Route
<1> QED BY <1>1, <1>2, CacheAssumption DEF PrefixesTell

(* What is stored later, an answer read before misses.                     *)
LEMMA MissesMore ==
    ASSUME Typed, NEW answer \in Answers, Misses(answer, stored, now),
           NEW time \in Nat, now <= time, NEW times, times = stored \/ times = Append(stored, now)
    PROVE  Misses(answer, times, time)
<1>1. answer.at \in Nat /\ answer.at <= time /\ now \in Nat BY DEF Typed, Answers, Misses
<1>2. CASE times = stored BY <1>1, <1>2 DEF Misses
<1>3. CASE times = Append(stored, now)
  <2>1. stored \in Seq(Nat) /\ Len(times) = Len(stored) + 1 /\ times[Len(stored) + 1] = now
    BY <1>3 DEF Typed
  <2>2. \A n \in 1..Len(stored) : times[n] = stored[n] BY <1>3, <2>1
  <2>3. ASSUME NEW n \in 1..Len(times), n > answer.rows PROVE answer.at <= times[n]
    <3>1. n \in 1..Len(stored) \/ n = Len(stored) + 1 BY <2>1, <2>3
    <3> QED BY <1>1, <2>1, <2>2, <2>3, <3>1 DEF Misses
  <2> QED BY <1>1, <2>3 DEF Misses
<1> QED BY <1>2, <1>3

(* What is kept stays as sound as it was while time stands still.          *)
LEMMA KeptStays ==
    ASSUME Typed, KeptSound, UNCHANGED <<now, kept>>,
           stored' = stored \/ stored' = Append(stored, now)
    PROVE  KeptSound'
<1> SUFFICES ASSUME NEW k \in DOMAIN kept
             PROVE  \E request \in Requests : Belongs(k, kept[k], request)'
  BY DEF KeptSound
<1>1. PICK request \in Requests : Belongs(k, kept[k], request) BY DEF KeptSound
<1>2. Misses(kept[k].answer, stored', now)
  <2>1. kept[k].answer \in Answers /\ Misses(kept[k].answer, stored, now) BY <1>1 DEF Belongs
  <2>2. now \in Nat /\ now <= now BY DEF Typed
  <2> QED BY <2>1, <2>2, MissesMore
<1> QED BY <1>1, <1>2 DEF Belongs, Own

(* And so does what is being computed.                                     *)
LEMMA AskingStays ==
    ASSUME Typed, AskingSound, UNCHANGED <<now, rows, stored, asking>>
    PROVE  Typed' /\ AskingSound'
<1>1. Typed' BY DEF Typed
<1>2. AskingSound' BY DEF AskingSound, Idle, Own, Misses
<1> QED BY <1>1, <1>2

(* Steps that answer nobody and keep nothing new.                          *)
LEMMA QuietStep ==
    ASSUME IInv, Typed', AskingSound', reply' = None, now' = now, UNCHANGED kept,
           stored' = stored \/ stored' = Append(stored, now)
    PROVE  IInv'
<1>1. KeptSound' BY KeptStays DEF IInv
<1>2. AnswersAreRecent' /\ FoundOnceThere' BY DEF AnswersAreRecent, FoundOnceThere, Replies
<1> QED BY <1>1, <1>2 DEF IInv

(* A request begins, and finds the rows that are there.                    *)
LEMMA MissKeeps ==
    ASSUME IInv, NEW c \in Clients, NEW request \in Requests, Miss(c, request)
    PROVE  IInv'
<1> DEFINE new == [request |-> request, known |-> rows, answer |-> None]
<1>1. new \in Askings BY DEF IInv, Typed, Askings
<1>2. asking' = [asking EXCEPT ![c] = new] BY DEF Miss
<1>3. Typed' BY <1>1, <1>2 DEF IInv, Typed, Miss
<1>4. AskingSound'
  <2> SUFFICES ASSUME NEW d \in Clients, asking'[d] # None
               PROVE  /\ asking'[d].known <= rows
                      /\ asking'[d].answer # None =>
                            /\ Own(asking'[d].answer, asking'[d].request)
                            /\ asking'[d].known <= asking'[d].answer.rows
                            /\ now <= asking'[d].answer.at + Patience
                            /\ Misses(asking'[d].answer, stored, now)
    BY DEF AskingSound, Idle, Miss, Own, Misses
  <2>1. CASE d = c BY <1>2, <2>1 DEF IInv, Typed
  <2>2. CASE d # c BY <1>2, <2>2 DEF IInv, Typed, AskingSound, Idle
  <2> QED BY <2>1, <2>2
<1> QED BY <1>3, <1>4, QuietStep DEF Miss

(* A handler reads: its answer is its own and it is fresh.                 *)
LEMMA ReadRowsKeeps ==
    ASSUME IInv, NEW c \in Clients, ReadRows(c)
    PROVE  IInv'
<1> DEFINE request == asking[c].request
           answer == [by |-> Route[request].name, args |-> Args(request), rows |-> rows, at |-> now]
<1>1. asking[c] \in Askings /\ asking[c].known <= rows /\ rows \in Nat /\ now \in Nat
  BY DEF IInv, Typed, AskingSound, ReadRows, Idle
<1>2. request \in Requests /\ answer \in Answers BY <1>1 DEF Askings, Answers
<1>3. Own(answer, request) /\ answer.rows = rows /\ answer.at = now BY DEF Own
<1>4. asking' = [asking EXCEPT ![c].answer = answer] BY DEF ReadRows
<1> HIDE DEF answer
<1>5. /\ asking'[c] \in Askings /\ asking'[c].request = request
      /\ asking'[c].known = asking[c].known /\ asking'[c].answer = answer
  BY <1>1, <1>2, <1>4 DEF IInv, Typed, Askings
<1>6. \A d \in Clients \ {c} : asking'[d] = asking[d] BY <1>4 DEF IInv, Typed
<1>7. Typed' BY <1>4, <1>5, <1>6 DEF IInv, Typed, ReadRows
<1>8. now <= answer.at + Patience BY <1>1, <1>3, CacheAssumption
<1>10. Misses(answer, stored, now)
  <2>1. Len(stored) = answer.rows /\ answer.rows \in Nat BY <1>1, <1>3 DEF IInv, Typed
  <2> QED BY <1>1, <1>3, <2>1 DEF Misses
<1>9. AskingSound'
  <2> SUFFICES ASSUME NEW d \in Clients, asking'[d] # None
               PROVE  /\ asking'[d].known <= rows
                      /\ asking'[d].answer # None =>
                            /\ Own(asking'[d].answer, asking'[d].request)
                            /\ asking'[d].known <= asking'[d].answer.rows
                            /\ now <= asking'[d].answer.at + Patience
                            /\ Misses(asking'[d].answer, stored, now)
    BY DEF AskingSound, Idle, ReadRows, Own, Misses
  <2>1. CASE d = c BY <1>1, <1>3, <1>5, <1>8, <1>10, <2>1
  <2>2. CASE d # c BY <1>6, <2>2 DEF IInv, AskingSound, Idle
  <2> QED BY <2>1, <2>2
<1> QED BY <1>7, <1>9, QuietStep DEF ReadRows

(* A row more is a row no answer that is waiting has to show.              *)
LEMMA StoreKeeps ==
    ASSUME IInv, Store
    PROVE  IInv'
<1>1. rows' = rows + 1 /\ rows \in Nat BY DEF Store, IInv, Typed
<1>2. Typed'
  <2>1. stored' \in Seq(Nat) /\ Len(stored') = rows' BY <1>1 DEF IInv, Typed, Store
  <2> QED BY <1>1, <2>1 DEF IInv, Typed, Store
<1>3. AskingSound'
  <2>1. \A c \in Clients : ~Idle(c) =>
          asking[c].known \in Nat /\ (asking[c].answer # None => asking[c].answer \in Answers)
    BY DEF IInv, Typed, Idle, Askings
  <2>2. ASSUME NEW c \in Clients, ~Idle(c), asking[c].answer # None
        PROVE  Misses(asking[c].answer, stored', now)
    <3>1. now \in Nat /\ now <= now /\ Misses(asking[c].answer, stored, now)
      BY <2>2 DEF IInv, Typed, AskingSound
    <3> QED BY <2>1, <2>2, <3>1, MissesMore DEF Store, IInv
  <2> QED BY <1>1, <2>1, <2>2 DEF IInv, AskingSound, Idle, Store, Own
<1> QED BY <1>2, <1>3, QuietStep DEF Store

(* Answers are lost with Redis; nothing else depends on them.              *)
LEMMA ClearKeeps ==
    ASSUME IInv, Clear
    PROVE  IInv'
<1>1. Typed' /\ AskingSound' BY AskingStays DEF IInv, Clear
<1>2. KeptSound' BY DEF KeptSound, Clear
<1>3. AnswersAreRecent' /\ FoundOnceThere' BY DEF AnswersAreRecent, FoundOnceThere, Replies, Clear
<1> QED BY <1>1, <1>2, <1>3 DEF IInv

(* Time passes: what has waited too long has been answered, and what has   *)
(* been kept too long is forgotten.                                        *)
LEMMA TickKeeps ==
    ASSUME IInv, Tick
    PROVE  IInv'
<1>1. now \in Nat /\ now' = now + 1 BY DEF Tick, IInv, Typed
<1>2. Typed' BY <1>1 DEF IInv, Typed, Tick
<1>3. AskingSound'
  <2>1. \A c \in Clients : ~Idle(c) /\ asking[c].answer # None => now' <= asking[c].answer.at + Patience
    <3> SUFFICES ASSUME NEW c \in Clients, ~Idle(c), asking[c].answer # None
                 PROVE  now' <= asking[c].answer.at + Patience
      OBVIOUS
    <3>1. asking[c].answer.at \in Nat BY DEF IInv, Typed, Idle, Askings, Answers
    <3>2. now < asking[c].answer.at + Patience BY DEF Tick, Waiting
    <3> QED BY <1>1, <3>1, <3>2, CacheAssumption
  <2>2. ASSUME NEW c \in Clients, ~Idle(c), asking[c].answer # None
        PROVE  Misses(asking[c].answer, stored, now')
    <3>1. asking[c].answer \in Answers /\ Misses(asking[c].answer, stored, now)
      BY <2>2 DEF IInv, Typed, AskingSound, Idle, Askings
    <3>2. now' \in Nat /\ now <= now' BY <1>1
    <3> QED BY <3>1, <3>2, MissesMore DEF IInv
  <2> QED BY <2>1, <2>2 DEF IInv, AskingSound, Idle, Tick, Own
<1>4. KeptSound'
  <2> SUFFICES ASSUME NEW k \in DOMAIN kept'
               PROVE  \E request \in Requests : Belongs(k, kept[k], request)'
    BY DEF KeptSound
  <2>1. k \in DOMAIN kept /\ kept'[k] = kept[k] /\ now + 1 < kept[k].until BY DEF Tick
  <2>2. PICK request \in Requests : Belongs(k, kept[k], request) BY <2>1 DEF IInv, KeptSound
  <2>3. Misses(kept[k].answer, stored, now')
    <3>1. kept[k].answer \in Answers /\ Misses(kept[k].answer, stored, now) BY <2>2 DEF Belongs
    <3>2. now' \in Nat /\ now <= now' BY <1>1
    <3> QED BY <3>1, <3>2, MissesMore DEF IInv
  <2>4. stored' = stored BY DEF Tick
  <2> QED BY <1>1, <2>1, <2>2, <2>3, <2>4 DEF Belongs
<1>5. AnswersAreRecent' /\ FoundOnceThere' BY DEF AnswersAreRecent, FoundOnceThere, Replies, Tick
<1> QED BY <1>2, <1>3, <1>4, <1>5 DEF IInv

-----------------------------------------------------------------------------
(* Steps that answer: the reply is right if what it is made of is.         *)
LEMMA ReplyIsRight ==
    ASSUME IInv, NEW request \in Requests, NEW status, NEW answer, NEW known,
           reply' = Reply(request, status, answer, known),
           UNCHANGED <<rows, stored>>,
           answer # None => /\ answer \in Answers /\ Misses(answer, stored, now)
                            /\ \/ now <= answer.at + Patience
                               \/ now < answer.at + Patience + Lifetime(Route[request]),
           status = 404 /\ Route[request] # NoRoute => known = 0
    PROVE  AnswersAreRecent' /\ FoundOnceThere'
<1>1. /\ reply'.request = request /\ reply'.status = status /\ reply'.answer = answer
      /\ reply'.at = now /\ reply'.known = known
  BY DEF Reply
<1>2. Lifetime(Route[request]) = Route[request].ttl \div Unit BY LifetimeIs
<1>3. AnswersAreRecent' BY <1>1, <1>2 DEF AnswersAreRecent, Replies
<1>4. ASSUME answer # None, NEW n \in 1..rows, n > answer.rows
      PROVE  \/ now <= stored[n] + Patience
             \/ now < stored[n] + Patience + Lifetime(Route[request])
  <2>1. stored[n] \in Nat /\ Len(stored) = rows BY DEF IInv, Typed
  <2>2. answer.at \in Nat /\ answer.at <= stored[n] BY <1>4, <2>1 DEF Misses, Answers
  <2>3. now \in Nat /\ Patience \in Nat /\ Lifetime(Route[request]) \in Int
    BY CacheAssumption, LifetimeIs DEF IInv, Typed
  <2> QED BY <1>4, <2>1, <2>2, <2>3
<1>5. FoundOnceThere' BY <1>1, <1>2, <1>4 DEF FoundOnceThere, Replies
<1> QED BY <1>3, <1>5

(* What is refused was not routed, or its parameters are wrong.            *)
LEMMA RefuseKeeps ==
    ASSUME IInv, NEW c \in Clients, NEW request \in Requests, Refuse(c, request)
    PROVE  IInv'
<1>1. UNCHANGED <<now, rows, stored, kept, asking>> BY DEF Refuse
<1>2. Typed' /\ AskingSound' BY <1>1, AskingStays DEF IInv
<1>3. KeptSound' BY <1>1, KeptStays DEF IInv
<1>4. ASSUME Route[request] = NoRoute, reply' = Reply(request, 404, None, rows)
      PROVE  AnswersAreRecent' /\ FoundOnceThere'
  BY <1>1, <1>4, ReplyIsRight
<1>5. ASSUME reply' = Reply(request, 422, None, rows)
      PROVE  AnswersAreRecent' /\ FoundOnceThere'
  BY <1>1, <1>5, ReplyIsRight
<1>6. AnswersAreRecent' /\ FoundOnceThere' BY <1>4, <1>5 DEF Refuse
<1> QED BY <1>2, <1>3, <1>6 DEF IInv

(* What is kept is shown, and it is the answer of the handler that is asked. *)
LEMMA HitIs ==
    ASSUME IInv, NEW c \in Clients, NEW request \in Requests, Hit(c, request)
    PROVE  \E entry : /\ reply' = Reply(request, 200, entry.answer, rows)
                      /\ Own(entry.answer, request) /\ Belongs(Key(request), entry, request)
<1> DEFINE entry == kept[Key(request)]
<1>1. Key(request) \in DOMAIN kept /\ Route[request].prefix # "" BY DEF Hit, IsKept
<1>2. PICK r \in Requests : Belongs(Key(request), entry, r) BY <1>1 DEF IInv, KeptSound
<1>3. Key(r) = Key(request) BY <1>2 DEF Belongs
<1>4. Route[r] = Route[request] /\ Args(r) = Args(request) BY <1>1, <1>3, KeysTell
<1>5. Belongs(Key(request), entry, request) BY <1>2, <1>3, <1>4 DEF Belongs, Own
<1>6. reply' = Reply(request, 200, entry.answer, rows) BY <1>2 DEF Hit, Belongs
<1> HIDE DEF entry
<1> QED BY <1>5, <1>6 DEF Belongs

(* A kept answer is shown, and it is recent.                                *)
LEMMA HitKeeps ==
    ASSUME IInv, NEW c \in Clients, NEW request \in Requests, Hit(c, request)
    PROVE  IInv'
<1>1. UNCHANGED <<now, rows, stored, kept, asking>> BY DEF Hit
<1>2. Typed' /\ AskingSound' BY <1>1, AskingStays DEF IInv
<1>3. KeptSound' BY <1>1, KeptStays DEF IInv
<1>4. PICK entry : /\ reply' = Reply(request, 200, entry.answer, rows)
                   /\ Belongs(Key(request), entry, request)
  BY HitIs
<1>5. /\ entry.answer \in Answers /\ Misses(entry.answer, stored, now)
      /\ \/ now <= entry.answer.at + Patience
         \/ now < entry.answer.at + Patience + Lifetime(Route[request])
  <2>1. /\ entry.answer.at \in Nat /\ now \in Nat /\ entry.until \in Int /\ Patience \in Nat
        /\ entry.until <= entry.answer.at + Patience + Lifetime(Route[request])
        /\ now <= entry.answer.at + Patience \/ now < entry.until
    BY <1>4, CacheAssumption DEF Belongs, Answers, IInv, Typed
  <2>2. Lifetime(Route[request]) \in Int BY LifetimeIs
  <2>3. entry.answer \in Answers /\ Misses(entry.answer, stored, now) BY <1>4 DEF Belongs
  <2> QED BY <2>1, <2>2, <2>3
<1>6. AnswersAreRecent' /\ FoundOnceThere' BY <1>1, <1>4, <1>5, ReplyIsRight
<1> QED BY <1>2, <1>3, <1>6 DEF IInv

(* A computed answer is shown, and perhaps kept.                           *)
LEMMA AnswerKeeps ==
    ASSUME IInv, NEW c \in Clients, Answer(c)
    PROVE  /\ IInv'
           /\ \E request \in Requests : \E answer, status, known :
                  reply' = Reply(request, status, answer, known) /\ Own(answer, request)
<1> DEFINE request == asking[c].request
           answer == asking[c].answer
           route == Route[request]
           status == Status(route, answer)
           entry == [status |-> status, answer |-> answer, until |-> now + Lifetime(route)]
<1>1. /\ asking[c] \in Askings /\ request \in Requests /\ answer \in Answers
      /\ Own(answer, request) /\ asking[c].known \in Nat
      /\ asking[c].known <= answer.rows /\ now <= answer.at + Patience
      /\ Misses(answer, stored, now)
  <2>1. asking[c] \in Askings /\ answer # None BY DEF IInv, Typed, Answer, Idle
  <2> QED BY <2>1 DEF IInv, AskingSound, Answer, Askings
<1>2. answer.at \in Nat /\ answer.rows \in Nat /\ now \in Nat /\ Lifetime(route) \in Int
  BY <1>1, LifetimeIs DEF Answers, IInv, Typed
<1>3. /\ now' = now /\ rows' = rows /\ stored' = stored /\ asking' = [asking EXCEPT ![c] = None]
      /\ reply' = Reply(request, status, answer, asking[c].known)
  BY DEF Answer
<1>4. \A d \in Clients : asking'[d] = asking[d] \/ asking'[d] = None BY <1>3 DEF IInv, Typed
<1>5. Typed' BY <1>3, <1>4 DEF IInv, Typed
<1>6. AskingSound' BY <1>3, <1>4 DEF IInv, AskingSound, Idle, Own, Misses
<1>7. status = 404 => asking[c].known = 0 BY <1>1, <1>2 DEF Status
<1> HIDE DEF request, answer, route, status
<1>8. AnswersAreRecent' /\ FoundOnceThere' BY <1>1, <1>2, <1>3, <1>7, ReplyIsRight
<1>9. ASSUME NEW k \in DOMAIN kept PROVE \E r \in Requests : Belongs(k, kept[k], r)
  BY DEF IInv, KeptSound
<1>10. Keeps(route, answer) => Belongs(Key(request), entry, request)
  <2>1. Keeps(route, answer) => status = 200 /\ Route[request].prefix # "" BY DEF Keeps, status, route
  <2>2. now + Lifetime(route) <= answer.at + Patience + Lifetime(route)
    BY <1>1, <1>2, CacheAssumption
  <2>3. route = Route[request] BY DEF route
  <2>4. entry.status = status /\ entry.answer = answer /\ entry.until = now + Lifetime(route)
    OBVIOUS
  <2>5. entry.until \in Int /\ entry.until <= entry.answer.at + Patience + Lifetime(Route[request])
    BY <1>2, <2>2, <2>3, <2>4
  <2> HIDE DEF entry
  <2> QED BY <1>1, <2>1, <2>4, <2>5 DEF Belongs
<1>11. \/ UNCHANGED kept
       \/ /\ Keeps(route, answer)
          /\ kept' = [k \in DOMAIN kept \cup {Key(request)} |->
                         IF k = Key(request) THEN entry ELSE kept[k]]
  BY DEF Answer, request, answer, route, status
<1> HIDE DEF entry
<1>12. KeptSound'
  <2>1. ASSUME NEW k \in DOMAIN kept' PROVE \E r \in Requests : Belongs(k, kept'[k], r)
    BY <1>1, <1>9, <1>10, <1>11, <2>1
  <2> SUFFICES ASSUME NEW k \in DOMAIN kept' PROVE \E r \in Requests : Belongs(k, kept[k], r)'
    BY DEF KeptSound
  <2>2. PICK r \in Requests : Belongs(k, kept'[k], r) BY <2>1
  <2> QED BY <1>3, <2>2 DEF Belongs, Own, Misses
<1> QED BY <1>1, <1>3, <1>5, <1>6, <1>8, <1>12 DEF IInv

-----------------------------------------------------------------------------
(* At the start nothing is kept and nobody asks.                           *)
LEMMA InitHolds == Init => IInv
BY DEF Init, IInv, Typed, AskingSound, Idle, KeptSound, AnswersAreRecent, FoundOnceThere, Replies

(* Nothing at all changes.                                                 *)
LEMMA StutterKeeps ==
    ASSUME IInv, UNCHANGED vars
    PROVE  IInv'
<1>1. UNCHANGED <<now, rows, stored, kept, asking, reply>> BY DEF vars
<1>2. Typed' /\ AskingSound' BY <1>1, AskingStays DEF IInv
<1>3. KeptSound' BY <1>1, KeptStays DEF IInv
<1>4. AnswersAreRecent' /\ FoundOnceThere' BY <1>1 DEF IInv, AnswersAreRecent, FoundOnceThere, Replies
<1> QED BY <1>2, <1>3, <1>4 DEF IInv

(* One step keeps everything.                                              *)
LEMMA NextKeeps ==
    ASSUME IInv, [Next]_vars
    PROVE  IInv'
BY TickKeeps, StoreKeeps, ClearKeeps, ReadRowsKeeps, AnswerKeeps, RefuseKeeps, HitKeeps, MissKeeps,
   StutterKeeps DEF Next

(* The invariant holds in every reachable state.                           *)
THEOREM Invariance == Spec => []IInv
BY InitHolds, NextKeeps, PTL DEF Spec

(* What a client is shown was in the database no longer ago than the       *)
(* lifetime of the kept answer and the time it took to compute.            *)
THEOREM AnswersAlwaysRecent == Spec => []AnswersAreRecent
<1>1. IInv => AnswersAreRecent BY DEF IInv
<1> QED BY <1>1, Invariance, PTL

(* What a client is not shown is new: a 404 is never remembered, and what  *)
(* an answer with status 200 misses was stored no longer ago than its      *)
(* lifetime and the time it took to compute.                               *)
THEOREM AlwaysFoundOnceThere == Spec => []FoundOnceThere
<1>1. IInv => FoundOnceThere BY DEF IInv
<1> QED BY <1>1, Invariance, PTL

(* Where every request is routed to the handler it means, every answer,    *)
(* kept or computed, is that handler's to the parameters of the request.   *)
THEOREM AlwaysOwnAnswer ==
    ASSUME \A request \in Requests : Route[request].name = request.to
    PROVE  Spec => []OwnAnswer
<1>1. Init => OwnAnswer BY DEF Init, OwnAnswer, Replies
<1>2. IInv /\ OwnAnswer /\ [Next]_vars => OwnAnswer'
  <2> SUFFICES ASSUME IInv, OwnAnswer, [Next]_vars PROVE OwnAnswer' OBVIOUS
  <2>1. ASSUME reply' = None PROVE OwnAnswer' BY <2>1 DEF OwnAnswer, Replies
  <2>2. ASSUME NEW request \in Requests, NEW status, NEW answer, NEW known,
               reply' = Reply(request, status, answer, known),
               answer # None => Own(answer, request)
        PROVE  OwnAnswer'
    <3>1. reply'.request = request /\ reply'.by = Route[request].name /\ reply'.answer = answer
      BY <2>2 DEF Reply
    <3>2. Route[request].name = request.to OBVIOUS
    <3> QED BY <2>2, <3>1, <3>2 DEF OwnAnswer, Replies, Own
  <2>3. CASE UNCHANGED vars BY <2>3 DEF vars, OwnAnswer, Replies
  <2>4. CASE Tick \/ Store \/ Clear BY <2>1, <2>4 DEF Tick, Store, Clear
  <2>5. ASSUME NEW c \in Clients, ReadRows(c) PROVE OwnAnswer' BY <2>1, <2>5 DEF ReadRows
  <2>6. ASSUME NEW c \in Clients, Answer(c) PROVE OwnAnswer' BY <2>2, <2>6, AnswerKeeps
  <2>7. ASSUME NEW c \in Clients, NEW request \in Requests, Refuse(c, request) PROVE OwnAnswer'
    BY <2>2, <2>7 DEF Refuse
  <2>8. ASSUME NEW c \in Clients, NEW request \in Requests, Hit(c, request) PROVE OwnAnswer'
    BY <2>2, <2>8, HitIs
  <2>9. ASSUME NEW c \in Clients, NEW request \in Requests, Miss(c, request) PROVE OwnAnswer'
    BY <2>1, <2>9 DEF Miss
  <2> QED BY <2>3, <2>4, <2>5, <2>6, <2>7, <2>8, <2>9 DEF Next
<1> QED BY <1>1, <1>2, Invariance, PTL DEF Spec

=============================================================================
