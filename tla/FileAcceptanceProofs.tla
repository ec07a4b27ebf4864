------------------------ MODULE FileAcceptanceProofs ------------------------
(***************************************************************************)
(* What FileAcceptance guarantees for any set of asks, any broadcasts from *)
(* outside the app and any number of process deaths.                       *)
(***************************************************************************)
EXTENDS FileAcceptance, TLAPS, SequenceTheorems

\* The values the variables are built from have their types.
LEMMA RecordTypes ==
    /\ Idle \in [do : {"idle", "notify", "set", "countDown"}, ask : Asks \union {NoAsk},
                 pi : [Actions -> Asks \union {NoAsk}], value : BOOLEAN]
    /\ Idle.do = "idle"
    /\ NoNotification \in [kind : {"none", "ask", "transfer"}, ask : Asks \union {NoAsk},
                           pi : [Actions -> Asks \union {NoAsk}]]
    /\ NoNotification.kind = "none"
BY DEF Idle, NoNotification, Shown

\* Posting keeps the looper a queue of jobs.
LEMMA PostType ==
    ASSUME TypeOK, NEW job \in {"ask", "cancel", "transfer"}, NEW a \in Asks, Post(job, a)
    PROVE  looper' \in Seq(Jobs)
<1>1. [job |-> job, ask |-> a] \in Jobs  BY DEF Jobs
<1>2. looper \in Seq(Jobs)               BY DEF TypeOK
<1> QED BY <1>1, <1>2, AppendProperties DEF Post

\* What the main thread takes from the looper is a job of an ask.
LEMMA NextJobType ==
    ASSUME TypeOK, NEW job \in {"ask", "cancel", "transfer"}, NextJob(job)
    PROVE  /\ Head(looper).ask \in Asks
           /\ looper' \in Seq(Jobs)
<1>1. looper \in Seq(Jobs) /\ looper # << >>
  BY DEF TypeOK, NextJob
<1>2. Head(looper) \in Jobs /\ Tail(looper) \in Seq(Jobs)
  BY <1>1, HeadTailProperties
<1> QED BY <1>2 DEF NextJob, Jobs

\* A live button shows a notification of an ask, and firing it sends a
\* broadcast of a record.
LEMMA FireType ==
    ASSUME TypeOK, NEW c \in Actions, Live(c), Fire(c)
    PROVE  /\ pendingIntent' \in [Actions -> Asks \union {NoAsk}]
           /\ broadcasts' \in Seq(Broadcasts)
           /\ sent' \subseteq [shown : Asks \union {NoAsk}, broadcast : Broadcasts]
<1> DEFINE b == Record(c)
<1>1. pendingIntent[c] \in Asks /\ notification.ask \in Asks
  BY DEF TypeOK, Live
<1>2. b \in Broadcasts
  BY <1>1 DEF Broadcasts, Record, TypeOK
<1>3. broadcasts \in Seq(Broadcasts) /\ broadcasts' = Append(broadcasts, b)
  BY DEF TypeOK, Fire
<1>4. broadcasts' \in Seq(Broadcasts)
  BY <1>2, <1>3, AppendProperties
<1>5. sent' = sent \union {[shown |-> notification.ask, broadcast |-> b]}
  BY DEF Fire
<1>6. sent' \subseteq [shown : Asks \union {NoAsk}, broadcast : Broadcasts]
  BY <1>1, <1>2, <1>5 DEF TypeOK
<1>7. pendingIntent' \in [Actions -> Asks \union {NoAsk}]
  BY DEF TypeOK, Fire
<1> QED BY <1>4, <1>6, <1>7

\* A broadcast from outside is a broadcast.
LEMMA OtherType ==
    ASSUME TypeOK, NEW o \in Others, NEW x \in OtherAnswers, OtherBroadcast(o, x)
    PROVE  /\ [action |-> x.action, from |-> o, id |-> x.id] \in Broadcasts
           /\ broadcasts' \in Seq(Broadcasts)
           /\ sent' \subseteq [shown : Asks \union {NoAsk}, broadcast : Broadcasts]
<1> DEFINE b == [action |-> x.action, from |-> o, id |-> x.id]
<1>1. b \in Broadcasts
  BY OthersAssumption DEF Broadcasts
<1>2. /\ broadcasts' = Append(broadcasts, b)
      /\ sent' = sent \union {[shown |-> NoAsk, broadcast |-> b]}
  BY DEF OtherBroadcast
<1> HIDE DEF b
<1>3. broadcasts' \in Seq(Broadcasts)
  BY <1>1, <1>2, AppendProperties DEF TypeOK
<1>4. sent' \subseteq [shown : Asks \union {NoAsk}, broadcast : Broadcasts]
  BY <1>1, <1>2 DEF TypeOK
<1> QED BY <1>1, <1>3, <1>4 DEF b

\* Every step of FileAcceptance keeps the types.
LEMMA TypeStep == TypeOK /\ [Next]_vars => TypeOK'
<1> SUFFICES ASSUME TypeOK, [Next]_vars PROVE TypeOK'
  OBVIOUS
<1>1. CASE UNCHANGED vars
  BY <1>1 DEF TypeOK, vars, thread, callback, receiver, system
<1>2. ASSUME NEW a \in Asks, IncrementAndGet(a) PROVE TypeOK'
  BY <1>2 DEF IncrementAndGet, TypeOK, callback, system
<1>3. ASSUME NEW a \in Asks, PutCallback(a) PROVE TypeOK'
  BY <1>3 DEF PutCallback, TypeOK, callback, system
<1>4. ASSUME NEW a \in Asks, PostNotification(a) PROVE TypeOK'
  BY <1>4, PostType DEF PostNotification, TypeOK, callback, receiver, system
<1>5. ASSUME NEW a \in Asks, NEW v \in BOOLEAN, Return(a, v) PROVE TypeOK'
  <2>1. looper' \in Seq(Jobs)
    BY <1>5, PostType DEF Return, TypeOK
  <2> QED BY <1>5, <2>1 DEF Return, TypeOK, callback, receiver, system
<1>6. ASSUME NEW a \in Asks, AwaitAnswered(a) \/ AwaitTimedOut(a) PROVE TypeOK'
  BY <1>5, <1>6 DEF AwaitAnswered, AwaitTimedOut, TypeOK
<1>7. ASSUME NEW a \in Asks, Transfer(a) PROVE TypeOK'
  <2>1. looper' \in Seq(Jobs)
    BY <1>7, PostType
       DEF Transfer, ReceivingTotalProgress, ReceivingEnd, SenderGone, TypeOK
  <2> QED BY <1>7, <2>1
       DEF Transfer, ReceivingTotalProgress, ReceivingEnd, SenderGone, TypeOK,
           thread, callback, receiver, system
<1>8. CASE BuildNotification
  <2>1. Head(looper).ask \in Asks /\ looper' \in Seq(Jobs)
    BY <1>8, NextJobType DEF BuildNotification
  <2>2. pendingIntent' \in [Actions -> Asks]
    BY <1>8, <2>1 DEF BuildNotification, makeAcceptanceIntent, TypeOK
  <2>3. main' = [Idle EXCEPT !.do = "notify", !.ask = Head(looper).ask, !.pi = pendingIntent']
    BY <1>8 DEF BuildNotification
  <2>4. main' \in [do : {"idle", "notify", "set", "countDown"}, ask : Asks \union {NoAsk},
                  pi : [Actions -> Asks \union {NoAsk}], value : BOOLEAN]
        /\ main'.do = "notify" /\ main'.ask \in Asks /\ main'.pi \in [Actions -> Asks]
    BY <2>1, <2>2, <2>3 DEF Idle
  <2>5. pendingIntent' \in [Actions -> Asks \union {NoAsk}]
    BY <2>2
  <2> QED BY <1>8, <2>1, <2>4, <2>5 DEF BuildNotification, TypeOK, thread, callback, receiver
<1>9. CASE Notify
  BY <1>9, RecordTypes DEF Notify, Shown, TypeOK, thread, callback, receiver
<1>10. CASE CancelNotification
  BY <1>10, NextJobType, RecordTypes DEF CancelNotification, TypeOK, thread, callback, receiver
<1>11. CASE NotifyTransfer
  <2>1. Head(looper).ask \in Asks /\ looper' \in Seq(Jobs)
    BY <1>11, NextJobType DEF NotifyTransfer
  <2> QED BY <1>11, <2>1, RecordTypes DEF NotifyTransfer, Shown, TypeOK, thread, callback, receiver
<1>12. CASE OnReceive
  <2>1. broadcasts \in Seq(Broadcasts) /\ broadcasts # << >> /\ broadcasts' = Tail(broadcasts)
    BY <1>12 DEF OnReceive, TypeOK
  <2>2. Head(broadcasts) \in Broadcasts /\ broadcasts' \in Seq(Broadcasts)
    BY <2>1, HeadTailProperties
  <2> DEFINE b == Head(broadcasts)
             id == b.id
  <2>3. CASE id \notin DOMAIN CALLBACKS
    BY <1>12, <2>2, <2>3 DEF OnReceive, TypeOK, thread, callback
  <2>4. CASE id \in DOMAIN CALLBACKS
    <3>1. CALLBACKS[id] \in Asks
      BY <2>4 DEF TypeOK
    <3>2. main' = [Idle EXCEPT !.do = "set", !.ask = CALLBACKS[id],
                               !.value = (b.action = "accept")]
          /\ CALLBACKS' = [i \in DOMAIN CALLBACKS \ {id} |-> CALLBACKS[i]]
          /\ answer' = [answer EXCEPT ![CALLBACKS[id]] = b]
      BY <1>12, <2>4 DEF OnReceive
    <3>3. main' \in [do : {"idle", "notify", "set", "countDown"}, ask : Asks \union {NoAsk},
                    pi : [Actions -> Asks \union {NoAsk}], value : BOOLEAN]
          /\ main'.do = "set" /\ main'.ask \in Asks
      BY <3>1, <3>2 DEF Idle
    <3>4. DOMAIN CALLBACKS' \subseteq Nat /\ CALLBACKS' \in [DOMAIN CALLBACKS' -> Asks]
      BY <3>2 DEF TypeOK
    <3>5. answer' \in [Asks -> Broadcasts \union {NoBroadcast}]
      BY <2>2, <3>1, <3>2 DEF TypeOK
    <3> QED BY <1>12, <2>2, <3>3, <3>4, <3>5 DEF OnReceive, TypeOK, thread, callback
  <2> QED BY <2>3, <2>4
<1>13. CASE CallbackSet
  <2> USE RecordTypes DEF TypeOK, thread, receiver, system
  <2>1. CASE Write("set", [main EXCEPT !.do = "countDown"])
    BY <1>13, <2>1 DEF CallbackSet, Write
  <2>2. CASE CountDown("countDown", Idle)
    BY <1>13, <2>2 DEF CallbackSet, CountDown
  <2> QED BY <1>13, <2>1, <2>2 DEF CallbackSet
<1>14. ASSUME NEW c \in Actions, Tap(c) PROVE TypeOK'
  BY <1>14, FireType DEF Tap, TypeOK, thread, callback, receiver
<1>15. CASE Swipe
  <2>1. "decline" \in Actions
    BY DEF Actions
  <2> QED BY <1>15, <2>1, FireType, RecordTypes DEF Swipe, TypeOK, thread, callback, receiver
<1>16. ASSUME NEW c \in Actions, Collect(c) PROVE TypeOK'
  BY <1>16 DEF Collect, TypeOK, thread, callback, receiver
<1>17. CASE ProcessDeath
  <2>1. deaths' \in 0 .. MaxDeaths
    BY <1>17, MaxDeathsAssumption DEF ProcessDeath, TypeOK
  <2> QED BY <1>17, <2>1, RecordTypes DEF ProcessDeath, TypeOK, system
<1>18. ASSUME NEW o \in Others, NEW x \in OtherAnswers, OtherBroadcast(o, x) PROVE TypeOK'
  BY <1>18, OtherType DEF OtherBroadcast, TypeOK, thread, callback, receiver
<1> QED BY <1>1, <1>2, <1>3, <1>4, <1>6, <1>7, <1>8, <1>9, <1>10, <1>11, <1>12, <1>13, <1>14,
           <1>15, <1>16, <1>17, <1>18 DEF Next, AskThread, RunLooper, Receive

\* Type correctness of the acceptance of files.
THEOREM TypeCorrect == Spec => []TypeOK
<1>1. Init => TypeOK
  BY RecordTypes, MaxDeathsAssumption DEF Init, TypeOK
<1> QED BY <1>1, TypeStep, PTL DEF Spec

-----------------------------------------------------------------------------
(* The inductive invariant behind the safety properties. Ids are unique    *)
(* only within one process, so everything about CALLBACKS speaks of asks   *)
(* of the current one; that no Accept serves twice rests on the broadcasts *)
(* alone: a record is created once and fired once, and what was sent is    *)
(* delivered once.                                                         *)

Current(a) == pc[a] \notin {"idle", "dead"}
Answered(a) == answer[a] # NoBroadcast
Fired(b) == \E t \in sent : t.broadcast = b
Spent(c, f) == \E t \in sent : t.broadcast.action = c /\ t.broadcast.from = f

\* No PendingIntent carries the id of the ask yet, or ever did.
Fresh(a) ==
    /\ \A c \in Actions : pendingIntent[c] # a
    /\ \A t \in sent : t.broadcast.from # a

UniqueIds ==
    \A a \in Asks : Current(a) =>
        /\ acceptanceId[a] <= ATOMIC_INTEGER
        /\ \A b \in Asks : Current(b) /\ acceptanceId[a] = acceptanceId[b] => a = b

Registrations ==
    /\ \A i \in DOMAIN CALLBACKS :
          /\ Current(CALLBACKS[i])
          /\ acceptanceId[CALLBACKS[i]] = i
          /\ ~Answered(CALLBACKS[i])
          /\ pc[CALLBACKS[i]] # "register"
    /\ \A a \in Asks :
          /\ pc[a] \in {"post", "await"} /\ ~Answered(a) =>
                acceptanceId[a] \in DOMAIN CALLBACKS /\ CALLBACKS[acceptanceId[a]] = a
          /\ pc[a] \in {"idle", "register"} => ~Answered(a)

\* Only asks that drew their id have PendingIntents; these are fired from the
\* screen and carry that id.
RecordsHaveIds ==
    /\ \A c \in Actions : pendingIntent[c] \in Asks => pc[pendingIntent[c]] # "idle"
    /\ \A t \in sent : t.broadcast.from \notin Others =>
          /\ pc[t.broadcast.from] # "idle" /\ t.shown # NoAsk
          /\ t.broadcast.id = acceptanceId[t.broadcast.from]
    /\ \A i \in DOMAIN looper : pc[looper[i].ask] # "idle"

Answers ==
    /\ \A a \in Asks : Answered(a) =>
          Fired(answer[a]) /\ answer[a].id = acceptanceId[a]
    /\ \A a \in Asks : countDownLatch[a] =>
          Answered(a) /\ atomicBoolean[a] = (answer[a].action = "accept")
    /\ main.do \in {"set", "countDown"} =>
          Answered(main.ask) /\ main.value = (answer[main.ask].action = "accept")
    /\ main.do = "countDown" => atomicBoolean[main.ask] = main.value
    /\ \A a \in Asks : result[a] = "true" => Answered(a) /\ answer[a].action = "accept"

\* A record is created for one notification only and fired at most once;
\* what was sent is delivered at most once.
OneShot ==
    /\ \A a \in Asks : pc[a] \in {"idle", "register", "post"} =>
          Fresh(a) /\ \A i \in DOMAIN looper : looper[i] # [job |-> "ask", ask |-> a]
    /\ \A i \in DOMAIN looper : looper[i].job = "ask" =>
          Fresh(looper[i].ask) /\ \A j \in DOMAIN looper : looper[j] = looper[i] => i = j
    /\ \A c \in Actions : ~Spent(c, pendingIntent[c])
    /\ \A t, u \in sent : t.broadcast.action = u.broadcast.action
                         /\ t.broadcast.from = u.broadcast.from => t.broadcast = u.broadcast
    /\ \A i \in DOMAIN broadcasts :
          /\ Fired(broadcasts[i])
          /\ \A j \in DOMAIN broadcasts : broadcasts[j] = broadcasts[i] => i = j
          /\ \A a \in Asks : answer[a] # broadcasts[i]
    /\ \A a, b \in Asks : Answered(a) /\ answer[a] = answer[b] => a = b

IInv == TypeOK /\ UniqueIds /\ Registrations /\ RecordsHaveIds /\ Answers /\ OneShot

-----------------------------------------------------------------------------
(* Each part of the invariant is kept by every step.                       *)

\* What the steps of threads and transfers that draw no id have in common.
LEMMA LaterSteps ==
    ASSUME NEW a \in Asks,
           PutCallback(a) \/ PostNotification(a) \/ AwaitAnswered(a) \/ AwaitTimedOut(a)
               \/ Transfer(a),
           TypeOK
    PROVE  /\ pc[a] \notin {"idle", "dead"}
           /\ pc' = [pc EXCEPT ![a] = pc'[a]]
           /\ pc'[a] \notin {"idle", "register", "dead"}
           /\ UNCHANGED <<acceptanceId, ATOMIC_INTEGER, pendingIntent, sent, broadcasts, answer>>
BY DEF PutCallback, PostNotification, AwaitAnswered, AwaitTimedOut, Return, Transfer,
       ReceivingTotalProgress, ReceivingEnd, SenderGone, TypeOK, thread, callback, receiver, system

\* What the steps of the main thread and the user leave alone.
LEMMA OtherSteps ==
    ASSUME \/ UNCHANGED vars
           \/ RunLooper \/ Receive
           \/ \E c \in Actions : Tap(c) \/ Collect(c)
           \/ Swipe
           \/ \E o \in Others, x \in OtherAnswers : OtherBroadcast(o, x)
    PROVE  UNCHANGED <<pc, acceptanceId, result, ATOMIC_INTEGER>>
BY DEF RunLooper, BuildNotification, Notify, CancelNotification, NotifyTransfer, Receive,
       OnReceive, CallbackSet, Write, CountDown, Tap, Swipe, Collect, Fire, OtherBroadcast, vars,
       thread, receiver

LEMMA UniqueIdsStep == IInv /\ [Next]_vars => UniqueIds'
<1> SUFFICES ASSUME IInv, [Next]_vars PROVE UniqueIds'
  OBVIOUS
<1> USE DEF UniqueIds, Current
<1>1. ASSUME NEW a \in Asks, IncrementAndGet(a) PROVE UniqueIds'
  BY <1>1 DEF IncrementAndGet, IInv, TypeOK
<1>2. ASSUME NEW a \in Asks,
             PutCallback(a) \/ PostNotification(a) \/ AwaitAnswered(a) \/ AwaitTimedOut(a)
                 \/ Transfer(a)
      PROVE  UniqueIds'
  <2>1. /\ Current(a)
        /\ pc' = [pc EXCEPT ![a] = pc'[a]]
        /\ pc'[a] \notin {"idle", "register", "dead"}
        /\ UNCHANGED <<acceptanceId, ATOMIC_INTEGER, answer>>
    BY <1>2, LaterSteps DEF IInv
  <2>2. DOMAIN pc = Asks
    BY DEF IInv, TypeOK
  <2>3. \A b \in Asks : pc'[b] \notin {"idle", "dead"} => Current(b)
    BY <2>1, <2>2
  <2> QED BY <2>1, <2>3 DEF IInv
<1>3. CASE \/ UNCHANGED vars
           \/ RunLooper \/ Receive
           \/ \E c \in Actions : Tap(c) \/ Collect(c)
           \/ Swipe
           \/ \E o \in Others, x \in OtherAnswers : OtherBroadcast(o, x)
  BY <1>3, OtherSteps DEF IInv
<1>4. CASE ProcessDeath
  BY <1>4 DEF ProcessDeath, IInv, TypeOK
<1> QED BY <1>1, <1>2, <1>3, <1>4 DEF Next, AskThread

LEMMA RegistrationsStep == IInv /\ [Next]_vars => Registrations'
<1> SUFFICES ASSUME IInv, [Next]_vars PROVE Registrations'
  OBVIOUS
<1> USE DEF Registrations, Current, Answered
<1>1. ASSUME NEW a \in Asks, IncrementAndGet(a) PROVE Registrations'
  BY <1>1 DEF IncrementAndGet, IInv, TypeOK
<1>2. ASSUME NEW a \in Asks, PutCallback(a) PROVE Registrations'
  <2>1. \A b \in Asks : Current(b) /\ acceptanceId[b] = acceptanceId[a] => b = a
    BY <1>2 DEF PutCallback, IInv, UniqueIds
  <2> QED BY <1>2, <2>1 DEF PutCallback, IInv, TypeOK
<1>3. ASSUME NEW a \in Asks,
             PostNotification(a) \/ AwaitAnswered(a) \/ AwaitTimedOut(a) \/ Transfer(a)
      PROVE  Registrations'
  <2>1. UNCHANGED CALLBACKS /\ (pc'[a] \in {"post", "await"} => pc[a] \in {"post", "await"})
    BY <1>3 DEF PostNotification, AwaitAnswered, AwaitTimedOut, Return, Transfer,
                ReceivingTotalProgress, ReceivingEnd, SenderGone, IInv, TypeOK, thread, receiver
  <2>2. /\ Current(a)
        /\ pc' = [pc EXCEPT ![a] = pc'[a]]
        /\ pc'[a] \notin {"idle", "register", "dead"}
        /\ UNCHANGED <<acceptanceId, ATOMIC_INTEGER, answer>>
    BY <1>3, LaterSteps DEF IInv
  <2>3. DOMAIN pc = Asks /\ \A i \in DOMAIN CALLBACKS : CALLBACKS[i] \in Asks
    BY DEF IInv, TypeOK
  <2> QED BY <2>1, <2>2, <2>3 DEF IInv
<1>4. CASE OnReceive
  <2> DEFINE b == Head(broadcasts)
             id == b.id
  <2>1. UNCHANGED <<pc, acceptanceId>>
    BY <1>4 DEF OnReceive, thread
  <2>2. CASE id \notin DOMAIN CALLBACKS
    BY <1>4, <2>1, <2>2 DEF OnReceive, IInv
  <2>3. CASE id \in DOMAIN CALLBACKS
    <3>1. CALLBACKS' = [i \in DOMAIN CALLBACKS \ {id} |-> CALLBACKS[i]]
          /\ answer' = [answer EXCEPT ![CALLBACKS[id]] = b]
      BY <1>4, <2>3 DEF OnReceive
    <3>2. b \in Broadcasts
      BY <1>4, HeadTailProperties DEF OnReceive, IInv, TypeOK
    <3>3. b # NoBroadcast
      BY <3>2 DEF Broadcasts, NoBroadcast, Actions
    <3>4. pc[CALLBACKS[id]] \notin {"idle", "register"} /\ CALLBACKS[id] \in Asks
      BY <2>3 DEF IInv, TypeOK
    <3>5. DOMAIN answer = Asks /\ \A i \in DOMAIN CALLBACKS : CALLBACKS[i] \in Asks
      BY DEF IInv, TypeOK
    <3> HIDE DEF b, id
    <3>6. \A i \in DOMAIN CALLBACKS' : CALLBACKS'[i] = CALLBACKS[i] /\ CALLBACKS[i] # CALLBACKS[id]
      BY <2>3, <3>1 DEF IInv
    <3>7. \A i \in DOMAIN CALLBACKS' : answer'[CALLBACKS'[i]] = answer[CALLBACKS[i]]
      BY <3>1, <3>5, <3>6
    <3>8. \A a \in Asks : a # CALLBACKS[id] => answer'[a] = answer[a]
      BY <3>1, <3>5
    <3>9. answer'[CALLBACKS[id]] # NoBroadcast
      BY <3>1, <3>3, <3>4, <3>5
    <3>10. DOMAIN CALLBACKS' = DOMAIN CALLBACKS \ {id}
      BY <3>1
    <3> QED BY <2>1, <3>4, <3>6, <3>7, <3>8, <3>9, <3>10 DEF IInv
  <2> QED BY <2>2, <2>3
<1>5. CASE \/ UNCHANGED vars
           \/ RunLooper \/ CallbackSet
           \/ \E c \in Actions : Tap(c) \/ Collect(c)
           \/ Swipe
           \/ \E o \in Others, x \in OtherAnswers : OtherBroadcast(o, x)
  <2>1. UNCHANGED <<CALLBACKS, answer>>
    BY <1>5 DEF RunLooper, BuildNotification, Notify, CancelNotification, NotifyTransfer,
                CallbackSet, Tap, Swipe, Collect, OtherBroadcast, vars, receiver
  <2> QED BY <1>5, <2>1, OtherSteps DEF Receive, IInv
<1>6. CASE ProcessDeath
  BY <1>6 DEF ProcessDeath, IInv, TypeOK
<1> QED BY <1>1, <1>2, <1>3, <1>4, <1>5, <1>6 DEF Next, AskThread, Receive

-----------------------------------------------------------------------------
(* The looper's queue and the broadcasts.                                  *)

\* Appending adds one element at the end and leaves the others in place.
LEMMA AppendElements ==
    ASSUME NEW S, NEW q \in Seq(S), NEW e \in S
    PROVE  /\ DOMAIN q = 1 .. Len(q) /\ Len(q) \in Nat
           /\ DOMAIN Append(q, e) = 1 .. Len(q) + 1
           /\ \A i \in DOMAIN q : i \in DOMAIN Append(q, e) /\ Append(q, e)[i] = q[i]
           /\ \A i \in DOMAIN Append(q, e) : i \notin DOMAIN q => Append(q, e)[i] = e
BY AppendProperties

\* What is left of a queue are its elements but the first, in order.
LEMMA TailElements ==
    ASSUME NEW S, NEW q \in Seq(S), q # << >>
    PROVE  /\ 1 \in DOMAIN q /\ Head(q) = q[1] /\ Head(q) \in S
           /\ DOMAIN Tail(q) \subseteq Nat
           /\ \A i \in DOMAIN Tail(q) :
                 i + 1 \in DOMAIN q /\ i + 1 # 1 /\ Tail(q)[i] = q[i + 1]
BY HeadTailProperties

\* A step either posts one job of an ask that runs, or only takes jobs away.
LEMMA LooperStep ==
    ASSUME TypeOK, [Next]_vars
    PROVE  \/ \E a \in Asks : Current(a) /\ pc'[a] # "idle"
                             /\ \E job \in {"ask", "cancel", "transfer"} : Post(job, a)
           \/ looper' = looper
           \/ looper # << >> /\ looper' = Tail(looper)
           \/ looper' = << >>
<1>1. ASSUME NEW a \in Asks, IncrementAndGet(a) PROVE looper' = looper
  BY <1>1 DEF IncrementAndGet
<1>2. ASSUME NEW a \in Asks,
             PutCallback(a) \/ PostNotification(a) \/ AwaitAnswered(a) \/ AwaitTimedOut(a)
                 \/ Transfer(a)
      PROVE  \/ looper' = looper
             \/ /\ Current(a) /\ pc'[a] # "idle"
                /\ \E job \in {"ask", "cancel", "transfer"} : Post(job, a)
  <2>1. Current(a) /\ pc'[a] # "idle"
    BY <1>2, LaterSteps DEF Current
  <2> QED BY <1>2, <2>1
       DEF PutCallback, PostNotification, AwaitAnswered, AwaitTimedOut, Return, Transfer,
           ReceivingTotalProgress, ReceivingEnd, SenderGone
<1>3. CASE \/ UNCHANGED vars
           \/ RunLooper \/ Receive
           \/ \E c \in Actions : Tap(c) \/ Collect(c)
           \/ Swipe
           \/ \E o \in Others, x \in OtherAnswers : OtherBroadcast(o, x)
  BY <1>3 DEF RunLooper, BuildNotification, Notify, CancelNotification, NotifyTransfer, NextJob,
              Receive, OnReceive, CallbackSet, Tap, Swipe, Collect, OtherBroadcast, vars
<1>4. CASE ProcessDeath
  BY <1>4 DEF ProcessDeath
<1> QED BY <1>1, <1>2, <1>3, <1>4 DEF Next, AskThread

\* An ask that arrived stays arrived and keeps its id.
LEMMA NeverIdleAgain ==
    ASSUME TypeOK, [Next]_vars, NEW a \in Asks, pc[a] # "idle"
    PROVE  pc'[a] # "idle" /\ acceptanceId'[a] = acceptanceId[a]
<1>1. ASSUME NEW b \in Asks, IncrementAndGet(b)
      PROVE  pc'[a] # "idle" /\ acceptanceId'[a] = acceptanceId[a]
  BY <1>1 DEF IncrementAndGet, TypeOK
<1>2. ASSUME NEW b \in Asks,
             PutCallback(b) \/ PostNotification(b) \/ AwaitAnswered(b) \/ AwaitTimedOut(b)
                 \/ Transfer(b)
      PROVE  pc'[a] # "idle" /\ acceptanceId'[a] = acceptanceId[a]
  <2>1. pc' = [pc EXCEPT ![b] = pc'[b]] /\ pc'[b] # "idle" /\ UNCHANGED acceptanceId
    BY <1>2, LaterSteps
  <2> QED BY <2>1 DEF TypeOK
<1>3. CASE \/ UNCHANGED vars
           \/ RunLooper \/ Receive
           \/ \E c \in Actions : Tap(c) \/ Collect(c)
           \/ Swipe
           \/ \E o \in Others, x \in OtherAnswers : OtherBroadcast(o, x)
  BY <1>3, OtherSteps
<1>4. CASE ProcessDeath
  BY <1>4 DEF ProcessDeath
<1> QED BY <1>1, <1>2, <1>3, <1>4 DEF Next, AskThread

\* PendingIntent records appear only when a notification is built, for the
\* ask at the head of the looper, and leave when fired or collected.
LEMMA PendingIntentStep ==
    ASSUME TypeOK, [Next]_vars
    PROVE  \/ BuildNotification /\ UNCHANGED <<sent, broadcasts>>
           \/ \E c \in Actions :
                 Live(c) /\ Fire(c) /\ UNCHANGED <<pc, acceptanceId, looper, answer>>
           \/ \E o \in Others, x \in OtherAnswers : OtherBroadcast(o, x)
           \/ /\ UNCHANGED sent
              /\ \A c \in Actions : pendingIntent'[c] \in {pendingIntent[c], NoAsk}
              /\ (UNCHANGED broadcasts \/ OnReceive)
<1>1. ASSUME NEW a \in Asks, IncrementAndGet(a) PROVE UNCHANGED system
  BY <1>1 DEF IncrementAndGet
<1>2. ASSUME NEW a \in Asks,
             PutCallback(a) \/ PostNotification(a) \/ AwaitAnswered(a) \/ AwaitTimedOut(a)
                 \/ Transfer(a)
      PROVE  UNCHANGED <<pendingIntent, sent, broadcasts>>
  BY <1>2, LaterSteps
<1>3. CASE BuildNotification
  BY <1>3 DEF BuildNotification
<1>4. CASE OnReceive \/ ProcessDeath \/ UNCHANGED vars \/ Notify \/ CancelNotification
           \/ NotifyTransfer \/ CallbackSet
  <2>1. UNCHANGED <<sent, pendingIntent>> /\ (UNCHANGED broadcasts \/ OnReceive)
    BY <1>4 DEF OnReceive, ProcessDeath, vars, Notify, CancelNotification, NotifyTransfer,
                CallbackSet, system
  <2> QED BY <2>1
<1>5. ASSUME NEW c \in Actions, Tap(c)
      PROVE  Live(c) /\ Fire(c) /\ UNCHANGED <<pc, acceptanceId, looper, answer>>
  BY <1>5 DEF Tap, thread
<1>6. CASE Swipe
  <2>1. "decline" \in Actions
    BY DEF Actions
  <2>2. CASE Live("decline")
    BY <1>6, <2>1, <2>2 DEF Swipe, thread
  <2>3. CASE ~Live("decline")
    BY <1>6, <2>3 DEF Swipe, thread
  <2> QED BY <2>2, <2>3
<1>7. ASSUME NEW c \in Actions, Collect(c)
      PROVE  /\ UNCHANGED <<sent, broadcasts>>
             /\ \A d \in Actions : pendingIntent'[d] \in {pendingIntent[d], NoAsk}
  BY <1>7 DEF Collect, TypeOK
<1> QED BY <1>1, <1>2, <1>3, <1>4, <1>5, <1>6, <1>7
     DEF Next, AskThread, RunLooper, Receive, system

LEMMA RecordsHaveIdsStep == IInv /\ [Next]_vars => RecordsHaveIds'
<1> SUFFICES ASSUME IInv, [Next]_vars PROVE RecordsHaveIds'
  OBVIOUS
<1>1. TypeOK /\ TypeOK' /\ RecordsHaveIds
  BY TypeStep DEF IInv
<1>2. \A a \in Asks : pc[a] # "idle" => pc'[a] # "idle" /\ acceptanceId'[a] = acceptanceId[a]
  BY <1>1, NeverIdleAgain
<1>3. \A i \in DOMAIN looper' : pc'[looper'[i].ask] # "idle"
  <2>1. looper \in Seq(Jobs) /\ \A i \in DOMAIN looper : looper[i].ask \in Asks
    <3>1. looper \in Seq(Jobs)
      BY <1>1 DEF TypeOK
    <3>2. \A i \in DOMAIN looper : looper[i] \in Jobs
      BY <3>1, ElementOfSeq, LenProperties
    <3> QED BY <3>1, <3>2 DEF Jobs
  <2>2. ASSUME NEW a \in Asks, pc'[a] # "idle", NEW job \in {"ask", "cancel", "transfer"},
               Post(job, a)
        PROVE  \A i \in DOMAIN looper' : pc'[looper'[i].ask] # "idle"
    <3> DEFINE e == [job |-> job, ask |-> a]
    <3>1. e \in Jobs /\ e.ask = a
      BY DEF Jobs
    <3>2. \A i \in DOMAIN looper' : (i \in DOMAIN looper /\ looper'[i] = looper[i]) \/ looper'[i] = e
      BY <2>1, <2>2, <3>1, AppendElements DEF Post
    <3> QED BY <1>1, <1>2, <2>1, <2>2, <3>1, <3>2 DEF RecordsHaveIds
  <2>3. CASE looper' = looper
    BY <1>1, <1>2, <2>1, <2>3 DEF RecordsHaveIds
  <2>4. CASE looper # << >> /\ looper' = Tail(looper)
    <3>1. \A i \in DOMAIN looper' : i + 1 \in DOMAIN looper /\ looper'[i] = looper[i + 1]
      BY <2>1, <2>4, TailElements
    <3> QED BY <1>1, <1>2, <2>1, <3>1 DEF RecordsHaveIds
  <2>5. CASE looper' = << >>
    BY <2>5
  <2> QED BY <1>1, <2>2, <2>3, <2>4, <2>5, LooperStep
<1> DEFINE Good(t) == t.broadcast.from \notin Others =>
                         /\ pc[t.broadcast.from] # "idle" /\ t.shown # NoAsk
                         /\ t.broadcast.id = acceptanceId[t.broadcast.from]
           Records == \A c \in Actions : pendingIntent[c] \in Asks => pc[pendingIntent[c]] # "idle"
\* What was sent before is as it was.
<1>4. \A t \in sent : Good(t)'
  <2>1. \A t \in sent : Good(t)
    BY <1>1 DEF RecordsHaveIds
  <2>2. \A t \in sent : t.broadcast.from \notin Others => t.broadcast.from \in Asks
    BY <1>1 DEF TypeOK, Broadcasts
  <2> QED BY <1>2, <2>1, <2>2
<1>5. Records' /\ \A t \in sent' : Good(t)'
  <2>1. Records
    BY <1>1 DEF RecordsHaveIds
  <2>2. CASE BuildNotification /\ UNCHANGED <<sent, broadcasts>>
    <3>1. Head(looper).ask \in Asks
      BY <1>1, <2>2, NextJobType DEF BuildNotification
    <3>2. pc[Head(looper).ask] # "idle"
      BY <1>1, <2>2, TailElements DEF BuildNotification, NextJob, TypeOK, RecordsHaveIds
    <3>3. \A c \in Actions : pendingIntent'[c] \in {pendingIntent[c], Head(looper).ask}
      BY <2>2 DEF BuildNotification, makeAcceptanceIntent
    <3>4. Records'
      BY <1>2, <2>1, <3>1, <3>2, <3>3
    <3> HIDE DEF Good, Records
    <3> QED BY <1>4, <2>2, <3>4
  <2>3. ASSUME NEW c \in Actions, Live(c), Fire(c), UNCHANGED <<pc, acceptanceId, looper, answer>>
        PROVE  Records' /\ \A t \in sent' : Good(t)'
    <3>1. pendingIntent[c] \in Asks /\ notification.ask \in Asks
      BY <1>1, <2>3 DEF TypeOK, Live
    <3>2. \A d \in Actions : pendingIntent'[d] \in {pendingIntent[d], NoAsk}
      BY <1>1, <2>3 DEF TypeOK, Fire
    <3>3. Records'
      BY <1>2, <2>1, <3>2, NoAskAssumption
    <3>4. PICK e : e = [shown |-> notification.ask, broadcast |-> Record(c)]
      OBVIOUS
    <3>5. /\ sent' = sent \union {e} /\ e.shown = notification.ask
          /\ e.broadcast.from = pendingIntent[c]
          /\ e.broadcast.id = acceptanceId[pendingIntent[c]]
      BY <2>3, <3>4 DEF Fire, Record
    <3>6. pc'[e.broadcast.from] # "idle" /\ e.shown # NoAsk
          /\ e.broadcast.id = acceptanceId'[e.broadcast.from]
      BY <1>2, <2>1, <2>3, <3>1, <3>5, NoAskAssumption
    <3>7. Good(e)'
      BY <3>6
    <3> HIDE DEF Good, Records
    <3> QED BY <1>4, <3>3, <3>5, <3>7
  <2>4. ASSUME NEW o \in Others, NEW x \in OtherAnswers, OtherBroadcast(o, x)
        PROVE  Records' /\ \A t \in sent' : Good(t)'
    <3>1. PICK e : e = [shown |-> NoAsk,
                        broadcast |-> [action |-> x.action, from |-> o, id |-> x.id]]
      OBVIOUS
    <3>2. sent' = sent \union {e} /\ UNCHANGED pendingIntent /\ e.broadcast.from \in Others
      BY <2>4, <3>1 DEF OtherBroadcast
    <3>3. Records'
      BY <1>2, <2>1, <3>2
    <3>4. Good(e)'
      BY <3>2
    <3> HIDE DEF Good, Records
    <3> QED BY <1>4, <3>2, <3>3, <3>4
  <2>5. CASE /\ UNCHANGED sent
             /\ \A c \in Actions : pendingIntent'[c] \in {pendingIntent[c], NoAsk}
    <3>1. Records'
      BY <1>2, <2>1, <2>5, NoAskAssumption
    <3> HIDE DEF Good, Records
    <3> QED BY <1>4, <2>5, <3>1
  <2> HIDE DEF Good, Records
  <2> QED BY <1>1, <2>2, <2>3, <2>4, <2>5, PendingIntentStep
<1> QED BY <1>3, <1>5 DEF RecordsHaveIds

\* A broadcast that is delivered was fired, answers nothing yet, and carries
\* the id of an ask that still waits for an answer, or of none.
LEMMA Delivered ==
    ASSUME IInv, OnReceive
    PROVE  /\ Head(broadcasts) \in Broadcasts
           /\ Head(broadcasts) # NoBroadcast
           /\ Fired(Head(broadcasts))
           /\ \A a \in Asks : answer[a] # Head(broadcasts)
           /\ \A i \in DOMAIN broadcasts' :
                 broadcasts'[i] # Head(broadcasts) /\ Fired(broadcasts'[i])
                 /\ \A a \in Asks : answer[a] # broadcasts'[i]
           /\ \A i, j \in DOMAIN broadcasts' : broadcasts'[i] = broadcasts'[j] => i = j
<1>1. broadcasts \in Seq(Broadcasts) /\ broadcasts # << >> /\ broadcasts' = Tail(broadcasts)
  BY DEF IInv, TypeOK, OnReceive
<1>2. /\ 1 \in DOMAIN broadcasts /\ Head(broadcasts) = broadcasts[1]
      /\ Head(broadcasts) \in Broadcasts /\ DOMAIN broadcasts' \subseteq Nat
      /\ \A i \in DOMAIN broadcasts' :
            i + 1 \in DOMAIN broadcasts /\ i + 1 # 1 /\ broadcasts'[i] = broadcasts[i + 1]
  BY <1>1, TailElements
<1>3. Head(broadcasts) # NoBroadcast
  BY <1>2 DEF Broadcasts, NoBroadcast, Actions
<1>4. \A i \in DOMAIN broadcasts :
         /\ Fired(broadcasts[i])
         /\ \A j \in DOMAIN broadcasts : broadcasts[j] = broadcasts[i] => i = j
         /\ \A a \in Asks : answer[a] # broadcasts[i]
  BY DEF IInv, OneShot
<1>5. ASSUME NEW i \in DOMAIN broadcasts', NEW j \in DOMAIN broadcasts',
             broadcasts'[i] = broadcasts'[j]
      PROVE  i = j
  <2>1. i + 1 = j + 1 /\ i \in Nat /\ j \in Nat
    BY <1>2, <1>4, <1>5
  <2> QED BY <2>1
<1>6. \A i \in DOMAIN broadcasts' : broadcasts'[i] # Head(broadcasts)
  BY <1>2, <1>4
<1> QED BY <1>2, <1>3, <1>4, <1>5, <1>6

LEMMA AnswersStep == IInv /\ [Next]_vars => Answers'
<1> SUFFICES ASSUME IInv, [Next]_vars PROVE Answers'
  OBVIOUS
<1>1. TypeOK /\ Answers
  BY DEF IInv
<1>2. ASSUME NEW a \in Asks, IncrementAndGet(a) PROVE Answers'
  <2>1. /\ UNCHANGED <<answer, sent, countDownLatch, atomicBoolean, main, result>>
        /\ acceptanceId' = [acceptanceId EXCEPT ![a] = acceptanceId'[a]]
        /\ pc[a] = "idle"
    BY <1>1, <1>2 DEF IncrementAndGet, callback, system, TypeOK
  <2>2. \A b \in Asks : Answered(b) => b # a
    BY <2>1 DEF IInv, Registrations
  <2>3. \A b \in Asks : b # a => acceptanceId'[b] = acceptanceId[b]
    BY <1>1, <2>1 DEF TypeOK
  <2> QED BY <1>1, <2>1, <2>2, <2>3 DEF Answers, Answered, Fired
<1>3. ASSUME NEW a \in Asks, PutCallback(a) \/ PostNotification(a) \/ Transfer(a)
      PROVE  Answers'
  <2>1. UNCHANGED <<answer, sent, countDownLatch, atomicBoolean, main, result, acceptanceId>>
    BY <1>3 DEF PutCallback, PostNotification, Transfer, ReceivingTotalProgress, ReceivingEnd,
                SenderGone, thread, callback, system
  <2> QED BY <1>1, <2>1 DEF Answers, Answered, Fired
<1>4. ASSUME NEW a \in Asks, AwaitAnswered(a) \/ AwaitTimedOut(a) PROVE Answers'
  <2>1. UNCHANGED <<answer, sent, countDownLatch, atomicBoolean, main, acceptanceId>>
    BY <1>4 DEF AwaitAnswered, AwaitTimedOut, Return, callback, system
  <2>2. \A b \in Asks : result'[b] = "true" => Answered(b) /\ answer[b].action = "accept"
    <3>1. \A b \in Asks : b # a => result'[b] = result[b]
      BY <1>1, <1>4 DEF AwaitAnswered, AwaitTimedOut, Return, TypeOK
    <3>2. result'[a] = "true" => countDownLatch[a] /\ atomicBoolean[a] = TRUE
      BY <1>1, <1>4 DEF AwaitAnswered, AwaitTimedOut, Return, TypeOK
    <3> QED BY <1>1, <3>1, <3>2 DEF Answers
  <2> QED BY <1>1, <2>1, <2>2 DEF Answers, Answered, Fired
<1>5. CASE OnReceive
  <2> DEFINE b == Head(broadcasts)
             id == b.id
             x == CALLBACKS[id]
  <2>1. /\ UNCHANGED <<acceptanceId, sent, countDownLatch, atomicBoolean, result>>
        /\ b # NoBroadcast /\ Fired(b) /\ main.do = "idle"
    BY <1>5, Delivered DEF OnReceive, thread, callback
  <2>2. CASE id \notin DOMAIN CALLBACKS
    <3>1. UNCHANGED <<answer, main>>
      BY <1>5, <2>2 DEF OnReceive
    <3> QED BY <1>1, <2>1, <3>1 DEF Answers, Answered, Fired
  <2>3. CASE id \in DOMAIN CALLBACKS
    <3>1. x \in Asks /\ acceptanceId[x] = id /\ ~Answered(x)
      BY <2>3 DEF IInv, TypeOK, Registrations
    <3>2. /\ answer' = [answer EXCEPT ![x] = b]
          /\ main' = [Idle EXCEPT !.do = "set", !.ask = x, !.value = (b.action = "accept")]
      BY <1>5, <2>3 DEF OnReceive
    <3>3. answer'[x] = b /\ \A a \in Asks : a # x => answer'[a] = answer[a]
      BY <1>1, <3>1, <3>2 DEF TypeOK
    <3>4. main'.do = "set" /\ main'.ask = x /\ main'.value = (b.action = "accept")
      BY <3>2 DEF Idle
    <3>5. ~countDownLatch[x] /\ result[x] # "true"
      BY <1>1, <3>1 DEF Answers
    <3> HIDE DEF b, id, x
    <3>6. \E t \in sent' : t.broadcast = b
      BY <2>1 DEF Fired
    <3>7. b.id = id
      BY DEF id
    <3>8. ASSUME NEW a \in Asks, Answered(a)'
          PROVE  Fired(answer[a])' /\ answer'[a].id = acceptanceId'[a]
      <4>1. CASE a # x
        BY <1>1, <2>1, <3>3, <3>8, <4>1 DEF Answers, Answered, Fired
      <4>2. CASE a = x
        BY <2>1, <3>1, <3>3, <3>6, <3>7, <4>2 DEF Fired
      <4> QED BY <4>1, <4>2
    <3>9. \A a \in Asks : countDownLatch'[a] =>
             Answered(a)' /\ atomicBoolean'[a] = (answer'[a].action = "accept")
      BY <1>1, <2>1, <3>3, <3>5 DEF Answers, Answered
    <3>10. \A a \in Asks : result'[a] = "true" => Answered(a)' /\ answer'[a].action = "accept"
      BY <1>1, <2>1, <3>3, <3>5 DEF Answers, Answered
    <3>11. Answered(main.ask)' /\ main'.value = (answer'[main'.ask].action = "accept")
      BY <2>1, <3>3, <3>4 DEF Answered
    <3> QED BY <3>4, <3>8, <3>9, <3>10, <3>11 DEF Answers
  <2> QED BY <2>2, <2>3
<1>6. CASE CallbackSet
  <2>1. UNCHANGED <<answer, sent, acceptanceId, result>>
    BY <1>6 DEF CallbackSet, thread, system
  <2>2. CASE Write("set", [main EXCEPT !.do = "countDown"])
    <3>1. /\ main.do = "set" /\ main.ask \in Asks /\ UNCHANGED countDownLatch
          /\ main'.do = "countDown" /\ main'.ask = main.ask /\ main'.value = main.value
          /\ atomicBoolean' = [atomicBoolean EXCEPT ![main.ask] = main.value]
      BY <1>1, <2>2 DEF Write, TypeOK
    <3>2. /\ atomicBoolean'[main.ask] = main.value
          /\ \A a \in Asks : a # main.ask => atomicBoolean'[a] = atomicBoolean[a]
      BY <1>1, <3>1 DEF TypeOK
    <3> QED BY <1>1, <2>1, <3>1, <3>2 DEF Answers, Answered, Fired
  <2>3. CASE CountDown("countDown", Idle)
    <3>1. /\ main.do = "countDown" /\ main.ask \in Asks /\ UNCHANGED atomicBoolean
          /\ main'.do = "idle"
          /\ \A a \in Asks : a # main.ask => countDownLatch'[a] = countDownLatch[a]
      BY <1>1, <2>3, RecordTypes DEF CountDown, TypeOK
    <3> QED BY <1>1, <2>1, <3>1 DEF Answers, Answered, Fired
  <2> QED BY <1>6, <2>2, <2>3 DEF CallbackSet
<1>7. CASE RunLooper \/ \E c \in Actions : Collect(c)
  <2>1. UNCHANGED <<answer, sent, acceptanceId, result, atomicBoolean, countDownLatch>>
    BY <1>7 DEF RunLooper, BuildNotification, Notify, CancelNotification, NotifyTransfer, Collect,
                thread, callback
  <2>2. UNCHANGED main \/ main'.do \in {"notify", "idle"}
    BY <1>7, RecordTypes DEF RunLooper, BuildNotification, Notify, CancelNotification,
                             NotifyTransfer, Collect, Idle
  <2> QED BY <1>1, <2>1, <2>2 DEF Answers, Answered, Fired
<1>8. CASE \/ Swipe \/ \E c \in Actions : Tap(c)
           \/ \E o \in Others, x \in OtherAnswers : OtherBroadcast(o, x)
  <2>1. /\ UNCHANGED <<answer, acceptanceId, result, atomicBoolean, countDownLatch, main>>
        /\ sent \subseteq sent'
    BY <1>8 DEF Swipe, Tap, Fire, OtherBroadcast, thread, callback
  <2> QED BY <1>1, <2>1 DEF Answers, Answered, Fired
<1>9. CASE ProcessDeath
  <2>1. /\ UNCHANGED <<answer, sent, acceptanceId, result>>
        /\ \A a \in Asks : ~countDownLatch'[a]
        /\ main'.do = "idle"
    BY <1>9, RecordTypes DEF ProcessDeath, system
  <2> QED BY <1>1, <2>1 DEF Answers, Answered, Fired
<1>10. CASE UNCHANGED vars
  BY <1>1, <1>10 DEF Answers, Answered, Fired, vars, thread, callback, system
<1> QED BY <1>2, <1>3, <1>4, <1>5, <1>6, <1>7, <1>8, <1>9, <1>10 DEF Next, AskThread, Receive

\* The part of OneShot about asks whose notification is still to be built.
NotYetBuilt ==
    /\ \A a \in Asks : pc[a] \in {"idle", "register", "post"} =>
          Fresh(a) /\ \A i \in DOMAIN looper : looper[i] # [job |-> "ask", ask |-> a]
    /\ \A i \in DOMAIN looper : looper[i].job = "ask" =>
          Fresh(looper[i].ask) /\ \A j \in DOMAIN looper : looper[j] = looper[i] => i = j

\* The part of OneShot about records that exist and broadcasts.
FiredOnce ==
    /\ \A c \in Actions : ~Spent(c, pendingIntent[c])
    /\ \A t, u \in sent : t.broadcast.action = u.broadcast.action
                         /\ t.broadcast.from = u.broadcast.from => t.broadcast = u.broadcast
    /\ \A i \in DOMAIN broadcasts :
          /\ Fired(broadcasts[i])
          /\ \A j \in DOMAIN broadcasts : broadcasts[j] = broadcasts[i] => i = j
          /\ \A a \in Asks : answer[a] # broadcasts[i]
    /\ \A a, b \in Asks : Answered(a) /\ answer[a] = answer[b] => a = b

LEMMA OneShotParts == OneShot <=> NotYetBuilt /\ FiredOnce
BY DEF OneShot, NotYetBuilt, FiredOnce

\* Appending a job that is no second request to show an ask.
LEMMA PostKeepsNotYetBuilt ==
    ASSUME TypeOK, NotYetBuilt, NEW e \in Jobs, looper' = Append(looper, e),
           UNCHANGED <<pendingIntent, sent>>,
           \A b \in Asks : pc'[b] \in {"idle", "register", "post"} =>
               pc[b] \in {"idle", "register", "post"} /\ e # [job |-> "ask", ask |-> b],
           e.job = "ask" => pc[e.ask] = "post"
    PROVE  NotYetBuilt'
<1>1. looper \in Seq(Jobs)
  BY DEF TypeOK
<1>2. /\ DOMAIN looper = 1 .. Len(looper) /\ Len(looper) \in Nat
      /\ DOMAIN looper' = 1 .. Len(looper) + 1
      /\ \A i \in DOMAIN looper' :
            \/ i \in DOMAIN looper /\ looper'[i] = looper[i]
            \/ i = Len(looper) + 1 /\ looper'[i] = e
  BY <1>1, AppendElements
<1>3. \A a : Fresh(a)' <=> Fresh(a)
  BY DEF Fresh
<1>4. e.job = "ask" => Fresh(e.ask) /\ \A i \in DOMAIN looper : looper[i] # e
  BY DEF NotYetBuilt, Jobs
<1>5. \A a \in Asks : pc'[a] \in {"idle", "register", "post"} =>
         Fresh(a)' /\ \A i \in DOMAIN looper' : looper'[i] # [job |-> "ask", ask |-> a]
  BY <1>2, <1>3 DEF NotYetBuilt
<1>6. ASSUME NEW i \in DOMAIN looper', looper'[i].job = "ask"
      PROVE  Fresh(looper'[i].ask) /\ \A j \in DOMAIN looper' : looper'[j] = looper'[i] => i = j
  BY <1>2, <1>4, <1>6 DEF NotYetBuilt
<1>7. ASSUME NEW i \in DOMAIN looper', looper'[i].job = "ask"
      PROVE  Fresh(looper[i].ask)' /\ \A j \in DOMAIN looper' : looper'[j] = looper'[i] => i = j
  BY <1>6, <1>7 DEF Fresh
<1> QED BY <1>5, <1>7 DEF NotYetBuilt

\* Taking the first job away.
LEMMA TailKeepsNotYetBuilt ==
    ASSUME TypeOK, NotYetBuilt, looper # << >>, looper' = Tail(looper), UNCHANGED pc,
           \A a \in Asks : Fresh(a) /\ Head(looper) # [job |-> "ask", ask |-> a] => Fresh(a)'
    PROVE  NotYetBuilt'
<1>1. looper \in Seq(Jobs)
  BY DEF TypeOK
<1>2. /\ 1 \in DOMAIN looper /\ Head(looper) = looper[1] /\ DOMAIN looper' \subseteq Nat
      /\ \A i \in DOMAIN looper' :
            i + 1 \in DOMAIN looper /\ i + 1 # 1 /\ looper'[i] = looper[i + 1]
  BY <1>1, TailElements
<1>3. \A i \in DOMAIN looper : looper[i] \in Jobs
  BY <1>1, ElementOfSeq, LenProperties
<1>4. \A a \in Asks : pc'[a] \in {"idle", "register", "post"} =>
         Fresh(a)' /\ \A i \in DOMAIN looper' : looper'[i] # [job |-> "ask", ask |-> a]
  BY <1>2 DEF NotYetBuilt
<1>5. ASSUME NEW i \in DOMAIN looper', looper'[i].job = "ask"
      PROVE  Fresh(looper[i].ask)' /\ \A j \in DOMAIN looper' : looper'[j] = looper'[i] => i = j
  <2>1. i + 1 \in DOMAIN looper /\ i + 1 # 1 /\ looper'[i] = looper[i + 1] /\ i \in Nat
    BY <1>2
  <2>2. PICK a \in Asks : looper[i + 1] = [job |-> "ask", ask |-> a]
    BY <1>3, <1>5, <2>1 DEF Jobs
  <2>3. Fresh(a) /\ Head(looper) # [job |-> "ask", ask |-> a]
    BY <1>2, <1>5, <2>1, <2>2 DEF NotYetBuilt
  <2>4. Fresh(a)' /\ looper'[i].ask = a
    BY <2>1, <2>2, <2>3
  <2>5. \A k \in DOMAIN looper' : looper'[k] = looper'[i] => i + 1 = k + 1 /\ k \in Nat
    BY <1>2, <1>5, <2>1 DEF NotYetBuilt
  <2>6. \A k \in DOMAIN looper' : looper'[k] = looper'[i] => i = k
    BY <2>1, <2>5
  <2> QED BY <2>4, <2>6 DEF Fresh
<1> QED BY <1>4, <1>5 DEF NotYetBuilt

LEMMA NotYetBuiltStep == IInv /\ [Next]_vars => NotYetBuilt'
<1> SUFFICES ASSUME IInv, [Next]_vars PROVE NotYetBuilt'
  OBVIOUS
<1>1. TypeOK /\ NotYetBuilt
  BY OneShotParts DEF IInv
<1>2. ASSUME UNCHANGED <<looper, pendingIntent, sent>>,
             \A b \in Asks : pc'[b] \in {"idle", "register", "post"} =>
                 pc[b] \in {"idle", "register", "post"}
      PROVE  NotYetBuilt'
  BY <1>1, <1>2 DEF NotYetBuilt, Fresh
<1>3. ASSUME NEW a \in Asks, IncrementAndGet(a) \/ PutCallback(a) \/ SenderGone(a)
      PROVE  NotYetBuilt'
  <2>1. UNCHANGED <<looper, pendingIntent, sent>>
    BY <1>3 DEF IncrementAndGet, PutCallback, SenderGone, system
  <2>2. \A b \in Asks : pc'[b] \in {"idle", "register", "post"} =>
            pc[b] \in {"idle", "register", "post"}
    BY <1>1, <1>3 DEF IncrementAndGet, PutCallback, SenderGone, TypeOK
  <2> QED BY <1>2, <2>1, <2>2
<1>4. ASSUME NEW a \in Asks, PostNotification(a) PROVE NotYetBuilt'
  <2> DEFINE e == [job |-> "ask", ask |-> a]
  <2>1. /\ e \in Jobs /\ looper' = Append(looper, e) /\ UNCHANGED <<pendingIntent, sent>>
        /\ pc[a] = "post" /\ pc' = [pc EXCEPT ![a] = "await"]
    BY <1>4 DEF PostNotification, Post, Jobs, system
  <2>2. \A b \in Asks : pc'[b] \in {"idle", "register", "post"} =>
            pc[b] \in {"idle", "register", "post"} /\ b # a
    BY <1>1, <2>1 DEF TypeOK
  <2> QED BY <1>1, <2>1, <2>2, PostKeepsNotYetBuilt
<1>5. ASSUME NEW a \in Asks,
             \/ AwaitAnswered(a) \/ AwaitTimedOut(a)
             \/ ReceivingTotalProgress(a) \/ ReceivingEnd(a)
      PROVE  NotYetBuilt'
  <2>1. /\ UNCHANGED <<pendingIntent, sent>>
        /\ \A b \in Asks : pc'[b] \in {"idle", "register", "post"} =>
              pc[b] \in {"idle", "register", "post"}
    BY <1>1, <1>5 DEF AwaitAnswered, AwaitTimedOut, Return, ReceivingTotalProgress, ReceivingEnd,
                      TypeOK, thread, system
  <2>2. looper' = looper \/ \E job \in {"cancel", "transfer"} : Post(job, a)
    BY <1>5 DEF AwaitAnswered, AwaitTimedOut, Return, ReceivingTotalProgress, ReceivingEnd
  <2>3. ASSUME NEW job \in {"cancel", "transfer"}, Post(job, a) PROVE NotYetBuilt'
    <3> DEFINE e == [job |-> job, ask |-> a]
    <3>1. e \in Jobs /\ looper' = Append(looper, e) /\ e.job # "ask"
      BY <2>3 DEF Post, Jobs
    <3>2. \A b \in Asks : e # [job |-> "ask", ask |-> b]
      OBVIOUS
    <3> HIDE DEF e
    <3> QED BY <1>1, <2>1, <3>1, <3>2, PostKeepsNotYetBuilt
  <2> QED BY <1>2, <2>1, <2>2, <2>3
<1>6. CASE BuildNotification
  <2>1. /\ looper # << >> /\ looper' = Tail(looper) /\ UNCHANGED <<pc, sent>>
        /\ Head(looper).job = "ask"
        /\ \A c \in Actions : pendingIntent'[c] \in {pendingIntent[c], Head(looper).ask}
    BY <1>6 DEF BuildNotification, NextJob, makeAcceptanceIntent, thread
  <2>2. Head(looper) = [job |-> "ask", ask |-> Head(looper).ask]
    <3>1. Head(looper) \in Jobs
      BY <1>1, <2>1, HeadTailProperties DEF TypeOK
    <3> QED BY <2>1, <3>1 DEF Jobs
  <2>3. \A b \in Asks : Fresh(b) /\ Head(looper) # [job |-> "ask", ask |-> b] => Fresh(b)'
    BY <2>1, <2>2 DEF Fresh
  <2> QED BY <1>1, <2>1, <2>3, TailKeepsNotYetBuilt
<1>7. CASE CancelNotification \/ NotifyTransfer
  <2>1. looper # << >> /\ looper' = Tail(looper) /\ UNCHANGED <<pc, sent, pendingIntent>>
    BY <1>7 DEF CancelNotification, NotifyTransfer, NextJob, thread
  <2> QED BY <1>1, <2>1, TailKeepsNotYetBuilt DEF Fresh
<1>8. CASE Notify \/ OnReceive \/ CallbackSet \/ UNCHANGED vars
  <2>1. UNCHANGED <<looper, pendingIntent, sent, pc>>
    BY <1>8 DEF Notify, OnReceive, CallbackSet, vars, thread, system
  <2> QED BY <1>2, <2>1
<1>9. CASE \/ Swipe \/ \E c \in Actions : Tap(c) \/ Collect(c)
           \/ \E o \in Others, x \in OtherAnswers : OtherBroadcast(o, x)
  <2>1. UNCHANGED <<looper, pc>>
    BY <1>9 DEF Swipe, Tap, Collect, OtherBroadcast, thread
  <2>2. \A a \in Asks : Fresh(a) => Fresh(a)'
    <3>1. ASSUME NEW c \in Actions, Fire(c) PROVE \A a \in Asks : Fresh(a) => Fresh(a)'
      BY <1>1, <3>1, NoAskAssumption DEF Fresh, Fire, Record, TypeOK
    <3>2. ASSUME NEW o \in Others, NEW x \in OtherAnswers, OtherBroadcast(o, x)
          PROVE  \A a \in Asks : Fresh(a) => Fresh(a)'
      BY <3>2, OthersAssumption DEF Fresh, OtherBroadcast
    <3>3. ASSUME NEW c \in Actions, Collect(c) PROVE \A a \in Asks : Fresh(a) => Fresh(a)'
      BY <1>1, <3>3, NoAskAssumption DEF Fresh, Collect, TypeOK
    <3>4. CASE Swipe
      <4>1. Fire("decline") \/ UNCHANGED <<pendingIntent, sent>>
        BY <3>4 DEF Swipe
      <4>2. "decline" \in Actions
        BY DEF Actions
      <4> QED BY <3>1, <4>1, <4>2 DEF Fresh
    <3> QED BY <1>9, <3>1, <3>2, <3>3, <3>4 DEF Tap
  <2>3. \A i \in DOMAIN looper : looper[i].ask \in Asks
    <3>1. looper \in Seq(Jobs)
      BY <1>1 DEF TypeOK
    <3>2. \A i \in DOMAIN looper : looper[i] \in Jobs
      BY <3>1, ElementOfSeq, LenProperties
    <3> QED BY <3>2 DEF Jobs
  <2>4. ASSUME NEW i \in DOMAIN looper, looper[i].job = "ask"
        PROVE  Fresh(looper[i].ask)'
    <3>1. PICK a \in Asks : a = looper[i].ask
      BY <2>3
    <3>2. Fresh(a)'
      BY <1>1, <2>2, <2>4, <3>1 DEF NotYetBuilt
    <3> QED BY <2>1, <3>1, <3>2 DEF Fresh
  <2> QED BY <1>1, <2>1, <2>2, <2>4 DEF NotYetBuilt
<1>10. CASE ProcessDeath
  <2>1. looper' = << >> /\ UNCHANGED <<pendingIntent, sent>>
    BY <1>10 DEF ProcessDeath, system
  <2>2. \A b \in Asks : pc'[b] \in {"idle", "register", "post"} => pc[b] = "idle"
    BY <1>10 DEF ProcessDeath
  <2> QED BY <1>1, <2>1, <2>2 DEF NotYetBuilt, Fresh
<1> QED BY <1>3, <1>4, <1>5, <1>6, <1>7, <1>8, <1>9, <1>10
     DEF Next, AskThread, Transfer, RunLooper, Receive

\* Sending a broadcast that nobody sent before keeps every broadcast apart.
LEMMA SendKeepsFiredOnce ==
    ASSUME TypeOK, FiredOnce, Answers, NEW b \in Broadcasts, NEW shown,
           ~Spent(b.action, b.from),
           broadcasts' = Append(broadcasts, b),
           sent' = sent \union {[shown |-> shown, broadcast |-> b]},
           \A d \in Actions :
              \/ pendingIntent'[d] = NoAsk
              \/ /\ pendingIntent'[d] = pendingIntent[d]
                 /\ d # b.action \/ pendingIntent[d] # b.from,
           UNCHANGED answer
    PROVE  FiredOnce'
<1> DEFINE e == [shown |-> shown, broadcast |-> b]
<1>1. e.broadcast = b /\ sent' = sent \union {e}
  OBVIOUS
<1> HIDE DEF e
<1>2. \A t \in sent : t.broadcast # b /\ t.broadcast \in Broadcasts
  BY DEF Spent, TypeOK
<1>3. b # NoBroadcast /\ b.from # NoAsk
  BY NoAskAssumption, OthersAssumption DEF Broadcasts, NoBroadcast
<1>4. \A t \in sent : t.broadcast.from # NoAsk
  BY <1>2, NoAskAssumption, OthersAssumption DEF Broadcasts
<1>5. /\ DOMAIN broadcasts = 1 .. Len(broadcasts) /\ Len(broadcasts) \in Nat
      /\ DOMAIN broadcasts' = 1 .. Len(broadcasts) + 1
      /\ \A i \in DOMAIN broadcasts' :
            \/ i \in DOMAIN broadcasts /\ broadcasts'[i] = broadcasts[i]
            \/ i = Len(broadcasts) + 1 /\ broadcasts'[i] = b
  BY AppendElements DEF TypeOK
<1>6. ASSUME NEW d \in Actions, NEW t \in sent',
             t.broadcast.action = d, t.broadcast.from = pendingIntent'[d]
      PROVE  FALSE
  <2>1. pendingIntent'[d] = pendingIntent[d] /\ (d # b.action \/ pendingIntent[d] # b.from)
    BY <1>1, <1>3, <1>4, <1>6
  <2>2. t # e
    BY <1>1, <1>6, <2>1
  <2> QED BY <1>1, <1>6, <2>1, <2>2 DEF FiredOnce, Spent
<1>7. ASSUME NEW t \in sent', NEW u \in sent', t.broadcast.action = u.broadcast.action,
             t.broadcast.from = u.broadcast.from
      PROVE  t.broadcast = u.broadcast
  BY <1>1, <1>7 DEF FiredOnce, Spent
<1>8. \A a \in Asks : answer[a] # b
  BY <1>2, <1>3 DEF Answers, Answered, Fired
<1>9. \A i \in DOMAIN broadcasts : Fired(broadcasts[i]) /\ broadcasts[i] # b
  BY <1>2 DEF FiredOnce, Fired
<1>10. ASSUME NEW i \in DOMAIN broadcasts'
       PROVE  /\ \E t \in sent' : t.broadcast = broadcasts'[i]
              /\ \A j \in DOMAIN broadcasts' : broadcasts'[j] = broadcasts'[i] => i = j
              /\ \A a \in Asks : answer'[a] # broadcasts'[i]
  <2>1. \E t \in sent' : t.broadcast = broadcasts'[i]
    BY <1>1, <1>5, <1>9 DEF Fired
  <2> QED BY <1>5, <1>8, <1>9, <2>1 DEF FiredOnce
<1>11. \A a, x \in Asks : Answered(a)' /\ answer'[a] = answer'[x] => a = x
  BY DEF FiredOnce, Answered
<1> QED BY <1>6, <1>7, <1>10, <1>11 DEF FiredOnce, Fired, Spent

LEMMA FiredOnceStep == IInv /\ [Next]_vars => FiredOnce'
<1> SUFFICES ASSUME IInv, [Next]_vars PROVE FiredOnce'
  OBVIOUS
<1>1. TypeOK /\ NotYetBuilt /\ FiredOnce /\ Answers
  BY OneShotParts DEF IInv
<1>2. \A t \in sent : t.broadcast \in Broadcasts
  BY <1>1 DEF TypeOK
<1>3. \A c : ~Spent(c, NoAsk)
  BY <1>2, NoAskAssumption, OthersAssumption DEF Spent, Broadcasts
<1>4. CASE BuildNotification
  <2>1. /\ UNCHANGED <<sent, broadcasts, answer>>
        /\ \A c \in Actions : pendingIntent'[c] \in {pendingIntent[c], Head(looper).ask}
    BY <1>4 DEF BuildNotification, makeAcceptanceIntent
  <2>2. Fresh(Head(looper).ask)
    BY <1>1, <1>4, TailElements DEF BuildNotification, NextJob, NotYetBuilt, TypeOK
  <2>3. \A c : ~Spent(c, Head(looper).ask)
    BY <2>2 DEF Fresh, Spent
  <2>4. \A c \in Actions : ~Spent(c, pendingIntent'[c])
    BY <1>1, <2>1, <2>3 DEF FiredOnce
  <2> QED BY <1>1, <2>1, <2>4 DEF FiredOnce, Fired, Spent, Answered
<1>5. ASSUME NEW c \in Actions, Live(c), Fire(c), UNCHANGED answer PROVE FiredOnce'
  <2>1. PICK b : b = Record(c)
    OBVIOUS
  <2>2. b \in Broadcasts /\ b.action = c /\ b.from = pendingIntent[c]
    <3>1. pendingIntent[c] \in Asks
      BY <1>1, <1>5 DEF TypeOK, Live
    <3> QED BY <1>1, <2>1, <3>1 DEF Record, Broadcasts, TypeOK
  <2>3. ~Spent(b.action, b.from)
    BY <1>1, <2>2 DEF FiredOnce
  <2>4. /\ broadcasts' = Append(broadcasts, b)
        /\ sent' = sent \union {[shown |-> notification.ask, broadcast |-> b]}
    BY <1>5, <2>1 DEF Fire
  <2>5. \A d \in Actions : pendingIntent'[d] = IF d = c THEN NoAsk ELSE pendingIntent[d]
    BY <1>1, <1>5 DEF TypeOK, Fire
  <2> QED BY <1>1, <1>5, <2>2, <2>3, <2>4, <2>5, SendKeepsFiredOnce
<1>6. ASSUME UNCHANGED <<sent, broadcasts, answer>>,
             \A c \in Actions : pendingIntent'[c] \in {pendingIntent[c], NoAsk}
      PROVE  FiredOnce'
  <2>1. \A c \in Actions : ~Spent(c, pendingIntent'[c])
    BY <1>1, <1>3, <1>6 DEF FiredOnce
  <2> QED BY <1>1, <1>6, <2>1 DEF FiredOnce, Fired, Spent, Answered
<1>7. CASE OnReceive
  <2>1. PICK b : b = Head(broadcasts)
    OBVIOUS
  <2>2. /\ \A a \in Asks : answer[a] # b
        /\ b # NoBroadcast
        /\ \A i \in DOMAIN broadcasts' :
              /\ broadcasts'[i] # b /\ Fired(broadcasts'[i])
              /\ \A a \in Asks : answer[a] # broadcasts'[i]
        /\ \A i, j \in DOMAIN broadcasts' : broadcasts'[i] = broadcasts'[j] => i = j
    BY <1>7, <2>1, Delivered
  <2>3. UNCHANGED <<sent, pendingIntent>>
    BY <1>7 DEF OnReceive
  <2>4. UNCHANGED answer \/ \E x \in Asks : answer' = [answer EXCEPT ![x] = b]
    BY <1>1, <1>7, <2>1 DEF OnReceive, TypeOK
  <2>5. \A a \in Asks : answer'[a] \in {answer[a], b}
    BY <1>1, <2>4 DEF TypeOK
  <2>6. \A a, x \in Asks : Answered(a)' /\ answer'[a] = answer'[x] => a = x
    <3>1. CASE UNCHANGED answer
      BY <1>1, <3>1 DEF FiredOnce, Answered
    <3>2. ASSUME NEW y \in Asks, answer' = [answer EXCEPT ![y] = b]
          PROVE  \A a, x \in Asks : Answered(a)' /\ answer'[a] = answer'[x] => a = x
      <4>1. \A a \in Asks : answer'[a] = IF a = y THEN b ELSE answer[a]
        BY <1>1, <3>2 DEF TypeOK
      <4> QED BY <1>1, <2>2, <4>1 DEF FiredOnce, Answered
    <3> QED BY <2>4, <3>1, <3>2
  <2> QED BY <1>1, <2>2, <2>3, <2>5, <2>6 DEF FiredOnce, Fired, Spent
<1>8. ASSUME NEW a \in Asks, AskThread(a) \/ Transfer(a)
      PROVE  UNCHANGED <<sent, broadcasts, answer, pendingIntent>>
  BY <1>8 DEF AskThread, IncrementAndGet, PutCallback, PostNotification, AwaitAnswered,
              AwaitTimedOut, Return, Transfer, ReceivingTotalProgress, ReceivingEnd, SenderGone,
              system
<1>9. CASE Notify \/ CancelNotification \/ NotifyTransfer \/ CallbackSet \/ ProcessDeath
           \/ UNCHANGED vars
  <2>1. UNCHANGED <<sent, broadcasts, answer, pendingIntent>>
    BY <1>9 DEF Notify, CancelNotification, NotifyTransfer, CallbackSet, ProcessDeath, vars, system
  <2> QED BY <1>6, <2>1
<1>10. ASSUME NEW c \in Actions, Collect(c) PROVE FiredOnce'
  BY <1>1, <1>6, <1>10 DEF Collect, TypeOK
<1>11. ASSUME NEW c \in Actions, Tap(c) PROVE FiredOnce'
  BY <1>5, <1>11 DEF Tap
<1>12. CASE Swipe
  <2>1. "decline" \in Actions
    BY DEF Actions
  <2> QED BY <1>5, <1>6, <1>12, <2>1 DEF Swipe
<1>13. ASSUME NEW o \in Others, NEW x \in OtherAnswers, OtherBroadcast(o, x) PROVE FiredOnce'
  <2>1. PICK b : b = [action |-> x.action, from |-> o, id |-> x.id]
    OBVIOUS
  <2>2. b \in Broadcasts /\ b.from = o
    BY <1>1, <1>13, <2>1, OtherType
  <2>3. /\ ~Spent(b.action, b.from)
        /\ broadcasts' = Append(broadcasts, b)
        /\ sent' = sent \union {[shown |-> NoAsk, broadcast |-> b]}
        /\ UNCHANGED <<pendingIntent, answer>>
    BY <1>13, <2>1, <2>2 DEF OtherBroadcast, Spent
  <2>4. \A d \in Actions : pendingIntent[d] # b.from
    BY <1>1, <2>2, OthersAssumption DEF TypeOK
  <2> QED BY <1>1, <2>2, <2>3, <2>4, SendKeepsFiredOnce
<1> QED BY <1>4, <1>6, <1>7, <1>8, <1>9, <1>10, <1>11, <1>12, <1>13 DEF Next, RunLooper, Receive

-----------------------------------------------------------------------------
(* Withdrawal. The looper keeps its order and the cancellation is posted   *)
(* after the display, so wherever a refused ask still is on its way to the *)
(* screen, or on it, a cancellation is behind it.                          *)

Refused(a) == pc[a] = "done" /\ result[a] = "false"
CancelAfter(j) == \E i \in DOMAIN looper : i > j /\ looper[i].job = "cancel"

Withdrawn ==
    /\ \A a \in Asks : pc[a] = "receiving" => result[a] = "true"
    /\ main.do = "notify" /\ Refused(main.ask) => CancelAfter(0)
    /\ notification.kind = "ask" /\ Refused(notification.ask) => CancelAfter(0)
    /\ \A j \in DOMAIN looper :
          looper[j].job = "ask" /\ Refused(looper[j].ask) => CancelAfter(j)

\* Posting keeps the cancellations that wait where they are; one that is
\* posted is behind everything else.
LEMMA CancelStays ==
    ASSUME TypeOK, NEW job \in {"ask", "cancel", "transfer"}, NEW a \in Asks, Post(job, a)
    PROVE  /\ DOMAIN looper \subseteq DOMAIN looper' /\ DOMAIN looper \subseteq Nat
           /\ \A j \in DOMAIN looper : looper'[j] = looper[j]
           /\ \A j \in DOMAIN looper' \ DOMAIN looper : looper'[j] = [job |-> job, ask |-> a]
           /\ \A j \in Nat : CancelAfter(j) => CancelAfter(j)'
           /\ job = "cancel" => CancelAfter(0)' /\ \A j \in DOMAIN looper : CancelAfter(j)'
<1> DEFINE e == [job |-> job, ask |-> a]
<1>1. looper \in Seq(Jobs) /\ e \in Jobs /\ looper' = Append(looper, e)
  BY DEF TypeOK, Jobs, Post
<1>2. e.job = job
  OBVIOUS
<1> HIDE DEF e
<1>3. /\ DOMAIN looper = 1 .. Len(looper) /\ Len(looper) \in Nat
      /\ DOMAIN looper' = 1 .. Len(looper) + 1
      /\ \A i \in DOMAIN looper : i \in DOMAIN looper' /\ looper'[i] = looper[i]
      /\ \A i \in DOMAIN looper' : i \notin DOMAIN looper => looper'[i] = e
  BY <1>1, AppendElements
<1>4. \A j \in Nat : CancelAfter(j) => CancelAfter(j)'
  BY <1>3 DEF CancelAfter
<1>5. ASSUME job = "cancel" PROVE CancelAfter(0)' /\ \A j \in DOMAIN looper : CancelAfter(j)'
  <2>1. Len(looper) + 1 \in DOMAIN looper' /\ looper'[Len(looper) + 1].job = "cancel"
    BY <1>2, <1>3, <1>5
  <2>2. Len(looper) + 1 > 0 /\ \A j \in DOMAIN looper : Len(looper) + 1 > j
    BY <1>3
  <2> QED BY <2>1, <2>2 DEF CancelAfter
<1>6. DOMAIN looper \subseteq Nat
  BY <1>3
<1> QED BY <1>3, <1>4, <1>5, <1>6 DEF e

\* When the head of the looper is taken, what is behind the rest stays
\* behind it; a head that is no cancellation takes none away.
LEMMA CancelMovesUp ==
    ASSUME TypeOK, looper # << >>, looper' = Tail(looper)
    PROVE  /\ 1 \in DOMAIN looper /\ Head(looper) = looper[1]
           /\ \A j \in DOMAIN looper' :
                 j \in Nat /\ j + 1 \in DOMAIN looper /\ looper'[j] = looper[j + 1]
           /\ \A j \in Nat : CancelAfter(j + 1) => CancelAfter(j)'
           /\ Head(looper).job # "cancel" /\ CancelAfter(0) => CancelAfter(0)'
<1>1. looper \in Seq(Jobs)
  BY DEF TypeOK
<1>2. /\ DOMAIN looper = 1 .. Len(looper) /\ Len(looper) \in Nat /\ Len(looper) # 0
      /\ DOMAIN looper' = 1 .. Len(looper) - 1
      /\ \A i \in 1 .. Len(looper) - 1 : looper'[i] = looper[i + 1]
      /\ Head(looper) = looper[1]
  BY <1>1, HeadTailProperties, EmptySeq
<1>3. ASSUME NEW j \in Nat, CancelAfter(j + 1) PROVE CancelAfter(j)'
  <2>1. PICK i \in DOMAIN looper : i > j + 1 /\ looper[i].job = "cancel"
    BY <1>3 DEF CancelAfter
  <2>2. i - 1 \in 1 .. Len(looper) - 1 /\ i - 1 > j /\ (i - 1) + 1 = i
    BY <1>2, <2>1
  <2>3. looper'[i - 1] = looper[i]
    BY <1>2, <2>2
  <2> QED BY <1>2, <2>1, <2>2, <2>3 DEF CancelAfter
<1>4. ASSUME Head(looper).job # "cancel", CancelAfter(0) PROVE CancelAfter(0)'
  <2>1. CancelAfter(0 + 1)
    BY <1>2, <1>4 DEF CancelAfter
  <2> QED BY <1>3, <2>1
<1> QED BY <1>2, <1>3, <1>4

\* Who is named in the looper, by the main thread and on the screen.
LEMMA AsksAreNamed ==
    ASSUME TypeOK
    PROVE  /\ \A j \in DOMAIN looper : looper[j].ask \in Asks
           /\ main.do = "notify" => main.ask \in Asks
           /\ notification.kind = "ask" => notification.ask \in Asks
<1>1. looper \in Seq(Jobs)
  BY DEF TypeOK
<1>2. \A j \in DOMAIN looper : looper[j] \in Jobs
  BY <1>1
<1> QED BY <1>2 DEF TypeOK, Jobs

LEMMA WithdrawnStep == TypeOK /\ Withdrawn /\ [Next]_vars => Withdrawn'
<1> SUFFICES ASSUME TypeOK, Withdrawn, [Next]_vars PROVE Withdrawn'
  OBVIOUS
<1> DEFINE Kept == \A b \in Asks : Refused(b)' => Refused(b)
           Accepted == \A b \in Asks : pc[b] = "receiving" => result[b] = "true"
<1>1. Accepted
  BY DEF Withdrawn
\* A step that posts a job: on what was there already it changes nothing.
<1>2. ASSUME NEW a \in Asks, NEW job \in {"ask", "cancel", "transfer"}, Post(job, a),
             UNCHANGED <<main, notification>>, Accepted',
             Kept \/ job = "cancel",
             job = "ask" => ~Refused(a)'
      PROVE  Withdrawn'
  <2>1. main'.do = "notify" /\ Refused(main.ask)' => CancelAfter(0)'
    BY <1>2, CancelStays, AsksAreNamed DEF Withdrawn
  <2>2. notification'.kind = "ask" /\ Refused(notification.ask)' => CancelAfter(0)'
    BY <1>2, CancelStays, AsksAreNamed DEF Withdrawn
  <2>3. ASSUME NEW j \in DOMAIN looper', looper'[j].job = "ask", Refused(looper[j].ask)'
        PROVE  CancelAfter(j)'
    <3>1. CASE j \in DOMAIN looper
      BY <1>2, <2>3, <3>1, CancelStays, AsksAreNamed DEF Withdrawn
    <3>2. CASE j \notin DOMAIN looper
      BY <1>2, <2>3, <3>2, CancelStays
    <3> QED BY <3>1, <3>2
  <2> QED BY <1>2, <2>1, <2>2, <2>3 DEF Withdrawn
\* A step that takes the head of the looper, which is not a cancellation.
<1>3. ASSUME looper # << >>, looper' = Tail(looper), UNCHANGED <<pc, result>>
      PROVE  /\ Accepted'
             /\ \A j \in DOMAIN looper' :
                   looper'[j].job = "ask" /\ Refused(looper[j].ask)' => CancelAfter(j)'
  <2>1. \A b : Refused(b)' <=> Refused(b)
    BY <1>3 DEF Refused
  <2>2. Accepted'
    BY <1>1, <1>3
  <2> HIDE DEF Accepted
  <2> QED BY <1>3, <2>1, <2>2, CancelMovesUp DEF Withdrawn
\* A step that leaves the looper alone and refuses nobody.
<1>4. ASSUME UNCHANGED <<looper, main, notification>>, Kept, Accepted' PROVE Withdrawn'
  <2>1. \A j : CancelAfter(j) <=> CancelAfter(j)'
    BY <1>4 DEF CancelAfter
  <2> QED BY <1>4, <2>1, AsksAreNamed DEF Withdrawn
<1>5. ASSUME NEW a \in Asks, IncrementAndGet(a) \/ PutCallback(a) PROVE Withdrawn'
  <2>1. /\ pc' = [pc EXCEPT ![a] = pc'[a]] /\ pc'[a] \in {"register", "post"}
        /\ UNCHANGED <<result, looper, main, notification>>
    BY <1>5 DEF IncrementAndGet, PutCallback, TypeOK, system
  <2>2. Kept /\ Accepted'
    BY <1>1, <2>1 DEF Refused, TypeOK
  <2> QED BY <1>4, <2>1, <2>2
<1>6. ASSUME NEW a \in Asks, PostNotification(a) PROVE Withdrawn'
  <2>1. /\ pc' = [pc EXCEPT ![a] = "await"] /\ Post("ask", a)
        /\ UNCHANGED <<result, main, notification>>
    BY <1>6 DEF PostNotification, system
  <2>2. Kept /\ Accepted' /\ ~Refused(a)'
    BY <1>1, <2>1 DEF Refused, TypeOK
  <2> QED BY <1>2, <2>1, <2>2
<1>7. ASSUME NEW a \in Asks, NEW v \in BOOLEAN, Return(a, v) PROVE Withdrawn'
  <2>1. /\ result' = [result EXCEPT ![a] = IF v THEN "true" ELSE "false"]
        /\ pc' = [pc EXCEPT ![a] = IF v THEN "receiving" ELSE "done"]
        /\ UNCHANGED <<main, notification>>
    BY <1>7 DEF Return, system
  <2>2. Accepted'
    BY <1>1, <2>1 DEF TypeOK
  <2>3. CASE v
    <3>1. Kept
      BY <2>1, <2>3 DEF Refused, TypeOK
    <3> QED BY <1>4, <1>7, <2>1, <2>2, <2>3, <3>1 DEF Return
  <2>4. CASE ~v
    BY <1>2, <1>7, <2>1, <2>2, <2>4 DEF Return
  <2> QED BY <2>3, <2>4
<1>8. ASSUME NEW a \in Asks, AwaitAnswered(a) \/ AwaitTimedOut(a) PROVE Withdrawn'
  BY <1>7, <1>8 DEF AwaitAnswered, AwaitTimedOut, TypeOK
<1>9. ASSUME NEW a \in Asks, Transfer(a) PROVE Withdrawn'
  <2>1. /\ pc[a] = "receiving" /\ pc' = [pc EXCEPT ![a] = pc'[a]]
        /\ UNCHANGED <<result, main, notification>>
        /\ (UNCHANGED looper \/ Post("transfer", a))
    BY <1>9 DEF Transfer, ReceivingTotalProgress, ReceivingEnd, SenderGone, TypeOK, thread, system
  <2>2. Kept /\ Accepted'
    BY <1>1, <2>1 DEF Refused, TypeOK
  <2> QED BY <1>2, <1>4, <2>1, <2>2
<1>10. CASE BuildNotification
  <2>1. /\ looper # << >> /\ looper' = Tail(looper) /\ UNCHANGED <<pc, result, notification>>
        /\ main'.do = "notify" /\ main'.ask = Head(looper).ask /\ Head(looper).job = "ask"
    BY <1>10 DEF BuildNotification, NextJob, thread, Idle
  <2>2. \A a : Refused(a)' <=> Refused(a)
    BY <2>1 DEF Refused
  <2>3. Refused(main.ask)' => CancelAfter(0)'
    <3>1. Refused(main.ask)' <=> Refused(Head(looper).ask)
      BY <2>1 DEF Refused
    <3>2. Refused(Head(looper).ask) => CancelAfter(0 + 1)
      BY <2>1, CancelMovesUp DEF Withdrawn
    <3> QED BY <2>1, <3>1, <3>2, CancelMovesUp
  <2>4. notification'.kind = "ask" /\ Refused(notification.ask)' => CancelAfter(0)'
    BY <2>1, CancelMovesUp DEF Withdrawn, Refused
  <2> QED BY <1>3, <2>1, <2>3, <2>4 DEF Withdrawn
<1>11. CASE CancelNotification \/ NotifyTransfer
  <2>1. /\ looper # << >> /\ looper' = Tail(looper) /\ UNCHANGED <<pc, result, main>>
        /\ main.do = "idle" /\ notification'.kind # "ask"
    BY <1>11 DEF CancelNotification, NotifyTransfer, NextJob, thread, NoNotification, Shown
  <2> QED BY <1>3, <2>1 DEF Withdrawn
<1>12. CASE Notify
  <2>1. /\ main.do = "notify" /\ main'.do = "idle" /\ notification'.ask = main.ask
        /\ UNCHANGED <<pc, result, looper>>
    BY <1>12 DEF Notify, Shown, Idle, thread
  <2> QED BY <1>1, <2>1 DEF Withdrawn, Refused, CancelAfter
<1>13. CASE Receive
  <2>1. UNCHANGED <<pc, result, looper, notification>>
    BY <1>13 DEF Receive, OnReceive, CallbackSet, Write, CountDown, thread, system
  <2>2. CASE OnReceive
    <3>1. main'.do # "notify"
      BY <2>2 DEF OnReceive, Idle
    <3> QED BY <2>1, <3>1 DEF Withdrawn, Refused, CancelAfter
  <2>3. CASE CallbackSet
    <3>1. main'.do # "notify"
      BY <2>3 DEF CallbackSet, Write, CountDown, Idle, TypeOK
    <3> QED BY <2>1, <3>1 DEF Withdrawn, Refused, CancelAfter
  <2> QED BY <1>13, <2>2, <2>3 DEF Receive
<1>14. CASE \/ \E c \in Actions : Tap(c) \/ Collect(c)
            \/ \E o \in Others, x \in OtherAnswers : OtherBroadcast(o, x)
  <2>1. UNCHANGED <<pc, result, looper, main, notification>>
    BY <1>14 DEF Tap, Collect, OtherBroadcast, thread
  <2> QED BY <2>1 DEF Withdrawn, Refused, CancelAfter
<1>15. CASE Swipe
  <2>1. UNCHANGED <<pc, result, looper, main>> /\ notification'.kind = "none"
    BY <1>15, RecordTypes DEF Swipe, thread
  <2> QED BY <2>1 DEF Withdrawn, Refused, CancelAfter
<1>16. CASE ProcessDeath
  <2>1. /\ \A a \in Asks : pc'[a] \in {"idle", "dead"}
        /\ looper' = << >> /\ main' = Idle /\ UNCHANGED notification
    BY <1>16 DEF ProcessDeath, system
  <2>2. DOMAIN looper' = {} /\ main'.do = "idle"
    BY <2>1, RecordTypes
  <2> QED BY <2>1, <2>2, AsksAreNamed DEF Withdrawn, Refused
<1>17. CASE UNCHANGED vars
  BY <1>17 DEF Withdrawn, Refused, CancelAfter, vars, thread, system
<1> QED BY <1>5, <1>6, <1>8, <1>9, <1>10, <1>11, <1>12, <1>13, <1>14, <1>15, <1>16, <1>17
        DEF Next, AskThread, RunLooper

-----------------------------------------------------------------------------
(* The theorems.                                                           *)

LEMMA InductiveInvariant == Spec => []IInv
<1>1. Init => IInv
  <2> SUFFICES ASSUME Init PROVE IInv
    OBVIOUS
  <2>1. TypeOK
    BY RecordTypes, MaxDeathsAssumption DEF Init, TypeOK
  <2>2. UniqueIds /\ Registrations
    BY DEF Init, UniqueIds, Registrations, Current, Answered
  <2>3. RecordsHaveIds
    BY NoAskAssumption DEF Init, RecordsHaveIds
  <2>4. Answers
    BY RecordTypes DEF Init, Answers, Answered
  <2>5. OneShot
    BY NoAskAssumption DEF Init, OneShot, Fresh, Fired, Spent, Answered
  <2> QED BY <2>1, <2>2, <2>3, <2>4, <2>5 DEF IInv
<1>2. IInv /\ [Next]_vars => IInv'
  BY TypeStep, UniqueIdsStep, RegistrationsStep, RecordsHaveIdsStep, AnswersStep,
     NotYetBuiltStep, FiredOnceStep, OneShotParts DEF IInv, OneShot, NotYetBuilt, FiredOnce
<1> QED BY <1>1, <1>2, PTL DEF Spec

\* An ask that waits unanswered is registered under its own id, so the
\* answer that carries the id finds it.
THEOREM WaitingAskIsRegisteredAlways == Spec => []WaitingAskIsRegistered
<1>1. IInv => WaitingAskIsRegistered
  BY DEF IInv, Registrations, WaitingAskIsRegistered, Answered
<1> QED BY <1>1, InductiveInvariant, PTL

\* No transfer without an Accept that carries its id and was sent, by the user
\* from the screen or from outside the app, and none of them serves two
\* transfers, whatever others send and however often the process dies.
THEOREM OneAcceptPerTransferAlways == Spec => []OneAcceptPerTransfer
<1>1. IInv => OneAcceptPerTransfer
  <2> SUFFICES ASSUME IInv, NEW a \in Asks, NEW b \in Asks, result[a] = "true"
               PROVE  /\ answer[a].action = "accept" /\ answer[a].id = acceptanceId[a]
                      /\ \E t \in sent :
                            /\ t.broadcast = answer[a]
                            /\ t.broadcast.from \notin Others =>
                                  /\ t.shown # NoAsk
                                  /\ acceptanceId[t.broadcast.from] = acceptanceId[a]
                      /\ result[b] = "true" /\ answer[a] = answer[b] => a = b
    BY DEF OneAcceptPerTransfer
  <2>1. /\ Answered(a) /\ answer[a].action = "accept" /\ answer[a].id = acceptanceId[a]
        /\ Fired(answer[a])
    BY DEF IInv, Answers
  <2>2. PICK t \in sent : t.broadcast = answer[a]
    BY <2>1 DEF Fired
  <2>3. t.broadcast.from \notin Others =>
            t.shown # NoAsk /\ t.broadcast.id = acceptanceId[t.broadcast.from]
    BY DEF IInv, RecordsHaveIds
  <2>4. answer[a] = answer[b] => a = b
    BY <2>1 DEF IInv, OneShot
  <2> QED BY <2>1, <2>2, <2>3, <2>4
<1> QED BY <1>1, InductiveInvariant, PTL

\* An ask answered in time returns the user's answer, in every interleaving
\* of the receiver, the latch and the timeout.
THEOREM ResultIsTheAnswerAlways == Spec => ResultIsTheAnswer
<1> DEFINE Faithful == \A a \in Asks :
              result'[a] # result[a] /\ countDownLatch[a] =>
                  result'[a] = (IF answer[a].action = "accept" THEN "true" ELSE "false")
<1>1. IInv /\ [Next]_vars => [Faithful]_vars
  <2> SUFFICES ASSUME IInv, [Next]_vars PROVE Faithful
    OBVIOUS
  <2>1. TypeOK /\ Answers
    BY DEF IInv
  <2>2. ASSUME NEW a \in Asks, AwaitAnswered(a) PROVE Faithful
    <3>1. result' = [result EXCEPT ![a] = IF atomicBoolean[a] THEN "true" ELSE "false"]
      BY <2>2 DEF AwaitAnswered, Return
    <3>2. countDownLatch[a] /\ atomicBoolean[a] = (answer[a].action = "accept")
      BY <2>1, <2>2 DEF AwaitAnswered, Answers
    <3>3. \A b \in Asks : b # a => result'[b] = result[b]
      BY <2>1, <3>1 DEF TypeOK
    <3>4. result'[a] = IF answer[a].action = "accept" THEN "true" ELSE "false"
      BY <2>1, <3>1, <3>2 DEF TypeOK
    <3> QED BY <3>3, <3>4
  <2>3. ASSUME NEW a \in Asks, AwaitTimedOut(a) PROVE Faithful
    BY <2>1, <2>3 DEF AwaitTimedOut, Return, TypeOK
  <2>4. ASSUME NEW a \in Asks,
               IncrementAndGet(a) \/ PutCallback(a) \/ PostNotification(a) \/ Transfer(a)
        PROVE  UNCHANGED result
    BY <2>4 DEF IncrementAndGet, PutCallback, PostNotification, Transfer, ReceivingTotalProgress,
                ReceivingEnd, SenderGone, thread
  <2>5. CASE ProcessDeath
    BY <2>5 DEF ProcessDeath
  <2> QED BY <2>2, <2>3, <2>4, <2>5, OtherSteps DEF Next, AskThread
<1> QED BY <1>1, InductiveInvariant, PTL DEF Spec, ResultIsTheAnswer

\* The notification of a refused ask is never left on the screen: while it
\* is shown, its cancellation waits in the looper.
THEOREM RefusedAskIsWithdrawnAlways == Spec => []RefusedAskIsWithdrawn
<1>1. Init => TypeOK /\ Withdrawn
  BY RecordTypes, MaxDeathsAssumption DEF Init, TypeOK, Withdrawn
<1>2. TypeOK /\ Withdrawn => RefusedAskIsWithdrawn
  BY DEF Withdrawn, Refused, CancelAfter, RefusedAskIsWithdrawn
<1> QED BY <1>1, <1>2, TypeStep, WithdrawnStep, PTL DEF Spec

-----------------------------------------------------------------------------
(* FileAcceptance implements Consent, but for its fairness.                *)

\* A thread has a result once it no longer waits, and only then.
Results ==
    \A a \in Asks :
        /\ pc[a] \in {"idle", "register", "post", "await"} => result[a] = "none"
        /\ pc[a] \in {"receiving", "done"} => result[a] # "none"

LEMMA ResultsStep == TypeOK /\ Results /\ [Next]_vars => Results'
<1> SUFFICES ASSUME TypeOK, Results, [Next]_vars PROVE Results'
  OBVIOUS
<1> USE DEF Results, TypeOK
<1>1. ASSUME NEW a \in Asks, IncrementAndGet(a) \/ PutCallback(a) \/ PostNotification(a)
      PROVE  Results'
  BY <1>1 DEF IncrementAndGet, PutCallback, PostNotification
<1>2. ASSUME NEW a \in Asks, AwaitAnswered(a) \/ AwaitTimedOut(a) PROVE Results'
  <2>1. \E v \in BOOLEAN : Return(a, v)
    BY <1>2 DEF AwaitAnswered, AwaitTimedOut
  <2>2. \E v \in BOOLEAN :
           /\ result' = [result EXCEPT ![a] = IF v THEN "true" ELSE "false"]
           /\ pc' = [pc EXCEPT ![a] = IF v THEN "receiving" ELSE "done"]
    BY <2>1 DEF Return
  <2> QED BY <2>2
<1>3. ASSUME NEW a \in Asks, Transfer(a) PROVE Results'
  BY <1>3 DEF Transfer, ReceivingTotalProgress, ReceivingEnd, SenderGone, thread
<1>4. CASE ProcessDeath
  BY <1>4 DEF ProcessDeath
<1>5. CASE \/ UNCHANGED vars
           \/ RunLooper \/ Receive
           \/ \E c \in Actions : Tap(c) \/ Collect(c)
           \/ Swipe
           \/ \E o \in Others, x \in OtherAnswers : OtherBroadcast(o, x)
  BY <1>5, OtherSteps
<1> QED BY <1>1, <1>2, <1>3, <1>4, <1>5 DEF Next, AskThread

\* Consent's variables, as FileAcceptance shows them.
Outcome == [a \in Asks |-> AbstractOutcome(a)]
Given == {t.broadcast.from : t \in {u \in sent : u.broadcast.action = "accept"}}
Used == [a \in Asks |-> IF result[a] = "true" THEN answer[a].from ELSE NoAsk]

Became(p, r) ==
    IF p = "idle" THEN "idle"
    ELSE IF r = "true" THEN "granted"
    ELSE IF r = "false" THEN "refused"
    ELSE IF p = "dead" THEN "lost"
    ELSE "pending"

\* What became of an ask follows from where its thread is and what it returned.
LEMMA OutcomeIs ==
    ASSUME TypeOK, Results
    PROVE  Outcome = [a \in Asks |-> Became(pc[a], result[a])]
<1>1. ASSUME NEW a \in Asks PROVE AbstractOutcome(a) = Became(pc[a], result[a])
  <2>1. result[a] \in {"none", "true", "false"} /\ (pc[a] = "idle" => result[a] = "none")
    BY DEF TypeOK, Results
  <2> QED BY <2>1 DEF AbstractOutcome, Became
<1> QED BY <1>1 DEF Outcome

LEMMA OutcomeIsAfter ==
    ASSUME TypeOK', Results'
    PROVE  Outcome' = [a \in Asks |-> Became(pc'[a], result'[a])]
<1>1. ASSUME NEW a \in Asks PROVE AbstractOutcome(a)' = Became(pc'[a], result'[a])
  <2>1. result'[a] \in {"none", "true", "false"} /\ (pc'[a] = "idle" => result'[a] = "none")
    BY DEF TypeOK, Results
  <2> QED BY <2>1 DEF AbstractOutcome, Became
<1> QED BY <1>1 DEF Outcome

\* An await that ends decides its ask, by an Accept that nobody has used or
\* by a refusal.
LEMMA DecidedStep ==
    ASSUME IInv, Results, IInv', Results', NEW a \in Asks, AwaitAnswered(a) \/ AwaitTimedOut(a)
    PROVE  C!Decide(a)
<1> DEFINE v == IF countDownLatch[a] THEN atomicBoolean[a] ELSE FALSE
<1>1. /\ pc[a] = "await" /\ result[a] = "none" /\ v \in BOOLEAN
      /\ pc' = [pc EXCEPT ![a] = IF v THEN "receiving" ELSE "done"]
      /\ result' = [result EXCEPT ![a] = IF v THEN "true" ELSE "false"]
      /\ UNCHANGED <<sent, answer>>
  BY DEF AwaitAnswered, AwaitTimedOut, Return, IInv, TypeOK, Results, system
<1>2. v => Answered(a) /\ answer[a].action = "accept" /\ Fired(answer[a])
  BY DEF IInv, Answers
<1> HIDE DEF v
<1>3. Given' = Given
  BY <1>1 DEF Given
<1>4. DOMAIN pc = Asks /\ DOMAIN result = Asks
  BY DEF IInv, TypeOK
<1>5. Outcome = [b \in Asks |-> Became(pc[b], result[b])]
      /\ Outcome' = [b \in Asks |-> Became(pc'[b], result'[b])]
  BY OutcomeIs, OutcomeIsAfter DEF IInv
<1>6. Outcome[a] = "pending"
      /\ Outcome' = [Outcome EXCEPT ![a] = IF v THEN "granted" ELSE "refused"]
  BY <1>1, <1>4, <1>5 DEF Became
<1>7. CASE v
  <2>1. Used' = [Used EXCEPT ![a] = answer[a].from]
    BY <1>1, <1>4, <1>7 DEF Used
  <2>2. PICK t \in sent : t.broadcast = answer[a]
    BY <1>2, <1>7 DEF Fired
  <2>3. t.broadcast \in Broadcasts /\ t.broadcast.action = "accept"
    BY <1>2, <1>7, <2>2 DEF IInv, TypeOK
  <2>4. answer[a].from \in Asks \union Others /\ answer[a].from \in Given
    BY <2>2, <2>3 DEF Given, Broadcasts
  <2>5. \A b \in Asks : Used[b] # answer[a].from
    <3>1. SUFFICES ASSUME NEW b \in Asks, Used[b] = answer[a].from PROVE FALSE
      OBVIOUS
    <3>2. answer[a].from # NoAsk
      BY <2>4, NoAskAssumption, OthersAssumption
    <3>3. result[b] = "true" /\ answer[b].from = answer[a].from
      BY <3>1, <3>2 DEF Used
    <3>4. Answered(b) /\ answer[b].action = "accept" /\ Fired(answer[b])
      BY <3>3 DEF IInv, Answers
    <3>5. answer[b] = answer[a]
      BY <2>2, <2>3, <3>3, <3>4 DEF IInv, OneShot, Fired
    <3>6. a = b
      BY <3>4, <3>5 DEF IInv, OneShot
    <3> QED BY <1>1, <3>3, <3>6
  <2>6. PICK f \in Asks \union Others : f = answer[a].from
    BY <2>4
  <2>7. C!Grant(a, f)
    BY <1>3, <1>6, <1>7, <2>1, <2>4, <2>5, <2>6 DEF C!Grant, Outcome, Given, Used
  <2> QED BY <2>7 DEF C!Decide
<1>8. CASE ~v
  <2>1. Used' = Used
    BY <1>1, <1>4, <1>8 DEF Used
  <2>2. C!Refuse(a)
    BY <1>3, <1>6, <1>8, <2>1 DEF C!Refuse, Outcome, Given, Used
  <2> QED BY <2>2 DEF C!Decide
<1> QED BY <1>1, <1>7, <1>8

\* An answer that is sent is an Accept that Consent is given, or nothing to it.
LEMMA SentGives ==
    ASSUME NEW b \in Broadcasts, NEW shown,
           sent' = sent \union {[shown |-> shown, broadcast |-> b]},
           UNCHANGED <<pc, result, answer>>
    PROVE  UNCHANGED C!vars \/ \E f \in Asks \union Others : C!Accept(f)
<1> DEFINE e == [shown |-> shown, broadcast |-> b]
<1>1. e.broadcast = b /\ sent' = sent \union {e}
  OBVIOUS
<1> HIDE DEF e
<1>2. Outcome' = Outcome /\ Used' = Used
  BY DEF Outcome, AbstractOutcome, Used
<1>3. b.from \in Asks \union Others
  BY DEF Broadcasts
<1>4. CASE b.action = "accept"
  <2>1. Given' = Given \union {b.from}
    BY <1>1, <1>4 DEF Given
  <2> QED BY <1>2, <1>3, <2>1 DEF C!Accept, Outcome, Given, Used
<1>5. CASE b.action # "accept"
  <2>1. Given' = Given
    BY <1>1, <1>5 DEF Given
  <2> QED BY <1>2, <2>1 DEF C!vars, Outcome, Given, Used
<1> QED BY <1>4, <1>5

LEMMA FireGives ==
    ASSUME TypeOK, NEW c \in Actions, Live(c), Fire(c), UNCHANGED <<pc, result, answer>>
    PROVE  UNCHANGED C!vars \/ \E f \in Asks \union Others : C!Accept(f)
<1>1. Record(c) \in Broadcasts
  BY DEF TypeOK, Live, Record, Broadcasts
<1>2. sent' = sent \union {[shown |-> notification.ask, broadcast |-> Record(c)]}
  BY DEF Fire
<1> QED BY <1>1, <1>2, SentGives

LEMMA ConsentStep == IInv /\ Results /\ IInv' /\ Results' /\ [Next]_vars => [C!Next]_(C!vars)
<1> SUFFICES ASSUME IInv, Results, IInv', Results', [Next]_vars PROVE [C!Next]_(C!vars)
  OBVIOUS
<1> DEFINE Shape(p, r) == [b \in Asks |-> Became(p[b], r[b])]
<1>1. Outcome = Shape(pc, result) /\ Outcome' = Shape(pc', result')
  BY OutcomeIs, OutcomeIsAfter DEF IInv
<1>2. DOMAIN pc = Asks /\ DOMAIN result = Asks
  BY DEF IInv, TypeOK
\* Where nobody's outcome, answer or Accept changes, neither does Consent.
<1>3. ASSUME UNCHANGED <<result, sent>>, Outcome' = Outcome,
             \A b \in Asks : result[b] = "true" => answer'[b] = answer[b]
      PROVE  UNCHANGED C!vars
  <2>1. Given' = Given /\ Used' = Used
    BY <1>3 DEF Given, Used
  <2> QED BY <1>3, <2>1 DEF C!vars, Outcome, Given, Used
<1>4. ASSUME NEW a \in Asks, IncrementAndGet(a) PROVE C!Ask(a)
  <2>1. /\ pc[a] = "idle" /\ pc' = [pc EXCEPT ![a] = "register"] /\ result[a] = "none"
        /\ UNCHANGED <<result, sent, answer>>
    BY <1>4 DEF IncrementAndGet, Results, system
  <2>2. Outcome[a] = "idle" /\ Outcome' = [Outcome EXCEPT ![a] = "pending"]
    BY <1>1, <1>2, <2>1 DEF Became
  <2>3. Given' = Given /\ Used' = Used
    BY <2>1 DEF Given, Used
  <2> QED BY <2>2, <2>3 DEF C!Ask, Outcome, Given, Used
<1>5. ASSUME NEW a \in Asks, PutCallback(a) \/ PostNotification(a) \/ Transfer(a)
      PROVE  UNCHANGED C!vars
  <2>1. /\ pc[a] \notin {"idle", "dead"} /\ pc' = [pc EXCEPT ![a] = pc'[a]]
        /\ pc'[a] \notin {"idle", "dead"}
        /\ UNCHANGED <<result, sent, answer>>
    BY <1>5, LaterSteps DEF PutCallback, PostNotification, Transfer, ReceivingTotalProgress,
                            ReceivingEnd, SenderGone, IInv, thread
  <2>2. Outcome' = Outcome
    <3>1. \A b \in Asks : Became(pc'[b], result'[b]) = Became(pc[b], result[b])
      BY <1>2, <2>1 DEF Became
    <3> QED BY <1>1, <3>1
  <2> QED BY <1>3, <2>1, <2>2
<1>6. ASSUME NEW a \in Asks, AwaitAnswered(a) \/ AwaitTimedOut(a) PROVE C!Decide(a)
  BY <1>6, DecidedStep
<1>7. CASE UNCHANGED vars \/ RunLooper \/ CallbackSet \/ \E c \in Actions : Collect(c)
  <2>1. UNCHANGED <<pc, result, sent, answer>>
    BY <1>7 DEF RunLooper, BuildNotification, Notify, CancelNotification, NotifyTransfer,
                CallbackSet, Collect, vars, thread, system
  <2> QED BY <1>1, <1>3, <2>1
<1>8. CASE OnReceive
  <2>1. UNCHANGED <<pc, result, sent>>
    BY <1>8 DEF OnReceive, thread
  <2>2. \A b \in Asks : result[b] = "true" => answer'[b] = answer[b]
    <3>1. \A b \in Asks : result[b] = "true" => Answered(b)
      BY DEF IInv, Answers
    <3>2. \A i \in DOMAIN CALLBACKS : ~Answered(CALLBACKS[i])
      BY DEF IInv, Registrations
    <3>3. DOMAIN answer = Asks
      BY DEF IInv, TypeOK
    <3> QED BY <1>8, <3>1, <3>2, <3>3 DEF OnReceive
  <2> QED BY <1>1, <1>3, <2>1, <2>2
<1>9. ASSUME NEW c \in Actions, Tap(c)
      PROVE  UNCHANGED C!vars \/ \E f \in Asks \union Others : C!Accept(f)
  BY <1>9, FireGives DEF IInv, Tap, thread
<1>10. CASE Swipe
  <2>1. "decline" \in Actions /\ UNCHANGED <<pc, result, answer>>
    BY <1>10 DEF Actions, Swipe, thread
  <2>2. CASE Live("decline")
    BY <1>10, <2>1, <2>2, FireGives DEF IInv, Swipe, C!Next
  <2>3. CASE ~Live("decline")
    BY <1>1, <1>3, <1>10, <2>1, <2>3 DEF Swipe
  <2> QED BY <2>2, <2>3
<1>11. CASE ProcessDeath
  <2>1. /\ pc' = [a \in Asks |-> IF pc[a] = "idle" THEN "idle" ELSE "dead"]
        /\ UNCHANGED <<result, sent, answer>>
    BY <1>11 DEF ProcessDeath, system
  <2>2. Outcome' = [a \in Asks |-> IF Outcome[a] = "pending" THEN "lost" ELSE Outcome[a]]
    BY <1>1, <2>1 DEF Became
  <2>3. Given' = Given /\ Used' = Used
    BY <2>1 DEF Given, Used
  <2> QED BY <2>2, <2>3 DEF C!Crash, C!Next, Outcome, Given, Used
<1>12. ASSUME NEW o \in Others, NEW x \in OtherAnswers, OtherBroadcast(o, x)
       PROVE  UNCHANGED C!vars \/ \E f \in Asks \union Others : C!Accept(f)
  <2>1. PICK b : b = [action |-> x.action, from |-> o, id |-> x.id]
    OBVIOUS
  <2>2. b \in Broadcasts /\ UNCHANGED <<pc, result, answer>>
    BY <1>12, <2>1, OtherType DEF IInv, OtherBroadcast, thread
  <2>3. sent' = sent \union {[shown |-> NoAsk, broadcast |-> b]}
    BY <1>12, <2>1 DEF OtherBroadcast
  <2> QED BY <2>2, <2>3, SentGives
<1> QED BY <1>4, <1>5, <1>6, <1>7, <1>8, <1>9, <1>10, <1>11, <1>12
        DEF Next, AskThread, Receive, C!Next

\* Whatever threads, looper, notifications and deaths do, accepting files is
\* what Consent allows: no ask is granted but by an Accept that was sent, by
\* the user or from outside the app, and that grants no other.
THEOREM ImplementsConsentSafety == Spec => C!Init /\ [][C!Next]_(C!vars)
<1>1. Init => C!Init
  <2> SUFFICES ASSUME Init PROVE C!Init
    OBVIOUS
  <2>1. Outcome = [a \in Asks |-> "idle"] /\ Given = {} /\ Used = [a \in Asks |-> NoAsk]
    BY DEF Init, Outcome, AbstractOutcome, Given, Used
  <2> QED BY <2>1 DEF C!Init, Outcome, Given, Used
<1>2. Init => Results
  BY DEF Init, Results
<1>3. IInv => TypeOK
  BY DEF IInv
<1>4. Spec => []Results
  BY <1>2, <1>3, ResultsStep, InductiveInvariant, PTL DEF Spec
<1> QED BY <1>1, <1>4, ConsentStep, InductiveInvariant, PTL DEF Spec
=============================================================================
