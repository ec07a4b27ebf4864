------------------------- MODULE ServerServiceProofs -------------------------
(***************************************************************************)
(* What ServerService guarantees for any number of services, start         *)
(* commands and process deaths.                                            *)
(***************************************************************************)
EXTENDS ServerService, TLAPS, SequenceTheorems

IsStart(i) == main[i].call = "start"

\* Start ids wait for the main thread in order, between the last one handled
\* and the last one given.
StartsWait ==
    /\ \A i \in DOMAIN main : IsStart(i) =>
         /\ handled[main[i].service] < main[i].startId
         /\ main[i].startId <= lastStartId[main[i].service]
    /\ \A i, j \in DOMAIN main :
         i < j /\ IsStart(i) /\ IsStart(j) /\ main[i].service = main[j].service =>
           main[i].startId < main[j].startId

\* No record has handled more than it was given, and a new one starts from 0.
RecordIds ==
    \A s \in Services : /\ handled[s] <= lastStartId[s]
                        /\ s > created => lastStartId[s] = 0

\* A handler thread's queue is in order, behind what the thread handles.
QueuesWait ==
    \A s \in Services :
        /\ job[s] <= handled[s]
        /\ \A i \in DOMAIN queue[s] : queue[s][i] <= handled[s]
        /\ \A i, j \in DOMAIN queue[s] : i < j => queue[s][i] < queue[s][j]
        /\ thread[s] \in {"running", "closed"} => \A i \in DOMAIN queue[s] : job[s] < queue[s][i]

\* What setReceiveInBackground has read can only have changed one way.
SettingSeen ==
    setting.busy => alive /\ (started # 0 => setting.running)

IInv == TypeOK /\ StartsWait /\ RecordIds /\ QueuesWait /\ SettingSeen

-----------------------------------------------------------------------------
(* Sequences that grow at the end and shrink at the front.                 *)

LEMMA Appended ==
    ASSUME NEW S, NEW q \in Seq(S), NEW e \in S
    PROVE  /\ Append(q, e) \in Seq(S)
           /\ DOMAIN q \subseteq Nat
           /\ \A i \in DOMAIN Append(q, e) :
                \/ i \in DOMAIN q /\ Append(q, e)[i] = q[i]
                \/ (\A k \in DOMAIN q : k < i) /\ i \in Nat /\ Append(q, e)[i] = e
<1>1. /\ Append(q, e) \in Seq(S)
      /\ Len(Append(q, e)) = Len(q) + 1
      /\ \A i \in 1 .. Len(q) : Append(q, e)[i] = q[i]
      /\ Append(q, e)[Len(q) + 1] = e
  BY AppendProperties
<1>2. Len(q) \in Nat /\ DOMAIN q = 1 .. Len(q) /\ DOMAIN Append(q, e) = 1 .. Len(q) + 1
  BY <1>1, LenProperties
<1> QED BY <1>1, <1>2

LEMMA Shortened ==
    ASSUME NEW S, NEW q \in Seq(S), q # << >>
    PROVE  /\ Head(q) \in S
           /\ Tail(q) \in Seq(S)
           /\ 1 \in DOMAIN q /\ q[1] = Head(q)
           /\ \A i \in DOMAIN Tail(q) : i \in Nat /\ 1 < i + 1 /\ i + 1 \in DOMAIN q /\ Tail(q)[i] = q[i + 1]
<1>1. Head(q) \in S /\ Tail(q) \in Seq(S)
  BY HeadTailProperties
<1>2. Len(q) \in Nat /\ DOMAIN q = 1 .. Len(q) /\ Len(q) # 0
  BY LenProperties, EmptySeq
<1>3. DOMAIN Tail(q) = 1 .. Len(q) - 1 /\ \A i \in 1 .. Len(q) - 1 : Tail(q)[i] = q[i + 1]
  BY <1>2
<1>4. q[1] = Head(q)
  BY <1>2
<1> QED BY <1>1, <1>2, <1>3, <1>4

-----------------------------------------------------------------------------
(* The calls of the system.                                                *)

LEMMA MainTypes ==
    ASSUME TypeOK
    PROVE  \A i \in DOMAIN main : main[i].service \in Services /\ main[i].startId \in Nat
<1>1. main \in Seq(Calls) BY DEF TypeOK
<1>2. \A i \in DOMAIN main : main[i] \in Calls
  BY <1>1, ElementOfSeq, LenProperties
<1> QED BY <1>2 DEF Calls

\* A call without a start id, put at the end of the main thread's queue,
\* leaves the start commands in order.
LEMMA OtherCallKeepsStarts ==
    ASSUME TypeOK, StartsWait, NEW c \in Calls, c.call # "start",
           main' = Append(main, c), UNCHANGED <<handled, lastStartId>>
    PROVE  main' \in Seq(Calls) /\ StartsWait'
<1>1. main \in Seq(Calls) BY DEF TypeOK
<1>2. /\ main' \in Seq(Calls)
      /\ DOMAIN main \subseteq Nat
      /\ \A i \in DOMAIN main' :
           \/ i \in DOMAIN main /\ main'[i] = main[i]
           \/ (\A k \in DOMAIN main : k < i) /\ i \in Nat /\ main'[i] = c
  BY <1>1, Appended
<1>3. \A i \in DOMAIN main' : main'[i].call = "start" => i \in DOMAIN main /\ main'[i] = main[i]
  BY <1>2
<1> QED BY <1>2, <1>3 DEF StartsWait, IsStart

\* A start command with the next id goes behind those that wait.
LEMMA StartCallKeepsStarts ==
    ASSUME TypeOK, StartsWait, RecordIds, NEW s \in Services, NEW id \in Nat,
           lastStartId[s] < id,
           lastStartId' = [lastStartId EXCEPT ![s] = id],
           main' = Append(main, Call("start", s, id)), UNCHANGED handled
    PROVE  main' \in Seq(Calls) /\ StartsWait'
<1> DEFINE c == Call("start", s, id)
<1>1. main \in Seq(Calls) BY DEF TypeOK
<1>2. c \in Calls BY DEF Call, Calls
<1>3. /\ main' \in Seq(Calls)
      /\ DOMAIN main \subseteq Nat
      /\ \A i \in DOMAIN main' :
           \/ i \in DOMAIN main /\ main'[i] = main[i]
           \/ (\A k \in DOMAIN main : k < i) /\ i \in Nat /\ main'[i] = c
  BY <1>1, <1>2, Appended
<1>4. \A i \in DOMAIN main : main[i].service \in Services /\ main[i].startId \in Nat
  BY MainTypes
<1>5. handled \in [Services -> Nat] /\ lastStartId \in [Services -> Nat]
  BY DEF TypeOK
<1>6. c.call = "start" /\ c.service = s /\ c.startId = id
  BY DEF Call
<1>7. handled[s] <= lastStartId[s] BY DEF RecordIds
<1> HIDE DEF c
<1>8. ASSUME NEW i \in DOMAIN main', main'[i].call = "start"
      PROVE  /\ handled'[main'[i].service] < main'[i].startId
             /\ main'[i].startId <= lastStartId'[main'[i].service]
  <2>1. CASE i \in DOMAIN main /\ main'[i] = main[i]
    <3>1. /\ handled[main[i].service] < main[i].startId
          /\ main[i].startId <= lastStartId[main[i].service]
      BY <1>8, <2>1 DEF StartsWait, IsStart
    <3>2. lastStartId[main[i].service] <= lastStartId'[main[i].service]
          /\ lastStartId'[main[i].service] \in Nat
      BY <1>4, <1>5, <2>1
    <3> QED BY <2>1, <3>1, <3>2, <1>4, <1>5
  <2>2. CASE main'[i] = c
    BY <2>2, <1>5, <1>6, <1>7
  <2> QED BY <2>1, <2>2, <1>3
<1>9. ASSUME NEW i \in DOMAIN main', NEW j \in DOMAIN main', i < j,
             main'[i].call = "start", main'[j].call = "start", main'[i].service = main'[j].service
      PROVE  main'[i].startId < main'[j].startId
  <2>1. i \in DOMAIN main /\ main'[i] = main[i]
    <3>1. i \in Nat /\ j \in Nat BY <1>3
    <3> QED BY <1>3, <1>9, <3>1
  <2>2. CASE j \in DOMAIN main /\ main'[j] = main[j]
    BY <2>1, <2>2, <1>9 DEF StartsWait, IsStart
  <2>3. CASE main'[j] = c
    <3>1. main[i].startId <= lastStartId[s]
      BY <2>1, <2>3, <1>6, <1>9 DEF StartsWait, IsStart
    <3> QED BY <2>1, <2>3, <3>1, <1>4, <1>5, <1>6
  <2> QED BY <2>2, <2>3, <1>3
<1> QED BY <1>3, <1>8, <1>9 DEF StartsWait, IsStart

\* startService and startForegroundService give the next start id.
LEMMA StartServiceStep ==
    ASSUME IInv, StartService, UNCHANGED handled
    PROVE  /\ main' \in Seq(Calls)
           /\ created' \in 0 .. MaxServices /\ started' \in 1 .. created'
           /\ lastStartId' \in [Services -> Nat]
           /\ StartsWait' /\ RecordIds'
<1>0. /\ created \in 0 .. MaxServices /\ started \in 0 .. created
      /\ handled \in [Services -> Nat] /\ lastStartId \in [Services -> Nat]
  BY DEF IInv, TypeOK
<1>1. CASE started = 0
  <2> DEFINE s == created + 1
             c == Call("create", s, 0)
             m == Append(main, c)
  <2>1. /\ created < MaxServices /\ created' = s /\ started' = s
        /\ lastStartId' = [lastStartId EXCEPT ![s] = 1]
        /\ main' = Append(m, Call("start", s, 1))
    BY <1>1 DEF StartService
  <2>2. s \in Services /\ c \in Calls /\ c.call = "create"
    BY <1>0, <2>1, BoundsAssumption DEF Services, Calls, Call
  <2>3. lastStartId[s] = 0 /\ handled[s] = 0
    BY <1>0, <2>2 DEF IInv, RecordIds
  <2>4. /\ m \in Seq(Calls)
        /\ DOMAIN main \subseteq Nat
        /\ \A i \in DOMAIN m :
             \/ i \in DOMAIN main /\ m[i] = main[i]
             \/ (\A k \in DOMAIN main : k < i) /\ i \in Nat /\ m[i] = c
    BY <2>2, Appended DEF IInv, TypeOK
  <2>5. \A i \in DOMAIN m : m[i].call = "start" =>
            i \in DOMAIN main /\ m[i] = main[i] /\ main[i].service # s
    <3>1. \A i \in DOMAIN m : m[i].call = "start" => i \in DOMAIN main /\ m[i] = main[i]
      BY <2>2, <2>4
    <3>2. \A i \in DOMAIN main : main[i].call = "start" =>
            handled[main[i].service] < main[i].startId /\ main[i].startId <= lastStartId[main[i].service]
      BY DEF IInv, StartsWait, IsStart
    <3>3. \A i \in DOMAIN main : main[i].startId \in Nat
      BY MainTypes DEF IInv
    <3> QED BY <2>3, <3>1, <3>2, <3>3
  <2> DEFINE d == Call("start", s, 1)
  <2>6. d \in Calls /\ d.call = "start" /\ d.service = s /\ d.startId = 1
    BY <2>2 DEF Calls, Call
  <2> HIDE DEF c, m, d
  <2>7. /\ main' \in Seq(Calls)
        /\ DOMAIN m \subseteq Nat
        /\ \A i \in DOMAIN main' :
             \/ i \in DOMAIN m /\ main'[i] = m[i]
             \/ (\A k \in DOMAIN m : k < i) /\ i \in Nat /\ main'[i] = d
    BY <2>1, <2>4, <2>6, Appended DEF d
  <2>8. \A i \in DOMAIN main' : main'[i].call = "start" =>
            \/ i \in DOMAIN main /\ main'[i] = main[i] /\ main[i].service # s
            \/ main'[i] = d /\ i \notin DOMAIN m
    BY <2>5, <2>7
  <2>9. StartsWait'
    <3>1. ASSUME NEW i \in DOMAIN main', main'[i].call = "start"
          PROVE  /\ handled'[main'[i].service] < main'[i].startId
                 /\ main'[i].startId <= lastStartId'[main'[i].service]
      <4>1. CASE i \in DOMAIN main /\ main'[i] = main[i] /\ main[i].service # s
        <5>1. handled[main[i].service] < main[i].startId /\ main[i].startId <= lastStartId[main[i].service]
          BY <3>1, <4>1 DEF IInv, StartsWait, IsStart
        <5>2. main[i].service \in Services
          BY <4>1, MainTypes DEF IInv
        <5> QED BY <4>1, <5>1, <5>2, <1>0, <2>1
      <4>2. CASE main'[i] = d
        BY <4>2, <1>0, <2>1, <2>2, <2>3, <2>6
      <4> QED BY <3>1, <4>1, <4>2, <2>8
    <3>2. ASSUME NEW i \in DOMAIN main', NEW j \in DOMAIN main', i < j,
                 main'[i].call = "start", main'[j].call = "start", main'[i].service = main'[j].service
          PROVE  main'[i].startId < main'[j].startId
      <4>1. CASE i \in DOMAIN main /\ main'[i] = main[i] /\ main[i].service # s
        <5>1. j \in DOMAIN main /\ main'[j] = main[j]
          BY <3>2, <4>1, <2>6, <2>8
        <5> QED BY <3>2, <4>1, <5>1 DEF IInv, StartsWait, IsStart
      <4>2. CASE main'[i] = d /\ i \notin DOMAIN m
        <5>1. \A k \in DOMAIN m : k < i
          BY <2>7, <4>2
        <5>2. main'[j] = d /\ j \notin DOMAIN m
          BY <3>2, <4>2, <2>6, <2>8
        <5>3. i = j
          BY <2>4, <4>2, <5>2, <2>1, AppendProperties, LenProperties DEF d
        <5> QED BY <3>2, <5>3, <2>7, LenProperties
      <4> QED BY <3>2, <4>1, <4>2, <2>8
    <3> QED BY <3>1, <3>2 DEF StartsWait, IsStart
  <2>10. RecordIds'
    BY <1>0, <2>1, <2>2, <2>3 DEF IInv, RecordIds, Services
  <2> QED BY <1>0, <2>1, <2>2, <2>7, <2>9, <2>10 DEF Services
<1>2. CASE started # 0
  <2>1. /\ started \in Services /\ lastStartId[started] \in Nat
    BY <1>0, <1>2, BoundsAssumption DEF Services
  <2> DEFINE id == lastStartId[started] + 1
  <2>2. /\ created' = created /\ started' = started
        /\ lastStartId' = [lastStartId EXCEPT ![started] = id]
        /\ main' = Append(main, Call("start", started, id))
    BY <1>0, <1>2, <2>1 DEF StartService
  <2>3. id \in Nat /\ lastStartId[started] < id
    BY <2>1
  <2>4. main' \in Seq(Calls) /\ StartsWait'
    BY <2>1, <2>2, <2>3, StartCallKeepsStarts DEF IInv
  <2>5. RecordIds'
    BY <1>0, <1>2, <2>1, <2>2, <2>3 DEF IInv, RecordIds, Services
  <2>6. lastStartId' \in [Services -> Nat]
    BY <1>0, <2>2, <2>3
  <2>7. created' \in 0 .. MaxServices /\ started' \in 1 .. created'
    BY <1>0, <1>2, <2>2
  <2> QED BY <2>4, <2>5, <2>6, <2>7
<1> QED BY <1>0, <1>1, <1>2

\* stopService and stopSelf.
LEMMA StopRecordStep ==
    ASSUME IInv, started # 0, StopRecord, UNCHANGED handled
    PROVE  main' \in Seq(Calls) /\ StartsWait' /\ RecordIds'
<1>1. started \in Services
  BY BoundsAssumption DEF IInv, TypeOK, Services
<1> DEFINE c == Call("destroy", started, 0)
<1>2. c \in Calls /\ c.call # "start"
  BY <1>1 DEF Call, Calls
<1>3. main' = Append(main, c) /\ UNCHANGED <<created, lastStartId>>
  BY DEF StopRecord
<1>4. main' \in Seq(Calls) /\ StartsWait'
  BY <1>2, <1>3, OtherCallKeepsStarts DEF IInv
<1> QED BY <1>3, <1>4 DEF IInv, RecordIds

\* The main thread handles its next call: what is left still waits in order.
LEMMA NextCallStep ==
    ASSUME IInv, NEW what, NextCall(what), UNCHANGED lastStartId
    PROVE  /\ Head(main) \in Calls /\ main' \in Seq(Calls)
           /\ what # "start" /\ UNCHANGED handled => StartsWait'
           /\ what = "start" =>
                /\ handled[Head(main).service] < Head(main).startId
                /\ Head(main).startId <= lastStartId[Head(main).service]
                /\ handled' = [handled EXCEPT ![Head(main).service] = Head(main).startId] => StartsWait'
<1>1. main \in Seq(Calls) /\ main # << >> /\ main' = Tail(main) /\ Head(main).call = what
  BY DEF IInv, TypeOK, NextCall
<1>2. /\ Head(main) \in Calls /\ main' \in Seq(Calls)
      /\ 1 \in DOMAIN main /\ main[1] = Head(main)
      /\ \A i \in DOMAIN main' : /\ i \in Nat /\ 1 < i + 1 /\ i + 1 \in DOMAIN main
                                /\ main'[i] = main[i + 1]
  BY <1>1, Shortened
<1>3. /\ \A i \in DOMAIN main' : main'[i].call = "start" =>
           /\ handled[main'[i].service] < main'[i].startId
           /\ main'[i].startId <= lastStartId[main'[i].service]
      /\ \A i, j \in DOMAIN main' :
           i < j /\ main'[i].call = "start" /\ main'[j].call = "start" /\ main'[i].service = main'[j].service =>
             main'[i].startId < main'[j].startId
  BY <1>2 DEF IInv, StartsWait, IsStart
<1>4. what # "start" /\ UNCHANGED handled => StartsWait'
  BY <1>3 DEF StartsWait, IsStart
<1>5. ASSUME what = "start"
      PROVE  /\ handled[Head(main).service] < Head(main).startId
             /\ Head(main).startId <= lastStartId[Head(main).service]
             /\ \A i \in DOMAIN main' : main'[i].call = "start" /\ main'[i].service = Head(main).service =>
                  Head(main).startId < main'[i].startId
  BY <1>1, <1>2, <1>5 DEF IInv, StartsWait, IsStart
<1>6. ASSUME what = "start",
             handled' = [handled EXCEPT ![Head(main).service] = Head(main).startId]
      PROVE  StartsWait'
  <2>1. \A i \in DOMAIN main' : main'[i].service \in Services
    BY <1>2, MainTypes DEF IInv
  <2>2. handled \in [Services -> Nat]
    BY DEF IInv, TypeOK
  <2>3. \A i \in DOMAIN main' : main'[i].call = "start" => handled'[main'[i].service] < main'[i].startId
    BY <1>3, <1>5, <1>6, <2>1, <2>2
  <2> QED BY <1>3, <2>3 DEF StartsWait, IsStart
<1> QED BY <1>2, <1>4, <1>5, <1>6

\* The system creates the service again.
LEMMA StickyRestartStep ==
    ASSUME IInv, StickyRestart
    PROVE  main' \in Seq(Calls) /\ lastStartId' \in [Services -> Nat] /\ StartsWait' /\ RecordIds'
<1>1. /\ handled \in [Services -> Nat] /\ lastStartId \in [Services -> Nat]
      /\ created \in 0 .. MaxServices /\ started \in 0 .. created
      /\ started # 0 /\ UNCHANGED <<handled, created>>
  BY DEF IInv, TypeOK, StickyRestart
<1>2. started \in Services /\ started <= created
  BY <1>1, BoundsAssumption DEF Services
<1>3. handled[started] <= lastStartId[started]
  BY <1>2 DEF IInv, RecordIds
<1> DEFINE last == IF handled[started] = lastStartId[started] THEN lastStartId[started] + 1 ELSE lastStartId[started]
<1>4. last \in Nat /\ handled[started] < last /\ lastStartId[started] <= last
  BY <1>1, <1>2, <1>3
<1>5. lastStartId' = [lastStartId EXCEPT ![started] = last]
  BY <1>2 DEF StickyRestart
<1> HIDE DEF last
<1>6. lastStartId' \in [Services -> Nat] /\ lastStartId'[started] = last
  BY <1>1, <1>2, <1>4, <1>5
<1> DEFINE n == last - handled[started]
           c == Call("create", started, 0)
           q == [i \in 1 .. n |-> Call("start", started, handled[started] + i)]
<1>7. main' = <<c>> \o q
  BY <1>6 DEF StickyRestart
<1>8. n \in Nat /\ handled[started] \in Nat
  BY <1>1, <1>2, <1>4
<1>9. c \in Calls /\ c.call = "create" /\ <<c>> \in Seq(Calls)
  BY <1>2 DEF Calls, Call
<1>10. \A i \in 1 .. n : /\ q[i] \in Calls /\ q[i].call = "start" /\ q[i].service = started
                         /\ q[i].startId = handled[started] + i
  BY <1>2, <1>8 DEF Calls, Call
<1>11. q \in Seq(Calls) /\ Len(q) = n /\ DOMAIN q = 1 .. n
  <2>1. q \in [1 .. n -> Calls]
    BY <1>10
  <2> HIDE DEF q, n
  <2> QED BY <1>8, <2>1
<1> HIDE DEF c, q, n
<1>12. /\ main' \in Seq(Calls)
       /\ \A i \in DOMAIN main' :
            \/ main'[i] = c
            \/ i - 1 \in 1 .. n /\ i \in Nat /\ main'[i] = q[i - 1]
  <2>1. main' \in Seq(Calls) /\ Len(main') = 1 + n
        /\ \A i \in 1 .. Len(main') : main'[i] = IF i <= 1 THEN c ELSE q[i - 1]
    BY <1>7, <1>9, <1>11, ConcatProperties
  <2> QED BY <1>8, <2>1, LenProperties
<1>13. \A i \in DOMAIN main' : main'[i].call = "start" =>
         /\ i - 1 \in 1 .. n /\ i \in Nat /\ main'[i].service = started
         /\ main'[i].startId = handled[started] + (i - 1)
  BY <1>9, <1>10, <1>12
<1>14. StartsWait'
  <2>1. \A i \in DOMAIN main' : main'[i].call = "start" =>
           /\ handled'[main'[i].service] < main'[i].startId
           /\ main'[i].startId <= lastStartId'[main'[i].service]
    BY <1>1, <1>4, <1>6, <1>8, <1>13 DEF n
  <2>2. \A i, j \in DOMAIN main' :
           i < j /\ main'[i].call = "start" /\ main'[j].call = "start" /\ main'[i].service = main'[j].service =>
             main'[i].startId < main'[j].startId
    BY <1>8, <1>13
  <2> QED BY <2>1, <2>2 DEF StartsWait, IsStart
<1>15. RecordIds'
  BY <1>1, <1>2, <1>4, <1>5, <1>6 DEF IInv, RecordIds, Services
<1> QED BY <1>6, <1>12, <1>14, <1>15

-----------------------------------------------------------------------------
(* The invariant.                                                          *)

\* onStartCommand posts its start id behind all that its handler thread has.
LEMMA OnStartCommandStep == IInv /\ OnStartCommand => IInv'
<1> SUFFICES ASSUME IInv, OnStartCommand PROVE IInv'
  OBVIOUS
<1> DEFINE h == Head(main)
<1>1. /\ NextCall("start")
      /\ handled' = [handled EXCEPT ![h.service] = h.startId]
      /\ queue' = [queue EXCEPT ![h.service] = Append(@, h.startId)]
      /\ UNCHANGED <<created, started, lastStartId, wanted, alive, setting, receiveInBackground, thread, job, deaths>>
  BY DEF OnStartCommand, system
<1>2. /\ h \in Calls /\ main' \in Seq(Calls) /\ StartsWait'
      /\ handled[h.service] < h.startId /\ h.startId <= lastStartId[h.service]
  BY <1>1, NextCallStep
<1>3. h.service \in Services /\ h.startId \in Nat
  BY <1>2 DEF Calls
<1> HIDE DEF h
<1>4. /\ handled \in [Services -> Nat] /\ lastStartId \in [Services -> Nat] /\ job \in [Services -> Nat]
      /\ queue \in [Services -> Seq(Nat \ {0})]
  BY DEF IInv, TypeOK
<1>5. h.startId \in Nat \ {0}
  BY <1>2, <1>3, <1>4
<1> DEFINE q == queue[h.service]
<1>6. q \in Seq(Nat \ {0})
  BY <1>3, <1>4
<1>7. /\ Append(q, h.startId) \in Seq(Nat \ {0})
      /\ DOMAIN q \subseteq Nat
      /\ \A i \in DOMAIN Append(q, h.startId) :
           \/ i \in DOMAIN q /\ Append(q, h.startId)[i] = q[i]
           \/ (\A k \in DOMAIN q : k < i) /\ i \in Nat /\ Append(q, h.startId)[i] = h.startId
  BY <1>5, <1>6, Appended
<1>8. TypeOK'
  <2>1. queue' \in [Services -> Seq(Nat \ {0})]
    BY <1>1, <1>4, <1>7
  <2>2. handled' \in [Services -> Nat]
    BY <1>1, <1>3, <1>4
  <2> QED BY <1>1, <1>2, <2>1, <2>2 DEF IInv, TypeOK
<1>9. RecordIds'
  BY <1>1, <1>2, <1>3, <1>4 DEF IInv, RecordIds
<1>10. ASSUME NEW s \in Services
       PROVE  /\ job'[s] <= handled'[s]
              /\ \A i \in DOMAIN queue'[s] : queue'[s][i] <= handled'[s]
              /\ \A i, j \in DOMAIN queue'[s] : i < j => queue'[s][i] < queue'[s][j]
              /\ thread'[s] \in {"running", "closed"} => \A i \in DOMAIN queue'[s] : job'[s] < queue'[s][i]
  <2>0. /\ job[s] <= handled[s]
        /\ \A i \in DOMAIN queue[s] : queue[s][i] <= handled[s]
        /\ \A i, j \in DOMAIN queue[s] : i < j => queue[s][i] < queue[s][j]
        /\ thread[s] \in {"running", "closed"} => \A i \in DOMAIN queue[s] : job[s] < queue[s][i]
    BY DEF IInv, QueuesWait
  <2>1. CASE s # h.service
    BY <1>1, <1>3, <1>4, <2>0, <2>1
  <2>2. CASE s = h.service
    <3> DEFINE r == Append(q, h.startId)
    <3>1. queue'[s] = r /\ handled'[s] = h.startId /\ job'[s] = job[s] /\ thread'[s] = thread[s]
      BY <1>1, <1>3, <1>4, <2>2
    <3>2. \A i \in DOMAIN q : q[i] \in Nat /\ q[i] <= handled[s]
      BY <1>6, <2>0, <2>2, ElementOfSeq, LenProperties
    <3>3. \A i, j \in DOMAIN q : i < j => q[i] < q[j]
      BY <2>0, <2>2
    <3>4. job[s] \in Nat /\ handled[s] \in Nat /\ handled[s] < h.startId
      BY <1>2, <1>4, <2>2
    <3> HIDE DEF q
    <3>5. \A i \in DOMAIN r : r[i] <= h.startId
      BY <1>3, <1>7, <3>2, <3>4
    <3>6. \A i, j \in DOMAIN r : i < j => r[i] < r[j]
      <4>1. SUFFICES ASSUME NEW i \in DOMAIN r, NEW j \in DOMAIN r, i < j PROVE r[i] < r[j]
        OBVIOUS
      <4>2. i \in Nat /\ j \in Nat
        BY <1>7
      <4>3. i \in DOMAIN q /\ r[i] = q[i]
        BY <1>7, <4>1, <4>2
      <4>4. CASE j \in DOMAIN q /\ r[j] = q[j]
        BY <3>3, <4>1, <4>3, <4>4
      <4>5. CASE r[j] = h.startId
        BY <1>3, <3>2, <3>4, <4>3, <4>5
      <4> QED BY <1>7, <4>4, <4>5
    <3>7. thread[s] \in {"running", "closed"} => \A i \in DOMAIN r : job[s] < r[i]
      BY <1>3, <1>7, <2>0, <2>2, <3>4 DEF q
    <3>8. job[s] <= h.startId
      BY <1>3, <2>0, <3>4
    <3> QED BY <3>1, <3>5, <3>6, <3>7, <3>8
  <2> QED BY <2>1, <2>2
<1>11. SettingSeen'
  BY <1>1 DEF IInv, SettingSeen
<1> QED BY <1>2, <1>8, <1>9, <1>10, <1>11 DEF IInv, QueuesWait

\* A handler thread takes the first message of its queue.
LEMMA RunStep == ASSUME IInv, NEW s \in Services, Run(s) PROVE IInv'
<1>1. /\ thread[s] = "idle" /\ queue[s] # << >>
      /\ job' = [job EXCEPT ![s] = Head(queue[s])]
      /\ queue' = [queue EXCEPT ![s] = Tail(@)]
      /\ thread' = [thread EXCEPT ![s] = "running"]
      /\ UNCHANGED <<handled, created, started, lastStartId, wanted, alive, main, setting, receiveInBackground, deaths>>
  BY DEF Run, system
<1>2. /\ handled \in [Services -> Nat] /\ job \in [Services -> Nat]
      /\ thread \in [Services -> {"none", "idle", "running", "closed"}]
      /\ queue \in [Services -> Seq(Nat \ {0})]
  BY DEF IInv, TypeOK
<1> DEFINE q == queue[s]
<1>3. /\ Head(q) \in Nat \ {0} /\ Tail(q) \in Seq(Nat \ {0})
      /\ 1 \in DOMAIN q /\ q[1] = Head(q)
      /\ \A i \in DOMAIN Tail(q) : i \in Nat /\ 1 < i + 1 /\ i + 1 \in DOMAIN q /\ Tail(q)[i] = q[i + 1]
  BY <1>1, <1>2, Shortened
<1>4. TypeOK'
  <2>1. queue' \in [Services -> Seq(Nat \ {0})] /\ job' \in [Services -> Nat]
    BY <1>1, <1>2, <1>3
  <2>2. thread' \in [Services -> {"none", "idle", "running", "closed"}]
    BY <1>1, <1>2
  <2> QED BY <1>1, <2>1, <2>2 DEF IInv, TypeOK
<1>5. StartsWait' /\ RecordIds' /\ SettingSeen'
  BY <1>1 DEF IInv, StartsWait, IsStart, RecordIds, SettingSeen
<1>6. ASSUME NEW t \in Services
      PROVE  /\ job'[t] <= handled'[t]
             /\ \A i \in DOMAIN queue'[t] : queue'[t][i] <= handled'[t]
             /\ \A i, j \in DOMAIN queue'[t] : i < j => queue'[t][i] < queue'[t][j]
             /\ thread'[t] \in {"running", "closed"} => \A i \in DOMAIN queue'[t] : job'[t] < queue'[t][i]
  <2>0. /\ job[t] <= handled[t]
        /\ \A i \in DOMAIN queue[t] : queue[t][i] <= handled[t]
        /\ \A i, j \in DOMAIN queue[t] : i < j => queue[t][i] < queue[t][j]
        /\ thread[t] \in {"running", "closed"} => \A i \in DOMAIN queue[t] : job[t] < queue[t][i]
    BY DEF IInv, QueuesWait
  <2>1. CASE t # s
    BY <1>1, <1>2, <2>0, <2>1
  <2>2. CASE t = s
    <3>1. queue'[t] = Tail(q) /\ job'[t] = Head(q) /\ handled'[t] = handled[s]
      BY <1>1, <1>2, <2>2
    <3>2. /\ \A i \in DOMAIN q : q[i] <= handled[s]
          /\ \A i, j \in DOMAIN q : i < j => q[i] < q[j]
      BY <2>0, <2>2
    <3> HIDE DEF q
    <3> QED BY <1>3, <3>1, <3>2
  <2> QED BY <2>1, <2>2
<1> QED BY <1>4, <1>5, <1>6 DEF IInv, QueuesWait

\* A handler thread that closes its server or has stopped the service.
LEMMA StopSelfStep == ASSUME IInv, NEW s \in Services, Close(s) \/ StopSelf(s) PROVE IInv'
<1>1. /\ \E state \in {"closed", "idle"} : thread' = [thread EXCEPT ![s] = state]
      /\ thread[s] \in {"running", "closed"}
      /\ UNCHANGED <<handled, alive, setting, receiveInBackground, queue, job, deaths>>
  BY DEF Close, StopSelf
<1>2. thread \in [Services -> {"none", "idle", "running", "closed"}]
  BY DEF IInv, TypeOK
<1>3. QueuesWait'
  BY <1>1, <1>2 DEF IInv, QueuesWait
<1>4. /\ main' \in Seq(Calls) /\ StartsWait' /\ RecordIds'
      /\ UNCHANGED <<created, lastStartId>> /\ started' \in {0, started} /\ wanted' \in BOOLEAN
  <2>1. CASE UNCHANGED <<system, main>>
    BY <1>1, <2>1 DEF IInv, TypeOK, StartsWait, IsStart, RecordIds, system
  <2>2. CASE s = started /\ StopRecord
    <3>1. started # 0
      BY <2>2 DEF Services
    <3> QED BY <1>1, <2>2, <3>1, StopRecordStep DEF StopRecord
  <2> QED BY <2>1, <2>2 DEF Close, StopSelf
<1>5. TypeOK'
  <2>1. thread' \in [Services -> {"none", "idle", "running", "closed"}]
    BY <1>1, <1>2
  <2>2. started' \in 0 .. created'
    BY <1>4 DEF IInv, TypeOK
  <2> QED BY <1>1, <1>4, <2>1, <2>2 DEF IInv, TypeOK
<1>6. SettingSeen'
  BY <1>1, <1>4 DEF IInv, SettingSeen
<1> QED BY <1>3, <1>4, <1>5, <1>6 DEF IInv

Settings == [busy : BOOLEAN, enabled : BOOLEAN, running : BOOLEAN]

LEMMA SettingTypes ==
    /\ NoSetting \in Settings /\ ~NoSetting.busy
    /\ \A e, r \in BOOLEAN : LET t == [busy |-> TRUE, enabled |-> e, running |-> r]
                             IN  t \in Settings /\ t.running = r
BY DEF NoSetting, Settings

\* Steps that start or stop the service and leave the handler threads alone.
LEMMA CallerStep ==
    ASSUME IInv,
           Start \/ SetReceiveInBackground \/ OpenApp \/ StickyRestart \/ \E e \in BOOLEAN : CheckRunning(e)
    PROVE  IInv'
<1>1. UNCHANGED <<handled, queue, job, thread, deaths>> /\ QueuesWait'
  <2>1. UNCHANGED <<handled, queue, job, thread, deaths>>
    BY DEF Start, SetReceiveInBackground, OpenApp, StickyRestart, CheckRunning, handlers
  <2> QED BY <2>1 DEF IInv, QueuesWait
<1>2. /\ main' \in Seq(Calls) /\ lastStartId' \in [Services -> Nat]
      /\ created' \in 0 .. MaxServices /\ started' \in 0 .. created' /\ wanted' \in BOOLEAN
      /\ StartsWait' /\ RecordIds'
  <2>1. CASE StartService
    <3>1. started' \in 1 .. created' /\ created' \in 0 .. MaxServices
      BY <1>1, <2>1, StartServiceStep
    <3> QED BY <1>1, <2>1, <3>1, StartServiceStep DEF StartService
  <2>2. CASE started # 0 /\ StopRecord
    <3>1. created' \in 0 .. MaxServices /\ started' \in 0 .. created' /\ wanted' \in BOOLEAN
          /\ lastStartId' \in [Services -> Nat]
      <4>1. created \in 0 .. MaxServices /\ lastStartId \in [Services -> Nat]
        BY DEF IInv, TypeOK
      <4>2. started' = 0 /\ created' = created /\ lastStartId' = lastStartId /\ wanted' = FALSE
        BY <2>2 DEF StopRecord
      <4>3. started' \in 0 .. created'
        BY <4>1, <4>2
      <4>4. wanted' \in BOOLEAN
        BY <4>2
      <4> QED BY <4>1, <4>2, <4>3, <4>4
    <3> QED BY <1>1, <2>2, <3>1, StopRecordStep
  <2>3. CASE UNCHANGED <<system, main>>
    BY <1>1, <2>3 DEF IInv, TypeOK, StartsWait, IsStart, RecordIds, system
  <2>4. CASE StickyRestart
    BY <2>4, StickyRestartStep DEF IInv, TypeOK, StickyRestart
  <2> QED BY <2>1, <2>2, <2>3, <2>4 DEF Start, SetReceiveInBackground, OpenApp, CheckRunning
<1>3. /\ alive' \in BOOLEAN /\ receiveInBackground' \in BOOLEAN
      /\ setting' \in Settings
      /\ SettingSeen'
  <2>0. alive \in BOOLEAN /\ receiveInBackground \in BOOLEAN /\ setting \in Settings
    BY DEF IInv, TypeOK, Settings
  <2>1. CASE Start
    BY <2>0, <2>1 DEF Start, MainIdle, SettingSeen
  <2>2. CASE SetReceiveInBackground
    <3>1. setting' = NoSetting /\ receiveInBackground' = setting.enabled /\ alive' = alive
      BY <2>2 DEF SetReceiveInBackground
    <3>2. setting.enabled \in BOOLEAN
      BY <2>0 DEF Settings
    <3> QED BY <2>0, <3>1, <3>2, SettingTypes DEF SettingSeen
  <2>3. CASE OpenApp \/ StickyRestart
    BY <2>0, <2>3 DEF OpenApp, StickyRestart, IInv, SettingSeen
  <2>4. CASE \E e \in BOOLEAN : CheckRunning(e)
    <3>1. PICK e \in BOOLEAN : CheckRunning(e)
      BY <2>4
    <3> DEFINE r == started # 0
    <3>2. /\ setting' = [busy |-> TRUE, enabled |-> e, running |-> r]
          /\ alive /\ UNCHANGED <<alive, started, receiveInBackground>>
      BY <3>1 DEF CheckRunning, MainIdle, system
    <3>3. r \in BOOLEAN
      OBVIOUS
    <3>4. setting' \in Settings /\ setting'.running = r
      <4> HIDE DEF r
      <4> QED BY <3>2, <3>3, SettingTypes
    <3> QED BY <2>0, <3>2, <3>4 DEF SettingSeen
  <2> QED BY <2>1, <2>2, <2>3, <2>4
<1> QED BY <1>1, <1>2, <1>3 DEF IInv, TypeOK, Settings

\* The main thread's other calls, and the death of the process.
LEMMA OtherStep ==
    ASSUME IInv, OnCreate \/ OnDestroy \/ ProcessDeath
    PROVE  IInv'
<1>1. CASE OnCreate
  <2>1. /\ NextCall("create") /\ UNCHANGED <<handled, system, alive, setting, receiveInBackground, queue, job, deaths>>
        /\ thread' = [thread EXCEPT ![Head(main).service] = "idle"]
    BY <1>1 DEF OnCreate
  <2>2. Head(main) \in Calls /\ main' \in Seq(Calls) /\ StartsWait'
    BY <2>1, NextCallStep DEF system
  <2>3. thread \in [Services -> {"none", "idle", "running", "closed"}]
    BY DEF IInv, TypeOK
  <2>4. thread' \in [Services -> {"none", "idle", "running", "closed"}]
        /\ \A s \in Services : thread'[s] \in {"running", "closed"} => thread[s] = thread'[s]
    BY <2>1, <2>3
  <2>5. QueuesWait'
    BY <2>1, <2>4 DEF IInv, QueuesWait
  <2> QED BY <2>1, <2>2, <2>4, <2>5 DEF IInv, TypeOK, RecordIds, SettingSeen, system
<1>2. CASE OnDestroy
  <2>1. NextCall("destroy") /\ UNCHANGED <<handled, system, alive, setting, receiveInBackground, handlers, deaths>>
    BY <1>2 DEF OnDestroy
  <2>2. main' \in Seq(Calls) /\ StartsWait'
    BY <2>1, NextCallStep DEF system
  <2> QED BY <2>1, <2>2 DEF IInv, TypeOK, RecordIds, QueuesWait, SettingSeen, system, handlers
<1>3. CASE ProcessDeath
  <2>1. /\ deaths < MaxDeaths /\ deaths' = deaths + 1 /\ alive' = FALSE /\ main' = << >> /\ setting' = NoSetting
        /\ thread' = [s \in Services |-> "none"] /\ queue' = [s \in Services |-> << >>]
        /\ UNCHANGED <<handled, system, receiveInBackground, job>>
    BY <1>3 DEF ProcessDeath
  <2>2. main' \in Seq(Calls) /\ DOMAIN main' = {} /\ queue' \in [Services -> Seq(Nat \ {0})]
        /\ \A s \in Services : DOMAIN queue'[s] = {}
    BY <2>1, EmptySeq
  <2>3. TypeOK'
    <3>1. deaths' \in 0 .. MaxDeaths
      BY <2>1, BoundsAssumption DEF IInv, TypeOK
    <3>2. setting' \in [busy : BOOLEAN, enabled : BOOLEAN, running : BOOLEAN]
      BY <2>1, SettingTypes DEF Settings
    <3>3. thread' \in [Services -> {"none", "idle", "running", "closed"}]
      BY <2>1
    <3> QED BY <2>1, <2>2, <3>1, <3>2, <3>3 DEF IInv, TypeOK, system
  <2>4. StartsWait' /\ QueuesWait'
    BY <2>1, <2>2 DEF IInv, StartsWait, QueuesWait
  <2>5. SettingSeen'
    BY <2>1, SettingTypes DEF SettingSeen
  <2> QED BY <2>1, <2>3, <2>4, <2>5 DEF IInv, RecordIds, system
<1> QED BY <1>1, <1>2, <1>3

LEMMA InitInv == Init => IInv
<1> SUFFICES ASSUME Init PROVE IInv
  OBVIOUS
<1>1. main \in Seq(Calls) /\ DOMAIN main = {} /\ queue \in [Services -> Seq(Nat \ {0})]
      /\ \A s \in Services : DOMAIN queue[s] = {}
  BY EmptySeq DEF Init
<1>2. TypeOK
  <2>1. setting \in [busy : BOOLEAN, enabled : BOOLEAN, running : BOOLEAN]
    BY SettingTypes DEF Init, Settings
  <2>2. created \in 0 .. MaxServices /\ started \in 0 .. created /\ deaths \in 0 .. MaxDeaths
    BY BoundsAssumption DEF Init
  <2> QED BY <1>1, <2>1, <2>2 DEF Init, TypeOK
<1>3. StartsWait /\ RecordIds /\ QueuesWait /\ SettingSeen
  BY <1>1, SettingTypes DEF Init, StartsWait, RecordIds, QueuesWait, SettingSeen
<1> QED BY <1>2, <1>3 DEF IInv

LEMMA NextInv == IInv /\ [Next]_vars => IInv'
<1> SUFFICES ASSUME IInv, [Next]_vars PROVE IInv'
  OBVIOUS
<1>1. CASE UNCHANGED vars
  BY <1>1 DEF vars, system, handlers, IInv, TypeOK, StartsWait, IsStart, RecordIds, QueuesWait, SettingSeen
<1>2. CASE Start \/ SetReceiveInBackground \/ OpenApp \/ StickyRestart \/ \E e \in BOOLEAN : CheckRunning(e)
  BY <1>2, CallerStep
<1>3. CASE OnCreate \/ OnDestroy \/ ProcessDeath
  BY <1>3, OtherStep
<1>4. CASE OnStartCommand
  BY <1>4, OnStartCommandStep
<1>5. CASE \E s \in Services : Run(s)
  BY <1>5, RunStep
<1>6. CASE \E s \in Services : Close(s) \/ StopSelf(s)
  BY <1>6, StopSelfStep
<1> QED BY <1>1, <1>2, <1>3, <1>4, <1>5, <1>6 DEF Next, Callers, MainThread, HandlerThread

\* Every reachable state has start ids in order from the system to the main
\* thread, to the handler threads' queues, to what they handle.
THEOREM Invariant == Spec => []IInv
BY InitInv, NextInv, PTL DEF Spec

\* The variables have their types (ServerForegroundService and its callers),
\* for any number of services, starts and deaths.
THEOREM TypeCorrect == Spec => []TypeOK
<1>1. IInv => TypeOK
  BY DEF IInv
<1> QED BY <1>1, Invariant, PTL

\* stopSelf(startId) never stops the service while a start command waits in
\* its handler thread's queue or on the way to the main thread
\* (ServerForegroundService:170-172).
THEOREM StopSelfSparesJobsAlways == Spec => StopSelfSparesJobs
<1>1. ASSUME IInv, NEW s \in Services, StopSelf(s), started' # started
      PROVE  /\ queue[s] = << >>
             /\ \A i \in DOMAIN main : ~(main[i].call = "start" /\ main[i].service = s)
  <2>1. s = started /\ job[s] = lastStartId[s] /\ thread[s] = "closed"
    BY <1>1 DEF StopSelf, system
  <2>2. /\ job[s] <= handled[s] /\ handled[s] <= lastStartId[s]
        /\ \A i \in DOMAIN queue[s] : queue[s][i] <= handled[s] /\ job[s] < queue[s][i]
    BY <1>1, <2>1 DEF IInv, QueuesWait, RecordIds
  <2>3. handled[s] \in Nat /\ lastStartId[s] \in Nat /\ job[s] \in Nat /\ queue[s] \in Seq(Nat \ {0})
    BY <1>1 DEF IInv, TypeOK
  <2>4. \A i \in DOMAIN queue[s] : queue[s][i] \in Nat
    BY <2>3, ElementOfSeq, LenProperties
  <2>5. \A i \in DOMAIN main : main[i].call = "start" /\ main[i].service = s =>
          handled[s] < main[i].startId /\ main[i].startId <= lastStartId[s]
    BY <1>1 DEF IInv, StartsWait, IsStart
  <2>6. \A i \in DOMAIN main : main[i].startId \in Nat
    BY <1>1, MainTypes DEF IInv
  <2>7. DOMAIN queue[s] = {}
    BY <2>1, <2>2, <2>3, <2>4
  <2>8. queue[s] = << >>
    <3>1. Len(queue[s]) = 0
      <4>1. Len(queue[s]) \in Nat /\ DOMAIN queue[s] = 1 .. Len(queue[s])
        BY <2>3, LenProperties
      <4>2. Len(queue[s]) >= 1 => 1 \in DOMAIN queue[s]
        BY <4>1
      <4> QED BY <2>7, <4>1, <4>2
    <3> QED BY <2>3, <3>1, EmptySeq
  <2> QED BY <2>1, <2>2, <2>3, <2>5, <2>6, <2>8
<1>2. IInv /\ [Next]_vars =>
        [\A s \in Services :
           StopSelf(s) /\ started' # started =>
             /\ queue[s] = << >>
             /\ \A i \in DOMAIN main : ~(main[i].call = "start" /\ main[i].service = s)]_vars
  BY <1>1
<1> QED BY <1>2, Invariant, PTL DEF Spec, StopSelfSparesJobs

\* Switching background receiving off leaves the service stopped, whatever a
\* handler thread does between the check and the stop (Preferences:28-38).
THEOREM SwitchedOffIsStoppedAlways == Spec => SwitchedOffIsStopped
<1>1. ASSUME IInv, SetReceiveInBackground, ~setting.enabled
      PROVE  started' = 0
  <2>1. CASE started = 0
    BY <1>1, <2>1 DEF SetReceiveInBackground, system
  <2>2. CASE started # 0
    BY <1>1, <2>2 DEF SetReceiveInBackground, StopRecord, IInv, SettingSeen
  <2> QED BY <2>1, <2>2
<1>2. IInv /\ [Next]_vars => [SetReceiveInBackground /\ ~setting.enabled => started' = 0]_vars
  BY <1>1
<1> QED BY <1>2, Invariant, PTL DEF Spec, SwitchedOffIsStopped

-----------------------------------------------------------------------------
(* The latest start is not lost.                                           *)

\* The onCreate of a record is on its way at most once, and only as long as
\* the record has no handler thread; a process that is dead has no thread.
CreatesWait ==
    /\ \A i \in DOMAIN main : main[i].call = "create" =>
         main[i].service <= created /\ thread[main[i].service] = "none"
    /\ \A i, j \in DOMAIN main :
         main[i].call = "create" /\ main[j].call = "create" /\ main[i].service = main[j].service => i = j
    /\ \A s \in Services : ~alive \/ s > created => thread[s] = "none"

In(q, e) == \E i \in DOMAIN q : q[i] = e

LEMMA InAppend ==
    ASSUME NEW S, NEW q \in Seq(S), NEW e \in S
    PROVE  In(Append(q, e), e) /\ \A d : In(q, d) => In(Append(q, e), d)
<1>1. /\ Len(Append(q, e)) = Len(q) + 1 /\ Append(q, e) \in Seq(S)
      /\ \A i \in 1 .. Len(q) : Append(q, e)[i] = q[i]
      /\ Append(q, e)[Len(q) + 1] = e
  BY AppendProperties
<1>2. Len(q) \in Nat /\ DOMAIN q = 1 .. Len(q) /\ DOMAIN Append(q, e) = 1 .. Len(q) + 1
  BY <1>1, LenProperties
<1>3. Len(q) + 1 \in DOMAIN Append(q, e) /\ DOMAIN q \subseteq DOMAIN Append(q, e)
  BY <1>2
<1> QED BY <1>1, <1>2, <1>3 DEF In

LEMMA InTail ==
    ASSUME NEW S, NEW q \in Seq(S), q # << >>
    PROVE  \A d : In(q, d) => d = Head(q) \/ In(Tail(q), d)
<1>1. Len(q) \in Nat /\ Len(q) # 0 /\ DOMAIN q = 1 .. Len(q)
  BY LenProperties, EmptySeq
<1>2. DOMAIN Tail(q) = 1 .. Len(q) - 1 /\ \A i \in 1 .. Len(q) - 1 : Tail(q)[i] = q[i + 1]
  BY <1>1
<1>3. q[1] = Head(q)
  BY <1>1
<1> SUFFICES ASSUME NEW i \in DOMAIN q, q[i] # Head(q) PROVE In(Tail(q), q[i])
  BY DEF In
<1>4. i # 1 /\ i - 1 \in 1 .. Len(q) - 1 /\ (i - 1) + 1 = i
  BY <1>1, <1>3
<1>5. i - 1 \in DOMAIN Tail(q) /\ Tail(q)[i - 1] = q[i]
  BY <1>2, <1>4
<1> QED BY <1>5 DEF In

\* Where the start command with the latest id may be, and the call that makes
\* the handler thread.
Waiting == In(main, Call("start", started, lastStartId[started]))
Posted == In(queue[started], lastStartId[started])
Handling == thread[started] \in {"running", "closed"} /\ job[started] = lastStartId[started]
HasThread == thread[started] = "none" => In(main, Call("create", started, 0))

LEMMA ServedMeans ==
    LatestStartIsServed <=> (alive /\ started # 0 => (Waiting \/ Posted \/ Handling) /\ HasThread)
BY DEF LatestStartIsServed, Waiting, Posted, Handling, HasThread, In

LEMMA ServedMeansNext ==
    LatestStartIsServed' <=>
        (alive' /\ started' # 0 => (Waiting' \/ Posted' \/ Handling') /\ HasThread')
BY DEF LatestStartIsServed, Waiting, Posted, Handling, HasThread, In

ServedInv == CreatesWait /\ LatestStartIsServed

LEMMA Types ==
    ASSUME IInv
    PROVE  /\ main \in Seq(Calls)
           /\ \A i \in DOMAIN main : main[i].service \in Services
           /\ created \in 0 .. MaxServices /\ started \in 0 .. created
           /\ started # 0 => started \in Services
           /\ created + 1 \in Services \/ created = MaxServices
           /\ lastStartId \in [Services -> Nat] /\ job \in [Services -> Nat]
           /\ thread \in [Services -> {"none", "idle", "running", "closed"}]
           /\ queue \in [Services -> Seq(Nat \ {0})]
           /\ \A s \in Services : s \in Nat
<1>1. \A i \in DOMAIN main : main[i].service \in Services
  BY MainTypes DEF IInv
<1> QED BY <1>1, BoundsAssumption DEF IInv, TypeOK, Services

\* Calls that are no onCreate come in behind the others, or one leaves.
LEMMA CreatesKept ==
    ASSUME IInv, CreatesWait, NEW k \in {0, 1}, DOMAIN main' \subseteq Nat,
           \A i \in DOMAIN main' : main'[i].call = "create" => i + k \in DOMAIN main /\ main'[i] = main[i + k],
           \A s \in Services : thread[s] = "none" => thread'[s] = "none",
           alive => alive', UNCHANGED created
    PROVE  CreatesWait'
<1>1. \A i \in DOMAIN main : main[i].service \in Services
  BY Types
<1>2. ASSUME NEW i \in DOMAIN main', main'[i].call = "create"
      PROVE  main'[i].service <= created' /\ thread'[main'[i].service] = "none"
  <2>1. i + k \in DOMAIN main /\ main'[i] = main[i + k]
    BY <1>2
  <2>2. main[i + k].call = "create"
    BY <1>2, <2>1
  <2>3. main[i + k].service <= created /\ thread[main[i + k].service] = "none"
    BY <2>1, <2>2 DEF CreatesWait
  <2> QED BY <1>1, <2>1, <2>3
<1>3. ASSUME NEW i \in DOMAIN main', NEW j \in DOMAIN main', main'[i].call = "create",
             main'[j].call = "create", main'[i].service = main'[j].service
      PROVE  i = j
  <2>1. i + k \in DOMAIN main /\ j + k \in DOMAIN main /\ main'[i] = main[i + k] /\ main'[j] = main[j + k]
    BY <1>3
  <2>2. i + k = j + k
    BY <1>3, <2>1 DEF CreatesWait
  <2> QED BY <2>2
<1>4. \A s \in Services : ~alive' \/ s > created' => thread'[s] = "none"
  BY DEF CreatesWait
<1> QED BY <1>2, <1>3, <1>4 DEF CreatesWait

LEMMA OtherCallKeepsCreates ==
    ASSUME IInv, CreatesWait, NEW c \in Calls, c.call # "create", main' = Append(main, c),
           \A s \in Services : thread[s] = "none" => thread'[s] = "none",
           alive => alive', UNCHANGED created
    PROVE  CreatesWait'
<1>1. /\ DOMAIN main \subseteq Nat
      /\ \A i \in DOMAIN main' :
           \/ i \in DOMAIN main /\ main'[i] = main[i]
           \/ (\A k \in DOMAIN main : k < i) /\ i \in Nat /\ main'[i] = c
  BY Types, Appended
<1>2. \A i \in DOMAIN main' : main'[i].call = "create" => i \in DOMAIN main /\ main'[i] = main[i]
  BY <1>1
<1>3. DOMAIN main' \subseteq Nat /\ \A i \in DOMAIN main' : i + 0 = i
  BY <1>1
<1> QED BY <1>2, <1>3, CreatesKept

\* The first call leaves the main thread's queue.
LEMMA NextCallKeeps ==
    ASSUME IInv, NEW what, NextCall(what)
    PROVE  /\ Head(main) \in Calls /\ Head(main).call = what /\ alive
           /\ DOMAIN main' \subseteq Nat
           /\ \A i \in DOMAIN main' : i + 1 \in DOMAIN main /\ main'[i] = main[i + 1]
           /\ 1 \in DOMAIN main /\ main[1] = Head(main)
           /\ \A e : In(main, e) => e = Head(main) \/ In(main', e)
<1>1. main \in Seq(Calls) /\ main # << >> /\ main' = Tail(main) /\ Head(main).call = what /\ alive
  BY DEF IInv, TypeOK, NextCall, MainIdle
<1>2. \A e : In(main, e) => e = Head(main) \/ In(main', e)
  BY <1>1, InTail
<1>3. /\ Head(main) \in Calls /\ 1 \in DOMAIN main /\ main[1] = Head(main)
      /\ \A i \in DOMAIN main' : i \in Nat /\ i + 1 \in DOMAIN main /\ main'[i] = main[i + 1]
  BY <1>1, Shortened
<1> QED BY <1>1, <1>2, <1>3

\* startService and startForegroundService: the new start command waits, and
\* a new record's onCreate before it.
LEMMA StartServed ==
    ASSUME IInv, ServedInv, StartService, UNCHANGED thread, alive', started # 0 => alive
    PROVE  ServedInv'
<1>1. CASE started = 0
  <2> DEFINE s == created + 1
             c == Call("create", s, 0)
             d == Call("start", s, 1)
             m == Append(main, c)
  <2>1. /\ created < MaxServices /\ created' = s /\ started' = s
        /\ lastStartId' = [lastStartId EXCEPT ![s] = 1]
        /\ main' = Append(m, d)
    BY <1>1 DEF StartService
  <2>2. s \in Services /\ s \in Nat /\ created \in Nat /\ created < s
    BY <2>1, Types DEF Services
  <2>3. /\ c \in Calls /\ c.call = "create" /\ c.service = s
        /\ d \in Calls /\ d.call = "start"
    BY <2>2 DEF Calls, Call
  <2>4. lastStartId'[s] = 1
    BY <2>1, <2>2, Types
  <2> HIDE DEF s, c, d
  <2>5. /\ m \in Seq(Calls) /\ DOMAIN main \subseteq Nat
        /\ \A i \in DOMAIN m :
             \/ i \in DOMAIN main /\ m[i] = main[i]
             \/ (\A k \in DOMAIN main : k < i) /\ i \in Nat /\ m[i] = c
        /\ In(m, c) /\ Len(m) = Len(main) + 1 /\ DOMAIN m = 1 .. Len(m)
        /\ Len(main) \in Nat /\ DOMAIN main = 1 .. Len(main)
    BY <2>3, Types, Appended, InAppend, AppendProperties, LenProperties
  <2> HIDE DEF m
  <2>6. /\ \A i \in DOMAIN main' :
             \/ i \in DOMAIN m /\ main'[i] = m[i]
             \/ main'[i] = d
        /\ In(main', d) /\ In(main', c)
    BY <2>1, <2>3, <2>5, Appended, InAppend
  <2>7. \A i \in DOMAIN main' : main'[i].call = "create" =>
           \/ i \in DOMAIN main /\ main'[i] = main[i] /\ main[i].service <= created
           \/ i = Len(main) + 1 /\ main'[i] = c
    <3>1. \A i \in DOMAIN m : i \in DOMAIN main \/ i = Len(main) + 1
      BY <2>5
    <3>2. \A i \in DOMAIN main : main[i].call = "create" => main[i].service <= created
      BY DEF ServedInv, CreatesWait
    <3>3. Len(main) + 1 \notin DOMAIN main
      BY <2>5
    <3> QED BY <2>3, <2>5, <2>6, <3>1, <3>2, <3>3
  <2>8. thread[s] = "none" /\ \A t \in Services : t > s => thread[t] = "none"
    BY <2>2, Types DEF ServedInv, CreatesWait
  <2>9. \A i \in DOMAIN main : main[i].service \in Nat
    BY Types
  <2>10. CreatesWait'
    <3>1. ASSUME NEW i \in DOMAIN main', main'[i].call = "create"
          PROVE  main'[i].service <= created' /\ thread'[main'[i].service] = "none"
      <4>1. CASE i \in DOMAIN main /\ main'[i] = main[i] /\ main[i].service <= created
        BY <2>1, <2>2, <2>9, <3>1, <4>1 DEF ServedInv, CreatesWait
      <4>2. CASE main'[i] = c
        BY <2>1, <2>2, <2>3, <2>8, <4>2
      <4> QED BY <2>7, <3>1, <4>1, <4>2
    <3>2. ASSUME NEW i \in DOMAIN main', NEW j \in DOMAIN main', main'[i].call = "create",
                 main'[j].call = "create", main'[i].service = main'[j].service
          PROVE  i = j
      <4>1. CASE i \in DOMAIN main /\ main'[i] = main[i] /\ main[i].service <= created
        <5>1. j \in DOMAIN main /\ main'[j] = main[j]
          BY <2>2, <2>3, <2>7, <2>9, <3>2, <4>1
        <5> QED BY <3>2, <4>1, <5>1 DEF ServedInv, CreatesWait
      <4>2. CASE i = Len(main) + 1 /\ main'[i] = c
        BY <2>2, <2>3, <2>7, <2>9, <3>2, <4>2
      <4> QED BY <2>7, <3>2, <4>1, <4>2
    <3>3. \A t \in Services : ~alive' \/ t > created' => thread'[t] = "none"
      BY <2>1, <2>8
    <3> QED BY <3>1, <3>2, <3>3 DEF CreatesWait
  <2>11. Waiting' /\ HasThread'
    <3>1. d = Call("start", started', lastStartId'[started']) /\ c = Call("create", started', 0)
      BY <2>1, <2>4 DEF c, d
    <3> QED BY <2>6, <3>1 DEF Waiting, HasThread
  <2> QED BY <2>10, <2>11, ServedMeansNext DEF ServedInv
<1>2. CASE started # 0
  <2> DEFINE c == Call("start", started, lastStartId'[started])
  <2>1. /\ lastStartId' = [lastStartId EXCEPT ![started] = @ + 1]
        /\ main' = Append(main, c) /\ UNCHANGED <<created, started>>
    BY <1>2 DEF StartService
  <2>2. started \in Services /\ lastStartId'[started] \in Nat
    BY <1>2, <2>1, Types
  <2>3. c \in Calls /\ c.call = "start"
    BY <2>2 DEF Calls, Call
  <2>4. c = Call("start", started', lastStartId'[started'])
    BY <2>1
  <2> HIDE DEF c
  <2>5. CreatesWait'
    BY <2>1, <2>3, OtherCallKeepsCreates DEF ServedInv
  <2>6. In(main', c) /\ \A e : In(main, e) => In(main', e)
    BY <2>1, <2>3, Types, InAppend
  <2>7. Waiting'
    BY <2>4, <2>6 DEF Waiting
  <2>8. HasThread'
    BY <1>2, <2>1, <2>6, ServedMeans DEF ServedInv, HasThread
  <2> QED BY <2>5, <2>7, <2>8, ServedMeansNext DEF ServedInv
<1> QED BY <1>1, <1>2

\* stopService and stopSelf: no service is started any more.
LEMMA StopServed ==
    ASSUME IInv, ServedInv, started # 0, StopRecord, UNCHANGED alive,
           \A s \in Services : thread[s] = "none" => thread'[s] = "none"
    PROVE  ServedInv'
<1> DEFINE c == Call("destroy", started, 0)
<1>1. started' = 0 /\ main' = Append(main, c) /\ created' = created
  BY DEF StopRecord
<1>2. c \in Calls /\ c.call # "create"
  BY Types DEF Calls, Call
<1> HIDE DEF c
<1>3. CreatesWait'
  BY <1>1, <1>2, OtherCallKeepsCreates DEF ServedInv
<1> QED BY <1>1, <1>3, ServedMeansNext DEF ServedInv

\* onCreate makes the handler thread of a record that had none.
LEMMA OnCreateServed == ASSUME IInv, ServedInv, OnCreate PROVE ServedInv'
<1> DEFINE h == Head(main)
<1>1. /\ NextCall("create") /\ thread' = [thread EXCEPT ![h.service] = "idle"]
      /\ UNCHANGED <<created, started, lastStartId, alive, queue, job>>
  BY DEF OnCreate, system
<1>2. /\ h \in Calls /\ h.call = "create" /\ alive /\ DOMAIN main' \subseteq Nat
      /\ \A i \in DOMAIN main' : i + 1 \in DOMAIN main /\ main'[i] = main[i + 1]
      /\ 1 \in DOMAIN main /\ main[1] = h
      /\ \A e : In(main, e) => e = h \/ In(main', e)
  BY <1>1, NextCallKeeps
<1> HIDE DEF h
<1>3. h.service \in Services /\ h.service <= created /\ thread[h.service] = "none"
  BY <1>2 DEF Calls, ServedInv, CreatesWait
<1>4. \A i \in DOMAIN main' : main'[i].call = "create" => main'[i].service # h.service
  <2> SUFFICES ASSUME NEW i \in DOMAIN main', main'[i].call = "create", main'[i].service = h.service
               PROVE  FALSE
    OBVIOUS
  <2>1. i + 1 = 1
    BY <1>2 DEF ServedInv, CreatesWait
  <2>2. i \in DOMAIN main' /\ DOMAIN main' = 1 .. Len(main')
    BY <1>1, Types, Shortened, LenProperties DEF NextCall
  <2> QED BY <2>1, <2>2
<1>5. CreatesWait'
  <2>1. ASSUME NEW i \in DOMAIN main', main'[i].call = "create"
        PROVE  main'[i].service <= created' /\ thread'[main'[i].service] = "none"
    <3>1. /\ main[i + 1].service <= created /\ thread[main[i + 1].service] = "none"
          /\ main'[i] = main[i + 1] /\ i + 1 \in DOMAIN main
      BY <1>2, <2>1 DEF ServedInv, CreatesWait
    <3>2. main'[i].service # h.service /\ main'[i].service \in Services
      BY <1>4, <2>1, <3>1, Types
    <3> QED BY <1>1, <3>1, <3>2, Types
  <2>2. ASSUME NEW i \in DOMAIN main', NEW j \in DOMAIN main', main'[i].call = "create",
               main'[j].call = "create", main'[i].service = main'[j].service
        PROVE  i = j
    <3>1. i + 1 = j + 1
      BY <1>2, <2>2 DEF ServedInv, CreatesWait
    <3> QED BY <1>2, <3>1
  <2>3. \A s \in Services : ~alive' \/ s > created' => thread'[s] = "none"
    <3>1. \A s \in Services : s > created => s # h.service
      BY <1>3, Types
    <3> QED BY <1>1, <1>2, <3>1, Types DEF ServedInv, CreatesWait
  <2> QED BY <2>1, <2>2, <2>3 DEF CreatesWait
<1>6. ASSUME started # 0 PROVE (Waiting' \/ Posted' \/ Handling') /\ HasThread'
  <2>1. started \in Services
    BY <1>6, Types
  <2>2. (Waiting \/ Posted \/ Handling) /\ HasThread
    BY <1>2, <1>6, ServedMeans DEF ServedInv
  <2>3. Waiting => Waiting'
    <3>1. Call("start", started, lastStartId[started]) # h
      BY <1>2 DEF Call
    <3> QED BY <1>1, <1>2, <3>1 DEF Waiting
  <2>4. Posted => Posted'
    BY <1>1 DEF Posted
  <2>5. Handling => Handling'
    BY <1>1, <1>3, <2>1, Types DEF Handling
  <2>6. HasThread'
    <3>1. CASE h.service = started
      BY <1>1, <2>1, <3>1, Types DEF HasThread
    <3>2. CASE h.service # started
      <4>1. Call("create", started, 0) # h
        BY <3>2 DEF Call
      <4> QED BY <1>1, <1>2, <1>3, <2>1, <2>2, <3>2, <4>1, Types DEF HasThread
    <3> QED BY <3>1, <3>2
  <2> QED BY <2>2, <2>3, <2>4, <2>5, <2>6
<1> QED BY <1>1, <1>5, <1>6, ServedMeansNext DEF ServedInv
\* onStartCommand turns the start command into a message, onDestroy leaves all
\* as it is.
LEMMA OnStartCommandServed == ASSUME IInv, ServedInv, OnStartCommand \/ OnDestroy PROVE ServedInv'
<1> DEFINE h == Head(main)
<1>1. PICK what \in {"start", "destroy"} :
        /\ NextCall(what)
        /\ UNCHANGED <<created, started, lastStartId, alive, thread, job>>
        /\ IF what = "start" THEN queue' = [queue EXCEPT ![h.service] = Append(@, h.startId)]
           ELSE UNCHANGED queue
  BY DEF OnStartCommand, OnDestroy, system, handlers
<1>2. /\ h \in Calls /\ h.call = what /\ alive /\ DOMAIN main' \subseteq Nat
      /\ \A i \in DOMAIN main' : i + 1 \in DOMAIN main /\ main'[i] = main[i + 1]
      /\ 1 \in DOMAIN main /\ main[1] = h
      /\ \A e : In(main, e) => e = h \/ In(main', e)
  BY <1>1, NextCallKeeps
<1>3. what = "start" => h.startId \in Nat \ {0}
  <2>1. ASSUME what = "start" PROVE handled[h.service] < h.startId
    BY <1>1, <1>2, <2>1 DEF IInv, StartsWait, IsStart
  <2>2. handled[h.service] \in Nat /\ h.startId \in Nat
    BY <1>2 DEF Calls, IInv, TypeOK
  <2> QED BY <2>1, <2>2
<1> HIDE DEF h
<1>4. CreatesWait'
  BY <1>1, <1>2, CreatesKept DEF ServedInv
<1>5. ASSUME started # 0 PROVE (Waiting' \/ Posted' \/ Handling') /\ HasThread'
  <2>1. started \in Services /\ h.service \in Services
    BY <1>2, <1>5, Types DEF Calls
  <2>2. (Waiting \/ Posted \/ Handling) /\ HasThread
    BY <1>2, <1>5, ServedMeans DEF ServedInv
  <2> DEFINE q == queue[started]
             d == lastStartId[started]
  <2>3. q \in Seq(Nat \ {0})
    BY <2>1, Types
  <2>4. In(q, d) => Posted'
    <3>1. CASE what = "start" /\ h.service = started
      <4>1. queue'[started] = Append(q, h.startId)
        BY <1>1, <2>1, <3>1, Types
      <4> HIDE DEF q
      <4>2. In(q, d) => In(queue'[started], d)
        BY <1>3, <2>3, <3>1, <4>1, InAppend
      <4> QED BY <1>1, <4>2 DEF Posted
    <3>2. CASE ~(what = "start" /\ h.service = started)
      <4>1. queue'[started] = q
        BY <1>1, <2>1, <3>2, Types
      <4> QED BY <1>1, <4>1 DEF Posted
    <3> QED BY <3>1, <3>2
  <2>5. Waiting => Waiting' \/ Posted'
    <3>1. CASE Call("start", started, d) # h
      BY <1>1, <1>2, <3>1 DEF Waiting
    <3>2. CASE Call("start", started, d) = h
      <4>1. what = "start" /\ h.service = started /\ h.startId = d
        BY <1>2, <3>2 DEF Call
      <4>2. queue'[started] = Append(q, d)
        BY <1>1, <2>1, <4>1, Types
      <4>3. d \in Nat \ {0}
        BY <1>3, <4>1
      <4> HIDE DEF q, d
      <4>4. In(queue'[started], d)
        BY <2>3, <4>2, <4>3, InAppend
      <4> QED BY <1>1, <4>4 DEF Posted, d
    <3> QED BY <3>1, <3>2
  <2>6. Handling => Handling'
    BY <1>1 DEF Handling
  <2>7. HasThread'
    <3>1. Call("create", started, 0) # h
      BY <1>1, <1>2 DEF Call
    <3> QED BY <1>1, <1>2, <2>2, <3>1 DEF HasThread
  <2> QED BY <2>2, <2>4, <2>5, <2>6, <2>7 DEF Posted
<1> QED BY <1>1, <1>4, <1>5, ServedMeansNext DEF ServedInv

\* A handler thread goes on to its next message, or closes its server.
LEMMA RunServed == ASSUME IInv, ServedInv, NEW s \in Services, Run(s) \/ Close(s) PROVE ServedInv'
<1> DEFINE q == queue[s]
<1>1. /\ thread[s] # "none" /\ UNCHANGED <<created, started, lastStartId, alive, main>>
      /\ \/ /\ thread[s] = "idle" /\ q # << >>
            /\ job' = [job EXCEPT ![s] = Head(q)]
            /\ queue' = [queue EXCEPT ![s] = Tail(q)]
            /\ thread' = [thread EXCEPT ![s] = "running"]
         \/ /\ UNCHANGED <<job, queue>>
            /\ thread' = [thread EXCEPT ![s] = "closed"]
  BY DEF Run, Close, system
<1>2. /\ q \in Seq(Nat \ {0}) /\ thread \in [Services -> {"none", "idle", "running", "closed"}]
      /\ job \in [Services -> Nat] /\ queue \in [Services -> Seq(Nat \ {0})]
  BY Types
<1>3. \A t \in Services : thread'[t] = "none" <=> thread[t] = "none"
  BY <1>1, <1>2
<1>4. CreatesWait'
  BY <1>1, <1>3, Types DEF ServedInv, CreatesWait
<1>5. ASSUME alive, started # 0 PROVE (Waiting' \/ Posted' \/ Handling') /\ HasThread'
  <2>1. started \in Services
    BY <1>5, Types
  <2>2. (Waiting \/ Posted \/ Handling) /\ HasThread
    BY <1>5, ServedMeans DEF ServedInv
  <2>3. Waiting => Waiting'
    BY <1>1 DEF Waiting
  <2>4. HasThread'
    BY <1>1, <1>3, <2>1, <2>2 DEF HasThread
  <2>5. Posted \/ Handling => Posted' \/ Handling'
    <3>1. CASE started # s
      BY <1>1, <1>2, <2>1, <3>1 DEF Posted, Handling
    <3>2. CASE started = s /\ UNCHANGED queue /\ UNCHANGED job
      <4>1. thread'[s] \in {"running", "closed"} \/ thread[s] \notin {"running", "closed"}
        BY <1>1, <1>2
      <4> QED BY <1>1, <3>2, <4>1 DEF Posted, Handling
    <3>3. CASE started = s /\ thread[s] = "idle" /\ q # << >>
               /\ job' = [job EXCEPT ![s] = Head(q)]
               /\ queue' = [queue EXCEPT ![s] = Tail(q)]
               /\ thread' = [thread EXCEPT ![s] = "running"]
      <4>1. queue'[s] = Tail(q) /\ job'[s] = Head(q) /\ thread'[s] = "running"
        BY <1>2, <3>3
      <4>2. In(q, lastStartId[s]) => lastStartId[s] = Head(q) \/ In(Tail(q), lastStartId[s])
        <5> HIDE DEF q
        <5> QED BY <1>2, <3>3, InTail
      <4>3. ~Handling
        BY <3>3 DEF Handling
      <4>4. Posted => In(q, lastStartId[s])
        BY <3>3 DEF Posted
      <4> QED BY <1>1, <3>3, <4>1, <4>2, <4>3, <4>4 DEF Posted, Handling
    <3> QED BY <1>1, <3>1, <3>2, <3>3
  <2> QED BY <2>2, <2>3, <2>4, <2>5
<1> QED BY <1>1, <1>4, <1>5, ServedMeansNext DEF ServedInv

\* stopSelf(startId) of an earlier start, or of a record that is no longer
\* started, does not stop the service.
LEMMA StopSelfServed == ASSUME IInv, ServedInv, NEW s \in Services, StopSelf(s) PROVE ServedInv'
<1>1. /\ thread[s] = "closed" /\ thread' = [thread EXCEPT ![s] = "idle"]
      /\ UNCHANGED <<alive, queue, job>>
  BY DEF StopSelf
<1>2. thread \in [Services -> {"none", "idle", "running", "closed"}]
  BY Types
<1>3. \A t \in Services : thread'[t] = "none" <=> thread[t] = "none"
  BY <1>1, <1>2
<1>4. CASE s = started /\ job[s] = lastStartId[s]
  <2>1. StopRecord /\ started # 0
    BY <1>4 DEF StopSelf, Services
  <2> QED BY <1>1, <1>3, <2>1, StopServed
<1>5. CASE ~(s = started /\ job[s] = lastStartId[s])
  <2>1. UNCHANGED <<created, started, lastStartId, main>>
    BY <1>5 DEF StopSelf, system
  <2>2. CreatesWait'
    BY <1>1, <1>3, <2>1, Types DEF ServedInv, CreatesWait
  <2>3. ASSUME alive, started # 0 PROVE (Waiting' \/ Posted' \/ Handling') /\ HasThread'
    <3>1. started \in Services /\ (Waiting \/ Posted \/ Handling) /\ HasThread
      BY <2>3, Types, ServedMeans DEF ServedInv
    <3>2. Handling => Handling'
      BY <1>1, <1>2, <1>5, <2>1, <3>1 DEF Handling
    <3>3. (Waiting => Waiting') /\ (Posted => Posted') /\ HasThread'
      BY <1>1, <1>3, <2>1, <3>1 DEF Waiting, Posted, HasThread
    <3> QED BY <3>1, <3>2, <3>3
  <2> QED BY <1>1, <2>1, <2>2, <2>3, ServedMeansNext DEF ServedInv
<1> QED BY <1>4, <1>5
\* The calls of the system for a service that it creates again.
Redelivery(s, k, n) ==
    << Call("create", s, 0) >> \o [i \in 1 .. n |-> Call("start", s, k + i)]

LEMMA RedeliveryCalls ==
    ASSUME NEW s \in Services, NEW k \in Nat, NEW n \in Nat, n > 0
    PROVE  /\ In(Redelivery(s, k, n), Call("create", s, 0))
           /\ In(Redelivery(s, k, n), Call("start", s, k + n))
           /\ \A i \in DOMAIN Redelivery(s, k, n) :
                Redelivery(s, k, n)[i].call = "create" => i = 1 /\ Redelivery(s, k, n)[i].service = s
<1> DEFINE c == Call("create", s, 0)
           d == << c >>
           r == [i \in 1 .. n |-> Call("start", s, k + i)]
           q == Redelivery(s, k, n)
<1>1. c \in Calls /\ c.call = "create" /\ c.service = s
  BY DEF Call, Calls
<1>2. \A i \in 1 .. n : r[i] \in Calls /\ r[i].call = "start" /\ r[i] = Call("start", s, k + i)
  BY DEF Call, Calls
<1>3. r \in Seq(Calls) /\ Len(r) = n
  <2>1. r \in [1 .. n -> Calls]
    BY <1>2
  <2> HIDE DEF r
  <2> QED BY <2>1
<1>4. q = d \o r
  BY DEF Redelivery
<1> HIDE DEF c, r, q
<1>5. d \in Seq(Calls) /\ Len(d) = 1 /\ d[1] = c
  BY <1>1
<1> HIDE DEF d
<1>6. /\ q \in Seq(Calls) /\ Len(q) = 1 + n
      /\ \A i \in 1 .. 1 + n : q[i] = IF i <= 1 THEN d[i] ELSE r[i - 1]
  <2>1. /\ q \in Seq(Calls) /\ Len(q) = Len(d) + Len(r)
        /\ \A i \in 1 .. Len(d) + Len(r) : q[i] = IF i <= Len(d) THEN d[i] ELSE r[i - Len(d)]
    BY <1>3, <1>4, <1>5, ConcatProperties
  <2> QED BY <1>3, <1>5, <2>1
<1>7. DOMAIN q = 1 .. n + 1
  BY <1>6, LenProperties
<1>8. \A i \in 1 .. n : q[i + 1] = r[i]
  <2> SUFFICES ASSUME NEW i \in 1 .. n PROVE q[i + 1] = r[i]
    OBVIOUS
  <2>1. i + 1 \in 1 .. 1 + n /\ ~(i + 1 <= 1) /\ (i + 1) - 1 = i
    OBVIOUS
  <2> QED BY <1>6, <2>1
<1>9. 1 \in DOMAIN q /\ q[1] = c
  <2>1. 1 \in 1 .. 1 + n /\ 1 \in 1 .. n + 1
    OBVIOUS
  <2> QED BY <1>5, <1>6, <1>7, <2>1
<1>10. ASSUME NEW i \in DOMAIN q, q[i].call = "create" PROVE i = 1 /\ q[i].service = s
  <2>1. CASE i = 1
    BY <1>1, <1>9, <2>1
  <2>2. CASE i # 1
    <3>1. i - 1 \in 1 .. n /\ (i - 1) + 1 = i
      BY <1>7, <2>2
    <3> QED BY <1>2, <1>10, <1>8, <3>1
  <2> QED BY <2>1, <2>2
<1>11. In(q, Call("start", s, k + n))
  <2>1. n \in 1 .. n /\ n + 1 \in DOMAIN q
    BY <1>7
  <2>2. q[n + 1] = Call("start", s, k + n)
    BY <1>2, <1>8, <2>1
  <2> QED BY <2>1, <2>2 DEF In
<1>12. In(q, c)
  BY <1>9 DEF In
<1> QED BY <1>10, <1>11, <1>12 DEF c, q

\* A dead process has no handler threads, and the system creates a started
\* service again, with the start commands it has not handled or with a new one.
LEMMA RestartServed == ASSUME IInv, ServedInv, StickyRestart PROVE ServedInv'
<1>1. /\ ~alive /\ started # 0 /\ UNCHANGED <<created, started, handled, thread>>
      /\ \A s \in Services : thread[s] = "none"
  BY DEF StickyRestart, ServedInv, CreatesWait, handlers
<1>2. /\ started \in Services /\ started <= created /\ created \in Nat
      /\ lastStartId \in [Services -> Nat] /\ handled[started] \in Nat
      /\ handled[started] <= lastStartId[started]
  BY <1>1, Types DEF IInv, TypeOK, RecordIds
<1> DEFINE last == lastStartId'[started]
           k == handled[started]
<1>3. last \in Nat /\ k < last
  BY <1>2 DEF StickyRestart
<1>4. last - k \in Nat /\ last - k > 0 /\ k + (last - k) = last /\ k \in Nat
  BY <1>2, <1>3
<1>5. main' = Redelivery(started, k, last - k)
  BY DEF StickyRestart, Redelivery
<1> HIDE DEF last, k
<1>6. /\ In(main', Call("create", started, 0)) /\ In(main', Call("start", started, last))
      /\ \A i \in DOMAIN main' : main'[i].call = "create" => i = 1 /\ main'[i].service = started
  <2> DEFINE n == last - k
  <2>1. n \in Nat /\ n > 0 /\ k \in Nat /\ k + n = last
    BY <1>4
  <2> HIDE DEF n
  <2>2. main' = Redelivery(started, k, n)
    BY <1>5 DEF n
  <2> DEFINE q == Redelivery(started, k, n)
  <2>3. /\ In(q, Call("create", started, 0)) /\ In(q, Call("start", started, k + n))
        /\ \A i \in DOMAIN q : q[i].call = "create" => i = 1 /\ q[i].service = started
    BY ONLY <1>2, <2>1, RedeliveryCalls
  <2> HIDE DEF q
  <2>4. main' = q
    BY <2>2 DEF q
  <2> QED BY <2>1, <2>3, <2>4
<1>7. CreatesWait'
  BY <1>1, <1>2, <1>6 DEF CreatesWait
<1>8. Waiting' /\ HasThread'
  BY <1>1, <1>6 DEF Waiting, HasThread, last
<1> QED BY <1>7, <1>8, ServedMeansNext DEF ServedInv

LEMMA ServedInit == Init => ServedInv
<1> SUFFICES ASSUME Init PROVE ServedInv
  OBVIOUS
<1>1. DOMAIN main = {}
  BY DEF Init
<1> QED BY <1>1 DEF Init, ServedInv, CreatesWait, LatestStartIsServed

LEMMA ServedNext == IInv /\ ServedInv /\ [Next]_vars => ServedInv'
<1> SUFFICES ASSUME IInv, ServedInv, [Next]_vars PROVE ServedInv'
  OBVIOUS
<1>1. CASE UNCHANGED <<created, started, lastStartId, alive, main, thread, queue, job>>
  <2>1. CreatesWait'
    BY <1>1 DEF ServedInv, CreatesWait
  <2>2. LatestStartIsServed'
    BY <1>1 DEF ServedInv, LatestStartIsServed
  <2> QED BY <2>1, <2>2 DEF ServedInv
<1>2. CASE StartService /\ alive' /\ UNCHANGED thread /\ (started # 0 => alive)
  BY <1>2, StartServed
<1>3. CASE StopRecord /\ started # 0 /\ UNCHANGED <<alive, thread>>
  BY <1>3, StopServed
<1>4. CASE alive' /\ started = 0 /\ UNCHANGED <<created, started, main, thread>>
  <2>1. CreatesWait'
    BY <1>4 DEF ServedInv, CreatesWait
  <2> QED BY <1>4, <2>1, ServedMeansNext DEF ServedInv
<1>5. CASE SetReceiveInBackground
  <2>1. alive
    BY <1>5 DEF SetReceiveInBackground, IInv, SettingSeen
  <2> QED BY <1>1, <1>2, <1>3, <1>5, <2>1 DEF SetReceiveInBackground, system, handlers
<1>6. CASE Start \/ OpenApp \/ \E e \in BOOLEAN : CheckRunning(e)
  BY <1>1, <1>2, <1>4, <1>6 DEF Start, OpenApp, CheckRunning, MainIdle, system, handlers
<1>7. CASE ProcessDeath
  <2>1. ~alive' /\ DOMAIN main' = {} /\ \A s \in Services : thread'[s] = "none"
    BY <1>7 DEF ProcessDeath
  <2>2. CreatesWait'
    BY <2>1 DEF CreatesWait
  <2> QED BY <2>1, <2>2, ServedMeansNext DEF ServedInv
<1>8. CASE UNCHANGED vars
  BY <1>1, <1>8 DEF vars, system, handlers
<1> QED BY <1>5, <1>6, <1>7, <1>8, OnCreateServed, OnStartCommandServed, RunServed, StopSelfServed,
           RestartServed DEF Next, Callers, MainThread, HandlerThread

\* The latest start of a started service waits for the main thread or for its
\* handler thread, or the thread is on it, whatever is started, stopped and
\* created again meanwhile (ServerForegroundService and MessageHandler).
THEOREM LatestStartIsServedAlways == Spec => []LatestStartIsServed
<1>1. ServedInv => LatestStartIsServed
  BY DEF ServedInv
<1>2. Spec => []ServedInv
  BY Invariant, ServedInit, ServedNext, PTL DEF Spec
<1> QED BY <1>1, <1>2, PTL
=============================================================================
