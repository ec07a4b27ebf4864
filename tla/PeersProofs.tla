----------------------------- MODULE PeersProofs -----------------------------
(***************************************************************************)
(* Proofs about Peers, for any devices and any transfers between them: the *)
(* types, that accepted transfers never run in a circle, and that every    *)
(* step of the phones is one of Consent's or none.                         *)
(***************************************************************************)
EXTENDS Peers, SequenceTheorems, TLAPS

USE TransfersAssumption, NoTransferAssumption

-----------------------------------------------------------------------------
(* One queue. What is in order in q, the queue of device d, with s how far *)
(* the transfers have come and g the answers given: a job to execute is the *)
(* only one of a transfer of this device that waits for it, and an answer  *)
(* was given on this device.                                               *)

InOrder(q, d, s, g) ==
    /\ \A i \in DOMAIN q :
         /\ q[i].do = "execute" => q[i].transfer.from = d /\ s[q[i].transfer] = "posted"
         /\ q[i].do \in Answers => q[i].transfer.to = d /\ q[i] \in g
    /\ \A i, k \in DOMAIN q :
         q[i].do = "execute" /\ q[k].do = "execute" /\ q[i].transfer = q[k].transfer => i = k

\* A job that fits may be appended.
LEMMA PostInOrder ==
    ASSUME NEW q \in Seq(Jobs), NEW j \in Jobs, NEW d, NEW s, NEW g, InOrder(q, d, s, g),
           j.do = "execute" => /\ j.transfer.from = d /\ s[j.transfer] = "posted"
                               /\ \A i \in DOMAIN q : q[i].do = "execute" => q[i].transfer # j.transfer,
           j.do \in Answers => j.transfer.to = d /\ j \in g
    PROVE  Append(q, j) \in Seq(Jobs) /\ InOrder(Append(q, j), d, s, g)
<1> DEFINE r == Append(q, j)
<1>1. /\ r \in Seq(Jobs) /\ DOMAIN q \subseteq DOMAIN r
      /\ \A i \in DOMAIN q : r[i] = q[i]
      /\ \A i \in DOMAIN r \ DOMAIN q : r[i] = j
      /\ \A i, k \in DOMAIN r \ DOMAIN q : i = k
  BY AppendProperties
<1> HIDE DEF r
<1>2. ASSUME NEW i \in DOMAIN r
      PROVE  /\ r[i].do = "execute" => r[i].transfer.from = d /\ s[r[i].transfer] = "posted"
             /\ r[i].do \in Answers => r[i].transfer.to = d /\ r[i] \in g
  BY <1>1 DEF InOrder
<1>3. ASSUME NEW i \in DOMAIN r, NEW k \in DOMAIN r,
             r[i].do = "execute", r[k].do = "execute", r[i].transfer = r[k].transfer
      PROVE  i = k
  <2>1. CASE i \in DOMAIN q /\ k \in DOMAIN q
    BY <1>1, <1>3, <2>1 DEF InOrder
  <2>2. CASE i \notin DOMAIN q \/ k \notin DOMAIN q
    BY <1>1, <1>3, <2>2
  <2> QED BY <2>1, <2>2
<1> QED BY <1>1, <1>2, <1>3 DEF InOrder, r

\* What is left when the first is taken; a job taken to execute was the only one.
LEMMA TakenInOrder ==
    ASSUME NEW q \in Seq(Jobs), NEW d, NEW s, NEW g, InOrder(q, d, s, g), q # << >>
    PROVE  /\ Head(q) \in Jobs /\ Tail(q) \in Seq(Jobs) /\ InOrder(Tail(q), d, s, g)
           /\ Head(q).do = "execute" =>
                /\ Head(q).transfer.from = d /\ s[Head(q).transfer] = "posted"
                /\ \A i \in DOMAIN Tail(q) : Tail(q)[i].do = "execute" =>
                     Tail(q)[i].transfer # Head(q).transfer
           /\ Head(q).do \in Answers => Head(q).transfer.to = d /\ Head(q) \in g
<1> DEFINE r == Tail(q)
<1>1. /\ 1 \in DOMAIN q /\ Head(q) = q[1] /\ Head(q) \in Jobs /\ r \in Seq(Jobs)
      /\ DOMAIN r \subseteq Nat
      /\ \A i \in DOMAIN r : i + 1 \in DOMAIN q /\ i + 1 # 1 /\ r[i] = q[i + 1]
  BY HeadTailProperties
<1> HIDE DEF r
<1>2. ASSUME NEW i \in DOMAIN r
      PROVE  /\ r[i].do = "execute" => r[i].transfer.from = d /\ s[r[i].transfer] = "posted"
             /\ r[i].do \in Answers => r[i].transfer.to = d /\ r[i] \in g
             /\ r[i].do = "execute" /\ Head(q).do = "execute" => r[i].transfer # Head(q).transfer
  BY <1>1 DEF InOrder
<1>3. ASSUME NEW i \in DOMAIN r, NEW k \in DOMAIN r,
             r[i].do = "execute", r[k].do = "execute", r[i].transfer = r[k].transfer
      PROVE  i = k
  <2>1. i + 1 = k + 1
    BY <1>1, <1>3 DEF InOrder
  <2> QED BY <1>1, <2>1
<1> QED BY <1>1, <1>2, <1>3 DEF InOrder, r

\* A queue stays in order while the transfers it waits to execute stay posted,
\* and answers are only added.
LEMMA StaysInOrder ==
    ASSUME NEW q, NEW d, NEW s, NEW g, InOrder(q, d, s, g), NEW r, NEW h, g \subseteq h,
           \A i \in DOMAIN q : q[i].do = "execute" /\ s[q[i].transfer] = "posted" =>
               r[q[i].transfer] = "posted"
    PROVE  InOrder(q, d, r, h)
BY DEF InOrder

-----------------------------------------------------------------------------
(* The invariant.                                                          *)

QueuesInOrder == \A d \in Devices : InOrder(main[d], d, send, answers)

\* Nothing is asked before the job is in execute and has found the receiver.
NoAskYet == \A t \in Transfers : send[t] \in {"none", "posted", "resolving"} => ask[t] = "none"

IInv == TypeOK /\ QueuesInOrder /\ NoAskYet /\ NoCircle

LEMMA InitIInv == Init => IInv
<1> SUFFICES ASSUME Init PROVE IInv
  OBVIOUS
<1>1. TypeOK /\ NoAskYet
  BY DEF Init, TypeOK, NoAskYet, Blocking
<1>2. QueuesInOrder
  <2>1. ASSUME NEW d \in Devices PROVE main[d] = << >>
    BY <2>1 DEF Init
  <2>2. ASSUME NEW d \in Devices PROVE InOrder(<< >>, d, send, answers)
    BY DEF InOrder
  <2> QED BY <2>1, <2>2 DEF QueuesInOrder
<1>3. NoCircle
  BY DEF Init, NoCircle, Flows
<1> QED BY <1>1, <1>2, <1>3 DEF IInv

\* A step that lets no new transfer flow closes no circle.
LEMMA FewerFlows ==
    ASSUME NoCircle, \A t \in Transfers : Flows(t)' => Flows(t)
    PROVE  NoCircle'
BY DEF NoCircle

-----------------------------------------------------------------------------
(* The steps: first those that touch no queue.                             *)

\* A job that is in execute stays there or ends, and asks only once it is.
LEMMA GoesStep ==
    ASSUME IInv, NEW t \in Transfers, NEW from \in Blocking, NEW to \in Blocking \cup Ended,
           Goes(t, from, to), to # "resolving",
           to \in {"asking", "sending"} /\ ask[t] = "granted" => from = "asking"
    PROVE  /\ send' \in [Transfers -> {"none", "posted"} \cup Blocking \cup Ended]
           /\ NoAskYet' /\ NoCircle'
           /\ \A u, v \in Transfers :
                u.from = v.from /\ send'[u] \in Blocking /\ send'[v] \in Blocking => u = v
           /\ \A d \in Devices : InOrder(main[d], d, send', answers)
<1> USE DEF IInv, TypeOK, Goes, Blocking, Ended
<1>1. /\ send' \in [Transfers -> {"none", "posted"} \cup Blocking \cup Ended]
      /\ NoAskYet'
  BY DEF NoAskYet
<1>2. NoCircle'
  <2>1. \A u \in Transfers : Flows(u)' => Flows(u)
    BY DEF Flows
  <2> QED BY <2>1, FewerFlows
<1>3. \A u, v \in Transfers :
        u.from = v.from /\ send'[u] \in Blocking /\ send'[v] \in Blocking => u = v
  OBVIOUS
<1>4. ASSUME NEW d \in Devices PROVE InOrder(main[d], d, send', answers)
  <2>1. \A u : send[u] = "posted" => send'[u] = "posted"
    BY DEF Goes
  <2>2. InOrder(main[d], d, send, answers)
    BY DEF QueuesInOrder
  <2> HIDE DEF IInv, TypeOK, Goes, Blocking, Ended
  <2>3. \A i \in DOMAIN main[d] :
          main[d][i].do = "execute" /\ send[main[d][i].transfer] = "posted" =>
            send'[main[d][i].transfer] = "posted"
    BY <2>1
  <2>4. answers \subseteq answers
    OBVIOUS
  <2> QED BY <2>2, <2>3, <2>4, StaysInOrder
<1> QED BY <1>1, <1>2, <1>3, <1>4

LEMMA SenderStep ==
    ASSUME IInv, NEW t \in Transfers,
           ResolveEnds(t) \/ HearAnswer(t) \/ AskTimesOut(t)
    PROVE  IInv'
<1>1. \E from \in Blocking, to \in Blocking \cup Ended :
        /\ Goes(t, from, to) /\ to # "resolving"
        /\ to \in {"asking", "sending"} /\ ask[t] = "granted" => from = "asking"
  <2>1. CASE ResolveEnds(t)
    BY <2>1 DEF ResolveEnds, Blocking, Ended, Goes, IInv, NoAskYet
  <2>2. CASE HearAnswer(t) \/ AskTimesOut(t)
    BY <2>2 DEF HearAnswer, AskTimesOut, Blocking, Ended
  <2> QED BY <2>1, <2>2
<1>2. UNCHANGED <<main, ask, shown, seen, answers>>
  BY DEF ResolveEnds, HearAnswer, AskTimesOut, Goes
<1>3. TypeOK' /\ QueuesInOrder'
  BY <1>1, <1>2, GoesStep DEF TypeOK, QueuesInOrder, IInv
<1> QED BY <1>1, <1>3, GoesStep DEF IInv

-----------------------------------------------------------------------------
(* Steps that post a job.                                                  *)

\* Posting a job that fits on one device leaves all queues in order.
LEMMA PostStep ==
    ASSUME IInv, NEW d \in Devices, NEW what, NEW t \in Transfers, Job(what, t) \in Jobs,
           Post(d, what, t), NEW s, NEW g,
           \A e \in Devices : InOrder(main[e], e, s, g),
           what = "execute" => t.from = d /\ s[t] = "posted" /\ send[t] = "none",
           what \in Answers => t.to = d /\ Job(what, t) \in g
    PROVE  main' \in [Devices -> Seq(Jobs)] /\ \A e \in Devices : InOrder(main'[e], e, s, g)
<1> DEFINE j == Job(what, t)
<1>1. j.do = what /\ j.transfer = t
  BY DEF Job
<1>2. main[d] \in Seq(Jobs) /\ InOrder(main[d], d, send, answers)
  BY DEF IInv, TypeOK, QueuesInOrder
<1>3. what = "execute" => \A i \in DOMAIN main[d] :
        main[d][i].do = "execute" => main[d][i].transfer # t
  BY <1>2 DEF InOrder
<1>4. /\ main' = [main EXCEPT ![d] = Append(main[d], j)]
      /\ main \in [Devices -> Seq(Jobs)]
  BY DEF Post, IInv, TypeOK
<1> HIDE DEF j
<1>5. Append(main[d], j) \in Seq(Jobs) /\ InOrder(Append(main[d], j), d, s, g)
  BY <1>1, <1>2, <1>3, PostInOrder DEF j
<1> QED BY <1>4, <1>5

LEMMA SendStep == ASSUME IInv, NEW t \in Transfers, Send(t) PROVE IInv'
<1> USE DEF IInv, Send
<1>1. /\ send' \in [Transfers -> {"none", "posted"} \cup Blocking \cup Ended]
      /\ \A u \in Transfers : u # t => send'[u] = send[u]
      /\ send'[t] = "posted" /\ send[t] = "none" /\ t.from \in Devices
  BY DEF TypeOK
<1>2. UNCHANGED <<ask, shown, seen, answers>>
  OBVIOUS
<1>3. NoAskYet'
  BY <1>1, <1>2 DEF NoAskYet
<1>4. NoCircle'
  <2>1. \A u \in Transfers : Flows(u)' => Flows(u)
    BY <1>1, <1>2 DEF Flows
  <2> QED BY <2>1, FewerFlows
<1>5. ASSUME NEW d \in Devices PROVE InOrder(main[d], d, send', answers)
  <2>1. \A u : send[u] = "posted" => send'[u] = "posted"
    OBVIOUS
  <2>2. InOrder(main[d], d, send, answers)
    BY DEF QueuesInOrder
  <2> QED BY <2>1, <2>2, StaysInOrder
<1>6. Job("execute", t) \in Jobs /\ "execute" \notin Answers
  BY DEF Job, Jobs, Answers
<1>7. main' \in [Devices -> Seq(Jobs)] /\ \A e \in Devices : InOrder(main'[e], e, send', answers)
  <2> HIDE DEF IInv
  <2> QED BY <1>1, <1>5, <1>6, PostStep
<1>8. TypeOK'
  BY <1>1, <1>2, <1>7 DEF TypeOK, Blocking
<1>9. QueuesInOrder'
  BY <1>2, <1>7 DEF QueuesInOrder
<1> QED BY <1>3, <1>4, <1>8, <1>9

LEMMA SendEndsStep == ASSUME IInv, NEW t \in Transfers, SendEnds(t) PROVE IInv'
<1>1. PICK to \in {"sent", "broken"} :
        /\ Goes(t, "sending", to) /\ UNCHANGED <<ask, shown, seen, answers>>
        /\ Post(t.to, "report", t) \/ UNCHANGED main
  BY DEF SendEnds, Goes
<1>2. /\ send' \in [Transfers -> {"none", "posted"} \cup Blocking \cup Ended]
      /\ NoAskYet' /\ NoCircle'
      /\ \A u, v \in Transfers :
           u.from = v.from /\ send'[u] \in Blocking /\ send'[v] \in Blocking => u = v
      /\ \A d \in Devices : InOrder(main[d], d, send', answers)
  <2>1. "sending" \in Blocking /\ to \in Blocking \cup Ended /\ to \notin Blocking
    BY DEF Blocking, Ended
  <2>2. to # "resolving" /\ to \notin {"asking", "sending"}
    OBVIOUS
  <2> QED BY <1>1, <2>1, <2>2, GoesStep
<1>3. Job("report", t) \in Jobs /\ "report" \notin Answers /\ t.to \in Devices
  BY DEF Job, Jobs, Answers
<1>4. main' \in [Devices -> Seq(Jobs)] /\ \A e \in Devices : InOrder(main'[e], e, send', answers)
  <2>1. CASE Post(t.to, "report", t)
    BY <1>2, <1>3, <2>1, PostStep
  <2>2. CASE UNCHANGED main
    BY <1>2, <2>2 DEF IInv, TypeOK
  <2> QED BY <1>1, <2>1, <2>2
<1> QED BY <1>1, <1>2, <1>4 DEF IInv, TypeOK, QueuesInOrder

\* The ask callback's steps: the ask waits, or is refused.
LEMMA AskStep ==
    ASSUME IInv, NEW t \in Transfers, AskCallback(t) \/ AwaitTimesOut(t)
    PROVE  IInv'
<1>1. /\ \E what \in {"show", "cancel"} : Post(t.to, what, t)
      /\ UNCHANGED <<send, shown, seen, answers>>
      /\ ask' = [ask EXCEPT ![t] = ask'[t]]
      /\ ask' \in [Transfers -> {"none", "waiting"} \cup Answers]
      /\ ask'[t] # "granted"
  BY DEF AskCallback, AwaitTimesOut, IInv, TypeOK, Answers
<1>2. send[t] \notin {"none", "posted", "resolving"}
  BY DEF AskCallback, AwaitTimesOut, IInv, NoAskYet
<1>3. NoAskYet'
  BY <1>1, <1>2 DEF NoAskYet, IInv
<1>4. NoCircle'
  <2>1. \A u \in Transfers : Flows(u)' => Flows(u)
    BY <1>1 DEF Flows, IInv, TypeOK
  <2> QED BY <2>1, FewerFlows DEF IInv
<1>5. \A what \in {"show", "cancel"} :
        Job(what, t) \in Jobs /\ what \notin Answers /\ what # "execute"
  BY DEF Job, Jobs, Answers
<1>6. t.to \in Devices /\ \A e \in Devices : InOrder(main[e], e, send, answers)
  BY DEF IInv, QueuesInOrder
<1>7. main' \in [Devices -> Seq(Jobs)] /\ \A e \in Devices : InOrder(main'[e], e, send, answers)
  BY <1>1, <1>5, <1>6, PostStep
<1> QED BY <1>1, <1>3, <1>4, <1>7 DEF IInv, TypeOK, QueuesInOrder

LEMMA AnswerStep ==
    ASSUME IInv, NEW t \in Transfers, NEW answer \in Answers, Answer(t, answer)
    PROVE  IInv'
<1> DEFINE d == t.to
<1>1. /\ Post(d, answer, t) /\ UNCHANGED <<send, ask, shown, seen>> /\ d \in Devices
      /\ answers' = answers \cup {Job(answer, t)}
  BY TransfersAssumption DEF Answer
<1>2. Job(answer, t) \in Jobs /\ answer # "execute"
  BY DEF Job, Jobs, Answers
<1>3. ASSUME NEW e \in Devices PROVE InOrder(main[e], e, send, answers')
  BY <1>1, StaysInOrder DEF IInv, QueuesInOrder
<1>4. main' \in [Devices -> Seq(Jobs)] /\ \A e \in Devices : InOrder(main'[e], e, send, answers')
  BY <1>1, <1>2, <1>3, PostStep
<1>5. NoAskYet' /\ NoCircle'
  BY <1>1, FewerFlows DEF IInv, NoAskYet, Flows
<1> QED BY <1>1, <1>2, <1>4, <1>5 DEF IInv, TypeOK, QueuesInOrder

-----------------------------------------------------------------------------
(* Steps of a main thread, which take the first job from its queue.        *)

\* What taking it leaves, if the transfers that wait for their job stay posted.
LEMMA RestStep ==
    ASSUME IInv, NEW d \in Devices, main[d] # << >>, Rest(d), NEW s,
           \A u \in Transfers : send[u] = "posted" /\ u # Head(main[d]).transfer => s[u] = "posted",
           Head(main[d]).do # "execute" => s = send
    PROVE  main' \in [Devices -> Seq(Jobs)] /\ \A e \in Devices : InOrder(main'[e], e, s, answers)
<1> DEFINE j == Head(main[d])
<1>1. /\ main \in [Devices -> Seq(Jobs)] /\ main' = [main EXCEPT ![d] = Tail(main[d])]
      /\ \A e \in Devices : main[e] \in Seq(Jobs) /\ InOrder(main[e], e, send, answers)
  BY DEF IInv, TypeOK, QueuesInOrder, Rest
<1>2. /\ j \in Jobs /\ Tail(main[d]) \in Seq(Jobs) /\ InOrder(Tail(main[d]), d, send, answers)
      /\ j.do = "execute" =>
           /\ j.transfer.from = d
           /\ \A i \in DOMAIN Tail(main[d]) :
                Tail(main[d])[i].do = "execute" => Tail(main[d])[i].transfer # j.transfer
  BY <1>1, TakenInOrder
<1> HIDE DEF j
<1>3. \A q \in Seq(Jobs) : \A i \in DOMAIN q : q[i].transfer \in Transfers
  <2> SUFFICES ASSUME NEW q \in Seq(Jobs), NEW i \in DOMAIN q PROVE q[i] \in Jobs
    BY DEF Jobs
  <2> QED BY ElementOfSeq
<1>4. InOrder(Tail(main[d]), d, s, answers)
  <2>1. CASE j.do = "execute"
    <3>1. \A i \in DOMAIN Tail(main[d]) :
            Tail(main[d])[i].do = "execute" /\ send[Tail(main[d])[i].transfer] = "posted" =>
              s[Tail(main[d])[i].transfer] = "posted"
      BY <1>2, <1>3, <2>1 DEF j
    <3> QED BY <1>2, <3>1, StaysInOrder
  <2>2. CASE j.do # "execute"
    BY <1>2, <2>2 DEF j
  <2> QED BY <2>1, <2>2
<1>5. ASSUME NEW e \in Devices, e # d PROVE InOrder(main[e], e, s, answers)
  <2>1. CASE j.do = "execute"
    <3>1. \A i \in DOMAIN main[e] : main[e][i].do = "execute" => main[e][i].transfer.from = e
      BY <1>1 DEF InOrder
    <3>2. \A i \in DOMAIN main[e] :
            main[e][i].do = "execute" /\ send[main[e][i].transfer] = "posted" =>
              s[main[e][i].transfer] = "posted"
      BY <1>1, <1>2, <1>3, <1>5, <2>1, <3>1 DEF j
    <3> QED BY <1>1, <3>2, StaysInOrder
  <2>2. CASE j.do # "execute"
    BY <1>1, <2>2 DEF j
  <2> QED BY <2>1, <2>2
<1> QED BY <1>1, <1>2, <1>4, <1>5

\* What comes first in a queue.
LEMMA FirstJob ==
    ASSUME IInv, NEW d \in Devices, main[d] # << >>
    PROVE  /\ Head(main[d]).transfer \in Transfers
           /\ Head(main[d]).do = "execute" =>
                Head(main[d]).transfer.from = d /\ send[Head(main[d]).transfer] = "posted"
           /\ Head(main[d]).do \in Answers =>
                Head(main[d]).transfer.to = d /\ Head(main[d]) \in answers
<1>1. main[d] \in Seq(Jobs) /\ InOrder(main[d], d, send, answers)
  BY DEF IInv, TypeOK, QueuesInOrder
<1>2. \A j \in Jobs : j.transfer \in Transfers
  BY DEF Jobs
<1> QED BY <1>1, <1>2, TakenInOrder

LEMMA ExecuteStep == ASSUME IInv, NEW d \in Devices, Execute(d) PROVE IInv'
<1> DEFINE t == Head(main[d]).transfer
<1>1. /\ ~Blocked(d) /\ main[d] # << >> /\ Head(main[d]).do = "execute"
      /\ send' = [send EXCEPT ![t] = "resolving"] /\ Rest(d)
      /\ UNCHANGED <<ask, shown, seen, answers>>
  BY DEF Execute, Takes
<1>2. t \in Transfers /\ t.from = d /\ send[t] = "posted"
  BY <1>1, FirstJob
<1>3. main' \in [Devices -> Seq(Jobs)] /\ \A e \in Devices : InOrder(main'[e], e, send', answers)
  <2>1. \A u \in Transfers : send[u] = "posted" /\ u # Head(main[d]).transfer => send'[u] = "posted"
    BY <1>1
  <2> QED BY <1>1, <2>1, RestStep
<1> HIDE DEF t
<1>4. /\ send' \in [Transfers -> {"none", "posted"} \cup Blocking \cup Ended]
      /\ send'[t] = "resolving" /\ \A u \in Transfers : u # t => send'[u] = send[u]
  BY <1>1, <1>2 DEF IInv, TypeOK, Blocking
<1>5. ASSUME NEW u \in Transfers, NEW v \in Transfers,
             u.from = v.from, send'[u] \in Blocking, send'[v] \in Blocking
      PROVE  u = v
  <2>1. \A w \in Transfers : w.from = d => send[w] \notin Blocking
    BY <1>1 DEF Blocked
  <2>2. CASE u = t \/ v = t
    BY <1>2, <1>4, <1>5, <2>1, <2>2
  <2>3. CASE u # t /\ v # t
    BY <1>4, <1>5, <2>3 DEF IInv, TypeOK
  <2> QED BY <2>2, <2>3
<1>6. NoAskYet'
  BY <1>1, <1>2, <1>4 DEF IInv, NoAskYet
<1>7. NoCircle'
  <2>1. \A u \in Transfers : Flows(u)' => Flows(u)
    BY <1>1, <1>4 DEF Flows
  <2> QED BY <2>1, FewerFlows DEF IInv
<1> QED BY <1>1, <1>3, <1>4, <1>5, <1>6, <1>7 DEF IInv, TypeOK, QueuesInOrder

LEMMA NotificationStep == ASSUME IInv, NEW d \in Devices, ShowAsk(d) \/ ClearAsk(d) PROVE IInv'
<1>1. /\ main[d] # << >> /\ Head(main[d]).do # "execute" /\ Rest(d)
      /\ UNCHANGED <<send, ask, answers>>
  BY DEF ShowAsk, ClearAsk, Takes
<1>2. shown' \in [Devices -> Transfers \cup {NoTransfer}] /\ seen' \subseteq Transfers
  <2>1. Head(main[d]).transfer \in Transfers
    BY <1>1, FirstJob
  <2>2. shown \in [Devices -> Transfers \cup {NoTransfer}] /\ seen \subseteq Transfers
    BY DEF IInv, TypeOK
  <2>3. CASE ShowAsk(d)
    BY <2>1, <2>2, <2>3 DEF ShowAsk
  <2>4. CASE ClearAsk(d)
    BY <2>1, <2>2, <2>4 DEF ClearAsk
  <2> QED BY <2>3, <2>4
<1>3. main' \in [Devices -> Seq(Jobs)] /\ \A e \in Devices : InOrder(main'[e], e, send, answers)
  <2>1. \A u \in Transfers : send[u] = "posted" => send[u] = "posted"
    OBVIOUS
  <2> QED BY <1>1, <2>1, RestStep
<1>4. NoAskYet' /\ NoCircle'
  BY <1>1, FewerFlows DEF IInv, NoAskYet, Flows
<1> QED BY <1>1, <1>2, <1>3, <1>4 DEF IInv, TypeOK, QueuesInOrder

\* An answer, and what the callback's thread does with it.
LEMMA OnReceiveStep ==
    ASSUME IInv, NEW d \in Devices, NEW answer \in Answers, Takes(d, answer), CallbackSet(d, answer)
    PROVE  IInv'
<1> DEFINE t == Head(main[d]).transfer
           rest == [main EXCEPT ![d] = Tail(@)]
<1>1. /\ ~Blocked(d) /\ main[d] # << >> /\ Head(main[d]).do = answer
      /\ answer # "execute" /\ UNCHANGED <<send, shown, seen, answers>>
  BY DEF Takes, CallbackSet, Answers
<1>2. t \in Transfers /\ t.to = d
  BY <1>1, FirstJob
<1>3. \/ Rest(d) /\ UNCHANGED ask
      \/ /\ ask[t] = "waiting" /\ ask' = [ask EXCEPT ![t] = answer]
         /\ \/ Rest(d)
            \/ main' = [main EXCEPT ![d] = Append(Tail(@), Job("cancel", t))]
  BY DEF CallbackSet
<1>4. /\ main[d] \in Seq(Jobs) /\ main \in [Devices -> Seq(Jobs)]
      /\ \A e \in Devices : InOrder(main[e], e, send, answers)
  BY DEF IInv, TypeOK, QueuesInOrder
<1>5. Tail(main[d]) \in Seq(Jobs) /\ InOrder(Tail(main[d]), d, send, answers)
  BY <1>1, <1>4, TakenInOrder
<1>6. /\ Append(Tail(main[d]), Job("cancel", t)) \in Seq(Jobs)
      /\ InOrder(Append(Tail(main[d]), Job("cancel", t)), d, send, answers)
  <2>1. Job("cancel", t) \in Jobs /\ Job("cancel", t).do = "cancel" /\ "cancel" \notin Answers
    BY <1>2 DEF Job, Jobs, Answers
  <2> QED BY <1>5, <2>1, PostInOrder
<1> HIDE DEF t
<1>7. main' \in [Devices -> Seq(Jobs)] /\ \A e \in Devices : InOrder(main'[e], e, send, answers)
  <2>1. PICK q \in Seq(Jobs) : main' = [main EXCEPT ![d] = q] /\ InOrder(q, d, send, answers)
    BY <1>3, <1>5, <1>6 DEF Rest
  <2>2. /\ main' \in [Devices -> Seq(Jobs)] /\ main'[d] = q
        /\ \A e \in Devices : e # d => main'[e] = main[e]
    BY <1>4, <2>1
  <2> QED BY <1>4, <2>1, <2>2
<1>8. ask' \in [Transfers -> {"none", "waiting"} \cup Answers]
  <2>1. ask \in [Transfers -> {"none", "waiting"} \cup Answers]
    BY DEF IInv, TypeOK
  <2>2. CASE UNCHANGED ask
    BY <2>1, <2>2
  <2>3. CASE ask' = [ask EXCEPT ![t] = answer]
    BY <2>1, <2>3
  <2> QED BY <1>3, <2>2, <2>3
<1>9. NoAskYet'
  BY <1>1, <1>2, <1>3 DEF IInv, TypeOK, NoAskYet
<1>10. NoCircle'
  \* The answering device's main thread is free, so that nothing flows from it.
  <2>1. \A u \in Transfers : Flows(u)' /\ ~Flows(u) => u = t
    BY <1>1, <1>2, <1>3 DEF Flows, IInv, TypeOK
  <2>2. \A u \in Transfers : u.from = d => ~Flows(u)'
    BY <1>1 DEF Flows, Blocked, Blocking
  <2>3. SUFFICES ASSUME NEW D \in SUBSET Devices, D # {},
                        \A e \in D : \E u \in Transfers : u.from = e /\ u.to \in D /\ Flows(u)'
                 PROVE  FALSE
    BY DEF NoCircle
  <2>4. d \notin D
    BY <2>2, <2>3
  <2>5. \A e \in D : \E u \in Transfers : u.from = e /\ u.to \in D /\ Flows(u)
    BY <1>2, <2>1, <2>3, <2>4
  <2> QED BY <2>3, <2>5 DEF IInv, NoCircle
<1> QED BY <1>1, <1>7, <1>8, <1>9, <1>10 DEF IInv, TypeOK, QueuesInOrder

-----------------------------------------------------------------------------

LEMMA StepIInv == IInv /\ [Next]_vars => IInv'
<1> SUFFICES ASSUME IInv, [Next]_vars PROVE IInv'
  OBVIOUS
<1>1. ASSUME NEW t \in Transfers, Send(t) PROVE IInv'
  BY <1>1, SendStep
<1>2. ASSUME NEW t \in Transfers, ResolveEnds(t) \/ HearAnswer(t) \/ AskTimesOut(t) PROVE IInv'
  BY <1>2, SenderStep
<1>3. ASSUME NEW t \in Transfers, SendEnds(t) PROVE IInv'
  BY <1>3, SendEndsStep
<1>4. ASSUME NEW t \in Transfers, AskCallback(t) \/ AwaitTimesOut(t) PROVE IInv'
  BY <1>4, AskStep
<1>5. ASSUME NEW d \in Devices, MainThread(d) PROVE IInv'
  BY <1>5, ExecuteStep, NotificationStep, OnReceiveStep DEF MainThread, OnReceive
<1>6. ASSUME NEW t \in Transfers, NEW answer \in Answers, Answer(t, answer)
      PROVE  IInv'
  BY <1>6, AnswerStep
<1>7. CASE UNCHANGED vars
  BY <1>7, FewerFlows DEF vars, IInv, TypeOK, QueuesInOrder, NoAskYet, Flows
<1> QED BY <1>1, <1>2, <1>3, <1>4, <1>5, <1>6, <1>7 DEF Next, Tap, OtherAnswer

\* Jobs, answers, asks and transfers fit together, on any devices.
THEOREM Invariant == Spec => []IInv
BY InitIInv, StepIInv, PTL DEF Spec

\* The variables keep their types, and a device runs one job at a time.
THEOREM TypeCorrect == Spec => []TypeOK
<1>1. IInv => TypeOK
  BY DEF IInv
<1> QED BY <1>1, Invariant, PTL

\* Accepted transfers never run in a circle, among any devices: whoever accepts
\* has a main thread that no transfer of its own blocks.
THEOREM NoCircleAlways == Spec => []NoCircle
<1>1. IInv => NoCircle
  BY DEF IInv
<1> QED BY <1>1, Invariant, PTL

-----------------------------------------------------------------------------
(* The question of a refused ask, and the job of a posted transfer.        *)

In(q, j) == \E k \in DOMAIN q : q[k] = j

\* In queue q of a device that shows x: the cancellation of t comes after its
\* notification.
Cleared(q, x, t) ==
    /\ x = t => In(q, Job("cancel", t))
    /\ \A i \in DOMAIN q : q[i] = Job("show", t) =>
         \E k \in DOMAIN q : k > i /\ q[k] = Job("cancel", t)

LEMMA ClearedMeans ==
    RefusedAskIsCleared <=>
        \A t \in Transfers : ask[t] = "refused" => Cleared(main[t.to], shown[t.to], t)
BY DEF RefusedAskIsCleared, Cleared, In

LEMMA ClearedMeansNext ==
    RefusedAskIsCleared' <=>
        \A t \in Transfers : ask'[t] = "refused" => Cleared(main'[t.to], shown'[t.to], t)
BY DEF RefusedAskIsCleared, Cleared, In

LEMMA AppendFacts ==
    ASSUME NEW q \in Seq(Jobs), NEW j \in Jobs
    PROVE  LET r == Append(q, j)
           IN  /\ \A i \in DOMAIN q : i \in DOMAIN r /\ r[i] = q[i] /\ Len(q) + 1 > i
               /\ Len(q) + 1 \in DOMAIN r /\ r[Len(q) + 1] = j
               /\ \A i \in DOMAIN r : i \in DOMAIN q \/ i = Len(q) + 1
<1> DEFINE r == Append(q, j)
<1>1. /\ Len(r) = Len(q) + 1 /\ r \in Seq(Jobs)
      /\ \A i \in 1 .. Len(q) : r[i] = q[i]
      /\ r[Len(q) + 1] = j
  BY AppendProperties
<1> HIDE DEF r
<1>2. Len(q) \in Nat /\ DOMAIN q = 1 .. Len(q) /\ DOMAIN r = 1 .. Len(q) + 1
  BY <1>1, LenProperties
<1> QED BY <1>1, <1>2 DEF r

LEMMA TailFacts ==
    ASSUME NEW q \in Seq(Jobs), q # << >>
    PROVE  /\ 1 \in DOMAIN q /\ q[1] = Head(q) /\ Head(q) \in Jobs /\ Tail(q) \in Seq(Jobs)
           /\ \A i \in DOMAIN q : i \in Nat /\ (i # 1 => /\ i - 1 \in DOMAIN Tail(q) /\ i > 1
                                                        /\ Tail(q)[i - 1] = q[i])
           /\ \A i \in DOMAIN Tail(q) : i \in Nat /\ i + 1 \in DOMAIN q /\ Tail(q)[i] = q[i + 1]
<1>1. /\ Len(q) \in Nat /\ Len(q) # 0 /\ DOMAIN q = 1 .. Len(q)
      /\ Head(q) \in Jobs /\ Tail(q) \in Seq(Jobs) /\ q[1] = Head(q)
  BY LenProperties, EmptySeq, HeadTailProperties
<1>2. DOMAIN Tail(q) = 1 .. Len(q) - 1 /\ \A i \in 1 .. Len(q) - 1 : Tail(q)[i] = q[i + 1]
  BY <1>1
<1>3. ASSUME NEW i \in DOMAIN q, i # 1
      PROVE  i - 1 \in DOMAIN Tail(q) /\ i > 1 /\ Tail(q)[i - 1] = q[i]
  <2>1. i - 1 \in 1 .. Len(q) - 1 /\ (i - 1) + 1 = i /\ i > 1
    BY <1>1, <1>3
  <2> QED BY <1>2, <2>1
<1> QED BY <1>1, <1>2, <1>3

\* Another job behind the others leaves the cancellation where it is.
LEMMA AppendCleared ==
    ASSUME NEW q \in Seq(Jobs), NEW j \in Jobs, NEW x, NEW t, Cleared(q, x, t), j # Job("show", t)
    PROVE  Cleared(Append(q, j), x, t)
<1> DEFINE r == Append(q, j)
<1>1. /\ \A i \in DOMAIN q : i \in DOMAIN r /\ r[i] = q[i]
      /\ \A i \in DOMAIN r : r[i] # j => i \in DOMAIN q
  BY AppendFacts
<1> HIDE DEF r
<1>2. \A i \in DOMAIN r : r[i] = Job("show", t) => i \in DOMAIN q /\ q[i] = Job("show", t)
  BY <1>1
<1> QED BY <1>1, <1>2 DEF Cleared, In, r

\* The cancellation is behind everything.
LEMMA CancelClears ==
    ASSUME NEW q \in Seq(Jobs), NEW x, NEW t, Job("cancel", t) \in Jobs
    PROVE  Cleared(Append(q, Job("cancel", t)), x, t)
<1> DEFINE j == Job("cancel", t)
           r == Append(q, j)
           n == Len(q) + 1
<1>1. j # Job("show", t) /\ j \in Jobs
  BY DEF Job
<1>2. /\ \A i \in DOMAIN q : n > i
      /\ n \in DOMAIN r /\ r[n] = j
      /\ \A i \in DOMAIN r : i \in DOMAIN q \/ i = n
  BY AppendFacts
<1> HIDE DEF j, r, n
<1>3. \A i \in DOMAIN r : r[i] = Job("show", t) => n > i
  BY <1>1, <1>2
<1> QED BY <1>2, <1>3 DEF Cleared, In, j, r

\* The first job leaves the queue.
LEMMA TailCleared ==
    ASSUME NEW q \in Seq(Jobs), q # << >>, NEW x, NEW t, Cleared(q, x, t), NEW y,
           y = t => Head(q) # Job("cancel", t) /\ (x = t \/ Head(q) = Job("show", t))
    PROVE  Cleared(Tail(q), y, t)
<1> DEFINE r == Tail(q)
<1>1. /\ 1 \in DOMAIN q /\ q[1] = Head(q)
      /\ \A i \in DOMAIN q : i \in Nat /\ (i # 1 => i - 1 \in DOMAIN r /\ i > 1 /\ r[i - 1] = q[i])
      /\ \A i \in DOMAIN r : i \in Nat /\ i + 1 \in DOMAIN q /\ r[i] = q[i + 1]
  BY TailFacts
<1> HIDE DEF r
<1>2. ASSUME y = t PROVE In(r, Job("cancel", t))
  <2>1. PICK k \in DOMAIN q : q[k] = Job("cancel", t)
    BY <1>1, <1>2 DEF Cleared, In
  <2>2. k # 1
    BY <1>1, <1>2, <2>1
  <2> QED BY <1>1, <2>1, <2>2 DEF In
<1>3. ASSUME NEW i \in DOMAIN r, r[i] = Job("show", t)
      PROVE  \E k \in DOMAIN r : k > i /\ r[k] = Job("cancel", t)
  <2>1. PICK k \in DOMAIN q : k > i + 1 /\ q[k] = Job("cancel", t)
    BY <1>1, <1>3 DEF Cleared
  <2>2. k \in Nat /\ i \in Nat
    BY <1>1
  <2>3. k # 1 /\ k - 1 > i
    BY <2>1, <2>2
  <2> QED BY <1>1, <2>1, <2>3
<1> QED BY <1>2, <1>3 DEF Cleared, r

\* A step of one device's queue and notification.
LEMMA AtOneDevice ==
    ASSUME RefusedAskIsCleared, NEW d \in Devices,
           \A e \in Devices : e # d => main'[e] = main[e] /\ shown'[e] = shown[e],
           \A t \in Transfers : ask'[t] = "refused" => ask[t] = "refused" \/ t.to = d,
           \A t \in Transfers : t.to = d /\ ask'[t] = "refused" => Cleared(main'[d], shown'[d], t)
    PROVE  RefusedAskIsCleared'
<1>1. ASSUME NEW t \in Transfers, ask'[t] = "refused" PROVE Cleared(main'[t.to], shown'[t.to], t)
  <2>1. CASE t.to = d
    BY <1>1, <2>1
  <2>2. CASE t.to # d
    <3>1. t.to \in Devices /\ ask[t] = "refused"
      BY <1>1, <2>2
    <3>2. Cleared(main[t.to], shown[t.to], t)
      BY <3>1, ClearedMeans
    <3> QED BY <2>2, <3>1, <3>2
  <2> QED BY <2>1, <2>2
<1> QED BY <1>1, ClearedMeansNext

\* A job is posted: a question only of an ask that is new, and the cancellation
\* of one that is refused.
LEMMA PostCleared ==
    ASSUME IInv, RefusedAskIsCleared, NEW d \in Devices, NEW what, NEW u \in Transfers,
           Job(what, u) \in Jobs, Post(d, what, u), UNCHANGED shown,
           what = "show" => ask'[u] # "refused",
           \A t \in Transfers : ask'[t] = "refused" =>
               ask[t] = "refused" \/ (t = u /\ what = "cancel" /\ d = u.to)
    PROVE  RefusedAskIsCleared'
<1>1. /\ main \in [Devices -> Seq(Jobs)] /\ main[d] \in Seq(Jobs)
      /\ main' = [main EXCEPT ![d] = Append(main[d], Job(what, u))]
  BY DEF IInv, TypeOK, Post
<1>2. main'[d] = Append(main[d], Job(what, u)) /\ \A e \in Devices : e # d => main'[e] = main[e]
  BY <1>1
<1>3. ASSUME NEW t \in Transfers, t.to = d, ask'[t] = "refused" PROVE Cleared(main'[d], shown'[d], t)
  <2>1. CASE t = u /\ what = "cancel"
    BY <1>1, <1>2, <2>1, CancelClears
  <2>2. CASE ~(t = u /\ what = "cancel")
    <3>1. Cleared(main[d], shown[d], t)
      BY <1>3, <2>2, ClearedMeans
    <3>2. Job(what, u) # Job("show", t)
      BY <1>3 DEF Job
    <3> QED BY <1>1, <1>2, <3>1, <3>2, AppendCleared
  <2> QED BY <2>1, <2>2
<1>4. \A t \in Transfers : ask'[t] = "refused" => ask[t] = "refused" \/ t.to = d
  OBVIOUS
<1> QED BY <1>2, <1>3, <1>4, AtOneDevice

\* The main thread takes its first job; what it then shows it has shown before,
\* or that job shows it.
LEMMA RestCleared ==
    ASSUME IInv, RefusedAskIsCleared, NEW d \in Devices, main[d] # << >>, Rest(d),
           \A t \in Transfers : ask'[t] = "refused" => ask[t] = "refused",
           \A e \in Devices : e # d => shown'[e] = shown[e],
           \A t \in Transfers : shown'[d] = t =>
               /\ Head(main[d]) # Job("cancel", t)
               /\ shown[d] = t \/ Head(main[d]) = Job("show", t)
    PROVE  RefusedAskIsCleared'
<1>1. main \in [Devices -> Seq(Jobs)] /\ main[d] \in Seq(Jobs) /\ main' = [main EXCEPT ![d] = Tail(main[d])]
  BY DEF IInv, TypeOK, Rest
<1>2. main'[d] = Tail(main[d]) /\ \A e \in Devices : e # d => main'[e] = main[e]
  BY <1>1
<1>3. ASSUME NEW t \in Transfers, t.to = d, ask'[t] = "refused" PROVE Cleared(main'[d], shown'[d], t)
  <2>1. Cleared(main[d], shown[d], t)
    BY <1>3, ClearedMeans
  <2> QED BY <1>1, <1>2, <2>1, TailCleared
<1> QED BY <1>2, <1>3, AtOneDevice

LEMMA MainThreadCleared ==
    ASSUME IInv, RefusedAskIsCleared, NEW d \in Devices, MainThread(d)
    PROVE  RefusedAskIsCleared'
<1> DEFINE h == Head(main[d])
<1>1. main[d] # << >> /\ main[d] \in Seq(Jobs) /\ main \in [Devices -> Seq(Jobs)]
      /\ shown \in [Devices -> Transfers \cup {NoTransfer}]
      /\ ask \in [Transfers -> {"none", "waiting"} \cup Answers]
  BY DEF IInv, TypeOK, MainThread, Execute, ShowAsk, ClearAsk, OnReceive, Takes
<1>2. h \in Jobs /\ h = Job(h.do, h.transfer) /\ h.transfer \in Transfers
  <2>1. h \in Jobs
    BY <1>1, TailFacts
  <2> HIDE DEF h
  <2> QED BY <2>1 DEF Jobs, Job
<1>3. \A what, t : h = Job(what, t) => h.do = what /\ h.transfer = t
  BY DEF Job
<1>4. CASE Execute(d)
  <2>1. h.do = "execute" /\ Rest(d) /\ UNCHANGED <<ask, shown>>
    BY <1>4 DEF Execute, Takes
  <2>2. \A t : h # Job("cancel", t)
    BY <1>3, <2>1
  <2> QED BY <1>1, <2>1, <2>2, RestCleared
<1>5. CASE ShowAsk(d)
  <2>1. h.do = "show" /\ Rest(d) /\ UNCHANGED ask /\ shown' = [shown EXCEPT ![d] = h.transfer]
    BY <1>5 DEF ShowAsk, Takes
  <2>2. shown'[d] = h.transfer /\ \A e \in Devices : e # d => shown'[e] = shown[e]
    BY <1>1, <2>1
  <2>3. h = Job("show", h.transfer) /\ \A t : h # Job("cancel", t)
    BY <1>2, <1>3, <2>1
  <2> HIDE DEF h
  <2>4. \A t \in Transfers : shown'[d] = t =>
          h # Job("cancel", t) /\ (shown[d] = t \/ h = Job("show", t))
    BY <2>2, <2>3
  <2> QED BY <1>1, <2>1, <2>2, <2>4, RestCleared DEF h
<1>6. CASE ClearAsk(d)
  <2>1. Rest(d) /\ UNCHANGED ask /\ shown' = [shown EXCEPT ![d] = NoTransfer]
    BY <1>6 DEF ClearAsk
  <2>2. shown'[d] = NoTransfer /\ \A e \in Devices : e # d => shown'[e] = shown[e]
    BY <1>1, <2>1
  <2>3. \A t \in Transfers : shown'[d] # t
    BY <2>2
  <2> QED BY <1>1, <2>1, <2>2, <2>3, RestCleared
<1>7. ASSUME NEW answer \in Answers, Takes(d, answer), CallbackSet(d, answer) PROVE RefusedAskIsCleared'
  <2> DEFINE u == h.transfer
  <2>1. h.do = answer /\ UNCHANGED shown /\ u.to = d
    BY <1>1, <1>7, FirstJob DEF Takes, CallbackSet
  <2>2. \A t : h # Job("cancel", t)
    BY <1>3, <2>1 DEF Answers
  <2>3. \/ Rest(d) /\ (UNCHANGED ask \/ ask' = [ask EXCEPT ![u] = "granted"])
        \/ /\ main' = [main EXCEPT ![d] = Append(Tail(@), Job("cancel", u))]
           /\ ask' = [ask EXCEPT ![u] = "refused"]
    BY <1>7 DEF CallbackSet, Answers
  <2>4. CASE Rest(d) /\ (UNCHANGED ask \/ ask' = [ask EXCEPT ![u] = "granted"])
    <3>1. \A t \in Transfers : ask'[t] = "refused" => ask[t] = "refused"
      BY <1>1, <2>4
    <3> QED BY <1>1, <2>1, <2>2, <2>4, <3>1, RestCleared
  <2>5. CASE /\ main' = [main EXCEPT ![d] = Append(Tail(@), Job("cancel", u))]
             /\ ask' = [ask EXCEPT ![u] = "refused"]
    <3> DEFINE r == Tail(main[d])
               j == Job("cancel", u)
    <3>1. main'[d] = Append(r, j) /\ \A e \in Devices : e # d => main'[e] = main[e]
      BY <1>1, <2>5
    <3>2. r \in Seq(Jobs) /\ j \in Jobs
      BY <1>1, <1>2, TailFacts DEF Job, Jobs
    <3>3. \A t \in Transfers : ask'[t] = "refused" => ask[t] = "refused" \/ t = u
      BY <1>1, <2>5
    <3>4. \A t : j # Job("show", t)
      BY DEF Job
    <3> HIDE DEF h
    <3>5. ASSUME NEW t \in Transfers, t.to = d, ask'[t] = "refused" PROVE Cleared(main'[d], shown'[d], t)
      <4>1. CASE t = u
        BY <3>1, <3>2, <4>1, CancelClears
      <4>2. CASE t # u
        <5>1. Cleared(main[d], shown[d], t)
          BY <3>3, <3>5, <4>2, ClearedMeans
        <5>2. Cleared(r, shown[d], t)
          BY <1>1, <2>2, <5>1, TailCleared DEF h
        <5> HIDE DEF r, j
        <5>3. Cleared(Append(r, j), shown[d], t)
          BY <3>2, <3>4, <5>2, AppendCleared
        <5> QED BY <2>1, <3>1, <5>3
      <4> QED BY <4>1, <4>2
    <3>6. \A t \in Transfers : ask'[t] = "refused" => ask[t] = "refused" \/ t.to = d
      BY <2>1, <3>3
    <3>7. \A e \in Devices : e # d => main'[e] = main[e] /\ shown'[e] = shown[e]
      BY <2>1, <3>1
    <3> QED BY <3>5, <3>6, <3>7, AtOneDevice
  <2> QED BY <2>3, <2>4, <2>5
<1> QED BY <1>4, <1>5, <1>6, <1>7 DEF MainThread, OnReceive

LEMMA ClearedNext == IInv /\ RefusedAskIsCleared /\ [Next]_vars => RefusedAskIsCleared'
<1> SUFFICES ASSUME IInv, RefusedAskIsCleared, [Next]_vars PROVE RefusedAskIsCleared'
  OBVIOUS
<1>1. CASE UNCHANGED <<main, ask, shown>>
  BY <1>1, ClearedMeans, ClearedMeansNext
<1>2. ASSUME NEW t \in Transfers, ResolveEnds(t) \/ HearAnswer(t) \/ AskTimesOut(t)
      PROVE  UNCHANGED <<main, ask, shown>>
  BY <1>2 DEF ResolveEnds, HearAnswer, AskTimesOut, Goes
<1>3. \A t \in Transfers : \A what \in {"execute", "show", "cancel", "report"} \cup Answers : Job(what, t) \in Jobs
  BY DEF Job, Jobs
<1>4. ASSUME NEW t \in Transfers, Send(t) \/ SendEnds(t) \/ AskCallback(t) \/ AwaitTimesOut(t)
      PROVE  RefusedAskIsCleared'
  <2>0. ask \in [Transfers -> {"none", "waiting"} \cup Answers] /\ t.from \in Devices /\ t.to \in Devices
    BY DEF IInv, TypeOK
  <2>1. CASE Send(t) \/ SendEnds(t)
    <3>1. CASE UNCHANGED <<main, ask, shown>>
      BY <1>1, <3>1
    <3>2. ASSUME ~UNCHANGED <<main, ask, shown>> PROVE RefusedAskIsCleared'
      <4>1. PICK d \in {t.from, t.to}, what \in {"execute", "report"} :
              Post(d, what, t) /\ UNCHANGED <<ask, shown>>
        BY <2>1, <3>2 DEF Send, SendEnds, Goes
      <4> QED BY <1>3, <2>0, <4>1, PostCleared
    <3> QED BY <3>1, <3>2
  <2>2. CASE AskCallback(t)
    <3>1. Post(t.to, "show", t) /\ UNCHANGED shown /\ ask' = [ask EXCEPT ![t] = "waiting"]
      BY <2>2 DEF AskCallback
    <3>2. ask'[t] = "waiting" /\ \A u \in Transfers : ask'[u] = "refused" => ask[u] = "refused"
      BY <2>0, <3>1
    <3> QED BY <1>3, <2>0, <3>1, <3>2, PostCleared
  <2>3. CASE AwaitTimesOut(t)
    <3>1. Post(t.to, "cancel", t) /\ UNCHANGED shown /\ ask' = [ask EXCEPT ![t] = "refused"]
      BY <2>3 DEF AwaitTimesOut
    <3>2. \A u \in Transfers : ask'[u] = "refused" => ask[u] = "refused" \/ u = t
      BY <2>0, <3>1
    <3> QED BY <1>3, <2>0, <3>1, <3>2, PostCleared
  <2> QED BY <1>4, <2>1, <2>2, <2>3
<1>5. ASSUME NEW t \in Transfers, NEW answer \in Answers, Answer(t, answer)
      PROVE  RefusedAskIsCleared'
  <2>1. Post(t.to, answer, t) /\ UNCHANGED <<ask, shown>> /\ answer # "show" /\ t.to \in Devices
    BY <1>5, TransfersAssumption DEF Answer, Answers
  <2> QED BY <1>3, <2>1, PostCleared
<1> QED BY <1>1, <1>2, <1>4, <1>5, MainThreadCleared DEF Next, Tap, OtherAnswer, vars

LEMMA ClearedInit == Init => RefusedAskIsCleared
BY DEF Init, RefusedAskIsCleared

\* The question of a refused ask never outlives its cancellation, on any number
\* of phones that block one another (ServerForegroundService.askCallback, whose
\* notification and cancellation are posted to the main thread).
THEOREM RefusedAskIsClearedAlways == Spec => []RefusedAskIsCleared
BY Invariant, ClearedInit, ClearedNext, PTL DEF Spec

\* A transfer that its user has asked for has its job in the queue of its
\* device until the main thread comes to it.
PostedIsQueued ==
    \A t \in Transfers : send[t] = "posted" => In(main[t.from], Job("execute", t))

\* What is in a queue stays there when another job is posted, and when another
\* one is taken.
LEMMA StaysQueued ==
    ASSUME IInv, NEW d \in Devices, NEW t \in Transfers, NEW j,
           \/ \E what : Job(what, t) \in Jobs /\ Post(d, what, t)
           \/ main[d] # << >> /\ Head(main[d]) # j /\ Rest(d)
           \/ /\ main[d] # << >> /\ Head(main[d]) # j /\ Job("cancel", t) \in Jobs
              /\ main' = [main EXCEPT ![d] = Append(Tail(@), Job("cancel", t))],
           NEW e \in Devices, In(main[e], j)
    PROVE  In(main'[e], j)
<1>1. main \in [Devices -> Seq(Jobs)] /\ main[d] \in Seq(Jobs)
  BY DEF IInv, TypeOK
<1> DEFINE q == main[d]
<1>2. \A k \in Jobs : \A r \in Seq(Jobs) : In(r, j) => In(Append(r, k), j)
  BY AppendFacts DEF In
<1>3. q # << >> /\ Head(q) # j /\ In(q, j) => In(Tail(q), j)
  <2> SUFFICES ASSUME q # << >>, Head(q) # j, NEW k \in DOMAIN q, q[k] = j PROVE In(Tail(q), j)
    BY DEF In
  <2>1. q \in Seq(Jobs)
    BY <1>1
  <2> HIDE DEF q
  <2>2. /\ q[1] = Head(q)
        /\ k # 1 => k - 1 \in DOMAIN Tail(q) /\ Tail(q)[k - 1] = q[k]
    BY <2>1, TailFacts
  <2>3. k # 1
    BY <2>2
  <2> QED BY <2>2, <2>3 DEF In
<1>4. q # << >> => Tail(q) \in Seq(Jobs)
  BY <1>1, TailFacts
<1>5. CASE e # d
  BY <1>1, <1>5 DEF Post, Rest
<1>6. CASE e = d
  <2>1. PICK r : main' = [main EXCEPT ![d] = r] /\ In(r, j)
    <3>1. CASE \E what : Job(what, t) \in Jobs /\ Post(d, what, t)
      BY <1>1, <1>2, <1>6, <3>1 DEF Post
    <3>2. CASE q # << >> /\ Head(q) # j /\ Rest(d)
      BY <1>3, <1>6, <3>2 DEF Rest
    <3>3. CASE /\ q # << >> /\ Head(q) # j /\ Job("cancel", t) \in Jobs
               /\ main' = [main EXCEPT ![d] = Append(Tail(@), Job("cancel", t))]
      BY <1>2, <1>3, <1>4, <1>6, <3>3
    <3> QED BY <3>1, <3>2, <3>3
  <2> QED BY <1>1, <1>6, <2>1
<1> QED BY <1>5, <1>6

LEMMA QueuedNext == IInv /\ PostedIsQueued /\ [Next]_vars => PostedIsQueued'
<1> SUFFICES ASSUME IInv, PostedIsQueued, [Next]_vars, NEW t \in Transfers, send'[t] = "posted"
             PROVE  In(main'[t.from], Job("execute", t))
  BY DEF PostedIsQueued, In
<1> DEFINE j == Job("execute", t)
<1>1. /\ main \in [Devices -> Seq(Jobs)] /\ t.from \in Devices
      /\ send \in [Transfers -> {"none", "posted"} \cup Blocking \cup Ended]
  BY DEF IInv, TypeOK
<1>2. \A u \in Transfers : \A what \in {"execute", "show", "cancel", "report"} \cup Answers : Job(what, u) \in Jobs
  BY DEF Job, Jobs
<1>3. CASE send[t] # "posted"
  <2>1. Send(t)
    <3>1. ASSUME NEW u \in Transfers, Send(u) PROVE u = t
      BY <1>1, <1>3, <3>1 DEF Send
    <3>2. ASSUME NEW u \in Transfers,
                 ResolveEnds(u) \/ HearAnswer(u) \/ AskTimesOut(u) \/ SendEnds(u)
          PROVE  FALSE
      <4>1. PICK to \in {"asking", "unresolved", "sending", "refused", "unanswered", "broken",
                         "sent"} :
              send' = [send EXCEPT ![u] = to]
        BY <3>2 DEF ResolveEnds, HearAnswer, AskTimesOut, SendEnds, Goes
      <4> QED BY <1>1, <1>3, <4>1
    <3>3. ASSUME NEW d \in Devices, Execute(d) PROVE FALSE
      <4>1. Head(main[d]).transfer \in Transfers
            /\ send' = [send EXCEPT ![Head(main[d]).transfer] = "resolving"]
        BY <3>3, FirstJob DEF Execute, Takes
      <4> QED BY <1>1, <1>3, <4>1
    <3>4. send' # send
      BY <1>3
    <3> QED BY <3>1, <3>2, <3>3, <3>4 DEF Next, vars, AskCallback, AwaitTimesOut, MainThread, ShowAsk,
               ClearAsk, OnReceive, CallbackSet, Tap, OtherAnswer, Answer
  <2>2. main' = [main EXCEPT ![t.from] = Append(main[t.from], j)] /\ main[t.from] \in Seq(Jobs)
    BY <1>1, <2>1 DEF Send, Post
  <2>3. main'[t.from] = Append(main[t.from], j) /\ j \in Jobs
    BY <1>1, <1>2, <2>2
  <2> HIDE DEF j
  <2> QED BY <2>2, <2>3, AppendFacts DEF In, j
<1>4. CASE send[t] = "posted"
  <2>1. In(main[t.from], j)
    BY <1>4 DEF PostedIsQueued
  <2>2. ASSUME NEW d \in Devices, NEW u \in Transfers,
               NEW what \in {"execute", "show", "cancel", "report"} \cup Answers, Post(d, what, u)
        PROVE  In(main'[t.from], j)
    BY <1>1, <1>2, <2>1, <2>2, StaysQueued
  <2>3. ASSUME NEW d \in Devices, MainThread(d)
        PROVE  In(main'[t.from], j)
    <3> DEFINE h == Head(main[d])
    <3>1. main[d] # << >> /\ h.transfer \in Transfers
      BY <2>3, FirstJob DEF MainThread, Execute, ShowAsk, ClearAsk, OnReceive, Takes
    <3>2. h # j
      <4>1. CASE Execute(d)
        <5>1. send' = [send EXCEPT ![h.transfer] = "resolving"]
          BY <4>1 DEF Execute
        <5>2. h.transfer # t
          BY <1>1, <5>1
        <5> QED BY <5>2 DEF Job
      <4>2. CASE ~Execute(d)
        BY <2>3, <4>2 DEF MainThread, ShowAsk, ClearAsk, OnReceive, Takes, Answers, Job
      <4> QED BY <4>1, <4>2
    <3>3. \/ Rest(d)
          \/ main' = [main EXCEPT ![d] = Append(Tail(@), Job("cancel", h.transfer))]
      BY <2>3 DEF MainThread, Execute, ShowAsk, ClearAsk, OnReceive, CallbackSet
    <3>4. Job("cancel", h.transfer) \in Jobs
      BY <1>2, <3>1
    <3> HIDE DEF h, j
    <3> QED BY <1>1, <2>1, <3>1, <3>2, <3>3, <3>4, StaysQueued DEF h
  <2>4. CASE UNCHANGED main
    BY <2>1, <2>4
  <2>5. ASSUME NEW u \in Transfers,
               Send(u) \/ SendEnds(u) \/ AskCallback(u) \/ AwaitTimesOut(u)
        PROVE  In(main'[t.from], j)
    BY <2>1, <2>2, <2>5 DEF Send, SendEnds, AskCallback, AwaitTimesOut
  <2>6. ASSUME NEW u \in Transfers, NEW answer \in Answers, Answer(u, answer)
        PROVE  In(main'[t.from], j)
    BY <2>2, <2>6, TransfersAssumption DEF Answer
  <2> QED BY <2>3, <2>4, <2>5, <2>6 DEF Next, Tap, OtherAnswer, vars, ResolveEnds, HearAnswer, AskTimesOut
<1> QED BY <1>3, <1>4

\* No job is lost: what the sheet has started waits in the queue until it runs,
\* whatever the phone is asked and answers meanwhile (sendTo, onStartCommand).
THEOREM PostedIsQueuedAlways == Spec => []PostedIsQueued
<1>1. Init => PostedIsQueued
  BY DEF Init, PostedIsQueued
<1> QED BY <1>1, Invariant, QueuedNext, PTL DEF Spec

-----------------------------------------------------------------------------
(* The phones together implement Consent, but for its fairness.            *)

\* Consent's variables, as the phones show them.
Outcome == [t \in Transfers |-> CASE ask[t] = "none" -> "idle"
                                  [] ask[t] = "waiting" -> "pending"
                                  [] OTHER -> ask[t]]
Given == {t \in Transfers : Job("granted", t) \in answers}
Used == [t \in Transfers |-> IF ask[t] = "granted" THEN t ELSE NoTransfer]

\* An ask that waits and is refused, or whose Accept was given and now counts.
LEMMA DecidedStep ==
    ASSUME IInv, NEW t \in Transfers, NEW answer \in Answers, ask[t] = "waiting",
           ask' = [ask EXCEPT ![t] = answer], UNCHANGED answers,
           answer = "granted" => Job("granted", t) \in answers
    PROVE  C!Decide(t)
<1>1. /\ Outcome' = [Outcome EXCEPT ![t] = answer] /\ Outcome[t] = "pending"
      /\ Given' = Given
  BY DEF Outcome, Given, Answers, IInv, TypeOK
<1>2. CASE answer = "granted"
  <2>1. Used' = [Used EXCEPT ![t] = t]
    BY <1>2 DEF Used, IInv, TypeOK
  <2>2. t \in Given /\ \A u \in Transfers : Used[u] # t
    BY <1>2 DEF Used, Given
  <2> QED BY <1>1, <1>2, <2>1, <2>2 DEF C!Decide, C!Grant, Outcome, Given, Used
<1>3. CASE answer = "refused"
  <2>1. Used' = Used
    BY <1>3 DEF Used, IInv, TypeOK
  <2> QED BY <1>1, <1>3, <2>1 DEF C!Decide, C!Refuse, Outcome, Given, Used
<1> QED BY <1>2, <1>3 DEF Answers

LEMMA ConsentStep == IInv /\ [Next]_vars => [C!Next]_(C!vars)
<1> SUFFICES ASSUME IInv, [Next]_vars PROVE [C!Next]_(C!vars)
  OBVIOUS
<1>1. ASSUME UNCHANGED <<ask, answers>> PROVE UNCHANGED C!vars
  BY <1>1 DEF C!vars
<1>2. ASSUME NEW t \in Transfers,
             Send(t) \/ ResolveEnds(t) \/ HearAnswer(t) \/ AskTimesOut(t) \/ SendEnds(t)
      PROVE  UNCHANGED <<ask, answers>>
  BY <1>2 DEF Send, ResolveEnds, HearAnswer, AskTimesOut, SendEnds, Goes
<1>3. ASSUME NEW t \in Transfers, AskCallback(t) PROVE C!Ask(t)
  <2>1. /\ Outcome' = [Outcome EXCEPT ![t] = "pending"] /\ Outcome[t] = "idle"
        /\ Given' = Given /\ Used' = Used
    BY <1>3 DEF AskCallback, Outcome, Given, Used, IInv, TypeOK
  <2> QED BY <2>1 DEF C!Ask, Outcome, Given, Used
<1>4. ASSUME NEW t \in Transfers, AwaitTimesOut(t) PROVE C!Decide(t)
  BY <1>4, DecidedStep DEF AwaitTimesOut, Answers
<1>5. ASSUME NEW d \in Devices, MainThread(d)
      PROVE  UNCHANGED <<ask, answers>> \/ \E t \in Transfers : C!Decide(t)
  <2>1. CASE Execute(d) \/ ShowAsk(d) \/ ClearAsk(d)
    BY <2>1 DEF Execute, ShowAsk, ClearAsk
  <2>2. ASSUME NEW answer \in Answers, Takes(d, answer), CallbackSet(d, answer)
        PROVE  UNCHANGED <<ask, answers>> \/ \E t \in Transfers : C!Decide(t)
    <3> DEFINE t == Head(main[d]).transfer
    <3>1. t \in Transfers /\ Head(main[d]).do = answer /\ Head(main[d]) \in answers
      BY <2>2, FirstJob DEF Takes
    <3>2. Head(main[d]) \in Jobs
      BY <2>2, TakenInOrder DEF Takes, IInv, TypeOK, QueuesInOrder
    <3>3. Head(main[d]) = Job(answer, t)
      BY <3>1, <3>2 DEF Job, Jobs
    <3>4. CASE ask[t] # "waiting"
      BY <2>2, <3>4 DEF CallbackSet
    <3>5. CASE ask[t] = "waiting"
      <4>1. ask' = [ask EXCEPT ![t] = answer] /\ UNCHANGED answers
        BY <2>2, <3>5 DEF CallbackSet
      <4> QED BY <3>1, <3>3, <3>5, <4>1, DecidedStep
    <3> QED BY <3>4, <3>5
  <2> QED BY <1>5, <2>1, <2>2 DEF MainThread, OnReceive
<1>6. ASSUME NEW t \in Transfers, NEW answer \in Answers, Answer(t, answer)
      PROVE  C!Accept(t) \/ UNCHANGED C!vars
  <2>1. Outcome' = Outcome /\ Used' = Used /\ answers' = answers \cup {Job(answer, t)}
    BY <1>6 DEF Answer, Outcome, Used
  <2>2. Given' = IF answer = "granted" THEN Given \cup {t} ELSE Given
    BY <2>1 DEF Given, Job
  <2> QED BY <2>1, <2>2 DEF C!Accept, C!vars, Outcome, Given, Used
<1>7. CASE UNCHANGED vars
  BY <1>1, <1>7 DEF vars
<1> QED BY <1>1, <1>2, <1>3, <1>4, <1>5, <1>6, <1>7 DEF Next, Tap, OtherAnswer, C!Next

\* What the phones do together is what Consent allows: no ask of any phone is
\* granted but by an Accept that was sent for it, by the phone's user or from
\* outside the app, and none twice.
THEOREM ImplementsConsentSafety == Spec => C!Init /\ [][C!Next]_(C!vars)
<1>1. Init => C!Init
  <2> SUFFICES ASSUME Init PROVE C!Init
    OBVIOUS
  <2>1. Outcome = [t \in Transfers |-> "idle"] /\ Given = {}
        /\ Used = [t \in Transfers |-> NoTransfer]
    BY DEF Init, Outcome, Given, Used
  <2> QED BY <2>1 DEF C!Init, Outcome, Given, Used
<1> QED BY <1>1, ConsentStep, Invariant, PTL DEF Spec
=============================================================================
