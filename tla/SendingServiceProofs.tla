-------------------------- MODULE SendingServiceProofs --------------------------
(* Proofs about SendingService, for any receivers, shares and process deaths.  *)
EXTENDS SendingService, SequenceTheorems, FiniteSetTheorems, TLAPS

\* Both services leave the notification to the other one when they go: sharing its
\* id takes it away from neither that is in the foreground.
THEOREM ForegroundIsNotifiedAlways == Spec => []ForegroundIsNotified
<1> USE DEF ForegroundIsNotified
<1>1. Init => ForegroundIsNotified
  BY DEF Init
<1>2. ASSUME ForegroundIsNotified, [Next]_vars PROVE ForegroundIsNotified'
  <2> USE <1>2
  <2>1. CASE UNCHANGED shown
    BY <2>1 DEF shown
  <2>2. CASE OnStartCommand
    BY <2>2 DEF OnStartCommand, StartForeground
  <2>3. CASE JobEnd
    BY <2>3 DEF JobEnd, StopForeground
  <2>4. CASE UpdateProgress
    BY <2>4 DEF UpdateProgress
  <2>5. CASE ServerStarts
    BY <2>5 DEF ServerStarts
  <2>6. CASE ServerStops
    BY <2>6 DEF ServerStops
  <2>7. CASE Die
    BY <2>7 DEF Die
  <2>8. (\E selected \in Selections : Send(selected)) \/ Arrive \/ OnCreate \/ Execute \/ Restart
        => UNCHANGED shown
    BY DEF Send, Arrive, OnCreate, Execute, Restart
  <2>9. StartWithoutIntent \/ ProcessDeath => Die
    BY DEF StartWithoutIntent, ProcessDeath
  <2>10. UNCHANGED vars => UNCHANGED shown
    BY DEF vars
  <2> QED
    BY <2>1, <2>2, <2>3, <2>4, <2>5, <2>6, <2>7, <2>8, <2>9, <2>10 DEF Next, MainThread
<1> QED
  BY <1>1, <1>2, PTL DEF Spec

-----------------------------------------------------------------------------
(* Queues of numbered calls. Start commands and jobs wait in main and in   *)
(* starts in the order of their numbers.                                   *)

Is(call, what) == call.call = what /\ call.number # 0

\* The calls of one kind in q lie above lo and up to hi, in order.
Waits(q, what, lo, hi) ==
    /\ \A i \in DOMAIN q : Is(q[i], what) => lo < q[i].number /\ q[i].number <= hi
    /\ \A i, k \in DOMAIN q :
         Is(q[i], what) /\ Is(q[k], what) /\ i < k => q[i].number < q[k].number

LEMMA SeqElements ==
    ASSUME NEW q \in Seq(Calls)
    PROVE  /\ DOMAIN q = 1 .. Len(q) /\ Len(q) \in Nat
           /\ \A i \in DOMAIN q : i \in Nat /\ q[i] \in Calls /\ q[i].number \in Nat
<1>1. \A i \in DOMAIN q : q[i] \in Calls
  BY ElementOfSeq, LenProperties
<1> QED BY <1>1, LenProperties DEF Calls

\* Appending a call that comes after all others.
LEMMA AppendWaits ==
    ASSUME NEW q \in Seq(Calls), NEW c \in Calls, NEW what,
           NEW lo \in Nat, NEW mid \in Nat, NEW hi \in Nat, lo <= mid, mid <= hi,
           Waits(q, what, lo, mid), Is(c, what) => mid < c.number /\ c.number <= hi
    PROVE  Waits(Append(q, c), what, lo, hi)
<1> DEFINE r == Append(q, c)
<1>1. /\ DOMAIN r = 1 .. Len(q) + 1 /\ Len(q) \in Nat /\ DOMAIN q = 1 .. Len(q)
      /\ \A i \in DOMAIN q : r[i] = q[i] /\ q[i].number \in Nat
      /\ r[Len(q) + 1] = c /\ c.number \in Nat
  BY AppendProperties, SeqElements DEF Calls
<1> HIDE DEF r
<1>2. ASSUME NEW i \in DOMAIN r, Is(r[i], what) PROVE lo < r[i].number /\ r[i].number <= hi
  BY <1>1, <1>2 DEF Waits
<1>3. ASSUME NEW i \in DOMAIN r, NEW k \in DOMAIN r, Is(r[i], what), Is(r[k], what), i < k
      PROVE  r[i].number < r[k].number
  <2>1. i \in DOMAIN q /\ (k \in DOMAIN q \/ k = Len(q) + 1)
    BY <1>1, <1>3
  <2> QED BY <1>1, <1>3, <2>1 DEF Waits
<1> QED BY <1>2, <1>3 DEF Waits, r

\* Taking the first call leaves those that come after it.
LEMMA TailWaits ==
    ASSUME NEW q \in Seq(Calls), q # << >>, NEW what, NEW lo \in Nat, NEW hi \in Nat,
           Waits(q, what, lo, hi)
    PROVE  /\ Head(q) \in Calls /\ Tail(q) \in Seq(Calls)
           /\ Waits(Tail(q), what, lo, hi)
           /\ Is(Head(q), what) =>
                /\ lo < Head(q).number /\ Head(q).number <= hi
                /\ Waits(Tail(q), what, Head(q).number, hi)
<1> DEFINE r == Tail(q)
<1>1. /\ Head(q) \in Calls /\ r \in Seq(Calls) /\ 1 \in DOMAIN q /\ Head(q) = q[1]
      /\ \A i \in DOMAIN r : i \in Nat /\ 1 < i + 1 /\ i + 1 \in DOMAIN q /\ r[i] = q[i + 1]
  BY HeadTailProperties, SeqElements
<1> HIDE DEF r
<1>2. ASSUME NEW i \in DOMAIN r, NEW k \in DOMAIN r, Is(r[i], what), Is(r[k], what), i < k
      PROVE  r[i].number < r[k].number
  <2>1. i + 1 < k + 1
    BY <1>1, <1>2
  <2> QED BY <1>1, <1>2, <2>1 DEF Waits
<1>3. ASSUME NEW i \in DOMAIN r, Is(r[i], what)
      PROVE  /\ lo < r[i].number /\ r[i].number <= hi
             /\ Is(Head(q), what) => Head(q).number < r[i].number
  BY <1>1, <1>3 DEF Waits
<1>4. Is(Head(q), what) => lo < Head(q).number /\ Head(q).number <= hi
  BY <1>1 DEF Waits
<1> QED BY <1>1, <1>2, <1>3, <1>4 DEF Waits, r

\* Calls may follow those that come before them.
LEMMA ConcatWaits ==
    ASSUME NEW q \in Seq(Calls), NEW r \in Seq(Calls), NEW what,
           NEW lo \in Nat, NEW mid \in Nat, NEW hi \in Nat, lo <= mid, mid <= hi,
           Waits(q, what, lo, mid), Waits(r, what, mid, hi)
    PROVE  q \o r \in Seq(Calls) /\ Waits(q \o r, what, lo, hi)
<1> DEFINE s == q \o r
<1>1. /\ s \in Seq(Calls) /\ DOMAIN s = 1 .. Len(q) + Len(r) /\ Len(q) \in Nat /\ Len(r) \in Nat
      /\ DOMAIN q = 1 .. Len(q) /\ DOMAIN r = 1 .. Len(r)
      /\ \A i \in DOMAIN s : s[i] = IF i <= Len(q) THEN q[i] ELSE r[i - Len(q)]
      /\ \A i \in DOMAIN q : q[i].number \in Nat
      /\ \A i \in DOMAIN r : r[i].number \in Nat
  BY ConcatProperties, SeqElements
<1> HIDE DEF s
<1>2. ASSUME NEW i \in DOMAIN s
      PROVE  \/ i \in DOMAIN q /\ s[i] = q[i]
             \/ i > Len(q) /\ i - Len(q) \in DOMAIN r /\ s[i] = r[i - Len(q)]
  BY <1>1
<1>3. ASSUME NEW i \in DOMAIN s, Is(s[i], what) PROVE lo < s[i].number /\ s[i].number <= hi
  BY <1>1, <1>2, <1>3 DEF Waits
<1>4. ASSUME NEW i \in DOMAIN s, NEW k \in DOMAIN s, Is(s[i], what), Is(s[k], what), i < k
      PROVE  s[i].number < s[k].number
  <2>1. CASE i \in DOMAIN q /\ k \in DOMAIN q
    BY <1>1, <1>4, <2>1 DEF Waits
  <2>2. CASE i \in DOMAIN q /\ k > Len(q)
    BY <1>1, <1>2, <1>4, <2>2 DEF Waits
  <2>3. CASE i > Len(q)
    <3>1. k > Len(q) /\ i - Len(q) < k - Len(q)
      BY <1>1, <1>4, <2>3
    <3>2. i - Len(q) \in DOMAIN r /\ s[i] = r[i - Len(q)]
      BY <1>1, <1>2, <2>3
    <3>3. k - Len(q) \in DOMAIN r /\ s[k] = r[k - Len(q)]
      BY <1>1, <1>2, <3>1
    <3> QED BY <1>4, <3>1, <3>2, <3>3 DEF Waits
  <2> QED BY <1>1, <1>2, <1>4, <2>1, <2>2, <2>3
<1> QED BY <1>1, <1>3, <1>4 DEF Waits, s

\* Where a call is after a queue has moved.
LEMMA HasMoves ==
    ASSUME NEW q \in Seq(Calls), NEW what, NEW n
    PROVE  /\ \A r \in Seq(Calls) : Has(q \o r, what, n) <=> Has(q, what, n) \/ Has(r, what, n)
           /\ \A c \in Calls : Has(Append(q, c), what, n) <=>
                                 Has(q, what, n) \/ (c.call = what /\ c.number = n)
           /\ q # << >> => (Has(q, what, n) <=> Has(Tail(q), what, n) \/
                                 (Head(q).call = what /\ Head(q).number = n))
<1>1. DOMAIN q = 1 .. Len(q) /\ Len(q) \in Nat
  BY SeqElements
<1>2. ASSUME NEW r \in Seq(Calls)
      PROVE  Has(q \o r, what, n) <=> Has(q, what, n) \/ Has(r, what, n)
  <2>1. /\ DOMAIN r = 1 .. Len(r) /\ Len(r) \in Nat /\ DOMAIN (q \o r) = 1 .. Len(q) + Len(r)
        /\ \A i \in DOMAIN (q \o r) : (q \o r)[i] = IF i <= Len(q) THEN q[i] ELSE r[i - Len(q)]
    BY ConcatProperties, SeqElements
  <2>2. \A i \in DOMAIN q : i \in DOMAIN (q \o r) /\ (q \o r)[i] = q[i]
    BY <1>1, <2>1
  <2>3. \A i \in DOMAIN r : Len(q) + i \in DOMAIN (q \o r) /\ (q \o r)[Len(q) + i] = r[i]
    BY <1>1, <2>1
  <2>4. \A i \in DOMAIN (q \o r) :
          \/ i \in DOMAIN q /\ (q \o r)[i] = q[i]
          \/ i - Len(q) \in DOMAIN r /\ (q \o r)[i] = r[i - Len(q)]
    BY <1>1, <2>1
  <2> DEFINE s == q \o r
  <2> HIDE DEF s
  <2>5. Has(s, what, n) => Has(q, what, n) \/ Has(r, what, n)
    BY <2>4 DEF Has, s
  <2>6. Has(q, what, n) => Has(s, what, n)
    BY <2>2 DEF Has, s
  <2>7. Has(r, what, n) => Has(s, what, n)
    <3>1. ASSUME NEW i \in DOMAIN r, r[i].call = what, r[i].number = n PROVE Has(s, what, n)
      <4>1. Len(q) + i \in DOMAIN s /\ s[Len(q) + i] = r[i]
        BY <2>3 DEF s
      <4> QED BY <3>1, <4>1 DEF Has
    <3> QED BY <3>1 DEF Has
  <2> QED BY <2>5, <2>6, <2>7 DEF s
<1>3. ASSUME NEW c \in Calls
      PROVE  Has(Append(q, c), what, n) <=> Has(q, what, n) \/ (c.call = what /\ c.number = n)
  <2>1. /\ DOMAIN Append(q, c) = 1 .. Len(q) + 1 /\ Append(q, c)[Len(q) + 1] = c
        /\ \A i \in DOMAIN q : Append(q, c)[i] = q[i]
    BY <1>1, AppendProperties
  <2> DEFINE r == Append(q, c)
  <2> HIDE DEF r
  <2>2. /\ Len(q) + 1 \in DOMAIN r /\ r[Len(q) + 1] = c
        /\ \A i \in DOMAIN q : i \in DOMAIN r /\ r[i] = q[i]
        /\ \A i \in DOMAIN r : i \in DOMAIN q \/ i = Len(q) + 1
    BY <1>1, <2>1 DEF r
  <2>3. ASSUME NEW i \in DOMAIN r, r[i].call = what, r[i].number = n
        PROVE  Has(q, what, n) \/ (c.call = what /\ c.number = n)
    <3>1. CASE i \in DOMAIN q
      BY <2>2, <2>3, <3>1 DEF Has
    <3>2. CASE i = Len(q) + 1
      BY <2>2, <2>3, <3>2
    <3> QED BY <2>2, <3>1, <3>2
  <2>4. Has(q, what, n) => Has(r, what, n)
    BY <2>2 DEF Has
  <2>5. c.call = what /\ c.number = n => Has(r, what, n)
    BY <2>2 DEF Has
  <2>6. Has(r, what, n) => Has(q, what, n) \/ (c.call = what /\ c.number = n)
    BY <2>3 DEF Has
  <2>7. Has(r, what, n) <=> Has(q, what, n) \/ (c.call = what /\ c.number = n)
    BY <2>4, <2>5, <2>6
  <2> QED BY <2>7 DEF r
<1>4. ASSUME q # << >>
      PROVE  Has(q, what, n) <=> Has(Tail(q), what, n) \/
                                 (Head(q).call = what /\ Head(q).number = n)
  <2>1. /\ 1 \in DOMAIN q /\ Head(q) = q[1]
        /\ \A i \in DOMAIN Tail(q) : i + 1 \in DOMAIN q /\ Tail(q)[i] = q[i + 1]
        /\ \A i \in DOMAIN q : i # 1 => i - 1 \in DOMAIN Tail(q) /\ Tail(q)[i - 1] = q[i]
    BY <1>1, <1>4, HeadTailProperties
  <2> DEFINE r == Tail(q)
             h == Head(q)
  <2> HIDE DEF r, h
  <2>2. /\ 1 \in DOMAIN q /\ q[1] = h
        /\ \A i \in DOMAIN r : i + 1 \in DOMAIN q /\ r[i] = q[i + 1]
        /\ \A i \in DOMAIN q : i # 1 => i - 1 \in DOMAIN r /\ r[i - 1] = q[i]
    BY <2>1 DEF r, h
  <2>3. ASSUME NEW i \in DOMAIN q, q[i].call = what, q[i].number = n
        PROVE  Has(r, what, n) \/ (h.call = what /\ h.number = n)
    <3>1. CASE i = 1
      BY <2>2, <2>3, <3>1
    <3>2. CASE i # 1
      <4>1. i - 1 \in DOMAIN r /\ r[i - 1] = q[i]
        BY <2>2, <3>2
      <4> QED BY <2>3, <4>1 DEF Has
    <3> QED BY <3>1, <3>2
  <2>4. ASSUME NEW i \in DOMAIN r, r[i].call = what, r[i].number = n
        PROVE  Has(q, what, n)
    <3>1. i + 1 \in DOMAIN q /\ q[i + 1] = r[i]
      BY <2>2
    <3> QED BY <2>4, <3>1 DEF Has
  <2>5. h.call = what /\ h.number = n => Has(q, what, n)
    BY <2>2 DEF Has
  <2>6. Has(r, what, n) => Has(q, what, n)
    BY <2>4 DEF Has
  <2>7. Has(q, what, n) => Has(r, what, n) \/ (h.call = what /\ h.number = n)
    BY <2>3 DEF Has
  <2>8. Has(q, what, n) <=> Has(r, what, n) \/ (h.call = what /\ h.number = n)
    BY <2>5, <2>6, <2>7
  <2> QED BY <2>8 DEF r, h
<1> QED BY <1>2, <1>3, <1>4

\* A call that waits lies in the range of its queue.
LEMMA HasWaits ==
    ASSUME NEW q, NEW what, NEW lo, NEW hi, Waits(q, what, lo, hi), NEW n, n # 0, Has(q, what, n)
    PROVE  lo < n /\ n <= hi
BY DEF Has, Waits, Is

-----------------------------------------------------------------------------
(* The invariant.                                                          *)

\* From the system over the main looper to the job, start commands are in order:
\* jobs that wait are of handled ones and later than what was sent, and start
\* commands that wait are not settled.
Ordered ==
    /\ \E mid \in Nat :
         /\ settled <= mid /\ mid <= Len(requested)
         /\ Waits(main, "start", settled, mid)
         /\ Waits(starts, "start", mid, Len(requested))
    /\ Len(sent) <= settled /\ Waits(main, "job", Len(sent), settled)
    /\ ~Has(main, "job", 0)
    /\ \A n \in Nat : ~Has(starts, "job", n)

\* A job that waits will read what was handled last.
FieldsAreNewest == \A n \in Nat : Has(main, "job", n) => fields = requested[settled]

\* Only a process that took the place of a dead one gets no intent.
NoDeaths ==
    deaths = 0 => alive /\ ~Has(main, "start", 0) /\ ~Has(starts, "start", 0)

\* What was handled last is sent last, or a job waits to do so.
HandledIsSent ==
    deaths = 0 /\ settled > 0 =>
        \/ \E n \in Nat : Has(main, "job", n)
        \/ sent # << >> /\ sent[Len(sent)] = requested[settled]

\* A service with start commands that are not settled is started.
AskedIsStarted == settled < Len(requested) => started

IInv ==
    /\ TypeOK /\ Ordered /\ FieldsAreNewest /\ NothingIsLost /\ NoDeaths /\ HandledIsSent
    /\ AskedIsStarted /\ NeverStale

LEMMA InitIInv == Init => IInv
<1> SUFFICES ASSUME Init PROVE IInv
  OBVIOUS
<1> USE DEF Init
<1>1. Len(requested) = 0 /\ Len(sent) = 0 /\ Len(main) = 0
  OBVIOUS
<1>2. TypeOK
  <2>1. /\ requested \in Seq(Intents) /\ sent \in Seq(Intents)
        /\ starts \in Seq(Calls) /\ main \in Seq(Calls)
    BY EmptySeq
  <2>2. shares \in 0 .. MaxShares /\ settled \in 0 .. Len(requested) /\ deaths \in 0 .. MaxDeaths
    BY <1>1, BoundsAssumption
  <2>3. alive \in BOOLEAN /\ started \in BOOLEAN /\ foreground \in BOOLEAN /\ serverForeground \in BOOLEAN
    OBVIOUS
  <2> QED BY <2>1, <2>2, <2>3 DEF TypeOK
<1>3. \A what, lo, hi : Waits(<< >>, what, lo, hi)
  BY DEF Waits
<1>4. \A what, n : ~Has(<< >>, what, n)
  BY DEF Has
<1>5. Ordered
  BY <1>1, <1>3, <1>4 DEF Ordered
<1>6. FieldsAreNewest /\ NothingIsLost /\ NoDeaths /\ HandledIsSent /\ AskedIsStarted /\ NeverStale
  BY <1>1, <1>4 DEF FieldsAreNewest, NothingIsLost, NoDeaths, HandledIsSent, AskedIsStarted, NeverStale
<1> QED BY <1>2, <1>5, <1>6 DEF IInv

\* What all steps know of the state.
LEMMA Facts ==
    ASSUME IInv
    PROVE  /\ settled \in Nat /\ Len(requested) \in Nat /\ Len(sent) \in Nat /\ deaths \in Nat
           /\ settled <= Len(requested)
           /\ main \in Seq(Calls) /\ starts \in Seq(Calls)
           /\ requested \in Seq(Intents) /\ sent \in Seq(Intents)
           /\ \A n \in 1 .. Len(requested) : requested[n] \in Intents
BY BoundsAssumption, LenProperties, ElementOfSeq DEF IInv, TypeOK

-----------------------------------------------------------------------------
(* Steps that move no start command and no job.                            *)

\* A job that ends, its progress, and the other service.
LEMMA OtherStep ==
    ASSUME IInv, UpdateProgress \/ ServerStarts \/ ServerStops \/ JobEnd \/ UNCHANGED vars
    PROVE  IInv'
<1>1. UNCHANGED <<shares, requested, sent, settled, starts, main, fields, alive, started, deaths>>
  BY DEF UpdateProgress, ServerStarts, ServerStops, JobEnd, vars, history, looper
<1>2. /\ job' \in Intents \cup {NoIntent}
      /\ foreground' \in BOOLEAN /\ serverForeground' \in BOOLEAN
  BY DEF UpdateProgress, ServerStarts, ServerStops, JobEnd, StopForeground, vars, shown, IInv, TypeOK
<1>3. notification' \in {"none", "server", "resolving", "progress"}
  BY DEF UpdateProgress, ServerStarts, ServerStops, JobEnd, StopForeground, vars, shown, IInv, TypeOK
<1>4. TypeOK'
  BY <1>1, <1>2, <1>3 DEF IInv, TypeOK
<1>5. (Ordered /\ FieldsAreNewest /\ NothingIsLost /\ NoDeaths /\ HandledIsSent /\ AskedIsStarted /\ NeverStale)'
  BY <1>1 DEF IInv, Ordered, FieldsAreNewest, NothingIsLost, NoDeaths, HandledIsSent, AskedIsStarted, NeverStale
<1> QED BY <1>4, <1>5 DEF IInv

-----------------------------------------------------------------------------
(* Steps that move calls.                                                  *)

LEMMA ArriveStep == ASSUME IInv, Arrive PROVE IInv'
<1> DEFINE c == Head(starts)
<1> USE Facts
<1>1. /\ starts # << >> /\ main' = Append(main, c) /\ starts' = Tail(starts)
      /\ UNCHANGED <<shares, requested, sent, settled, fields, job, alive, started, shown, deaths>>
  BY DEF Arrive, history
<1>2. c \in Calls /\ main' \in Seq(Calls) /\ starts' \in Seq(Calls)
  BY <1>1, HeadTailProperties, AppendProperties
<1>3. c.call # "job" /\ c.number \in Nat
  <2>1. c.number \in Nat
    BY <1>2 DEF Calls
  <2> QED BY <1>1, <2>1, HasMoves DEF IInv, Ordered
<1>4. \A what, n : /\ Has(main', what, n) <=> Has(main, what, n) \/ (c.call = what /\ c.number = n)
                   /\ Has(starts, what, n) <=> Has(starts', what, n) \/ (c.call = what /\ c.number = n)
  BY <1>1, <1>2, HasMoves
<1> HIDE DEF c
<1>5. TypeOK'
  BY <1>1, <1>2 DEF IInv, TypeOK, shown
<1>6. \E mid \in Nat :
        /\ settled <= mid /\ mid <= Len(requested)
        /\ Waits(main', "start", settled, mid) /\ Waits(starts', "start", mid, Len(requested))
  <2>1. PICK mid \in Nat : /\ settled <= mid /\ mid <= Len(requested)
                           /\ Waits(main, "start", settled, mid)
                           /\ Waits(starts, "start", mid, Len(requested))
    BY DEF IInv, Ordered
  <2>2. CASE Is(c, "start")
    <3>1. /\ mid < c.number /\ c.number <= Len(requested)
          /\ Waits(starts', "start", c.number, Len(requested))
      BY <1>1, <2>1, <2>2, TailWaits DEF c
    <3>2. Waits(main', "start", settled, c.number)
      <4> DEFINE n == c.number
      <4>1. n \in Nat /\ mid < n /\ mid <= n /\ n <= n
        BY <1>3, <3>1
      <4> HIDE DEF n
      <4>2. Is(c, "start") => mid < c.number /\ c.number <= n
        BY <4>1 DEF n
      <4>3. Waits(Append(main, c), "start", settled, n)
        BY <1>2, <2>1, <4>1, <4>2, AppendWaits
      <4> QED BY <1>1, <4>3 DEF n
    <3> QED BY <1>3, <2>1, <3>1, <3>2
  <2>3. CASE ~Is(c, "start")
    <3>1. Waits(starts', "start", mid, Len(requested))
      BY <1>1, <2>1, TailWaits
    <3>2. Waits(main', "start", settled, mid)
      BY <1>1, <1>2, <2>1, <2>3, AppendWaits
    <3> QED BY <2>1, <3>1, <3>2
  <2> QED BY <2>2, <2>3
<1>7. Waits(main', "job", Len(sent), settled)
  <2>1. ~Is(c, "job")
    BY <1>3 DEF Is
  <2>2. Len(sent) <= settled /\ Waits(main, "job", Len(sent), settled)
    BY DEF IInv, Ordered
  <2> QED BY <1>1, <1>2, <2>1, <2>2, AppendWaits
<1>8. Ordered'
  BY <1>1, <1>3, <1>4, <1>6, <1>7 DEF IInv, Ordered
<1>9. FieldsAreNewest' /\ NothingIsLost' /\ NoDeaths' /\ HandledIsSent' /\ AskedIsStarted' /\ NeverStale'
  <2>1. NothingIsLost'
    BY <1>1, <1>4 DEF IInv, NothingIsLost
  <2> QED
    BY <1>1, <1>3, <1>4, <2>1
    DEF IInv, FieldsAreNewest, NoDeaths, HandledIsSent, AskedIsStarted, NeverStale
<1> QED BY <1>5, <1>8, <1>9 DEF IInv

\* The first call of the looper's queue, and what is left when it is taken.
LEMMA HandleFacts ==
    ASSUME IInv, NEW what, Handle(what)
    PROVE  /\ alive /\ main # << >> /\ Head(main).call = what /\ Head(main).number \in Nat
           /\ Head(main) \in Calls /\ Tail(main) \in Seq(Calls)
           /\ \A c, n : Has(main, c, n) <=>
                          Has(Tail(main), c, n) \/ (Head(main).call = c /\ Head(main).number = n)
           /\ Waits(Tail(main), "job", Len(sent), settled)
           /\ \E mid \in Nat :
                /\ settled <= mid /\ mid <= Len(requested)
                /\ Waits(Tail(main), "start", settled, mid)
                /\ Waits(starts, "start", mid, Len(requested))
                /\ Is(Head(main), "start") =>
                     /\ settled < Head(main).number /\ Head(main).number <= mid
                     /\ Waits(Tail(main), "start", Head(main).number, mid)
<1>1. alive /\ main # << >> /\ Head(main).call = what
  BY DEF Handle, MainIdle
<1>2. Head(main) \in Calls /\ Tail(main) \in Seq(Calls)
  BY <1>1, Facts, HeadTailProperties
<1>3. Head(main).number \in Nat
  BY <1>2 DEF Calls
<1>4. \A c, n : Has(main, c, n) <=>
                  Has(Tail(main), c, n) \/ (Head(main).call = c /\ Head(main).number = n)
  BY <1>1, Facts, HasMoves
<1>5. Waits(Tail(main), "job", Len(sent), settled)
  BY <1>1, Facts, TailWaits DEF IInv, Ordered
<1>6. PICK mid \in Nat : /\ settled <= mid /\ mid <= Len(requested)
                         /\ Waits(main, "start", settled, mid)
                         /\ Waits(starts, "start", mid, Len(requested))
  BY DEF IInv, Ordered
<1>7. /\ Waits(Tail(main), "start", settled, mid)
      /\ Is(Head(main), "start") =>
           /\ settled < Head(main).number /\ Head(main).number <= mid
           /\ Waits(Tail(main), "start", Head(main).number, mid)
  BY <1>1, <1>6, Facts, TailWaits
<1> QED BY <1>1, <1>2, <1>3, <1>4, <1>5, <1>6, <1>7

LEMMA OnCreateStep == ASSUME IInv, OnCreate PROVE IInv'
<1>1. /\ Handle("create") /\ main' = Tail(main)
      /\ UNCHANGED <<shares, requested, sent, settled, starts, fields, job, alive, started, shown, deaths>>
  BY DEF OnCreate, history
<1>2. TypeOK'
  BY <1>1, HandleFacts DEF IInv, TypeOK, shown
<1>3. Ordered'
  BY <1>1, HandleFacts DEF IInv, Ordered
<1>4. \A c, n : c # "create" => (Has(main', c, n) <=> Has(main, c, n))
  BY <1>1, HandleFacts
<1>5. FieldsAreNewest' /\ NothingIsLost' /\ NoDeaths' /\ HandledIsSent' /\ AskedIsStarted' /\ NeverStale'
  BY <1>1, <1>4 DEF IInv, FieldsAreNewest, NothingIsLost, NoDeaths, HandledIsSent, AskedIsStarted, NeverStale
<1> QED BY <1>2, <1>3, <1>5 DEF IInv

\* The start command that is handled next is the first that is not settled.
LEMMA NextStart == ASSUME IInv, OnStartCommand PROVE Head(main).number = settled + 1
<1> DEFINE n == Head(main).number
           f == settled + 1
<1>1. Handle("start") /\ n # 0
  BY DEF OnStartCommand
<1>2. n \in Nat /\ Is(Head(main), "start")
  BY <1>1, HandleFacts DEF Is
<1>3. PICK mid \in Nat :
        /\ settled < n /\ n <= mid /\ mid <= Len(requested)
        /\ Waits(Tail(main), "start", n, mid) /\ Waits(starts, "start", mid, Len(requested))
  BY <1>1, <1>2, HandleFacts
<1>4. f \in settled + 1 .. Len(requested) /\ f \in Nat /\ f # 0 /\ f <= n
  BY <1>2, <1>3, Facts
<1>5. Has(main, "start", f) \/ Has(starts, "start", f)
  BY <1>4 DEF IInv, NothingIsLost
<1> HIDE DEF f
<1>6. Has(main, "start", f) <=> Has(Tail(main), "start", f) \/ n = f
  BY <1>1, HandleFacts
<1>7. Has(Tail(main), "start", f) => n < f
  BY <1>3, <1>4, HasWaits
<1>8. Has(starts, "start", f) => mid < f
  BY <1>3, <1>4, HasWaits
<1>9. n = f
  BY <1>2, <1>3, <1>4, <1>5, <1>6, <1>7, <1>8
<1> QED BY <1>9 DEF f

LEMMA OnStartCommandStep == ASSUME IInv, OnStartCommand PROVE IInv'
<1> DEFINE n == Head(main).number
           rest == Tail(main)
           c == Call("job", n)
<1>1. /\ Handle("start") /\ n # 0 /\ fields' = requested[n] /\ settled' = n
      /\ main' = Append(rest, c) /\ foreground' = TRUE /\ notification' = "resolving"
      /\ UNCHANGED <<shares, requested, sent, starts, job, alive, started, serverForeground, deaths>>
  BY DEF OnStartCommand, SetFields, Started, StartForeground, PostJob, history
<1>2. /\ rest \in Seq(Calls) /\ Is(Head(main), "start") /\ n \in Nat
      /\ Waits(rest, "job", Len(sent), settled)
  BY <1>1, HandleFacts DEF Is
<1>3. PICK mid \in Nat :
        /\ settled < n /\ n <= mid /\ mid <= Len(requested)
        /\ Waits(rest, "start", n, mid) /\ Waits(starts, "start", mid, Len(requested))
  BY <1>1, <1>2, HandleFacts
<1>4. c \in Calls /\ c.call = "job" /\ c.number = n /\ ~Is(c, "start")
  BY <1>2 DEF Call, Calls, Is
<1>5. /\ settled \in Nat /\ Len(requested) \in Nat /\ Len(sent) \in Nat /\ Len(sent) <= settled
      /\ requested[n] \in Intents
  <2>1. n \in 1 .. Len(requested)
    BY <1>1, <1>2, <1>3, Facts
  <2> QED BY <2>1, Facts DEF IInv, Ordered
<1> HIDE DEF n, rest, c
<1>6. \A d, k : /\ Has(main, d, k) <=> Has(rest, d, k) \/ (d = "start" /\ k = n)
                /\ Has(main', d, k) <=> Has(rest, d, k) \/ (d = "job" /\ k = n)
  <2>1. \A d, k : Has(main', d, k) <=> Has(rest, d, k) \/ (c.call = d /\ c.number = k)
    BY <1>1, <1>2, <1>4, HasMoves
  <2>2. \A d, k : Has(main, d, k) <=> Has(rest, d, k) \/ (Head(main).call = d /\ n = k)
    BY <1>1, HandleFacts DEF n, rest
  <2>3. Head(main).call = "start"
    BY <1>1, HandleFacts
  <2> QED BY <1>4, <2>1, <2>2, <2>3
<1>7. main' \in Seq(Calls)
  BY <1>1, <1>2, <1>4, AppendProperties
<1>8. TypeOK'
  <2>1. settled' \in 0 .. Len(requested')
    BY <1>1, <1>2, <1>3, <1>5
  <2> QED BY <1>1, <1>5, <1>7, <2>1 DEF IInv, TypeOK
<1>9. Waits(main', "start", n, mid)
  <2>1. n <= mid /\ mid <= mid
    BY <1>2, <1>3
  <2> QED BY <1>1, <1>2, <1>3, <1>4, <2>1, AppendWaits
<1>10. Waits(main', "job", Len(sent), n)
  <2>1. settled <= n /\ n <= n
    BY <1>2, <1>3, <1>5
  <2> QED BY <1>1, <1>2, <1>3, <1>4, <1>5, <2>1, AppendWaits
<1>11. Ordered'
  <2>1. Len(sent) <= n
    BY <1>2, <1>3, <1>5
  <2> QED BY <1>1, <1>2, <1>3, <1>6, <1>9, <1>10, <2>1 DEF IInv, Ordered
<1>12. FieldsAreNewest' /\ HandledIsSent'
  <2>1. Has(main', "job", n)
    BY <1>6
  <2> QED BY <1>1, <1>2, <2>1 DEF FieldsAreNewest, HandledIsSent
<1>13. NothingIsLost'
  \* It is the first that is not settled: the others wait behind it.
  <2>1. ASSUME NEW k \in settled + 1 .. Len(requested), k # n
        PROVE  n < k /\ (Has(rest, "start", k) \/ Has(starts, "start", k))
    <3>1. Has(rest, "start", k) \/ Has(starts, "start", k)
      BY <1>6, <2>1 DEF IInv, NothingIsLost
    <3>2. k \in Nat /\ k # 0
      BY <1>5, <2>1
    <3>3. Has(rest, "start", k) => n < k
      BY <1>3, <3>2, HasWaits
    <3>4. Has(starts, "start", k) => mid < k
      BY <1>3, <3>2, HasWaits
    <3> QED BY <1>2, <1>3, <3>1, <3>2, <3>3, <3>4
  <2>2. \A k \in n + 1 .. Len(requested) : k \in settled + 1 .. Len(requested) /\ k # n
    BY <1>2, <1>3, <1>5
  <2>3. \A k \in n + 1 .. Len(requested) : Has(main', "start", k) \/ Has(starts, "start", k)
    BY <1>6, <2>1, <2>2
  <2>4. ASSUME deaths = 0, NEW k \in Len(sent) + 1 .. n PROVE Has(main', "job", k)
    <3>1. CASE k \in Len(sent) + 1 .. settled
      BY <1>6, <2>4, <3>1 DEF IInv, NothingIsLost
    <3>2. CASE k \notin Len(sent) + 1 .. settled
      <4>1. k \in settled + 1 .. Len(requested) /\ ~(n < k)
        BY <1>2, <1>3, <1>5, <2>4, <3>2
      <4>2. k = n
        BY <2>1, <4>1
      <4> QED BY <1>6, <4>2
    <3> QED BY <3>1, <3>2
  <2> QED BY <1>1, <2>3, <2>4 DEF NothingIsLost
<1>14. NoDeaths' /\ AskedIsStarted' /\ NeverStale'
  <2>1. n < Len(requested) => settled < Len(requested)
    BY <1>2, <1>3, <1>5
  <2> QED BY <1>1, <1>6, <2>1 DEF IInv, NoDeaths, AskedIsStarted, NeverStale
<1> QED BY <1>8, <1>11, <1>12, <1>13, <1>14 DEF IInv

\* The job that runs next is that of the first start command not sent.
LEMMA NextJob == ASSUME IInv, Execute, deaths = 0 PROVE Head(main).number = Len(sent) + 1
<1> DEFINE n == Head(main).number
           f == Len(sent) + 1
<1>1. Handle("job")
  BY DEF Execute
<1>2. n \in Nat /\ Has(main, "job", n) /\ Head(main).call = "job"
  BY <1>1, HandleFacts
<1>3. Is(Head(main), "job")
  BY <1>2 DEF IInv, Ordered, Is
<1>4. settled \in Nat /\ Len(sent) \in Nat /\ main \in Seq(Calls) /\ main # << >>
  BY <1>1, Facts, HandleFacts
<1>5. Len(sent) < n /\ n <= settled /\ Waits(Tail(main), "job", n, settled)
  BY <1>3, <1>4, TailWaits DEF IInv, Ordered
<1>6. f \in Len(sent) + 1 .. settled /\ f \in Nat /\ f # 0 /\ f <= n
  BY <1>2, <1>4, <1>5
<1>7. Has(main, "job", f)
  BY <1>6 DEF IInv, NothingIsLost
<1> HIDE DEF f
<1>8. Has(main, "job", f) <=> Has(Tail(main), "job", f) \/ n = f
  BY <1>1, HandleFacts
<1>9. Has(Tail(main), "job", f) => n < f
  BY <1>5, <1>6, HasWaits
<1>10. n = f
  BY <1>2, <1>6, <1>7, <1>8, <1>9
<1> QED BY <1>10 DEF f

LEMMA ExecuteStep == ASSUME IInv, Execute PROVE IInv'
<1> DEFINE n == Head(main).number
           rest == Tail(main)
<1>1. /\ Handle("job") /\ main' = rest /\ job' = fields /\ sent' = Append(sent, fields)
      /\ UNCHANGED <<shares, requested, settled, starts, fields, alive, started, shown, deaths>>
  BY DEF Execute
<1>2. /\ rest \in Seq(Calls) /\ n \in Nat /\ Head(main) \in Calls /\ main # << >>
      /\ Has(main, "job", n) /\ Head(main).call = "job"
      /\ \A d, k : Has(main, d, k) <=> Has(rest, d, k) \/ (d = "job" /\ n = k)
  BY <1>1, HandleFacts
<1>3. n # 0 /\ Is(Head(main), "job")
  BY <1>2 DEF IInv, Ordered, Is
<1>4. /\ settled \in Nat /\ Len(requested) \in Nat /\ Len(sent) \in Nat
      /\ settled <= Len(requested) /\ Len(sent) <= settled /\ sent \in Seq(Intents)
  BY Facts DEF IInv, Ordered
<1>5. Len(sent) < n /\ n <= settled /\ Waits(rest, "job", n, settled)
  BY <1>2, <1>3, <1>4, Facts, TailWaits DEF IInv, Ordered
<1>6. fields = requested[settled] /\ fields \in Intents
  <2>1. settled \in 1 .. Len(requested)
    BY <1>2, <1>4, <1>5
  <2> QED BY <1>2, <2>1, Facts DEF IInv, FieldsAreNewest
<1>7. /\ sent' \in Seq(Intents) /\ Len(sent') = Len(sent) + 1 /\ sent'[Len(sent')] = fields
      /\ sent' # << >> /\ DOMAIN sent' = 1 .. Len(sent) + 1 /\ DOMAIN sent = 1 .. Len(sent)
      /\ \A i \in DOMAIN sent : sent'[i] = sent[i]
  <2>1. /\ sent' \in Seq(Intents) /\ Len(sent') = Len(sent) + 1
        /\ \A i \in 1 .. Len(sent) : sent'[i] = sent[i]
        /\ sent'[Len(sent) + 1] = fields
    BY <1>1, <1>4, <1>6, AppendProperties
  <2>2. DOMAIN sent' = 1 .. Len(sent') /\ DOMAIN sent = 1 .. Len(sent)
    BY <1>4, <2>1, LenProperties
  <2>3. sent' # << >>
    BY <1>4, <2>1
  <2> QED BY <2>1, <2>2, <2>3
<1> HIDE DEF n, rest
<1>8. TypeOK'
  BY <1>1, <1>2, <1>6, <1>7 DEF IInv, TypeOK, shown
<1>9. Ordered'
  <2>1. Waits(main', "job", Len(sent'), settled')
    <3>1. \A i \in DOMAIN rest : rest[i].number \in Nat
      BY <1>2, SeqElements
    <3> QED BY <1>1, <1>2, <1>4, <1>5, <1>7, <3>1 DEF Waits
  <2>2. Len(sent') <= settled'
    BY <1>1, <1>2, <1>4, <1>5, <1>7
  <2>3. PICK mid \in Nat : /\ settled <= mid /\ mid <= Len(requested)
                           /\ Waits(rest, "start", settled, mid)
                           /\ Waits(starts, "start", mid, Len(requested))
    BY <1>1, HandleFacts DEF rest
  <2> QED BY <1>1, <1>2, <2>1, <2>2, <2>3 DEF IInv, Ordered
<1>10. FieldsAreNewest' /\ NothingIsLost' /\ NoDeaths' /\ AskedIsStarted'
  <2>1. \A k \in settled + 1 .. Len(requested) : Has(main', "start", k) \/ Has(starts, "start", k)
    BY <1>1, <1>2 DEF IInv, NothingIsLost
  <2>2. ASSUME deaths = 0, NEW k \in Len(sent') + 1 .. settled PROVE Has(rest, "job", k)
    <3>1. n = Len(sent) + 1
      BY <2>2, NextJob DEF n
    <3>2. k \in Len(sent) + 1 .. settled /\ k # n
      BY <1>4, <1>7, <2>2, <3>1
    <3>3. Has(main, "job", k)
      BY <2>2, <3>2 DEF IInv, NothingIsLost
    <3> QED BY <1>2, <3>2, <3>3
  <2>3. NothingIsLost'
    BY <1>1, <2>1, <2>2 DEF NothingIsLost
  <2> QED BY <1>1, <1>2, <2>3 DEF IInv, FieldsAreNewest, NoDeaths, AskedIsStarted
<1>11. HandledIsSent'
  BY <1>1, <1>6, <1>7 DEF HandledIsSent
<1>12. NeverStale'
  <2>1. ASSUME NEW i \in DOMAIN sent' PROVE \E j \in i .. Len(requested) : sent'[i] = requested[j]
    <3>1. CASE i \in DOMAIN sent
      BY <1>7, <3>1 DEF IInv, NeverStale
    <3>2. CASE i \notin DOMAIN sent
      <4>1. i = Len(sent) + 1
        BY <1>4, <1>7, <3>2
      <4>2. settled \in i .. Len(requested)
        BY <1>2, <1>4, <1>5, <4>1
      <4> QED BY <1>6, <1>7, <4>1, <4>2
    <3> QED BY <3>1, <3>2
  <2> QED BY <1>1, <2>1 DEF NeverStale
<1> QED BY <1>8, <1>9, <1>10, <1>11, <1>12 DEF IInv

-----------------------------------------------------------------------------
(* Steps of the system, which bring new start commands or old ones again.  *)

\* Start commands with successive numbers.
LEMMA NumberedCalls ==
    ASSUME NEW k \in Nat, NEW m \in Nat, NEW q \in Seq(Calls), DOMAIN q = 1 .. m,
           \A i \in 1 .. m : q[i].call = "start" /\ q[i].number = k + i
    PROVE  /\ Waits(q, "start", k, k + m)
           /\ \A what, n : Has(q, what, n) => what = "start" /\ n # 0
           /\ \A n \in k + 1 .. k + m : Has(q, "start", n)
<1>1. \A i \in DOMAIN q : k < q[i].number /\ q[i].number <= k + m /\ q[i].number # 0
  OBVIOUS
<1>2. \A i, j \in DOMAIN q : i < j => q[i].number < q[j].number
  OBVIOUS
<1>3. Waits(q, "start", k, k + m)
  BY <1>1, <1>2 DEF Waits
<1>4. \A what, n : Has(q, what, n) => what = "start" /\ n # 0
  BY <1>1 DEF Has
<1>5. ASSUME NEW n \in k + 1 .. k + m PROVE Has(q, "start", n)
  <2>1. n - k \in 1 .. m /\ k + (n - k) = n
    OBVIOUS
  <2> QED BY <2>1 DEF Has
<1> QED BY <1>3, <1>4, <1>5

LEMMA Numbered ==
    ASSUME NEW k \in Nat, NEW m \in Nat
    PROVE  LET q == [i \in 1 .. m |-> Call("start", k + i)]
           IN  /\ q \in Seq(Calls) /\ DOMAIN q = 1 .. m
               /\ \A i \in 1 .. m : q[i].call = "start" /\ q[i].number = k + i
<1> DEFINE q == [i \in 1 .. m |-> Call("start", k + i)]
<1>1. \A i \in 1 .. m : Call("start", k + i) \in Calls
  BY DEF Call, Calls
<1>2. q \in Seq(Calls)
  BY <1>1, IsASeq
<1>3. \A i \in 1 .. m : q[i].call = "start" /\ q[i].number = k + i
  BY DEF Call
<1> QED BY <1>2, <1>3

\* A queue of one call.
LEMMA OneCall ==
    ASSUME NEW c \in Calls
    PROVE  /\ << c >> \in Seq(Calls)
           /\ \A what, n : Has(<< c >>, what, n) <=> c.call = what /\ c.number = n
           /\ \A what, lo, hi : ~Is(c, what) => Waits(<< c >>, what, lo, hi)
<1>1. << c >> \in Seq(Calls) /\ DOMAIN << c >> = {1} /\ << c >>[1] = c
  OBVIOUS
<1>2. \A what, n : Has(<< c >>, what, n) <=> c.call = what /\ c.number = n
  BY <1>1 DEF Has
<1>3. \A what, lo, hi : ~Is(c, what) => Waits(<< c >>, what, lo, hi)
  BY <1>1 DEF Waits
<1> QED BY <1>1, <1>2, <1>3

\* The start commands from some one on, as the system delivers them.
LEMMA UnhandledCalls ==
    ASSUME NEW k \in Nat, Len(requested) \in Nat, k <= Len(requested)
    PROVE  /\ Unhandled(k) \in Seq(Calls) /\ Waits(Unhandled(k), "start", k, Len(requested))
           /\ \A what, n : Has(Unhandled(k), what, n) => what = "start" /\ n # 0
           /\ \A n \in k + 1 .. Len(requested) : Has(Unhandled(k), "start", n)
<1>1. PICK m : m \in Nat /\ k + m = Len(requested) /\ m = Len(requested) - k
  OBVIOUS
<1>2. PICK u : u = Unhandled(k)
  OBVIOUS
<1>3. /\ u \in Seq(Calls) /\ DOMAIN u = 1 .. m
      /\ \A i \in 1 .. m : u[i].call = "start" /\ u[i].number = k + i
  <2>1. u = [i \in 1 .. m |-> Call("start", k + i)]
    BY <1>1, <1>2 DEF Unhandled
  <2> QED BY <1>1, <2>1, Numbered
<1>4. /\ Waits(u, "start", k, k + m)
      /\ \A what, n : Has(u, what, n) => what = "start" /\ n # 0
      /\ \A n \in k + 1 .. k + m : Has(u, "start", n)
  BY ONLY k \in Nat, <1>1, <1>3, NumberedCalls, ZenonT(30)
<1> QED BY <1>1, <1>2, <1>3, <1>4

\* Whatever the system gives up, the start commands after that come again.
LEMMA DieStep == ASSUME IInv, StartWithoutIntent \/ ProcessDeath PROVE IInv'
<1>1. /\ alive' = FALSE /\ main' = << >> /\ fields' = NoIntent /\ job' = NoIntent
      /\ foreground' = FALSE /\ serverForeground' = FALSE
      /\ notification' \in {notification, "none"}
      /\ UNCHANGED <<shares, requested, sent>>
  BY DEF StartWithoutIntent, ProcessDeath, Die, history
<1>2. deaths' \in 0 .. MaxDeaths /\ deaths' # 0
  <2>1. CASE ProcessDeath
    BY <2>1, BoundsAssumption DEF ProcessDeath, IInv, TypeOK
  <2>2. CASE StartWithoutIntent
    <3>1. Has(main, "start", 0)
      BY <2>2, HandleFacts DEF StartWithoutIntent
    <3> QED BY <2>2, <3>1 DEF StartWithoutIntent, IInv, TypeOK, NoDeaths
  <2> QED BY <2>1, <2>2
<1>3. PICK k : /\ k = settled' /\ starts' = Unhandled(k)
               /\ k \in Nat /\ settled <= k /\ k <= Len(requested)
               /\ started' \in BOOLEAN /\ (k < Len(requested) => started')
  <2>1. settled' \in {settled} \/ settled' \in settled .. Len(requested)
    BY DEF StartWithoutIntent, ProcessDeath, Die
  <2>2. settled' \in Nat /\ settled <= settled' /\ settled' <= Len(requested)
    BY <2>1, Facts
  <2>3. started' = started \/ (~(settled' < Len(requested)) /\ started' = FALSE)
    BY DEF StartWithoutIntent, ProcessDeath, Die
  <2>4. started \in BOOLEAN /\ (settled < Len(requested) => started)
    BY DEF IInv, TypeOK, AskedIsStarted
  <2>5. settled' < Len(requested) => settled < Len(requested)
    BY <2>2, Facts
  <2>6. starts' = Unhandled(settled')
    BY DEF StartWithoutIntent, ProcessDeath, Die
  <2> QED BY <2>2, <2>3, <2>4, <2>5, <2>6
<1>4. /\ starts' \in Seq(Calls) /\ Waits(starts', "start", k, Len(requested))
      /\ \A what, n : Has(starts', what, n) => what = "start" /\ n # 0
      /\ \A n \in k + 1 .. Len(requested) : Has(starts', "start", n)
  BY <1>3, Facts, UnhandledCalls
<1>5. /\ \A what, lo, hi : Waits(main', what, lo, hi)
      /\ \A what, n : ~Has(main', what, n)
  BY <1>1 DEF Waits, Has
<1>6. TypeOK'
  <2>1. main' \in Seq(Calls)
    BY <1>1, EmptySeq
  <2>2. settled' \in 0 .. Len(requested)
    BY <1>3, Facts
  <2>3. started' \in BOOLEAN
    BY <1>3
  <2> QED BY <1>1, <1>2, <1>4, <2>1, <2>2, <2>3 DEF IInv, TypeOK
<1>7. Ordered'
  <2>1. k \in Nat /\ k <= k /\ k <= Len(requested) /\ Len(sent) <= k
    BY <1>3, Facts DEF IInv, Ordered
  <2>2. \A n \in Nat : ~Has(starts', "job", n)
    BY <1>4
  <2> QED BY <1>1, <1>3, <1>4, <1>5, <2>1, <2>2 DEF Ordered
<1>8. FieldsAreNewest' /\ NoDeaths' /\ HandledIsSent' /\ NeverStale'
  BY <1>1, <1>2, <1>5 DEF IInv, FieldsAreNewest, NoDeaths, HandledIsSent, NeverStale
<1>9. AskedIsStarted'
  BY <1>1, <1>3 DEF AskedIsStarted
<1>10. NothingIsLost'
  BY <1>1, <1>2, <1>3, <1>4 DEF NothingIsLost
<1> QED BY <1>6, <1>7, <1>8, <1>9, <1>10 DEF IInv

\* The system's call that comes before the first start command.
LEMMA CreateCall ==
    /\ Call("create", 0) \in Calls /\ Call("start", 0) \in Calls
    /\ \A what : ~Is(Call("create", 0), what) /\ ~Is(Call("start", 0), what)
    /\ Call("create", 0).call = "create" /\ Call("start", 0).call = "start"
BY DEF Call, Calls, Is

LEMMA RestartStep == ASSUME IInv, Restart PROVE IInv'
<1> DEFINE again == IF starts = << >> THEN << Call("start", 0) >> ELSE starts
<1>1. /\ ~alive /\ alive' = TRUE
      /\ starts' = IF ~started THEN << >> ELSE << Call("create", 0) >> \o again
      /\ UNCHANGED <<shares, requested, sent, settled, main, fields, job, started, shown, deaths>>
  BY DEF Restart, history
<1>2. PICK mid \in Nat : /\ settled <= mid /\ mid <= Len(requested)
                         /\ Waits(main, "start", settled, mid)
                         /\ Waits(starts, "start", mid, Len(requested))
  BY DEF IInv, Ordered
<1>3. /\ again \in Seq(Calls) /\ Waits(again, "start", mid, Len(requested))
      /\ \A n : n # 0 => (Has(starts, "start", n) => Has(again, "start", n))
      /\ \A n \in Nat : ~Has(again, "job", n)
  <2>1. CASE starts = << >>
    <3>1. \A what, n : ~Has(starts, what, n)
      BY <2>1 DEF Has
    <3> QED BY <2>1, <3>1, CreateCall, OneCall
  <2>2. CASE starts # << >>
    BY <1>2, <2>2, Facts DEF IInv, Ordered
  <2> QED BY <2>1, <2>2
<1> HIDE DEF again
<1>4. /\ starts' \in Seq(Calls) /\ Waits(starts', "start", mid, Len(requested))
      /\ \A n \in Nat : ~Has(starts', "job", n)
  <2>1. CASE ~started
    <3>1. starts' = << >>
      BY <1>1, <2>1
    <3> QED BY <3>1, EmptySeq DEF Waits, Has
  <2>2. CASE started
    <3>1. starts' = << Call("create", 0) >> \o again
      BY <1>1, <2>2
    <3>2. /\ << Call("create", 0) >> \in Seq(Calls) /\ Waits(<< Call("create", 0) >>, "start", mid, mid)
          /\ \A n : ~Has(<< Call("create", 0) >>, "job", n)
      BY CreateCall, OneCall
    <3>3. starts' \in Seq(Calls) /\ Waits(starts', "start", mid, Len(requested))
      <4>1. mid <= mid /\ mid <= Len(requested) /\ Len(requested) \in Nat
        BY <1>2, Facts
      <4> QED BY <1>3, <3>1, <3>2, <4>1, ConcatWaits
    <3> QED BY <1>3, <3>1, <3>2, <3>3, HasMoves
  <2> QED BY <2>1, <2>2 DEF IInv, TypeOK
<1>5. NothingIsLost'
  <2>1. ASSUME NEW n \in settled + 1 .. Len(requested)
        PROVE  Has(main, "start", n) \/ Has(starts', "start", n)
    <3>1. started
      <4>1. settled < Len(requested)
        BY <2>1, Facts
      <4> QED BY <4>1 DEF IInv, AskedIsStarted
    <3>2. n # 0 /\ (Has(main, "start", n) \/ Has(starts, "start", n))
      BY <2>1, Facts DEF IInv, NothingIsLost
    <3>3. << Call("create", 0) >> \in Seq(Calls)
      BY CreateCall, OneCall
    <3>4. Has(starts, "start", n) => Has(starts', "start", n)
      BY <1>1, <1>3, <3>1, <3>2, <3>3, HasMoves
    <3> QED BY <3>2, <3>4
  <2> QED BY <1>1, <2>1 DEF IInv, NothingIsLost
<1>6. TypeOK'
  BY <1>1, <1>4 DEF IInv, TypeOK, shown
<1>7. Ordered'
  BY <1>1, <1>2, <1>4 DEF IInv, Ordered
<1>8. FieldsAreNewest' /\ NoDeaths' /\ HandledIsSent' /\ AskedIsStarted' /\ NeverStale'
  BY <1>1 DEF IInv, FieldsAreNewest, NoDeaths, HandledIsSent, AskedIsStarted, NeverStale
<1> QED BY <1>5, <1>6, <1>7, <1>8 DEF IInv

\* A share adds requests, and their start commands behind all others.
LEMMA SendStep ==
    ASSUME IInv, NEW selected \in Selections, Send(selected)
    PROVE  IInv'
<1> DEFINE intents == [i \in DOMAIN selected |-> [receiverId |-> selected[i], files |-> shares']]
           creates == IF started THEN << >> ELSE << Call("create", 0) >>
           hi == Len(requested)
<1>1. /\ shares < MaxShares /\ shares' = shares + 1 /\ requested' = requested \o intents
      /\ starts' = starts \o creates \o [i \in DOMAIN intents |-> Call("start", hi + i)]
      /\ started' = TRUE
      /\ UNCHANGED <<sent, settled, main, fields, job, alive, shown, deaths>>
  BY DEF Send
<1>2. PICK m \in Nat : m > 0 /\ selected \in [1 .. m -> Receivers]
  <2>1. Cardinality(Receivers) \in Nat
    BY ReceiversAssumption, FS_CardinalityType
  <2> QED BY <2>1 DEF Selections
<1>3. shares' \in 1 .. MaxShares
  BY <1>1, BoundsAssumption DEF IInv, TypeOK
<1>4. intents \in Seq(Intents) /\ Len(intents) = m /\ DOMAIN intents = 1 .. m
  <2>1. \A i \in 1 .. m : [receiverId |-> selected[i], files |-> shares'] \in Intents
    BY <1>2, <1>3 DEF Intents
  <2>2. intents = [i \in 1 .. m |-> [receiverId |-> selected[i], files |-> shares']]
    BY <1>2
  <2> HIDE DEF intents
  <2>3. intents \in [1 .. m -> Intents]
    BY <2>1, <2>2
  <2> QED BY <1>2, <2>3
<1>5. /\ creates \in Seq(Calls) /\ \A lo : Waits(creates, "start", lo, lo)
      /\ \A n : ~Has(creates, "job", n) /\ (deaths = 0 => ~Has(creates, "start", n))
  <2>1. CASE started
    BY <2>1, EmptySeq DEF Waits, Has
  <2>2. CASE ~started
    BY <2>2, CreateCall, OneCall
  <2> QED BY <2>1, <2>2
<1> HIDE DEF intents, creates
<1>6. PICK new : /\ starts' = starts \o creates \o new
                 /\ new \in Seq(Calls) /\ Waits(new, "start", hi, hi + m)
                 /\ \A what, n : Has(new, what, n) => what = "start" /\ n # 0
                 /\ \A n \in hi + 1 .. hi + m : Has(new, "start", n)
  <2> DEFINE new == [i \in 1 .. m |-> Call("start", hi + i)]
  <2>1. starts' = starts \o creates \o new
    BY <1>1, <1>4
  <2>2. /\ new \in Seq(Calls) /\ DOMAIN new = 1 .. m
        /\ \A i \in 1 .. m : new[i].call = "start" /\ new[i].number = hi + i
    BY Facts, Numbered
  <2> HIDE DEF new
  <2>3. /\ Waits(new, "start", hi, hi + m)
        /\ \A what, n : Has(new, what, n) => what = "start" /\ n # 0
        /\ \A n \in hi + 1 .. hi + m : Has(new, "start", n)
    BY <1>2, <2>2, Facts, NumberedCalls
  <2> QED BY <2>1, <2>2, <2>3
<1>7. /\ requested' \in Seq(Intents) /\ Len(requested') = hi + m
      /\ \A i \in 1 .. hi : requested'[i] = requested[i]
  <2>1. /\ requested' \in Seq(Intents) /\ Len(requested') = hi + m
        /\ \A i \in 1 .. hi + m : requested'[i] = IF i <= hi THEN requested[i] ELSE intents[i - hi]
    BY <1>1, <1>4, Facts, ConcatProperties
  <2>2. hi \in Nat
    BY Facts
  <2> QED BY <1>2, <2>1, <2>2
<1>8. PICK mid \in Nat : /\ settled <= mid /\ mid <= hi
                         /\ Waits(main, "start", settled, mid) /\ Waits(starts, "start", mid, hi)
  BY DEF IInv, Ordered
<1>9. starts' \in Seq(Calls) /\ Waits(starts', "start", mid, hi + m)
  <2>1. mid <= hi /\ hi <= hi /\ hi <= hi + m /\ hi \in Nat /\ hi + m \in Nat
    BY <1>2, <1>8, Facts
  <2>2. starts \o creates \in Seq(Calls) /\ Waits(starts \o creates, "start", mid, hi)
    BY <1>5, <1>8, <2>1, Facts, ConcatWaits
  <2> QED BY <1>6, <2>1, <2>2, ConcatWaits
<1>10. \A what, n : Has(starts', what, n) <=>
                     Has(starts, what, n) \/ Has(creates, what, n) \/ Has(new, what, n)
  <2>1. starts \o creates \in Seq(Calls)
    BY <1>5, Facts, ConcatProperties
  <2> QED BY <1>5, <1>6, <2>1, Facts, HasMoves
<1>11. TypeOK'
  <2>1. settled \in 0 .. Len(requested') /\ shares' \in 0 .. MaxShares
    BY <1>2, <1>3, <1>7, Facts, BoundsAssumption
  <2> QED BY <1>1, <1>7, <1>9, <2>1 DEF IInv, TypeOK, shown
<1>12. Ordered'
  <2>1. mid <= hi + m
    BY <1>2, <1>8, Facts
  <2>2. /\ settled' <= mid /\ mid <= Len(requested')
        /\ Waits(main', "start", settled', mid) /\ Waits(starts', "start", mid, Len(requested'))
    BY <1>1, <1>7, <1>8, <1>9, <2>1
  <2>3. ASSUME NEW n \in Nat PROVE ~Has(starts', "job", n)
    <3>1. ~Has(starts, "job", n)
      BY DEF IInv, Ordered
    <3>2. ~Has(creates, "job", n)
      BY <1>5
    <3>3. ~Has(new, "job", n)
      BY <1>6
    <3> QED BY <1>10, <3>1, <3>2, <3>3
  <2>4. /\ Len(sent') <= settled' /\ Waits(main', "job", Len(sent'), settled')
        /\ ~Has(main', "job", 0)
    BY <1>1 DEF IInv, Ordered
  <2> QED BY <2>2, <2>3, <2>4 DEF Ordered
<1>13. FieldsAreNewest'
  <2>1. ASSUME NEW n \in Nat, Has(main, "job", n) PROVE settled \in 1 .. hi
    <3>1. PICK i \in DOMAIN main : Is(main[i], "job") /\ main[i].number = n
      BY <2>1 DEF Has, IInv, Ordered, Is
    <3>2. Len(sent) < n /\ n <= settled
      BY <3>1 DEF IInv, Ordered, Waits
    <3> QED BY <3>2, Facts
  <2> QED BY <1>1, <1>7, <2>1 DEF IInv, FieldsAreNewest
<1>14. NothingIsLost' /\ AskedIsStarted'
  <2>1. ASSUME NEW n \in settled + 1 .. hi + m
        PROVE  Has(main, "start", n) \/ Has(starts', "start", n)
    <3>1. n \in settled + 1 .. hi \/ n \in hi + 1 .. hi + m
      BY <1>2, <2>1, Facts
    <3>2. CASE n \in settled + 1 .. hi
      BY <1>10, <3>2 DEF IInv, NothingIsLost
    <3>3. CASE n \in hi + 1 .. hi + m
      BY <1>6, <1>10, <3>3
    <3> QED BY <3>1, <3>2, <3>3
  <2>2. NothingIsLost'
    BY <1>1, <1>7, <2>1 DEF IInv, NothingIsLost
  <2> QED BY <1>1, <2>2 DEF AskedIsStarted
<1>15. NoDeaths'
  BY <1>1, <1>5, <1>6, <1>10 DEF IInv, NoDeaths
<1>16. HandledIsSent'
  <2>1. settled > 0 => settled \in 1 .. hi
    BY Facts
  <2> QED BY <1>1, <1>7, <2>1 DEF IInv, HandledIsSent
<1>17. NeverStale'
  <2>1. ASSUME NEW i \in DOMAIN sent PROVE \E j \in i .. hi + m : sent[i] = requested'[j]
    <3>1. PICK j \in i .. hi : sent[i] = requested[j]
      BY <2>1 DEF IInv, NeverStale
    <3>2. j \in 1 .. hi /\ j \in i .. hi + m
      BY <1>2, <2>1, Facts, LenProperties
    <3> QED BY <1>7, <3>1, <3>2
  <2> QED BY <1>1, <1>7, <2>1 DEF NeverStale
<1> QED BY <1>11, <1>12, <1>13, <1>14, <1>15, <1>16, <1>17 DEF IInv

-----------------------------------------------------------------------------

LEMMA StepIInv == IInv /\ [Next]_vars => IInv'
BY SendStep, ArriveStep, OnCreateStep, OnStartCommandStep, ExecuteStep, DieStep, RestartStep, OtherStep
DEF Next, MainThread

\* Start commands and jobs are in order, from the system to what was sent.
THEOREM Invariant == Spec => []IInv
BY InitIInv, StepIInv, PTL DEF Spec

\* The variables keep their types, and only intents are ever sent.
THEOREM TypeCorrect == Spec => []TypeOK
<1>1. IInv => TypeOK
  BY DEF IInv
<1> QED BY <1>1, Invariant, PTL

\* The i-th job never sends an older request than the i-th, for any shares and
\* any number of process deaths, whatever the system gives up.
THEOREM NeverStaleAlways == Spec => []NeverStale
<1>1. IInv => NeverStale
  BY DEF IInv
<1> QED BY <1>1, Invariant, PTL

\* A start command that onStartCommand has not returned from is on its way, over
\* any number of deaths, until the system gives it up, which it does not at the
\* first; and before the first death a job waits or has run for each one handled
\* (SendingForegroundService.onStartCommand, START_STICKY).
THEOREM NothingIsLostAlways == Spec => []NothingIsLost
<1>1. IInv => NothingIsLost
  BY DEF IInv
<1> QED BY <1>1, Invariant, PTL

LEMMA NothingAfter ==
    ASSUME NEW k \in Nat, NEW m \in Nat, k <= m, \A n \in k + 1 .. m : FALSE
    PROVE  k = m
<1> SUFFICES ASSUME k < m PROVE FALSE
  OBVIOUS
<1>1. m \in k + 1 .. m
  OBVIOUS
<1> QED BY <1>1

\* Every start command is settled, and unless the process has died each one has
\* been handled and as many jobs have run as were asked for.
AllDone == settled = Len(requested) /\ (deaths = 0 => Len(sent) = Len(requested))

\* What holds whenever nothing is under way.
Complete == Quiet => AllDone

LEMMA QuietIsAllDone == IInv => Complete
<1> SUFFICES ASSUME IInv, main = << >>, starts = << >> PROVE AllDone
  BY DEF Complete, Quiet
<1>1. \A what, n : ~Has(main, what, n) /\ ~Has(starts, what, n)
  BY DEF Has
<1>2. settled \in Nat /\ Len(requested) \in Nat /\ Len(sent) \in Nat /\ settled <= Len(requested)
  BY Facts
<1>3. settled = Len(requested)
  <2>1. \A n \in settled + 1 .. Len(requested) : FALSE
    BY <1>1 DEF IInv, NothingIsLost
  <2> QED BY ONLY <1>2, <2>1, NothingAfter
<1>4. ASSUME deaths = 0 PROVE Len(sent) = settled
  <2>1. \A n \in Len(sent) + 1 .. settled : FALSE
    BY <1>1, <1>4 DEF IInv, NothingIsLost
  <2>2. Len(sent) <= settled
    BY DEF IInv, Ordered
  <2> QED BY ONLY <1>2, <2>1, <2>2, NothingAfter
<1> QED BY <1>3, <1>4 DEF AllDone

\* So when nothing is under way any more, each start command has been handled or
\* given up by the system, and all that was asked for has been sent if the process
\* has not died.
THEOREM QuietIsComplete == Spec => []Complete
BY QuietIsAllDone, Invariant, PTL

\* When all is done the last request was sent last.
THEOREM NewestRequestIsSentAlways == Spec => []NewestRequestIsSent
<1>1. IInv => NewestRequestIsSent
  <2> SUFFICES ASSUME IInv, Quiet, deaths = 0, requested # << >>
               PROVE  sent # << >> /\ sent[Len(sent)] = requested[Len(requested)]
    BY DEF NewestRequestIsSent
  <2>1. settled = Len(requested)
    BY QuietIsAllDone DEF Complete, AllDone
  <2>2. settled > 0
    BY <2>1, Facts, EmptySeq
  <2>3. \A what, n : ~Has(main, what, n)
    BY DEF Has, Quiet
  <2> QED BY <2>1, <2>2, <2>3 DEF IInv, HandledIsSent
<1> QED BY <1>1, Invariant, PTL

\* Start commands are handled in turn over any number of deaths, and none is passed
\* over but those that the system gives up after the first death; jobs run in turn
\* until then.
THEOREM InTurnAlways == Spec => InTurn
<1>1. ASSUME IInv, [Next]_vars
      PROVE  [/\ OnStartCommand => settled' = settled + 1
              /\ settled' # settled /\ deaths = 0 => OnStartCommand
              /\ Execute /\ deaths = 0 => Head(main).number = Len(sent')]_vars
  <2>1. OnStartCommand => settled' = settled + 1
    <3>1. OnStartCommand => settled' = Head(main).number
      BY DEF OnStartCommand
    <3> QED BY <1>1, <3>1, NextStart
  <2>2. ASSUME settled' # settled, deaths = 0 PROVE OnStartCommand
    <3>1. ~Die
      BY <2>2 DEF Die
    <3>2. ~ProcessDeath /\ ~StartWithoutIntent
      BY <3>1 DEF ProcessDeath, StartWithoutIntent
    <3>3. ~\E selected \in Selections : Send(selected)
      BY <2>2 DEF Send
    <3>4. /\ ~Arrive /\ ~OnCreate /\ ~Execute /\ ~JobEnd /\ ~UpdateProgress
          /\ ~ServerStarts /\ ~ServerStops /\ ~Restart /\ ~UNCHANGED vars
      BY <2>2 DEF Arrive, OnCreate, Execute, JobEnd, UpdateProgress, ServerStarts, ServerStops,
                  Restart, vars
    <3> QED BY <1>1, <3>2, <3>3, <3>4 DEF Next, MainThread
  <2>3. Execute /\ deaths = 0 => Len(sent') = Len(sent) + 1
    <3> DEFINE S == Intents \cup {NoIntent}
    <3>1. fields \in S /\ DOMAIN sent = 1 .. Len(sent) /\ Len(sent) \in Nat
          /\ \A i \in 1 .. Len(sent) : sent[i] \in S
      BY <1>1, Facts, LenProperties, ElementOfSeq DEF IInv, TypeOK
    <3>2. sent \in Seq(S)
      BY <1>1, <3>1, Facts, SeqDef
    <3> HIDE DEF S
    <3> QED BY <3>1, <3>2, AppendProperties DEF Execute
  <2>4. Execute /\ deaths = 0 => Head(main).number = Len(sent')
    BY <1>1, <2>3, NextJob
  <2> QED BY <2>1, <2>2, <2>4
<1> QED BY <1>1, Invariant, PTL DEF Spec, InTurn
=============================================================================
