--------------------------- MODULE JniAttachProofs ---------------------------
(* Proofs about JniAttach, for any threads and any number of attachments.     *)
EXTENDS JniAttach, TLAPS

\* The stack of one thread, with the attachment that goes with it: only the
\* function that libflowdrop's own thread called first has attached it, and all
\* functions have the JNIEnv that it got.
StackInv(t) ==
    LET s == stack[t]
    IN  /\ s[1].function = IF t \in JavaThreads THEN "run" ELSE "libflowdrop"
        /\ t \in NativeThreads /\ Len(s) > 1 => s[2].function \in Attaching
        /\ \A i \in DOMAIN s : s[i].function \in Attaching =>
              /\ s[i].env = env[t]
              /\ s[i].attachResult = "ATTACHED" <=> t \in NativeThreads /\ i = 2
        /\ attached[t] <=> t \in JavaThreads \/ Len(s) > 1

IInv == TypeOK /\ \A t \in Threads : StackInv(t)

-----------------------------------------------------------------------------
(* The call graph.                                                            *)

\* run and libflowdrop attach nothing themselves.
LEMMA BasesDoNotAttach == "run" \notin Attaching /\ "libflowdrop" \notin Attaching
  BY DEF Attaching, Returning, Throwing

\* Both are functions of the call graph, and nothing that libflowdrop's own
\* threads call goes without attaching.
LEMMA BaseCallees ==
    /\ "run" \in Functions /\ "libflowdrop" \in Functions
    /\ Callees["libflowdrop"] \subseteq Attaching
<1>1. "run" \in Functions /\ "libflowdrop" \in Functions
  BY DEF Functions, Callees
<1>2. Callees["libflowdrop"] = libflowdrop
  BY DEF Callees
<1> QED
  BY <1>1, <1>2 DEF libflowdrop

-----------------------------------------------------------------------------
(* Sequences.                                                                 *)

\* Lengths.
LEMMA AboveZero == \A n \in Nat : n > 0 => n = 1 \/ n > 1
  OBVIOUS

LEMMA AboveTwo == \A n \in Nat : n > 1 /\ n # 2 => n - 1 > 1
  OBVIOUS

\* An element at the end of a sequence.
LEMMA Appended ==
    ASSUME NEW S, NEW s \in Seq(S), NEW e \in S
    PROVE  /\ Append(s, e) \in Seq(S)
           /\ Len(Append(s, e)) = Len(s) + 1
           /\ \A i \in 1 .. Len(s) : Append(s, e)[i] = s[i]
           /\ Append(s, e)[Len(s) + 1] = e
  OBVIOUS

\* The front of a sequence.
LEMMA Shortened ==
    ASSUME NEW S, NEW s \in Seq(S), NEW n \in 1 .. Len(s)
    PROVE  /\ SubSeq(s, 1, n) \in Seq(S)
           /\ Len(SubSeq(s, 1, n)) = n
           /\ \A i \in 1 .. n : SubSeq(s, 1, n)[i] = s[i]
  OBVIOUS

\* A sequence of one element is its own front.
LEMMA Single ==
    ASSUME NEW S, NEW s \in Seq(S), Len(s) = 1
    PROVE  SubSeq(s, 1, 1) = s
  OBVIOUS

-----------------------------------------------------------------------------
(* The invariant.                                                             *)

LEMMA Initially == Init => IInv
<1> SUFFICES ASSUME Init PROVE IInv
  OBVIOUS
<1>1. ASSUME NEW t \in Threads
      PROVE  /\ stack[t] = << Frame(IF t \in JavaThreads THEN "run" ELSE "libflowdrop", NONE, 0) >>
             /\ Len(stack[t]) = 1
             /\ stack[t][1].function = IF t \in JavaThreads THEN "run" ELSE "libflowdrop"
  BY DEF Init, Frame
<1>2. TypeOK
  <2>1. \A t \in Threads : Frame(IF t \in JavaThreads THEN "run" ELSE "libflowdrop", NONE, 0) \in Frames
    BY BaseCallees, BoundsAssumption DEF Frame, Frames
  <2>2. stack \in [Threads -> Seq(Frames)]
    BY <2>1 DEF Init
  <2>3. attached \in [Threads -> BOOLEAN]
    BY DEF Init
  <2>4. env \in [Threads -> 0 .. MaxAttaches]
    BY BoundsAssumption DEF Init
  <2>5. \A t \in Threads : Len(stack[t]) > 0
    BY <1>1
  <2> QED
    BY <2>2, <2>3, <2>4, <2>5 DEF TypeOK
<1>3. ASSUME NEW t \in Threads PROVE StackInv(t)
  <2>1. attached[t] <=> t \in JavaThreads
    BY DEF Init
  <2>2. DOMAIN stack[t] = 1 .. 1 /\ stack[t][1].function \notin Attaching
    BY <1>1, BasesDoNotAttach
  <2> QED
    BY <1>1, <2>1, <2>2 DEF StackInv
<1> QED
  BY <1>2, <1>3 DEF IInv

\* What happens on one thread leaves the others alone.
LEMMA OtherThreads ==
    ASSUME NEW t \in Threads, NEW u \in Threads, u # t, StackInv(u),
           stack'[u] = stack[u], attached'[u] = attached[u], env'[u] = env[u]
    PROVE  StackInv(u)'
  BY DEF StackInv

\* A function is called on thread t.
LEMMA Pushed ==
    ASSUME IInv, NEW t \in Threads, NEW frame \in Frames, Push(t, frame)
    PROVE  /\ stack' \in [Threads -> Seq(Frames)]
           /\ Len(stack'[t]) = Len(stack[t]) + 1
           /\ \A i \in 1 .. Len(stack[t]) : stack'[t][i] = stack[t][i]
           /\ stack'[t][Len(stack[t]) + 1] = frame
           /\ \A u \in Threads : u # t => stack'[u] = stack[u]
<1>1. stack \in [Threads -> Seq(Frames)] /\ stack[t] \in Seq(Frames)
  BY DEF IInv, TypeOK
<1>2. stack' = [stack EXCEPT ![t] = Append(stack[t], frame)]
  BY <1>1 DEF Push
<1> QED
  BY <1>1, <1>2, Appended

\* The functions on the stack of thread t return or are unwound down to the n-th.
LEMMA Popped ==
    ASSUME IInv, NEW t \in Threads, NEW n \in 1 .. Len(stack[t]),
           stack' = [stack EXCEPT ![t] = SubSeq(stack[t], 1, n)]
    PROVE  /\ stack' \in [Threads -> Seq(Frames)]
           /\ Len(stack'[t]) = n
           /\ \A i \in 1 .. n : stack'[t][i] = stack[t][i]
           /\ \A u \in Threads : u # t => stack'[u] = stack[u]
<1>1. stack \in [Threads -> Seq(Frames)] /\ stack[t] \in Seq(Frames)
  BY DEF IInv, TypeOK
<1> QED
  BY <1>1, Shortened

\* On a thread of libflowdrop's own nothing is called but what attaches it.
LEMMA CallsAreAttached ==
    ASSUME IInv, NEW t \in Threads, NEW f, f \in Callees[Top(t).function], f \notin Attaching
    PROVE  attached[t] /\ (t \in NativeThreads => Len(stack[t]) > 1)
<1>1. StackInv(t) /\ Len(stack[t]) \in Nat /\ Len(stack[t]) > 0
  BY DEF IInv, TypeOK
<1>2. CASE Len(stack[t]) = 1 /\ t \notin JavaThreads
  <2>1. Top(t).function = "libflowdrop"
    BY <1>1, <1>2 DEF StackInv, Top
  <2> QED
    BY <2>1, BaseCallees
<1>3. CASE Len(stack[t]) > 1 \/ t \in JavaThreads
  BY <1>1, <1>3, ThreadsAssumption DEF StackInv
<1>4. Len(stack[t]) = 1 \/ Len(stack[t]) > 1
  <2>1. Len(stack[t]) \in Nat /\ Len(stack[t]) > 0
    BY <1>1
  <2> QED
    BY <2>1, AboveZero
<1> QED
  BY <1>2, <1>3, <1>4, Zenon

\* Calls between C++ and Java.
LEMMA CallKeeps ==
    ASSUME IInv, NEW t \in Threads, NEW f \in Functions, Call(t, f)
    PROVE  IInv'
<1> DEFINE frame == Frame(f, NONE, env[t])
<1>1. frame \in Frames /\ frame.function = f /\ f \notin Attaching
  BY DEF IInv, TypeOK, Call, Frame, Frames
<1>2. Push(t, frame) /\ attached' = attached /\ env' = env
  BY DEF Call
<1>3. attached[t] /\ (t \in NativeThreads => Len(stack[t]) > 1)
  BY CallsAreAttached DEF Call
<1> HIDE DEF frame
<1>4. /\ stack' \in [Threads -> Seq(Frames)]
      /\ Len(stack'[t]) = Len(stack[t]) + 1
      /\ \A i \in 1 .. Len(stack[t]) : stack'[t][i] = stack[t][i]
      /\ stack'[t][Len(stack[t]) + 1] = frame
      /\ \A u \in Threads : u # t => stack'[u] = stack[u]
  BY <1>1, <1>2, Pushed
<1>5. StackInv(t) /\ Len(stack[t]) \in Nat /\ Len(stack[t]) > 0
  BY DEF IInv, TypeOK
<1>6. DOMAIN stack'[t] = 1 .. Len(stack[t]) + 1 /\ DOMAIN stack[t] = 1 .. Len(stack[t])
  BY <1>4 DEF IInv, TypeOK
<1>7. TypeOK'
  <2>1. Len(stack'[t]) > 0
    BY <1>4, <1>5
  <2>2. \A u \in Threads : u # t => Len(stack'[u]) > 0
    BY <1>4 DEF IInv, TypeOK
  <2> QED
    BY <1>2, <1>4, <2>1, <2>2 DEF IInv, TypeOK
<1>8. StackInv(t)'
  <2>1. attached'[t] <=> t \in JavaThreads \/ Len(stack'[t]) > 1
    BY <1>2, <1>3, <1>4, <1>5
  <2>2. /\ stack'[t][1] = stack[t][1]
        /\ t \in NativeThreads => Len(stack[t]) > 1 /\ stack'[t][2] = stack[t][2]
    <3>1. 1 \in 1 .. Len(stack[t]) /\ (Len(stack[t]) > 1 => 2 \in 1 .. Len(stack[t]))
      BY <1>5
    <3>2. \A i \in 1 .. Len(stack[t]) : stack'[t][i] = stack[t][i]
      BY <1>4
    <3>3. t \in NativeThreads => Len(stack[t]) > 1
      BY <1>3
    <3> QED
      BY <3>1, <3>2, <3>3
  <2>3. /\ stack'[t][1].function = IF t \in JavaThreads THEN "run" ELSE "libflowdrop"
        /\ t \in NativeThreads /\ Len(stack'[t]) > 1 => stack'[t][2].function \in Attaching
    BY <1>5, <2>2 DEF StackInv
  <2>4. ASSUME NEW i \in DOMAIN stack'[t], stack'[t][i].function \in Attaching
        PROVE  /\ stack'[t][i].env = env'[t]
               /\ stack'[t][i].attachResult = "ATTACHED" <=> t \in NativeThreads /\ i = 2
    <3>1. CASE i \in 1 .. Len(stack[t])
      BY <1>2, <1>5, <1>6, <1>4, <2>4, <3>1 DEF StackInv
    <3>2. CASE i = Len(stack[t]) + 1
      BY <1>1, <1>2, <1>5, <1>4, <2>2, <2>4, <3>2
    <3> QED
      BY <1>5, <1>6, <2>4, <3>1, <3>2
  <2> QED
    BY <2>1, <2>3, <2>4 DEF StackInv
<1>9. ASSUME NEW u \in Threads, u # t PROVE StackInv(u)'
  BY <1>2, <1>4, <1>9, OtherThreads DEF IInv
<1> QED
  BY <1>7, <1>8, <1>9 DEF IInv

\* A function returns, attaching or not.
LEMMA ReturnKeeps ==
    ASSUME IInv, NEW t \in Threads, Return(t)
    PROVE  IInv'
<1> DEFINE n == Len(stack[t]) - 1
<1>1. StackInv(t) /\ Len(stack[t]) \in Nat /\ stack[t] \in Seq(Frames)
  BY DEF IInv, TypeOK
<1>2. n \in 1 .. Len(stack[t]) /\ attached' = attached /\ env' = env
  BY <1>1 DEF Return
<1>3. stack' = [stack EXCEPT ![t] = SubSeq(stack[t], 1, n)]
  BY DEF Return, Below
<1>4. Top(t).function \notin Attaching /\ Len(stack[t]) > 1
  BY DEF Return
<1>5. attached[t] /\ (t \in NativeThreads => n > 1)
  <2>1. attached[t]
    BY <1>1, <1>4 DEF StackInv
  <2>2. t \in NativeThreads => Len(stack[t]) # 2
    BY <1>1, <1>4 DEF StackInv, Top
  <2>3. Len(stack[t]) \in Nat /\ Len(stack[t]) > 1
    BY <1>1, <1>4
  <2>4. t \in NativeThreads => n > 1
    BY <2>2, <2>3, AboveTwo
  <2> QED
    BY <2>1, <2>4
<1>6. n = Len(stack[t]) - 1 /\ n \in Nat
  BY <1>1, <1>2
<1> HIDE DEF n
<1>7. /\ stack' \in [Threads -> Seq(Frames)]
      /\ Len(stack'[t]) = n
      /\ \A i \in 1 .. n : stack'[t][i] = stack[t][i]
      /\ \A u \in Threads : u # t => stack'[u] = stack[u]
  BY <1>2, <1>3, Popped
<1>8. DOMAIN stack'[t] = 1 .. n /\ DOMAIN stack[t] = 1 .. Len(stack[t])
  BY <1>1, <1>7
<1>9. TypeOK'
  <2>1. Len(stack'[t]) > 0
    BY <1>2, <1>7
  <2>2. \A u \in Threads : u # t => Len(stack'[u]) > 0
    BY <1>7 DEF IInv, TypeOK
  <2> QED
    BY <1>2, <1>7, <2>1, <2>2 DEF IInv, TypeOK
<1>10. StackInv(t)'
  <2>1. attached'[t] <=> t \in JavaThreads \/ Len(stack'[t]) > 1
    BY <1>2, <1>5, <1>7, ThreadsAssumption DEF Threads
  <2>2. /\ stack'[t][1] = stack[t][1]
        /\ t \in NativeThreads => stack'[t][2] = stack[t][2]
    BY <1>2, <1>5, <1>7
  <2>3. /\ stack'[t][1].function = IF t \in JavaThreads THEN "run" ELSE "libflowdrop"
        /\ t \in NativeThreads /\ Len(stack'[t]) > 1 => stack'[t][2].function \in Attaching
    BY <1>1, <1>4, <2>2 DEF StackInv
  <2>4. ASSUME NEW i \in DOMAIN stack'[t], stack'[t][i].function \in Attaching
        PROVE  /\ stack'[t][i].env = env'[t]
               /\ stack'[t][i].attachResult = "ATTACHED" <=> t \in NativeThreads /\ i = 2
    <3>1. i \in DOMAIN stack[t] /\ stack'[t][i] = stack[t][i]
      BY <1>1, <1>2, <1>7, <1>8, <2>4
    <3> QED
      BY <1>1, <1>2, <2>4, <3>1 DEF StackInv
  <2> QED
    BY <2>1, <2>3, <2>4 DEF StackInv
<1>11. ASSUME NEW u \in Threads, u # t PROVE StackInv(u)'
  BY <1>2, <1>7, <1>11, OtherThreads DEF IInv
<1> QED
  BY <1>9, <1>10, <1>11 DEF IInv

\* A thread that is not attached is one of libflowdrop's, in its own code.
LEMMA OnlyOutermostAttaches ==
    ASSUME IInv, NEW t \in Threads, ~attached[t]
    PROVE  /\ t \in NativeThreads /\ t \notin JavaThreads
           /\ Len(stack[t]) = 1
           /\ stack[t][1].function \notin Attaching
<1>1. StackInv(t) /\ Len(stack[t]) \in Nat /\ Len(stack[t]) > 0
  BY DEF IInv, TypeOK
<1>2. t \notin JavaThreads /\ ~(Len(stack[t]) > 1)
  BY <1>1 DEF StackInv
<1>3. Len(stack[t]) = 1
  BY <1>1, <1>2, AboveZero
<1> QED
  BY <1>1, <1>2, <1>3, BasesDoNotAttach DEF StackInv, Threads

\* A function attaches a thread that is attached.
LEMMA AttachAlreadyKeeps ==
    ASSUME IInv, NEW t \in Threads, NEW f \in Functions, Attach(t, f), attached[t]
    PROVE  IInv'
<1> DEFINE frame == Frame(f, "ALREADY", env[t])
<1>1. frame \in Frames /\ frame.attachResult = "ALREADY" /\ frame.env = env[t]
  BY DEF IInv, TypeOK, Frame, Frames
<1>2. Push(t, frame) /\ attached' = attached /\ env' = env
  BY DEF Attach, oldAttach
<1> HIDE DEF frame
<1>3. /\ stack' \in [Threads -> Seq(Frames)]
      /\ Len(stack'[t]) = Len(stack[t]) + 1
      /\ \A i \in 1 .. Len(stack[t]) : stack'[t][i] = stack[t][i]
      /\ stack'[t][Len(stack[t]) + 1] = frame
      /\ \A u \in Threads : u # t => stack'[u] = stack[u]
  BY <1>1, <1>2, Pushed
<1>4. StackInv(t) /\ Len(stack[t]) \in Nat /\ Len(stack[t]) > 0
  BY DEF IInv, TypeOK
<1>5. t \in NativeThreads => Len(stack[t]) > 1
  BY <1>4, ThreadsAssumption DEF StackInv
<1>6. DOMAIN stack'[t] = 1 .. Len(stack[t]) + 1 /\ DOMAIN stack[t] = 1 .. Len(stack[t])
  BY <1>3 DEF IInv, TypeOK
<1>7. TypeOK'
  <2>1. Len(stack'[t]) > 0
    BY <1>3, <1>4
  <2>2. \A u \in Threads : u # t => Len(stack'[u]) > 0
    BY <1>3 DEF IInv, TypeOK
  <2> QED
    BY <1>2, <1>3, <2>1, <2>2 DEF IInv, TypeOK
<1>8. StackInv(t)'
  <2>1. attached'[t] <=> t \in JavaThreads \/ Len(stack'[t]) > 1
    BY <1>2, <1>5, <1>3, <1>4
  <2>2. /\ stack'[t][1] = stack[t][1]
        /\ t \in NativeThreads => Len(stack[t]) > 1 /\ stack'[t][2] = stack[t][2]
    <3>1. 1 \in 1 .. Len(stack[t]) /\ (Len(stack[t]) > 1 => 2 \in 1 .. Len(stack[t]))
      BY <1>4
    <3>2. \A i \in 1 .. Len(stack[t]) : stack'[t][i] = stack[t][i]
      BY <1>3
    <3>3. t \in NativeThreads => Len(stack[t]) > 1
      BY <1>5
    <3> QED
      BY <3>1, <3>2, <3>3
  <2>3. /\ stack'[t][1].function = IF t \in JavaThreads THEN "run" ELSE "libflowdrop"
        /\ t \in NativeThreads /\ Len(stack'[t]) > 1 => stack'[t][2].function \in Attaching
    BY <1>4, <2>2 DEF StackInv
  <2>4. ASSUME NEW i \in DOMAIN stack'[t], stack'[t][i].function \in Attaching
        PROVE  /\ stack'[t][i].env = env'[t]
               /\ stack'[t][i].attachResult = "ATTACHED" <=> t \in NativeThreads /\ i = 2
    <3>1. CASE i \in 1 .. Len(stack[t])
      BY <1>2, <1>4, <1>6, <1>3, <2>4, <3>1 DEF StackInv
    <3>2. CASE i = Len(stack[t]) + 1
      BY <1>1, <1>2, <1>4, <1>3, <2>2, <2>4, <3>2
    <3> QED
      BY <1>4, <1>6, <2>4, <3>1, <3>2
  <2> QED
    BY <2>1, <2>3, <2>4 DEF StackInv
<1>9. ASSUME NEW u \in Threads, u # t PROVE StackInv(u)'
  BY <1>2, <1>3, <1>9, OtherThreads DEF IInv
<1> QED
  BY <1>7, <1>8, <1>9 DEF IInv

\* A function attaches a thread that is not.
LEMMA AttachNewKeeps ==
    ASSUME IInv, NEW t \in Threads, NEW f \in Functions, Attach(t, f), ~attached[t]
    PROVE  IInv'
<1> DEFINE frame == Frame(f, "ATTACHED", env[t] + 1)
<1>1. AttachCurrentThread(t) /\ Push(t, frame) /\ f \in Attaching
  BY DEF Attach, oldAttach
<1>2. env[t] + 1 \in 0 .. MaxAttaches /\ env' = [env EXCEPT ![t] = env[t] + 1]
  BY <1>1, BoundsAssumption DEF AttachCurrentThread, IInv, TypeOK
<1>3. attached' = [attached EXCEPT ![t] = TRUE]
  BY <1>1 DEF AttachCurrentThread
<1>4. /\ frame \in Frames /\ frame.attachResult = "ATTACHED" /\ frame.env = env[t] + 1
      /\ frame.function = f
  BY <1>2 DEF Frame, Frames
<1> HIDE DEF frame
<1>5. /\ stack' \in [Threads -> Seq(Frames)]
      /\ Len(stack'[t]) = Len(stack[t]) + 1
      /\ \A i \in 1 .. Len(stack[t]) : stack'[t][i] = stack[t][i]
      /\ stack'[t][Len(stack[t]) + 1] = frame
      /\ \A u \in Threads : u # t => stack'[u] = stack[u]
  BY <1>1, <1>4, Pushed
<1>6. /\ t \in NativeThreads /\ t \notin JavaThreads
      /\ Len(stack[t]) = 1
      /\ stack[t][1].function \notin Attaching
  BY OnlyOutermostAttaches
<1>7. /\ Len(stack'[t]) = 2 /\ stack'[t][1] = stack[t][1] /\ stack'[t][2] = frame
      /\ DOMAIN stack'[t] = 1 .. 2
  BY <1>5, <1>6
<1>8. attached'[t] /\ env'[t] = env[t] + 1
  BY <1>2, <1>3 DEF IInv, TypeOK
<1>9. TypeOK'
  <2>1. Len(stack'[t]) > 0
    BY <1>7
  <2>2. \A u \in Threads : u # t => Len(stack'[u]) > 0
    BY <1>5 DEF IInv, TypeOK
  <2>3. attached' \in [Threads -> BOOLEAN] /\ env' \in [Threads -> 0 .. MaxAttaches]
    BY <1>2, <1>3 DEF IInv, TypeOK
  <2> QED
    BY <1>5, <2>1, <2>2, <2>3 DEF TypeOK
<1>10. StackInv(t)'
  <2>1. stack[t][1].function = "libflowdrop"
    BY <1>6 DEF IInv, StackInv
  <2> QED
    BY <1>1, <1>4, <1>6, <1>7, <1>8, <2>1 DEF StackInv
<1>11. ASSUME NEW u \in Threads, u # t PROVE StackInv(u)'
  <2>1. stack'[u] = stack[u] /\ attached'[u] = attached[u] /\ env'[u] = env[u]
    BY <1>2, <1>3, <1>5, <1>11 DEF IInv, TypeOK
  <2> QED
    BY <2>1, <1>11, OtherThreads DEF IInv
<1> QED
  BY <1>9, <1>10, <1>11 DEF IInv

\* Attaching fails: nothing has to be unwound.
LEMMA FailureUnwindsNothing ==
    ASSUME IInv, NEW t \in Threads, NEW f \in Functions, AttachFails(t, f)
    PROVE  UNCHANGED vars
<1>1. /\ Len(stack[t]) = 1 /\ stack[t][1].function \notin Attaching
      /\ stack[t] \in Seq(Frames) /\ stack \in [Threads -> Seq(Frames)]
  BY OnlyOutermostAttaches DEF AttachFails, IInv, TypeOK
<1>2. Caught(stack[t]) = 1
  <2>1. \A n : n \in 1 .. Len(stack[t]) <=> n = 1
    BY <1>1
  <2>2. \A i : i \notin 1 + 1 .. Len(stack[t])
    BY <1>1
  <2> QED
    BY <1>1, <2>1, <2>2 DEF Caught
<1>3. SubSeq(stack[t], 1, 1) = stack[t]
  BY <1>1, Single
<1>4. stack' = stack
  BY <1>1, <1>2, <1>3 DEF AttachFails, Throw
<1> QED
  BY <1>4 DEF AttachFails, vars

\* A function detaches its thread if it has attached it, and returns.
LEMMA DetachKeeps ==
    ASSUME IInv, NEW t \in Threads, Detach(t)
    PROVE  IInv'
<1> DEFINE n == Len(stack[t]) - 1
<1>1. StackInv(t) /\ stack[t] \in Seq(Frames)
  BY DEF IInv, TypeOK
<1>2. Len(stack[t]) \in Nat /\ Len(stack[t]) > 0
  BY DEF IInv, TypeOK
<1>3. Top(t).function \in Attaching /\ env' = env
  BY DEF Detach
<1>4. Len(stack[t]) > 1
  <2>1. Len(stack[t]) # 1
    BY <1>1, <1>3, BasesDoNotAttach DEF StackInv, Top
  <2> QED
    BY <1>2, <2>1, AboveZero
<1>5. attached[t]
  BY <1>1, <1>4 DEF StackInv
<1>6. Top(t).attachResult = "ATTACHED" <=> t \in NativeThreads /\ Len(stack[t]) = 2
  <2>1. Len(stack[t]) \in DOMAIN stack[t]
    BY <1>1, <1>2
  <2> QED
    BY <1>1, <1>3, <2>1 DEF StackInv, Top
<1>7. /\ attached' \in [Threads -> BOOLEAN]
      /\ attached'[t] <=> Top(t).attachResult # "ATTACHED"
      /\ \A u \in Threads : u # t => attached'[u] = attached[u]
  BY <1>5 DEF Detach, oldDetach, IInv, TypeOK
<1>8. n \in 1 .. Len(stack[t]) /\ n \in Nat
  BY <1>2, <1>4
<1>9. stack' = [stack EXCEPT ![t] = SubSeq(stack[t], 1, n)]
  BY DEF Detach, Below
<1>10. t \in NativeThreads /\ Len(stack[t]) # 2 => n > 1
  BY <1>2, <1>4, AboveTwo
<1>11. t \in NativeThreads /\ Len(stack[t]) = 2 => n = 1
  BY <1>2
<1> HIDE DEF n
<1>12. /\ stack' \in [Threads -> Seq(Frames)]
       /\ Len(stack'[t]) = n
       /\ \A i \in 1 .. n : stack'[t][i] = stack[t][i]
       /\ \A u \in Threads : u # t => stack'[u] = stack[u]
  BY <1>8, <1>9, Popped
<1>13. DOMAIN stack'[t] = 1 .. n /\ 1 .. n \subseteq DOMAIN stack[t] /\ 1 \in 1 .. n
  BY <1>1, <1>8, <1>12
<1>14. TypeOK'
  <2>1. Len(stack'[t]) > 0
    BY <1>8, <1>12
  <2>2. \A u \in Threads : u # t => Len(stack'[u]) > 0
    BY <1>12 DEF IInv, TypeOK
  <2> QED
    BY <1>3, <1>7, <1>12, <2>1, <2>2 DEF IInv, TypeOK
<1>15. StackInv(t)'
  <2>1. attached'[t] <=> t \in JavaThreads \/ Len(stack'[t]) > 1
    <3>1. CASE t \in NativeThreads /\ Len(stack[t]) = 2
      <4>1. t \notin JavaThreads /\ ~(Len(stack'[t]) > 1)
        BY <3>1, <1>11, <1>12, ThreadsAssumption
      <4> QED
        BY <3>1, <4>1, <1>6, <1>7
    <3>2. CASE t \in NativeThreads /\ Len(stack[t]) # 2
      BY <3>2, <1>6, <1>7, <1>10, <1>12
    <3>3. CASE t \notin NativeThreads
      BY <3>3, <1>6, <1>7 DEF Threads
    <3> QED
      BY <3>1, <3>2, <3>3
  <2>2. stack'[t][1] = stack[t][1]
    BY <1>12, <1>13
  <2>3. t \in NativeThreads /\ Len(stack'[t]) > 1 => stack'[t][2].function \in Attaching
    <3> SUFFICES ASSUME t \in NativeThreads, n > 1 PROVE stack'[t][2].function \in Attaching
      BY <1>12
    <3>1. stack'[t][2] = stack[t][2]
      BY <1>8, <1>12
    <3> QED
      BY <3>1, <1>1, <1>4 DEF StackInv
  <2>4. \A i \in DOMAIN stack'[t] : stack'[t][i].function \in Attaching =>
              /\ stack'[t][i].env = env'[t]
              /\ stack'[t][i].attachResult = "ATTACHED" <=> t \in NativeThreads /\ i = 2
    BY <1>1, <1>3, <1>12, <1>13 DEF StackInv
  <2>5. stack'[t][1].function = IF t \in JavaThreads THEN "run" ELSE "libflowdrop"
    BY <1>1, <2>2 DEF StackInv
  <2> QED
    BY <2>1, <2>3, <2>4, <2>5 DEF StackInv
<1>16. ASSUME NEW u \in Threads, u # t PROVE StackInv(u)'
  <2>1. stack'[u] = stack[u] /\ attached'[u] = attached[u] /\ env'[u] = env[u]
    BY <1>3, <1>7, <1>12, <1>16
  <2> QED
    BY <2>1, <1>16, OtherThreads DEF IInv
<1> QED
  BY <1>14, <1>15, <1>16 DEF IInv

\* Every step keeps the invariant.
LEMMA StepKeeps == IInv /\ [Next]_vars => IInv'
<1> SUFFICES ASSUME IInv, [Next]_vars PROVE IInv'
  OBVIOUS
<1>1. ASSUME NEW t \in Threads, NEW f \in Functions, Attach(t, f) PROVE IInv'
  BY <1>1, AttachAlreadyKeeps, AttachNewKeeps
<1>2. CASE UNCHANGED vars
  BY <1>2 DEF vars, IInv, TypeOK, StackInv
<1>3. ASSUME NEW t \in Threads, NEW f \in Functions, AttachFails(t, f) PROVE IInv'
  BY <1>2, <1>3, FailureUnwindsNothing
<1> QED
  BY <1>1, <1>2, <1>3, CallKeeps, ReturnKeeps, DetachKeeps DEF Next

\* Of native frames, only the one that libflowdrop's own thread called first
\* has attached the thread (jni_core.cpp:66-87), in every reachable state.
THEOREM Invariant == Spec => []IInv
  BY Initially, StepKeeps, PTL DEF Spec

-----------------------------------------------------------------------------
(* The properties.                                                            *)

\* The variables keep their types.
THEOREM TypeCorrect == Spec => []TypeOK
<1>1. IInv => TypeOK
  BY DEF IInv
<1> QED
  BY <1>1, Invariant, PTL

\* A function between attaching and detaching (eventlistener.cpp, core.cpp,
\* dnssd.cpp, server.cpp) has the JNIEnv of a thread that is attached.
THEOREM EnvIsValidAlways == Spec => []EnvIsValid
<1>1. IInv => EnvIsValid
  <2> SUFFICES ASSUME IInv, NEW t \in Threads, NEW i \in DOMAIN stack[t],
                      stack[t][i].function \in Attaching
               PROVE  attached[t] /\ stack[t][i].env = env[t]
    BY DEF EnvIsValid
  <2>1. StackInv(t)
    BY DEF IInv
  <2>2. attached[t]
    <3> SUFFICES ASSUME ~attached[t] PROVE FALSE
      OBVIOUS
    <3>1. Len(stack[t]) = 1 /\ stack[t][1].function \notin Attaching /\ stack[t] \in Seq(Frames)
      BY OnlyOutermostAttaches DEF IInv, TypeOK
    <3>2. i = 1
      BY <3>1
    <3> QED
      BY <3>1, <3>2
  <2> QED
    BY <2>1, <2>2 DEF StackInv
<1> QED
  BY <1>1, Invariant, PTL

\* A thread leaves the C++ code as it came to it (oldDetach, jni_core.cpp:84).
THEOREM LeftAsFoundAlways == Spec => []LeftAsFound
<1>1. IInv => LeftAsFound
  <2> SUFFICES ASSUME IInv, NEW t \in Threads
               PROVE  /\ t \in JavaThreads => attached[t]
                      /\ t \in NativeThreads /\ Len(stack[t]) = 1 => ~attached[t]
    BY DEF LeftAsFound
  <2> QED
    BY ThreadsAssumption DEF IInv, StackInv
<1> QED
  BY <1>1, Invariant, PTL

\* What attachJavaVM throws (jni_core.cpp:57) unwinds no function that would
\* have had to detach.
THEOREM ThrowSkipsNoDetachAlways == Spec => ThrowSkipsNoDetach
<1>1. IInv /\ [Next]_vars =>
        [\A t \in Threads, f \in Functions : AttachFails(t, f) => Len(stack'[t]) = Len(stack[t])]_vars
  BY FailureUnwindsNothing DEF vars
<1> QED
  BY <1>1, Invariant, PTL DEF Spec, ThrowSkipsNoDetach
=============================================================================
