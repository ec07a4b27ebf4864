------------------------------ MODULE JniAttach ------------------------------
(***************************************************************************)
(* How C++ code gets at Java: every C++ function that calls Java attaches  *)
(* its thread to the virtual machine (oldAttach, attachJavaVM) and detaches*)
(* it again (oldDetach, detachJavaVM).  The functions run on Java threads, *)
(* below native methods, and on threads of libflowdrop's own, and they     *)
(* nest: a discovery calls findService, which calls NsdDNSSD, which polls a *)
(* native function, which calls isStopped, which calls Java.               *)
(***************************************************************************)
EXTENDS Naturals, Sequences

CONSTANTS JavaThreads,    \* threads that Java code has started
          NativeThreads,  \* threads that libflowdrop has started
          MaxAttaches     \* bound: how often a thread is attached

ASSUME ThreadsAssumption == JavaThreads \cap NativeThreads = {}
ASSUME BoundsAssumption == MaxAttaches \in Nat

Threads == JavaThreads \cup NativeThreads

-----------------------------------------------------------------------------
(* Who calls whom.                                                         *)

\* They attach with oldAttach and return when that fails.
Returning == {"JavaEventListener", "askCallback", "isStopped", "registerService"}

\* They attach with attachJavaVM, which throws when it fails.
Throwing == {"JavaFile", "onDiscovered", "findService", "resolveService", "queryIPv4Address",
             "DeviceInfo", "String"}

Attaching == Returning \cup Throwing

\* What libflowdrop calls of what it was given, from threads of its own.
libflowdrop == Attaching \ {"DeviceInfo", "String"}

\* Native methods, with what they hand to libflowdrop or call themselves.
discover == {"findService", "resolveService", "queryIPv4Address", "isStopped", "onDiscovered"}
execute == {"findService", "resolveService", "queryIPv4Address", "JavaEventListener", "JavaFile"}
serverRun == {"registerService", "JavaEventListener", "askCallback"}
accept == {"resolveService", "queryIPv4Address", "isStopped", "onDiscovered"}
isStoppedFunc == {"isStopped"}
getDeviceInfo == {"DeviceInfo"}

\* What a C++ function calls between attaching and detaching: the Java method it
\* is there for, and convert_DeviceInfo.
Converting(method) == {method, "DeviceInfo"}

\* While NsdDNSSD registers or discovers it polls isStoppedFunc; listeners and
\* callbacks call nothing native, and a Java thread any native method.
Callees ==
    [run |-> {"discover", "execute", "serverRun", "accept", "getDeviceInfo"},
     libflowdrop |-> libflowdrop,
     discover |-> discover, execute |-> execute, serverRun |-> serverRun,
     accept |-> accept, isStoppedFunc |-> isStoppedFunc, getDeviceInfo |-> getDeviceInfo,
     JavaEventListener |-> Converting("callback"), askCallback |-> Converting("callback"),
     onDiscovered |-> Converting("callback"),
     isStopped |-> {"callback"}, JavaFile |-> {"callback"},
     registerService |-> {"DNSSD"}, findService |-> {"DNSSD"}, DNSSD |-> {"isStoppedFunc"},
     resolveService |-> {"callback"}, queryIPv4Address |-> {"callback"},
     DeviceInfo |-> {"String"}, String |-> {}, callback |-> {}]

Functions == DOMAIN Callees

VARIABLES
    attached,   \* the thread is attached
    env,        \* which attachment the thread's JNIEnv belongs to
    stack       \* the functions that run on the thread, each with what
                \* oldAttach told it and the JNIEnv it got

vars == <<attached, env, stack>>

NONE == "NONE"   \* of a function that does not attach

Frame(f, result, e) == [function |-> f, attachResult |-> result, env |-> e]

Top(t) == stack[t][Len(stack[t])]
Below(t) == SubSeq(stack[t], 1, Len(stack[t]) - 1)

Init ==
    /\ attached = [t \in Threads |-> t \in JavaThreads]
    /\ env = [t \in Threads |-> 0]
    /\ stack = [t \in Threads |->
                  << Frame(IF t \in JavaThreads THEN "run" ELSE "libflowdrop", NONE, 0) >>]

Push(t, frame) == stack' = [stack EXCEPT ![t] = Append(@, frame)]

-----------------------------------------------------------------------------

\* A native method is called from Java, or a Java method from C++.
Call(t, f) ==
    /\ f \in Callees[Top(t).function] \ Attaching
    /\ Push(t, Frame(f, NONE, env[t]))
    /\ UNCHANGED <<attached, env>>

Return(t) ==
    /\ Len(stack[t]) > 1
    /\ Top(t).function \notin Attaching
    /\ stack' = [stack EXCEPT ![t] = Below(t)]
    /\ UNCHANGED <<attached, env>>

\* AttachCurrentThread on a thread that is not attached.
AttachCurrentThread(t) ==
    /\ env[t] < MaxAttaches
    /\ attached' = [attached EXCEPT ![t] = TRUE]
    /\ env' = [env EXCEPT ![t] = @ + 1]

\* Mutant: without GetEnv; attaching an attached thread does nothing.
oldAttach_Always(t, f) ==
    IF attached[t]
    THEN Push(t, Frame(f, "ATTACHED", env[t])) /\ UNCHANGED <<attached, env>>
    ELSE AttachCurrentThread(t) /\ Push(t, Frame(f, "ATTACHED", env[t] + 1))

oldAttach(t, f) ==
    IF attached[t]
    THEN Push(t, Frame(f, "ALREADY", env[t])) /\ UNCHANGED <<attached, env>>
    ELSE AttachCurrentThread(t) /\ Push(t, Frame(f, "ATTACHED", env[t] + 1))

Attach(t, f) ==
    /\ f \in Callees[Top(t).function] \cap Attaching
    /\ oldAttach(t, f)

\* Number of frames that a C++ exception leaves alone: it unwinds to the last
\* function that is not ours or not C++.
Caught(s) ==
    CHOOSE n \in 1 .. Len(s) :
        /\ s[n].function \notin Attaching
        /\ \A i \in n + 1 .. Len(s) : s[i].function \in Attaching

\* attachJavaVM throws: no function on the way detaches. (Internal::Object throws
\* as well, between attaching and detaching, when Java cannot make the object: left
\* out, as are all failures of the virtual machine but that of attaching.)
Throw(t) == stack' = [stack EXCEPT ![t] = SubSeq(@, 1, Caught(@))]

\* AttachCurrentThread fails, and the function returns or throws. (GetEnv does
\* not fail: every virtual machine supports version 1.6.)
AttachFails(t, f) ==
    /\ f \in Callees[Top(t).function] \cap Attaching
    /\ ~attached[t]
    /\ IF f \in Throwing THEN Throw(t) ELSE UNCHANGED stack
    /\ UNCHANGED <<attached, env>>

\* Mutant: only a thread that was attached before is detached.
oldDetach_Inverted(t) ==
    attached' = [attached EXCEPT ![t] = @ /\ Top(t).attachResult # "ALREADY"]

\* Mutant: whatever attaching has told.
oldDetach_Always(t) == attached' = [attached EXCEPT ![t] = FALSE]

oldDetach(t) ==
    attached' = [attached EXCEPT ![t] = @ /\ Top(t).attachResult # "ATTACHED"]

\* Detaching is the last thing a function does.
Detach(t) ==
    /\ Top(t).function \in Attaching
    /\ oldDetach(t)
    /\ stack' = [stack EXCEPT ![t] = Below(t)]
    /\ UNCHANGED env

Next ==
    \E t \in Threads :
        \/ \E f \in Functions : Call(t, f) \/ Attach(t, f) \/ AttachFails(t, f)
        \/ Return(t)
        \/ Detach(t)

Spec == Init /\ [][Next]_vars

-----------------------------------------------------------------------------
(* Properties                                                              *)

Frames == [function : Functions, attachResult : {NONE, "ATTACHED", "ALREADY"},
           env : 0 .. MaxAttaches]

\* The types; every thread runs something.
TypeOK ==
    /\ attached \in [Threads -> BOOLEAN]
    /\ env \in [Threads -> 0 .. MaxAttaches]
    /\ stack \in [Threads -> Seq(Frames)]
    /\ \A t \in Threads : Len(stack[t]) > 0

\* A function that has attached runs on an attached thread until it detaches
\* itself, and the JNIEnv it got (with every local reference it got through it)
\* stays the thread's: no function called below it, and no call of Java back
\* into C++, detaches the thread, not even to attach it again.
EnvIsValid ==
    \A t \in Threads : \A i \in DOMAIN stack[t] :
        stack[t][i].function \in Attaching => attached[t] /\ stack[t][i].env = env[t]

\* Every thread is left as it was found, also when attaching fails: one of
\* libflowdrop's own is detached when it is back there, where it may end, and a
\* Java thread is always attached.
LeftAsFound ==
    \A t \in Threads :
        /\ t \in JavaThreads => attached[t]
        /\ t \in NativeThreads /\ Len(stack[t]) = 1 => ~attached[t]

\* An exception of attachJavaVM unwinds no function that has attached, although
\* none of them would detach: only the outermost function can fail.
ThrowSkipsNoDetach ==
    [][\A t \in Threads, f \in Functions : AttachFails(t, f) => Len(stack'[t]) = Len(stack[t])]_vars
=============================================================================
