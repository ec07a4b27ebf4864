---------------------------- MODULE NativeCallbacks ----------------------------
(***************************************************************************)
(* C++ functions that Java calls: dnssd.cpp hands a pointer to a function  *)
(* to a Java object, NsdDNSSD keeps that in a listener, and NsdManager     *)
(* calls the listener on a thread of its own.  Who calls registerService   *)
(* and findService stays in them until its isStopped says so, and what it  *)
(* has passed by reference is gone with it; resolveService returns at once,*)
(* so its function is copied to the heap, and the reply frees the copy.    *)
(***************************************************************************)
EXTENDS Naturals

CONSTANTS Registrations, Discoveries, Resolutions, Queries,   \* calls of libflowdrop
          MaxFound   \* bound: services found

ASSUME BoundsAssumption == MaxFound \in Nat
ASSUME CallsAssumption ==
    /\ Registrations \cap Discoveries = {}
    /\ (Registrations \cup Discoveries) \cap (Resolutions \cup Queries) = {}
    /\ Resolutions \cap Queries = {}

Polling == Registrations \cup Discoveries   \* calls that end when isStopped says so
Copying == Resolutions \cup Queries         \* calls that copy their function
Listening == Polling \cup Resolutions       \* calls that give NsdManager a listener
Calls == Listening \cup Queries

VARIABLES
    caller,      \* what libflowdrop does about each call
    isStopped,   \* what the function passed as isStopped says
    copy,        \* the function on the heap
    listener,    \* what NsdManager knows of the call's listener
    failed,      \* history: listeners that were told of a failure
    running,     \* discoveries whose function NsdManager's thread is in
    found,       \* services found so far
    death        \* why the process has died, or NONE

vars == <<caller, isStopped, copy, listener, failed, running, found, death>>

NONE == "NONE"

Init ==
    /\ caller = [c \in Calls |-> "idle"]
    /\ isStopped = [c \in Polling |-> FALSE]
    /\ copy = [c \in Copying |-> NONE]
    /\ listener = [c \in Listening |-> NONE]
    /\ failed = {}
    /\ running = {}
    /\ found = 0
    /\ death = NONE

Alive == death = NONE

-----------------------------------------------------------------------------
(* libflowdrop calls, on threads of its own or of Java.                    *)

Calling(c) ==
    /\ Alive
    /\ caller[c] = "idle"
    /\ caller' = [caller EXCEPT ![c] = "calling"]

Listen(c) == listener' = [listener EXCEPT ![c] = "starting"]

registerService(c) ==
    /\ Calling(c)
    /\ Listen(c)
    /\ UNCHANGED <<isStopped, copy, failed, running, found, death>>

findService(c) ==
    /\ Calling(c)
    /\ Listen(c)
    /\ UNCHANGED <<isStopped, copy, failed, running, found, death>>

resolveService(c) ==
    /\ Calling(c)
    /\ copy' = [copy EXCEPT ![c] = "allocated"]
    /\ Listen(c)
    /\ UNCHANGED <<isStopped, failed, running, found, death>>

\* NsdDNSSD queries nothing, and nobody gets the copy.
queryIPv4Address(c) ==
    /\ Calling(c)
    /\ copy' = [copy EXCEPT ![c] = "allocated"]
    /\ UNCHANGED <<isStopped, listener, failed, running, found, death>>

\* resolveService and queryIPv4Address return, and the function they were given
\* may be gone.
Return(c) ==
    /\ Alive
    /\ caller[c] = "calling"
    /\ caller' = [caller EXCEPT ![c] = "returned"]
    /\ UNCHANGED <<isStopped, copy, listener, failed, running, found, death>>

Stop(c) ==
    /\ Alive
    /\ isStopped' = [isStopped EXCEPT ![c] = TRUE]
    /\ UNCHANGED <<caller, copy, listener, failed, running, found, death>>

\* Mutant: the opposite.
IsStopped_Not(c) == ~isStopped[c]

\* What NativeIsStoppedFunc tells the loop that polls it.
IsStopped(c) == isStopped[c]

\* NsdManager forgets a listener that it told of a failure to start, and throws
\* when it is asked to stop one that it does not know. No one catches that.
StopListening(c) ==
    IF listener[c] = "removed"
    THEN death' = "stop" /\ UNCHANGED listener
    ELSE listener' = [listener EXCEPT ![c] = "stopping"] /\ UNCHANGED death

\* Mutant: the listener stays.
unregisterService_Not(c) ==
    /\ Alive
    /\ caller[c] = "calling" /\ IsStopped(c)
    /\ caller' = [caller EXCEPT ![c] = "returned"]
    /\ UNCHANGED <<isStopped, copy, listener, failed, running, found, death>>

unregisterService(c) ==
    /\ Alive
    /\ caller[c] = "calling" /\ IsStopped(c)
    /\ StopListening(c)
    /\ caller' = [caller EXCEPT ![c] = "returned"]
    /\ UNCHANGED <<isStopped, copy, failed, running, found>>

\* Mutant: no break.
stopServiceDiscovery_Again(c) ==
    /\ Alive
    /\ caller[c] = "calling" /\ IsStopped(c)
    /\ StopListening(c)
    /\ UNCHANGED <<caller, isStopped, copy, failed, running, found>>

stopServiceDiscovery(c) ==
    /\ Alive
    /\ caller[c] = "calling" /\ IsStopped(c)
    /\ StopListening(c)
    /\ caller' = [caller EXCEPT ![c] = "returned"]
    /\ UNCHANGED <<isStopped, copy, failed, running, found>>

libflowdrop ==
    \/ \E c \in Registrations : registerService(c) \/ unregisterService(c)
    \/ \E c \in Discoveries : findService(c) \/ stopServiceDiscovery(c)
    \/ \E c \in Resolutions : resolveService(c)
    \/ \E c \in Queries : queryIPv4Address(c)
    \/ \E c \in Copying : Return(c)
    \/ \E c \in Polling : Stop(c)

-----------------------------------------------------------------------------
(* NsdManager's thread, which does one thing at a time.                    *)

Handling(c, known) ==
    /\ Alive
    /\ running = {}
    /\ listener[c] \in known

\* onServiceRegistered and onDiscoveryStarted do nothing.
OnStarted(c) ==
    /\ Handling(c, {"starting"})
    /\ listener' = [listener EXCEPT ![c] = "started"]
    /\ UNCHANGED <<caller, isStopped, copy, failed, running, found, death>>

\* onRegistrationFailed and onStartDiscoveryFailed do nothing either, and
\* onResolveFailed tells only the log.
OnFailed(c) ==
    /\ Handling(c, {"starting"})
    /\ listener' = [listener EXCEPT ![c] = "removed"]
    /\ failed' = failed \cup {c}
    /\ UNCHANGED <<caller, isStopped, copy, running, found, death>>

\* Registered or discovering no longer, or failed to stop.
OnStopped(c) ==
    /\ Handling(c, {"stopping"})
    /\ listener' = [listener EXCEPT ![c] = "removed"]
    /\ UNCHANGED <<caller, isStopped, copy, failed, running, found, death>>

\* Into the function that findService was given a reference to.
OnServiceFound(c) ==
    /\ Handling(c, {"started", "stopping"})
    /\ found < MaxFound
    /\ found' = found + 1
    /\ running' = {c}
    /\ UNCHANGED <<caller, isStopped, copy, listener, failed, death>>

\* The function has done its work. If findService has returned meanwhile, or
\* before, there is no telling what was called: it may still work or do nothing,
\* or the process dies.
OnServiceFoundEnd(c) ==
    /\ Alive
    /\ c \in running
    /\ \/ running' = {} /\ UNCHANGED death
       \/ caller[c] = "returned" /\ death' = "find" /\ UNCHANGED running
    /\ UNCHANGED <<caller, isStopped, copy, listener, failed, found>>

\* Mutant: the pointer that resolveService gives to Java is that of its parameter.
Valid_Reference(c) == caller[c] = "calling"

\* The pointer that resolveService gives to Java points to the copy.
Valid(c) == copy[c] = "allocated"

\* Mutant: without delete.
jlongToStdFunction_Leaks(c) == UNCHANGED copy

jlongToStdFunction(c) == copy' = [copy EXCEPT ![c] = "freed"]

\* Of NativeResolveCallback.
accept(c) ==
    IF Valid(c)
    THEN jlongToStdFunction(c) /\ UNCHANGED death
    ELSE death' = "resolve" /\ UNCHANGED copy

OnServiceResolved(c) ==
    /\ Handling(c, {"starting"})
    /\ listener' = [listener EXCEPT ![c] = "removed"]
    /\ accept(c)
    /\ UNCHANGED <<caller, isStopped, failed, running, found>>

NsdManager ==
    \/ \E c \in Polling : OnStarted(c) \/ OnStopped(c)
    \/ \E c \in Listening : OnFailed(c)
    \/ \E c \in Discoveries : OnServiceFound(c) \/ OnServiceFoundEnd(c)
    \/ \E c \in Resolutions : OnServiceResolved(c)

Next == libflowdrop \/ NsdManager

\* Threads that poll go on, and so does NsdManager's.
Fairness ==
    /\ \A c \in Registrations : WF_vars(unregisterService(c))
    /\ \A c \in Discoveries : WF_vars(stopServiceDiscovery(c)) /\ WF_vars(OnServiceFoundEnd(c))
    /\ \A c \in Polling : SF_vars(OnStopped(c))

Spec == Init /\ [][Next]_vars /\ Fairness

-----------------------------------------------------------------------------
(* Properties                                                              *)

\* The types.
TypeOK ==
    /\ caller \in [Calls -> {"idle", "calling", "returned"}]
    /\ isStopped \in [Polling -> BOOLEAN]
    /\ copy \in [Copying -> {NONE, "allocated", "freed"}]
    /\ listener \in [Listening -> {NONE, "starting", "started", "stopping", "removed"}]
    /\ failed \subseteq Listening
    /\ running \subseteq Discoveries
    /\ found \in 0 .. MaxFound
    /\ death \in {NONE, "stop", "find", "resolve"}

\* The reply to resolveService, which comes before or long after that has
\* returned, finds its function on the heap: no process dies of it.
ReplyFindsItsFunction == death # "resolve"

\* A function on the heap is freed by the reply to its resolution: what is still
\* there waits for a reply, unless the resolution has failed.
RepliesFree ==
    \A c \in Resolutions :
        copy[c] = "allocated" <=> listener[c] = "starting" \/ c \in failed

\* Stopping a registration or a discovery throws only if it had failed to start,
\* never because of the order in which NsdManager's thread and the one that
\* polls come along: not before it has started, and not twice.
ThrowsOnlyAfterFailure ==
    death = "stop" => \E c \in Polling : c \in failed /\ isStopped[c]

\* Whoever is told to stop leaves registerService and findService, unless the
\* process dies.
StopReturns ==
    \A c \in Polling : caller[c] = "calling" /\ isStopped[c] ~> caller[c] = "returned" \/ ~Alive

\* What libflowdrop has left, NsdManager forgets: no service stays registered
\* and no discovery goes on without anyone to hear of it.
ListenersGo ==
    \A c \in Polling : caller[c] = "returned" ~> listener[c] = "removed" \/ ~Alive
=============================================================================
