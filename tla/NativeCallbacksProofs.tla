------------------------- MODULE NativeCallbacksProofs -------------------------
(* Proofs about NativeCallbacks, for any calls and any number of services.    *)
EXTENDS NativeCallbacks, TLAPS

\* What NsdManager knows of listeners: nothing before the call, and of one that
\* failed nothing any more. While the call polls nobody has stopped its listener,
\* so only a failure can have removed it.
Known ==
    /\ \A c \in Listening : caller[c] = "idle" => listener[c] = NONE
    /\ \A c \in failed : listener[c] = "removed"
    /\ \A c \in Polling :
          caller[c] = "calling" =>
              listener[c] # "stopping" /\ (listener[c] = "removed" => c \in failed)

IInv == TypeOK /\ Known /\ RepliesFree /\ ReplyFindsItsFunction /\ ThrowsOnlyAfterFailure

\* Initially.
LEMMA InitIInv == Init => IInv
<1> SUFFICES ASSUME Init PROVE IInv
  OBVIOUS
<1>1. TypeOK
  BY BoundsAssumption DEF Init, TypeOK
<1>2. Known /\ RepliesFree /\ ReplyFindsItsFunction /\ ThrowsOnlyAfterFailure
  BY DEF Init, Known, RepliesFree, ReplyFindsItsFunction, ThrowsOnlyAfterFailure, NONE, Listening,
         Polling, Calls, Copying
<1> QED
  BY <1>1, <1>2 DEF IInv

\* What libflowdrop does preserves the invariant.
LEMMA CallsKeepIInv == ASSUME IInv, libflowdrop PROVE IInv'
<1> USE DEF IInv
<1>1. ASSUME NEW c \in Polling, registerService(c) \/ findService(c) PROVE IInv'
  <2> USE <1>1, CallsAssumption DEF registerService, findService, Calling, Listen
  <2>1. TypeOK'
    BY DEF TypeOK, Polling, Listening, Calls
  <2>2. Known'
    BY DEF TypeOK, Known, Polling, Listening, Calls, NONE
  <2>3. RepliesFree'
    BY DEF TypeOK, RepliesFree, Polling, Listening
  <2>4. ReplyFindsItsFunction' /\ ThrowsOnlyAfterFailure'
    BY DEF ReplyFindsItsFunction, ThrowsOnlyAfterFailure
  <2> QED
    BY <2>1, <2>2, <2>3, <2>4
<1>2. ASSUME NEW c \in Resolutions, resolveService(c) PROVE IInv'
  <2> USE <1>2, CallsAssumption DEF resolveService, Calling, Listen
  <2>1. TypeOK'
    BY DEF TypeOK, Copying, Listening, Calls
  <2>2. Known'
    BY DEF TypeOK, Known, Polling, Listening, Calls, NONE
  <2>3. RepliesFree'
    BY DEF TypeOK, RepliesFree, Listening, Copying
  <2>4. ReplyFindsItsFunction' /\ ThrowsOnlyAfterFailure'
    BY DEF ReplyFindsItsFunction, ThrowsOnlyAfterFailure
  <2> QED
    BY <2>1, <2>2, <2>3, <2>4
<1>3. ASSUME NEW c \in Queries, queryIPv4Address(c) PROVE IInv'
  <2> USE <1>3, CallsAssumption DEF queryIPv4Address, Calling
  <2>1. TypeOK'
    BY DEF TypeOK, Copying, Calls
  <2>2. Known'
    BY DEF TypeOK, Known, Polling, Listening, Calls
  <2>3. RepliesFree'
    BY DEF TypeOK, RepliesFree, Copying
  <2>4. ReplyFindsItsFunction' /\ ThrowsOnlyAfterFailure'
    BY DEF ReplyFindsItsFunction, ThrowsOnlyAfterFailure
  <2> QED
    BY <2>1, <2>2, <2>3, <2>4
<1>4. ASSUME NEW c \in Copying, Return(c) PROVE IInv'
  <2> USE <1>4, CallsAssumption DEF Return
  <2>1. TypeOK'
    BY DEF TypeOK, Copying, Listening, Calls
  <2>2. Known'
    BY DEF TypeOK, Known, Copying, Polling, Listening, Calls
  <2>3. RepliesFree' /\ ReplyFindsItsFunction' /\ ThrowsOnlyAfterFailure'
    BY DEF RepliesFree, ReplyFindsItsFunction, ThrowsOnlyAfterFailure
  <2> QED
    BY <2>1, <2>2, <2>3
<1>5. ASSUME NEW c \in Polling, Stop(c) PROVE IInv'
  <2> USE <1>5 DEF Stop
  <2>1. TypeOK'
    BY DEF TypeOK
  <2>2. Known' /\ RepliesFree' /\ ReplyFindsItsFunction'
    BY DEF Known, RepliesFree, ReplyFindsItsFunction
  <2>3. ThrowsOnlyAfterFailure'
    BY DEF ThrowsOnlyAfterFailure, Alive, NONE
  <2> QED
    BY <2>1, <2>2, <2>3
<1>6. ASSUME NEW c \in Polling, unregisterService(c) \/ stopServiceDiscovery(c) PROVE IInv'
  <2> USE <1>6, CallsAssumption DEF unregisterService, stopServiceDiscovery
  <2>1. TypeOK'
    BY DEF TypeOK, StopListening, Polling, Listening, Calls
  <2>2. Known'
    <3>1. CASE listener[c] = "removed"
      BY <3>1 DEF TypeOK, Known, StopListening, Polling, Listening, Calls
    <3>2. CASE listener[c] # "removed"
      BY <3>2 DEF TypeOK, Known, StopListening, Polling, Listening, Calls
    <3> QED
      BY <3>1, <3>2
  <2>3. RepliesFree'
    BY DEF TypeOK, RepliesFree, StopListening, Polling, Listening
  <2>4. ReplyFindsItsFunction'
    BY DEF ReplyFindsItsFunction, StopListening
  <2>5. ThrowsOnlyAfterFailure'
    BY DEF ThrowsOnlyAfterFailure, Known, StopListening, IsStopped, Alive, NONE
  <2> QED
    BY <2>1, <2>2, <2>3, <2>4, <2>5
<1> QED
  BY <1>1, <1>2, <1>3, <1>4, <1>5, <1>6 DEF libflowdrop, Polling

\* What happens on NsdManager's thread does, too.
LEMMA RepliesKeepIInv == ASSUME IInv, NsdManager PROVE IInv'
<1> USE DEF IInv
<1>1. ASSUME NEW c \in Polling, OnStarted(c) PROVE IInv'
  <2> USE <1>1, CallsAssumption DEF OnStarted, Handling
  <2>1. TypeOK'
    BY DEF TypeOK, Polling, Listening
  <2>2. Known'
    BY DEF TypeOK, Known, Polling, Listening, NONE
  <2>3. RepliesFree'
    BY DEF TypeOK, RepliesFree, Polling, Listening
  <2>4. ReplyFindsItsFunction' /\ ThrowsOnlyAfterFailure'
    BY DEF ReplyFindsItsFunction, ThrowsOnlyAfterFailure
  <2> QED
    BY <2>1, <2>2, <2>3, <2>4
<1>2. ASSUME NEW c \in Listening, OnFailed(c) PROVE IInv'
  <2> USE <1>2, CallsAssumption DEF OnFailed, Handling
  <2>1. TypeOK'
    BY DEF TypeOK
  <2>2. Known'
    BY DEF TypeOK, Known, Polling, Listening, NONE
  <2>3. RepliesFree'
    BY DEF TypeOK, RepliesFree, Listening
  <2>4. ReplyFindsItsFunction' /\ ThrowsOnlyAfterFailure'
    BY DEF ReplyFindsItsFunction, ThrowsOnlyAfterFailure
  <2> QED
    BY <2>1, <2>2, <2>3, <2>4
<1>3. ASSUME NEW c \in Polling, OnStopped(c) PROVE IInv'
  <2> USE <1>3, CallsAssumption DEF OnStopped, Handling
  <2>1. TypeOK'
    BY DEF TypeOK, Polling, Listening
  <2>2. Known'
    BY DEF TypeOK, Known, Polling, Listening, NONE
  <2>3. RepliesFree'
    BY DEF TypeOK, RepliesFree, Polling, Listening
  <2>4. ReplyFindsItsFunction' /\ ThrowsOnlyAfterFailure'
    BY DEF ReplyFindsItsFunction, ThrowsOnlyAfterFailure
  <2> QED
    BY <2>1, <2>2, <2>3, <2>4
<1>4. ASSUME NEW c \in Discoveries, OnServiceFound(c) PROVE IInv'
  <2> USE <1>4, BoundsAssumption DEF OnServiceFound, Handling
  <2>1. TypeOK'
    BY DEF TypeOK
  <2>2. Known' /\ RepliesFree' /\ ReplyFindsItsFunction' /\ ThrowsOnlyAfterFailure'
    BY DEF Known, RepliesFree, ReplyFindsItsFunction, ThrowsOnlyAfterFailure
  <2> QED
    BY <2>1, <2>2
<1>5. ASSUME NEW c \in Discoveries, OnServiceFoundEnd(c) PROVE IInv'
  <2> USE <1>5 DEF OnServiceFoundEnd
  <2>1. TypeOK'
    BY DEF TypeOK
  <2>2. Known' /\ RepliesFree'
    BY DEF Known, RepliesFree
  <2>3. ReplyFindsItsFunction' /\ ThrowsOnlyAfterFailure'
    BY DEF ReplyFindsItsFunction, ThrowsOnlyAfterFailure
  <2> QED
    BY <2>1, <2>2, <2>3
<1>6. ASSUME NEW c \in Resolutions, OnServiceResolved(c) PROVE IInv'
  <2> USE <1>6, CallsAssumption DEF OnServiceResolved, Handling
  <2>1. Valid(c) /\ c \notin failed
    BY DEF Valid, RepliesFree, Known
  <2>2. jlongToStdFunction(c) /\ UNCHANGED death
    BY <2>1 DEF accept
  <2> USE <2>2 DEF jlongToStdFunction
  <2>3. TypeOK'
    BY DEF TypeOK, Copying, Listening
  <2>4. Known'
    BY DEF TypeOK, Known, Polling, Listening, NONE
  <2>5. RepliesFree'
    BY <2>1 DEF TypeOK, RepliesFree, Copying, Listening
  <2>6. ReplyFindsItsFunction' /\ ThrowsOnlyAfterFailure'
    BY DEF ReplyFindsItsFunction, ThrowsOnlyAfterFailure
  <2> QED
    BY <2>3, <2>4, <2>5, <2>6
<1> QED
  BY <1>1, <1>2, <1>3, <1>4, <1>5, <1>6 DEF NsdManager

\* The invariant, in every state.
THEOREM Invariant == Spec => []IInv
<1>1. ASSUME IInv, UNCHANGED vars PROVE IInv'
  BY <1>1 DEF IInv, vars, TypeOK, Known, RepliesFree, ReplyFindsItsFunction, ThrowsOnlyAfterFailure
<1>2. IInv /\ [Next]_vars => IInv'
  BY <1>1, CallsKeepIInv, RepliesKeepIInv DEF Next
<1> QED
  BY InitIInv, <1>2, PTL DEF Spec

\* The types are right for any calls of libflowdrop.
THEOREM TypeCorrect == Spec => []TypeOK
<1>1. IInv => TypeOK
  BY DEF IInv
<1> QED
  BY <1>1, Invariant, PTL

\* However a reply races with the return of resolveService, it finds the copy.
THEOREM ReplyFindsItsFunctionAlways == Spec => []ReplyFindsItsFunction
<1>1. IInv => ReplyFindsItsFunction
  BY DEF IInv
<1> QED
  BY <1>1, Invariant, PTL

\* A copy of a function is on the heap while a reply is due or if none came.
THEOREM RepliesFreeAlways == Spec => []RepliesFree
<1>1. IInv => RepliesFree
  BY DEF IInv
<1> QED
  BY <1>1, Invariant, PTL

\* Only a listener that has failed makes stopping throw.
THEOREM ThrowsOnlyAfterFailureAlways == Spec => []ThrowsOnlyAfterFailure
<1>1. IInv => ThrowsOnlyAfterFailure
  BY DEF IInv
<1> QED
  BY <1>1, Invariant, PTL

-----------------------------------------------------------------------------
\* The listener of a registration or a discovery that libflowdrop has left is
\* being stopped or gone: NsdManager need only come to it, as ListenersGo says
\* it does, and nothing starts it again.
LeftIsStopping ==
    \A c \in Polling : Alive /\ caller[c] = "returned" => listener[c] \in {"stopping", "removed"}

\* A step of libflowdrop leaves no listener behind.
LEMMA CallsLeaveNoListener == ASSUME IInv, LeftIsStopping, libflowdrop PROVE LeftIsStopping'
<1> USE CallsAssumption DEF IInv, LeftIsStopping, Alive
<1>1. ASSUME NEW c \in Polling, registerService(c) \/ findService(c) PROVE LeftIsStopping'
  BY <1>1 DEF registerService, findService, Calling, Listen, TypeOK, Polling, Listening, Calls
<1>2. ASSUME NEW c \in Resolutions, resolveService(c) PROVE LeftIsStopping'
  BY <1>2 DEF resolveService, Calling, Listen, TypeOK, Polling, Listening, Calls
<1>3. ASSUME NEW c \in Copying, queryIPv4Address(c) \/ Return(c) PROVE LeftIsStopping'
  BY <1>3 DEF queryIPv4Address, Return, Calling, TypeOK, Copying, Polling, Listening, Calls
<1>4. ASSUME NEW c \in Polling, Stop(c) PROVE LeftIsStopping'
  BY <1>4 DEF Stop
<1>5. ASSUME NEW c \in Polling, unregisterService(c) \/ stopServiceDiscovery(c) PROVE LeftIsStopping'
  <2> USE <1>5 DEF unregisterService, stopServiceDiscovery
  <2>1. CASE listener[c] = "removed"
    BY <2>1 DEF StopListening, NONE
  <2>2. CASE listener[c] # "removed"
    BY <2>2 DEF StopListening, TypeOK, Polling, Listening, Calls
  <2> QED
    BY <2>1, <2>2
<1> QED
  BY <1>1, <1>2, <1>3, <1>4, <1>5 DEF libflowdrop, Polling, Copying

\* And NsdManager's thread starts none that is being stopped.
LEMMA RepliesStartNoListener == ASSUME IInv, LeftIsStopping, NsdManager PROVE LeftIsStopping'
<1> USE CallsAssumption DEF IInv, LeftIsStopping, Alive, Handling
<1>1. ASSUME NEW c \in Polling, OnStarted(c) PROVE LeftIsStopping'
  BY <1>1 DEF OnStarted, TypeOK, Polling, Listening
<1>2. ASSUME NEW c \in Listening, OnFailed(c) \/ OnStopped(c) PROVE LeftIsStopping'
  BY <1>2 DEF OnFailed, OnStopped, TypeOK, Polling, Listening
<1>3. ASSUME NEW c \in Discoveries, OnServiceFound(c) \/ OnServiceFoundEnd(c) PROVE LeftIsStopping'
  BY <1>3 DEF OnServiceFound, OnServiceFoundEnd, NONE
<1>4. ASSUME NEW c \in Resolutions, OnServiceResolved(c) PROVE LeftIsStopping'
  <2>1. UNCHANGED caller /\ listener' = [listener EXCEPT ![c] = "removed"]
    BY <1>4 DEF OnServiceResolved
  <2>2. death' = death \/ death' = "resolve"
    BY <1>4 DEF OnServiceResolved, accept
  <2> QED
    BY <2>1, <2>2 DEF TypeOK, Polling, Listening, NONE
<1> QED
  BY <1>1, <1>2, <1>3, <1>4 DEF NsdManager, Polling, Listening

\* Whatever fails, no service stays registered and no discovery goes on that
\* nobody has asked NsdManager to stop, once libflowdrop has left the call.
THEOREM LeftIsStoppingAlways == Spec => []LeftIsStopping
<1>1. Init => LeftIsStopping
  BY DEF Init, LeftIsStopping, Polling, Listening, Calls
<1>2. IInv /\ LeftIsStopping /\ [Next]_vars => LeftIsStopping'
  <2>1. ASSUME LeftIsStopping, UNCHANGED vars PROVE LeftIsStopping'
    BY <2>1 DEF LeftIsStopping, Alive, vars
  <2> QED
    BY <2>1, CallsLeaveNoListener, RepliesStartNoListener DEF Next
<1> QED
  BY <1>1, <1>2, Invariant, PTL DEF Spec
=============================================================================
