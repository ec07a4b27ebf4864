------------------------------ MODULE Consent ------------------------------
(***************************************************************************)
(* What accepting files promises, whatever the threads, the looper and the *)
(* notifications do: an ask is granted only by consuming an Accept that    *)
(* the phone was sent, no Accept grants two asks, and every ask is decided *)
(* unless its process dies first. Who sends Accepts is left open, as the   *)
(* app does: its own notification when the user taps it, or anyone, since  *)
(* the receiver is exported. FileAcceptance is shown to implement this on  *)
(* one phone, Peers on several together.                                   *)
(***************************************************************************)
CONSTANTS Asks,
          Tokens,           \* a token stands for one Accept sent to the phone
          NoToken           \* no member of Tokens

VARIABLES outcome,          \* what became of each ask
          given,            \* the Accepts sent so far
          used              \* ask -> the Accept that granted it, or NoToken

vars == <<outcome, given, used>>

Init ==
    /\ outcome = [a \in Asks |-> "idle"]
    /\ given = {}
    /\ used = [a \in Asks |-> NoToken]

Ask(a) ==
    /\ outcome[a] = "idle"
    /\ outcome' = [outcome EXCEPT ![a] = "pending"]
    /\ UNCHANGED <<given, used>>

Accept(t) ==
    /\ given' = given \union {t}
    /\ UNCHANGED <<outcome, used>>

Grant(a, t) ==
    /\ outcome[a] = "pending"
    /\ t \in given
    /\ \A b \in Asks : used[b] # t
    /\ outcome' = [outcome EXCEPT ![a] = "granted"]
    /\ used' = [used EXCEPT ![a] = t]
    /\ UNCHANGED given

Refuse(a) ==
    /\ outcome[a] = "pending"
    /\ outcome' = [outcome EXCEPT ![a] = "refused"]
    /\ UNCHANGED <<given, used>>

Crash ==
    /\ outcome' = [a \in Asks |-> IF outcome[a] = "pending" THEN "lost" ELSE outcome[a]]
    /\ UNCHANGED <<given, used>>

Decide(a) == Refuse(a) \/ \E t \in Tokens : Grant(a, t)

Next ==
    \/ \E a \in Asks : Ask(a) \/ Decide(a)
    \/ \E t \in Tokens : Accept(t)
    \/ Crash

Spec == Init /\ [][Next]_vars /\ \A a \in Asks : WF_vars(Decide(a))
=============================================================================
