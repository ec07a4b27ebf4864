-------------------------------- MODULE Peers --------------------------------
(***************************************************************************)
(* Several phones that send files to each other.  Each has one main thread *)
(* for everything: SendingForegroundService's job blocks it in execute     *)
(* until the receiver has answered and the files are sent, and meanwhile   *)
(* it shows no notification, takes no answer of its user and starts no     *)
(* other job.  The ask callback waits on a thread of the native server,    *)
(* and so does the other phone's main thread.  What breaks a circle of     *)
(* phones that wait for each other are timeouts.                           *)
(*                                                                         *)
(* A transfer is one job of the sending service and the ask it makes.  What *)
(* FileAcceptance and SendingService say of one phone is not repeated: which *)
(* of several requests a job sends, how an answer reaches the thread that  *)
(* waits for it, the deaths of processes.                                  *)
(***************************************************************************)
EXTENDS Naturals, Sequences

CONSTANTS Devices,
          Transfers,    \* each is from one device to another
          OtherAnswers, \* what the exported receivers are sent from outside the app
          NoTransfer    \* "none" where a transfer is expected

ASSUME TransfersAssumption == \A t \in Transfers : t.from \in Devices /\ t.to \in Devices
ASSUME NoTransferAssumption == NoTransfer \notin Transfers

VARIABLES
    main,    \* what waits for each main thread: posted jobs and broadcasts
    send,    \* how far the sender's job has come
    ask,     \* the receiver's ask callback: none, waiting, or what it returned
    shown,   \* the ask that notification ACCEPTING_FILES shows on each device
    seen,    \* the asks it has shown
    answers  \* the answers sent to receivers, by users or from outside the app

vars == <<main, send, ask, shown, seen, answers>>

Answers == {"granted", "refused"}
Jobs == [do : {"execute", "show", "cancel", "report"} \cup Answers, transfer : Transfers]
Job(what, t) == [do |-> what, transfer |-> t]

Blocking == {"resolving", "asking", "sending"}
Ended == {"unresolved", "unanswered", "refused", "broken", "sent"}

Init ==
    /\ main = [d \in Devices |-> << >>]
    /\ send = [t \in Transfers |-> "none"]
    /\ ask = [t \in Transfers |-> "none"]
    /\ shown = [d \in Devices |-> NoTransfer]
    /\ seen = {} /\ answers = {}

\* The main thread is in execute.
Blocked(d) == \E t \in Transfers : t.from = d /\ send[t] \in Blocking

Post(d, what, t) == main' = [main EXCEPT ![d] = Append(@, Job(what, t))]

-----------------------------------------------------------------------------
(* The sender.                                                             *)

\* The user chooses the receiver: sendTo, onStartCommand, handler.post.
Send(t) ==
    /\ send[t] = "none"
    /\ ~Blocked(t.from)
    /\ send' = [send EXCEPT ![t] = "posted"]
    /\ Post(t.from, "execute", t)
    /\ UNCHANGED <<ask, shown, seen, answers>>

Goes(t, from, to) ==
    /\ send[t] = from
    /\ send' = [send EXCEPT ![t] = to]
    /\ UNCHANGED <<ask, shown, seen, answers>>

\* The receiver is found, or not in time.
ResolveEnds(t) ==
    /\ \E found \in {"asking", "unresolved"} : Goes(t, "resolving", found)
    /\ UNCHANGED main

\* The answer comes, which the network does not promise.
HearAnswer(t) ==
    /\ \/ ask[t] = "granted" /\ Goes(t, "asking", "sending")
       \/ ask[t] = "refused" /\ Goes(t, "asking", "refused")
    /\ UNCHANGED main

\* Mutant: there is no askTimeout.
AskTimesOut_Never(t) == FALSE /\ UNCHANGED vars

AskTimesOut(t) == Goes(t, "asking", "unanswered") /\ UNCHANGED main

\* The files are sent, and the receiver's event listener hears onReceivingEnd.
\* (onReceivingTotalProgress only does the same sooner.) Or the transfer breaks
\* off: execute returns false, and the receiver hears nothing of it.
SendEnds(t) ==
    \/ Goes(t, "sending", "sent") /\ Post(t.to, "report", t)
    \/ Goes(t, "sending", "broken") /\ UNCHANGED main

-----------------------------------------------------------------------------
(* The receiver: its native server's threads.                              *)

\* The ask arrives, maybe after the sender has given up; the callback posts its
\* notification and waits.
AskCallback(t) ==
    /\ ask[t] = "none"
    /\ send[t] \in {"asking", "unanswered"}
    /\ ask' = [ask EXCEPT ![t] = "waiting"]
    /\ Post(t.to, "show", t)
    /\ UNCHANGED <<send, shown, seen, answers>>

\* Mutant: no answer is an Accept.
AwaitTimesOut_Accepts(t) ==
    /\ ask[t] = "waiting"
    /\ ask' = [ask EXCEPT ![t] = "granted"]
    /\ UNCHANGED <<main, send, shown, seen, answers>>

\* Mutant: only an answer takes the notification away.
AwaitTimesOut_Silent(t) ==
    /\ ask[t] = "waiting"
    /\ ask' = [ask EXCEPT ![t] = "refused"]
    /\ UNCHANGED <<main, send, shown, seen, answers>>

\* Mutant: the waiting thread takes the notification away itself, maybe before
\* the main thread has shown it.
AwaitTimesOut_AtOnce(t) ==
    /\ ask[t] = "waiting"
    /\ ask' = [ask EXCEPT ![t] = "refused"]
    /\ shown' = [shown EXCEPT ![t.to] = NoTransfer]
    /\ UNCHANGED <<main, send, seen, answers>>

\* No answer in 30 seconds, whether the notification was shown or not.
AwaitTimesOut(t) ==
    /\ ask[t] = "waiting"
    /\ ask' = [ask EXCEPT ![t] = "refused"]
    /\ Post(t.to, "cancel", t)
    /\ UNCHANGED <<send, shown, seen, answers>>

-----------------------------------------------------------------------------
(* A main thread, and the user in front of it.                             *)

\* An answer to an ask that waits. The first that is sent is the first that the
\* main thread comes to; any other finds the ask over and does nothing.
Answer(t, answer) ==
    /\ ask[t] = "waiting"
    /\ \A earlier \in Answers : Job(earlier, t) \notin answers
    /\ answers' = answers \cup {Job(answer, t)}
    /\ Post(t.to, answer, t)
    /\ UNCHANGED <<send, ask, shown, seen>>

\* A button of the notification. It may carry an earlier ask than the one that
\* is shown.
Tap(d, t, answer) ==
    /\ shown[d] # NoTransfer
    /\ t \in seen /\ t.to = d
    /\ Answer(t, answer)

\* The receiver is exported: anyone else may send it an answer, whether or not
\* the ask is on the screen.
OtherAnswer(t, answer) ==
    /\ Job(answer, t) \in OtherAnswers
    /\ Answer(t, answer)

\* Mutant: jobs do not block the main thread.
Takes_Unblocked(d, what) ==
    /\ main[d] # << >>
    /\ Head(main[d]).do = what

\* The main thread comes to what is first in its queue.
Takes(d, what) ==
    /\ ~Blocked(d)
    /\ main[d] # << >>
    /\ Head(main[d]).do = what

Rest(d) == main' = [main EXCEPT ![d] = Tail(@)]

\* Mutant: the job runs on a thread of its own, beside the one that blocks.
Execute_Beside(d) ==
    /\ main[d] # << >>
    /\ Head(main[d]).do = "execute"
    /\ send' = [send EXCEPT ![Head(main[d]).transfer] = "resolving"]
    /\ Rest(d)
    /\ UNCHANGED <<ask, shown, seen, answers>>

\* The sending service's job: everything up to execute, which now blocks.
Execute(d) ==
    /\ Takes(d, "execute")
    /\ send' = [send EXCEPT ![Head(main[d]).transfer] = "resolving"]
    /\ Rest(d)
    /\ UNCHANGED <<ask, shown, seen, answers>>

ShowAsk(d) ==
    /\ Takes(d, "show")
    /\ shown' = [shown EXCEPT ![d] = Head(main[d]).transfer]
    /\ seen' = seen \cup {Head(main[d]).transfer}
    /\ Rest(d)
    /\ UNCHANGED <<send, ask, answers>>

\* Whatever is shown goes: all asks and transfers have one notification.
ClearAsk(d) ==
    /\ Takes(d, "cancel") \/ Takes(d, "report")
    /\ shown' = [shown EXCEPT ![d] = NoTransfer]
    /\ Rest(d)
    /\ UNCHANGED <<send, ask, seen, answers>>

\* AtomicBooleanCallback.set: the callback gets its answer if it still waits,
\* returns it, and a refusal posts the cancellation.
CallbackSet(d, answer) ==
    LET t == Head(main[d]).transfer
    IN  /\ IF ask[t] # "waiting" THEN Rest(d) /\ UNCHANGED ask
           ELSE /\ ask' = [ask EXCEPT ![t] = answer]
                /\ IF answer = "granted" THEN Rest(d)
                   ELSE main' = [main EXCEPT ![d] = Append(Tail(@), Job("cancel", t))]
        /\ UNCHANGED <<send, shown, seen, answers>>

\* FilesAcceptanceReceiver, on the main thread.
OnReceive(d) == \E answer \in Answers : Takes(d, answer) /\ CallbackSet(d, answer)

MainThread(d) == Execute(d) \/ ShowAsk(d) \/ ClearAsk(d) \/ OnReceive(d)

-----------------------------------------------------------------------------

Next ==
    \/ \E t \in Transfers :
        \/ Send(t) \/ ResolveEnds(t) \/ HearAnswer(t) \/ AskTimesOut(t) \/ SendEnds(t)
        \/ AskCallback(t) \/ AwaitTimesOut(t)
    \/ \E d \in Devices :
        \/ MainThread(d)
        \/ \E t \in Transfers, answer \in Answers : Tap(d, t, answer)
    \/ \E t \in Transfers, answer \in Answers : OtherAnswer(t, answer)

\* Loopers go on; resolving, asking and awaiting have timeouts, and a transfer
\* that has begun ends. Nobody needs to answer, and no message to arrive.
Fairness ==
    /\ \A d \in Devices : WF_vars(MainThread(d))
    /\ \A t \in Transfers :
        /\ WF_vars(ResolveEnds(t)) /\ WF_vars(AskTimesOut(t)) /\ WF_vars(SendEnds(t))
        /\ WF_vars(AwaitTimesOut(t))

Spec == Init /\ [][Next]_vars
FairSpec == Spec /\ Fairness

-----------------------------------------------------------------------------
(* Properties                                                              *)

\* The types; a phone that runs one job runs no other.
TypeOK ==
    /\ main \in [Devices -> Seq(Jobs)]
    /\ send \in [Transfers -> {"none", "posted"} \cup Blocking \cup Ended]
    /\ ask \in [Transfers -> {"none", "waiting"} \cup Answers]
    /\ shown \in [Devices -> Transfers \cup {NoTransfer}]
    /\ seen \subseteq Transfers /\ answers \subseteq Jobs
    /\ \A t, u \in Transfers :
         t.from = u.from /\ send[t] \in Blocking /\ send[u] \in Blocking => t = u

\* A transfer whose Accept the sender has heard, or may hear.
Flows(t) == send[t] \in {"asking", "sending"} /\ ask[t] = "granted"

\* Accepted transfers never run in a circle: of phones that all send to one of
\* each other at once, one's ask is always open, so that its timeout ends the
\* wait of the others, whose main threads are blocked as well.
NoCircle ==
    ~\E D \in SUBSET Devices :
        /\ D # {}
        /\ \A d \in D : \E t \in Transfers : t.from = d /\ t.to \in D /\ Flows(t)

\* Every transfer that a user asks for comes to an end, though its main thread
\* may be blocked by others before it, and the receiver's by transfers to phones
\* that wait themselves; also if no user answers and no answer arrives.
EverySendEnds == \A t \in Transfers : send[t] = "posted" ~> send[t] \in Ended

\* Nobody is left with the question of a refused ask: whether it is on the
\* screen or still waits to be shown, its cancellation comes after it, however
\* long the phone's main thread is blocked meanwhile.
RefusedAskIsCleared ==
    \A t \in Transfers : ask[t] = "refused" =>
        LET q == main[t.to]
        IN  /\ shown[t.to] = t => \E k \in DOMAIN q : q[k] = Job("cancel", t)
            /\ \A i \in DOMAIN q : q[i] = Job("show", t) =>
                 \E k \in DOMAIN q : k > i /\ q[k] = Job("cancel", t)

\* A refused ask goes from the screen, also on a phone whose main thread was
\* blocked when it timed out, and which shows it only after that.
RefusedAskGoes ==
    \A t \in Transfers : ask[t] = "refused" /\ shown[t.to] = t ~> shown[t.to] # t

\* What the phones do together is what accepting promises of one: see Consent.
C == INSTANCE Consent WITH
    Asks <- Transfers, Tokens <- Transfers, NoToken <- NoTransfer,
    outcome <- [t \in Transfers |->
                  CASE ask[t] = "none" -> "idle" [] ask[t] = "waiting" -> "pending" [] OTHER -> ask[t]],
    given <- {t \in Transfers : Job("granted", t) \in answers},
    used <- [t \in Transfers |-> IF ask[t] = "granted" THEN t ELSE NoTransfer]

\* No ask of any phone is granted but by an Accept that was sent for it, by the
\* phone's user or from outside the app, and all are decided.
ImplementsConsent == C!Spec
=============================================================================
