--------------------------- MODULE FileAcceptance ---------------------------
(***************************************************************************)
(* How a transfer asked for by another device is accepted or refused:      *)
(* the ask callback of ServerForegroundService (run by the native server's *)
(* threads), the FilesAcceptanceReceiver and its AtomicBooleanCallbacks,   *)
(* the app's main thread with its looper, the one notification that all    *)
(* asks and transfers share, and Android's table of PendingIntents.        *)
(*                                                                         *)
(* An element of Asks is one invocation of the ask callback; it also names *)
(* the AtomicBooleanCallback that the invocation creates and the           *)
(* PendingIntent records first created for its notification. The receiver  *)
(* is exported and asks for no permission: an element of Others is one     *)
(* broadcast sent to it from outside this app, for whatever id.            *)
(***************************************************************************)
EXTENDS Naturals, Sequences

CONSTANTS Asks,         \* invocations of the ask callback
          NoAsk,        \* "none" where an ask is expected
          Others,       \* broadcasts to the receiver from outside the app
          OtherAnswers, \* what these may say: an action and an id
          MaxDeaths     \* bound: how often the app's process may die

ASSUME NoAskAssumption == NoAsk \notin Asks
ASSUME MaxDeathsAssumption == MaxDeaths \in Nat

Actions == {"accept", "decline"}

ASSUME OthersAssumption ==
    /\ Others \intersect (Asks \union {NoAsk}) = {}
    /\ OtherAnswers \subseteq [action : Actions, id : Nat]

VARIABLES
    pc,              \* where each ask's thread is
    acceptanceId,    \* the id the ask drew
    atomicBoolean,   \* AtomicBooleanCallback: the value
    countDownLatch,  \* AtomicBooleanCallback: TRUE once counted down
    result,          \* what the ask callback returned, or "none"
    ATOMIC_INTEGER,  \* FilesAcceptanceReceiver: last id drawn
    CALLBACKS,       \* FilesAcceptanceReceiver: id -> ask whose callback it is
    looper,          \* main looper's queue of posted Runnables
    main,            \* what the main thread is in the middle of
    notification,    \* what notification ACCEPTING_FILES shows
    pendingIntent,   \* live PendingIntent record per action: the ask whose id it carries
    broadcasts,      \* broadcasts on their way to FilesAcceptanceReceiver
    deaths,          \* how often the process has died
    sent,            \* history: every broadcast sent, and the ask on the screen
                     \* when it was the user's, or NoAsk
    answer           \* history: the broadcast that answered each ask, or NoBroadcast

thread == <<pc, acceptanceId, result>>
callback == <<atomicBoolean, countDownLatch>>
receiver == <<ATOMIC_INTEGER, CALLBACKS>>
system == <<notification, pendingIntent, broadcasts, sent>>
vars == <<thread, callback, receiver, looper, main, system, deaths, answer>>

Jobs == [job : {"ask", "cancel", "transfer"}, ask : Asks]
\* A broadcast of the app comes from a PendingIntent record and carries the
\* id that the record was created with.
Broadcasts == [action : Actions, from : Asks \union Others, id : Nat]
NoBroadcast == [action |-> "none", from |-> NoAsk, id |-> 0]

Idle == [do |-> "idle", ask |-> NoAsk, pi |-> [c \in Actions |-> NoAsk], value |-> FALSE]
Shown(kind, a, pi) == [kind |-> kind, ask |-> a, pi |-> pi]
NoNotification == Shown("none", NoAsk, Idle.pi)

Init ==
    /\ pc = [a \in Asks |-> "idle"]
    /\ acceptanceId = [a \in Asks |-> 0]
    /\ atomicBoolean = [a \in Asks |-> FALSE]
    /\ countDownLatch = [a \in Asks |-> FALSE]
    /\ result = [a \in Asks |-> "none"]
    /\ ATOMIC_INTEGER = 0
    /\ CALLBACKS = [i \in {} |-> NoAsk]
    /\ looper = << >>
    /\ main = Idle
    /\ notification = NoNotification
    /\ pendingIntent = [c \in Actions |-> NoAsk]
    /\ broadcasts = << >>
    /\ deaths = 0
    /\ sent = {}
    /\ answer = [a \in Asks |-> NoBroadcast]

Post(job, a) == looper' = Append(looper, [job |-> job, ask |-> a])

-----------------------------------------------------------------------------
(* The thread of an ask: draw an id, register the callback, post the       *)
(* notification, wait, return.                                             *)

\* Mutant: the id is read, not drawn.
IncrementAndGet_Read(a) ==
    /\ pc[a] = "idle"
    /\ acceptanceId' = [acceptanceId EXCEPT ![a] = ATOMIC_INTEGER + 1]
    /\ pc' = [pc EXCEPT ![a] = "register"]
    /\ UNCHANGED <<callback, result, receiver, looper, main, system, deaths, answer>>

IncrementAndGet(a) ==
    /\ pc[a] = "idle"
    /\ ATOMIC_INTEGER' = ATOMIC_INTEGER + 1
    /\ acceptanceId' = [acceptanceId EXCEPT ![a] = ATOMIC_INTEGER']
    /\ pc' = [pc EXCEPT ![a] = "register"]
    /\ UNCHANGED <<callback, result, CALLBACKS, looper, main, system, deaths, answer>>

PutCallback(a) ==
    /\ pc[a] = "register"
    /\ CALLBACKS' = [i \in DOMAIN CALLBACKS \union {acceptanceId[a]} |->
                        IF i = acceptanceId[a] THEN a ELSE CALLBACKS[i]]
    /\ pc' = [pc EXCEPT ![a] = "post"]
    /\ UNCHANGED <<callback, acceptanceId, result, ATOMIC_INTEGER, looper, main, system,
                   deaths, answer>>

PostNotification(a) ==
    /\ pc[a] = "post"
    /\ Post("ask", a)
    /\ pc' = [pc EXCEPT ![a] = "await"]
    /\ UNCHANGED <<callback, acceptanceId, result, receiver, main, system, deaths, answer>>

\* Mutant: a refusal leaves the notification alone.
Return_Silent(a, accepted) ==
    /\ result' = [result EXCEPT ![a] = IF accepted THEN "true" ELSE "false"]
    /\ pc' = [pc EXCEPT ![a] = IF accepted THEN "receiving" ELSE "done"]
    /\ UNCHANGED <<callback, acceptanceId, receiver, looper, main, system, deaths, answer>>

\* callback.await(30 s) returned; a refusal posts the cancellation of the
\* notification before the callback returns.
Return(a, accepted) ==
    /\ result' = [result EXCEPT ![a] = IF accepted THEN "true" ELSE "false"]
    /\ pc' = [pc EXCEPT ![a] = IF accepted THEN "receiving" ELSE "done"]
    /\ IF accepted THEN UNCHANGED looper ELSE Post("cancel", a)
    /\ UNCHANGED <<callback, acceptanceId, receiver, main, system, deaths, answer>>

AwaitAnswered(a) ==
    /\ pc[a] = "await"
    /\ countDownLatch[a]
    /\ Return(a, atomicBoolean[a])

\* Mutant: orElse(true).
AwaitTimedOut_Accepts(a) == pc[a] = "await" /\ ~countDownLatch[a] /\ Return(a, TRUE)

AwaitTimedOut(a) ==
    /\ pc[a] = "await"
    /\ ~countDownLatch[a]
    /\ Return(a, FALSE)

(* The accepted transfer: ServerListener posts its notification on         *)
(* progress (at most one such post is waiting per transfer: a bound on the *)
(* looper) and at the end; a sender that goes away produces neither.       *)
ReceivingTotalProgress(a) ==
    /\ pc[a] = "receiving"
    /\ \A i \in DOMAIN looper : looper[i] # [job |-> "transfer", ask |-> a]
    /\ Post("transfer", a)
    /\ UNCHANGED <<thread, callback, receiver, main, system, deaths, answer>>

ReceivingEnd(a) ==
    /\ pc[a] = "receiving"
    /\ pc' = [pc EXCEPT ![a] = "done"]
    /\ Post("transfer", a)
    /\ UNCHANGED <<acceptanceId, result, callback, receiver, main, system, deaths, answer>>

SenderGone(a) ==
    /\ pc[a] = "receiving"
    /\ pc' = [pc EXCEPT ![a] = "done"]
    /\ UNCHANGED <<acceptanceId, result, callback, receiver, looper, main, system, deaths,
                   answer>>

AskThread(a) ==
    \/ IncrementAndGet(a) \/ PutCallback(a) \/ PostNotification(a)
    \/ AwaitAnswered(a) \/ AwaitTimedOut(a)

Transfer(a) == ReceivingTotalProgress(a) \/ ReceivingEnd(a) \/ SenderGone(a)

-----------------------------------------------------------------------------
(* The main thread: Runnables in the order posted, and broadcasts.         *)

NextJob(job) ==
    /\ main.do = "idle"
    /\ looper # << >>
    /\ Head(looper).job = job
    /\ looper' = Tail(looper)

\* PendingIntent.getBroadcast without FLAG_UPDATE_CURRENT: a live record for
\* the same action is returned as it is, with the id it was created with.
makeAcceptanceIntent(a) ==
    [c \in Actions |-> IF pendingIntent[c] = NoAsk THEN a ELSE pendingIntent[c]]

BuildNotification ==
    /\ NextJob("ask")
    /\ LET a == Head(looper).ask
       IN  /\ pendingIntent' = makeAcceptanceIntent(a)
           /\ main' = [Idle EXCEPT !.do = "notify", !.ask = a, !.pi = pendingIntent']
    /\ UNCHANGED <<thread, callback, receiver, notification, broadcasts, sent, deaths, answer>>

Notify ==
    /\ main.do = "notify"
    /\ notification' = Shown("ask", main.ask, main.pi)
    /\ main' = Idle
    /\ UNCHANGED <<thread, callback, receiver, looper, pendingIntent, broadcasts, sent, deaths,
                   answer>>

CancelNotification ==
    /\ NextJob("cancel")
    /\ notification' = NoNotification
    /\ UNCHANGED <<thread, callback, receiver, main, pendingIntent, broadcasts, sent, deaths,
                   answer>>

NotifyTransfer ==
    /\ NextJob("transfer")
    /\ notification' = Shown("transfer", Head(looper).ask, Idle.pi)
    /\ UNCHANGED <<thread, callback, receiver, main, pendingIntent, broadcasts, sent, deaths,
                   answer>>

\* FilesAcceptanceReceiver.onReceive up to CALLBACKS.remove; an id that is
\* not in CALLBACKS is ignored.
OnReceive ==
    /\ main.do = "idle"
    /\ broadcasts # << >>
    /\ broadcasts' = Tail(broadcasts)
    /\ LET b  == Head(broadcasts)
           id == b.id
       IN  IF id \in DOMAIN CALLBACKS
           THEN /\ CALLBACKS' = [i \in DOMAIN CALLBACKS \ {id} |-> CALLBACKS[i]]
                /\ main' = [Idle EXCEPT !.do = "set", !.ask = CALLBACKS[id],
                                        !.value = (b.action = "accept")]
                /\ answer' = [answer EXCEPT ![CALLBACKS[id]] = b]
           ELSE UNCHANGED <<CALLBACKS, main, answer>>
    /\ UNCHANGED <<thread, callback, ATOMIC_INTEGER, looper, notification, pendingIntent, sent,
                   deaths>>

Write(now, next) ==
    /\ main.do = now
    /\ atomicBoolean' = [atomicBoolean EXCEPT ![main.ask] = main.value]
    /\ main' = next
    /\ UNCHANGED countDownLatch

CountDown(now, next) ==
    /\ main.do = now
    /\ countDownLatch' = [countDownLatch EXCEPT ![main.ask] = TRUE]
    /\ main' = next
    /\ UNCHANGED atomicBoolean

\* Mutant: the latch is counted down before the value is written.
CallbackSet_Swapped ==
    /\ \/ CountDown("set", [main EXCEPT !.do = "countDown"])
       \/ Write("countDown", Idle)
    /\ UNCHANGED <<thread, receiver, looper, system, deaths, answer>>

\* AtomicBooleanCallback.set: write the value, then count the latch down.
CallbackSet ==
    /\ \/ Write("set", [main EXCEPT !.do = "countDown"])
       \/ CountDown("countDown", Idle)
    /\ UNCHANGED <<thread, receiver, looper, system, deaths, answer>>

RunLooper == BuildNotification \/ Notify \/ CancelNotification \/ NotifyTransfer
Receive == OnReceive \/ CallbackSet

-----------------------------------------------------------------------------
(* The user and the system. PendingIntents are FLAG_ONE_SHOT: firing one   *)
(* removes its record, and a button whose record is gone does nothing.     *)

Live(c) == notification.kind = "ask" /\ pendingIntent[c] = notification.pi[c]

Record(c) == [action |-> c, from |-> pendingIntent[c], id |-> acceptanceId[pendingIntent[c]]]

\* Mutant: without FLAG_ONE_SHOT, up to one broadcast at a time.
Fire_Again(c) ==
    LET b == Record(c)
    IN  /\ broadcasts = << >>
        /\ broadcasts' = Append(broadcasts, b)
        /\ sent' = sent \union {[shown |-> notification.ask, broadcast |-> b]}
        /\ UNCHANGED pendingIntent

Fire(c) ==
    LET b == Record(c)
    IN  /\ pendingIntent' = [pendingIntent EXCEPT ![c] = NoAsk]
        /\ broadcasts' = Append(broadcasts, b)
        /\ sent' = sent \union {[shown |-> notification.ask, broadcast |-> b]}

Tap(c) ==
    /\ Live(c)
    /\ Fire(c)
    /\ UNCHANGED <<thread, callback, receiver, looper, main, notification, deaths, answer>>

\* Swiping the notification away fires its deleteIntent, the decline record.
Swipe ==
    /\ notification.kind # "none"
    /\ notification' = NoNotification
    /\ IF Live("decline") THEN Fire("decline")
       ELSE UNCHANGED <<pendingIntent, broadcasts, sent>>
    /\ UNCHANGED <<thread, callback, receiver, looper, main, deaths, answer>>

\* Anyone else sends the receiver an answer: no notification need be on the
\* screen, and the id need not be that of an ask. Each is sent at most once.
OtherBroadcast(o, x) ==
    LET b == [action |-> x.action, from |-> o, id |-> x.id]
    IN  /\ \A t \in sent : t.broadcast.from # o
        /\ broadcasts' = Append(broadcasts, b)
        /\ sent' = sent \union {[shown |-> NoAsk, broadcast |-> b]}
        /\ UNCHANGED <<thread, callback, receiver, looper, main, notification, pendingIntent,
                       deaths, answer>>

\* The system drops a record once nothing refers to it.
Collect(c) ==
    /\ pendingIntent[c] # NoAsk
    /\ pendingIntent[c] \notin {notification.pi[c], main.pi[c]}
    /\ pendingIntent' = [pendingIntent EXCEPT ![c] = NoAsk]
    /\ UNCHANGED <<thread, callback, receiver, looper, main, notification, broadcasts, sent,
                   deaths, answer>>

\* The process dies and START_STICKY starts another: threads, statics,
\* callbacks and the looper's queue are lost, notification, PendingIntents
\* and broadcasts under way are not.
ProcessDeath ==
    /\ deaths < MaxDeaths
    /\ deaths' = deaths + 1
    /\ pc' = [a \in Asks |-> IF pc[a] = "idle" THEN "idle" ELSE "dead"]
    /\ atomicBoolean' = [a \in Asks |-> FALSE]
    /\ countDownLatch' = [a \in Asks |-> FALSE]
    /\ ATOMIC_INTEGER' = 0
    /\ CALLBACKS' = [i \in {} |-> NoAsk]
    /\ looper' = << >>
    /\ main' = Idle
    /\ UNCHANGED <<acceptanceId, result, system, answer>>

Next ==
    \/ \E a \in Asks : AskThread(a) \/ Transfer(a)
    \/ RunLooper
    \/ Receive
    \/ \E c \in Actions : Tap(c) \/ Collect(c)
    \/ Swipe
    \/ \E o \in Others, x \in OtherAnswers : OtherBroadcast(o, x)
    \/ ProcessDeath

\* The threads of asks run: their await is bounded by its timeout. Nothing
\* makes a sender ask, a transfer progress, the main thread get on, or the
\* user or anyone else answer.
Fairness == \A a \in Asks : WF_vars(pc[a] # "idle" /\ AskThread(a))

Spec == Init /\ [][Next]_vars
FairSpec == Spec /\ Fairness

-----------------------------------------------------------------------------
(* Properties                                                              *)

TypeOK ==
    /\ pc \in [Asks -> {"idle", "register", "post", "await", "receiving", "done", "dead"}]
    /\ acceptanceId \in [Asks -> Nat]
    /\ atomicBoolean \in [Asks -> BOOLEAN]
    /\ countDownLatch \in [Asks -> BOOLEAN]
    /\ result \in [Asks -> {"none", "true", "false"}]
    /\ ATOMIC_INTEGER \in Nat
    /\ DOMAIN CALLBACKS \subseteq Nat
    /\ CALLBACKS \in [DOMAIN CALLBACKS -> Asks]
    /\ looper \in Seq(Jobs)
    /\ main \in [do : {"idle", "notify", "set", "countDown"}, ask : Asks \union {NoAsk},
                 pi : [Actions -> Asks \union {NoAsk}], value : BOOLEAN]
    /\ main.do # "idle" => main.ask \in Asks
    /\ main.do = "notify" => main.pi \in [Actions -> Asks]
    /\ notification \in [kind : {"none", "ask", "transfer"}, ask : Asks \union {NoAsk},
                         pi : [Actions -> Asks \union {NoAsk}]]
    /\ notification.kind # "none" => notification.ask \in Asks
    /\ notification.kind = "ask" => notification.pi \in [Actions -> Asks]
    /\ pendingIntent \in [Actions -> Asks \union {NoAsk}]
    /\ broadcasts \in Seq(Broadcasts)
    /\ deaths \in 0 .. MaxDeaths
    /\ sent \subseteq [shown : Asks \union {NoAsk}, broadcast : Broadcasts]
    /\ answer \in [Asks -> Broadcasts \union {NoBroadcast}]

\* An ask that waits and has not been answered is in CALLBACKS under its own
\* id, whatever other asks draw and register meanwhile: an answer that
\* carries this id finds it (ServerForegroundService:127-147).
WaitingAskIsRegistered ==
    \A a \in Asks :
        pc[a] = "await" /\ answer[a] = NoBroadcast =>
            acceptanceId[a] \in DOMAIN CALLBACKS /\ CALLBACKS[acceptanceId[a]] = a

\* An ask whose latch opened before its await ended returns exactly what the
\* user answered, however the receiver and the ask's thread interleave
\* (AtomicBooleanCallback sets the value before it counts down).
ResultIsTheAnswer ==
    [][\A a \in Asks :
         result'[a] # result[a] /\ countDownLatch[a] =>
             result'[a] = (IF answer[a].action = "accept" THEN "true" ELSE "false")]_vars

\* A transfer starts only on an Accept that was sent and carries the ask's
\* id: from a notification the user had on the screen and a record created
\* with this id, or from outside the app. No Accept starts two transfers, not
\* even after the process died and the ids began again at 1 (FLAG_ONE_SHOT
\* and CALLBACKS.remove).
OneAcceptPerTransfer ==
    \A a, b \in Asks :
        result[a] = "true" =>
            /\ answer[a].action = "accept" /\ answer[a].id = acceptanceId[a]
            /\ \E t \in sent :
                  /\ t.broadcast = answer[a]
                  /\ t.broadcast.from \notin Others =>
                        t.shown # NoAsk /\ acceptanceId[t.broadcast.from] = acceptanceId[a]
            /\ result[b] = "true" /\ answer[a] = answer[b] => a = b

\* The notification of an ask that was refused or timed out is on its way
\* out: in the looper its cancellation comes after its display, so it is not
\* left on the screen while the process lives (ServerForegroundService:130-153).
RefusedAskIsWithdrawn ==
    notification.kind = "ask" /\ pc[notification.ask] = "done"
        /\ result[notification.ask] = "false" =>
            \E i \in DOMAIN looper : looper[i].job = "cancel"

\* An ask returns true only if the user accepted the notification of this
\* ask: what "Someone is asking you for receive file(s)" puts to the user.
\* False even if nobody else answers: a live PendingIntent keeps the id of an
\* earlier ask.
OwnConsent ==
    \A a \in Asks :
        result[a] = "true" => \E t \in sent : t.shown = a /\ t.broadcast.action = "accept"

-----------------------------------------------------------------------------
(* FileAcceptance implements Consent.                                      *)

AbstractOutcome(a) ==
    CASE pc[a] = "idle" -> "idle"
      [] result[a] = "true" -> "granted"
      [] result[a] = "false" -> "refused"
      [] result[a] = "none" /\ pc[a] = "dead" -> "lost"
      [] OTHER -> "pending"

\* A token is where an Accept came from: a record or a broadcast from outside.
C == INSTANCE Consent WITH
        Tokens <- Asks \union Others,
        NoToken <- NoAsk,
        outcome <- [a \in Asks |-> AbstractOutcome(a)],
        given <- {t.broadcast.from : t \in {u \in sent : u.broadcast.action = "accept"}},
        used <- [a \in Asks |-> IF result[a] = "true" THEN answer[a].from ELSE NoAsk]

ImplementsConsent == C!Spec
=============================================================================
