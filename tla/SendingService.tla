--------------------------- MODULE SendingService ---------------------------
(***************************************************************************)
(* The sending service: SendingForegroundService on the main thread, the   *)
(* sheet that starts it once per selected receiver (SelectDevicesFragment),*)
(* the notification it shares with ServerForegroundService (both have the  *)
(* id 1), and what it relies on of Android: start commands reach the main  *)
(* looper in order but later than they are issued, posted jobs queue up    *)
(* behind them, a sticky service is created again after its process died   *)
(* and gets the start commands it has not handled, or one without intent,  *)
(* unless the system gives them or the service up because the process has  *)
(* died before.                                                            *)
(***************************************************************************)
EXTENDS Naturals, Sequences, FiniteSets

CONSTANTS Receivers,   \* the devices found
          MaxShares,   \* bound: how often the user sends files
          MaxDeaths    \* bound: how often the process dies

ASSUME BoundsAssumption == MaxShares \in Nat /\ MaxDeaths \in Nat
ASSUME ReceiversAssumption == IsFiniteSet(Receivers)

\* The extras of a start command's intent: receiverId, and the files of a share.
Intents == [receiverId : Receivers, files : 1 .. MaxShares]
NoIntent == [receiverId |-> "null", files |-> 0]

VARIABLES
    shares,         \* how often the user has sent files
    requested,      \* the intents of all start commands
    settled,        \* the last one that onStartCommand has returned from, or
                    \* that the system has given up
    starts,         \* lifecycle calls on their way to the main looper
    main,           \* the main looper's queue: lifecycle calls and posted jobs
    fields,         \* the service's fields receiverId and files
    job,            \* what the job that runs sends, or NoIntent
    sent,           \* history: what each job that ran has sent
    alive,          \* the app's process exists
    started,        \* the service is started: it never stops itself, but the
                    \* system may give it up
    foreground,     \* the service is in the foreground
    serverForeground,   \* ServerForegroundService is
    notification,   \* what notification 1 shows
    deaths          \* how often the process has died

history == <<shares, requested, sent>>
looper == <<starts, main>>
shown == <<foreground, serverForeground, notification>>
vars == <<history, settled, looper, fields, job, alive, started, shown, deaths>>

\* The number is that of the start command, also for the job it posts. A start
\* command without intent has 0.
Call(what, n) == [call |-> what, number |-> n]

Init ==
    /\ shares = 0 /\ requested = << >> /\ sent = << >>
    /\ settled = 0
    /\ starts = << >> /\ main = << >>
    /\ fields = NoIntent /\ job = NoIntent
    /\ alive = TRUE /\ started = FALSE
    /\ foreground = FALSE /\ serverForeground = FALSE
    /\ notification = "none"
    /\ deaths = 0

MainIdle == alive /\ job = NoIntent

-----------------------------------------------------------------------------
(* The sheet: onClick and singleSend call sendTo for each chosen receiver. *)

\* A device that was found twice is listed twice and may be chosen twice.
Selections == UNION { [1 .. n -> Receivers] : n \in 1 .. Cardinality(Receivers) }

Send(selected) ==
    /\ MainIdle
    /\ shares < MaxShares
    /\ shares' = shares + 1
    /\ LET intents == [i \in DOMAIN selected |-> [receiverId |-> selected[i], files |-> shares']]
       IN  /\ requested' = requested \o intents
           /\ starts' = starts \o (IF started THEN << >> ELSE << Call("create", 0) >>)
                               \o [i \in DOMAIN intents |-> Call("start", Len(requested) + i)]
    /\ started' = TRUE
    /\ UNCHANGED <<sent, settled, main, fields, job, alive, shown, deaths>>

\* The system's next call reaches the main looper's queue.
Arrive ==
    /\ alive
    /\ starts # << >>
    /\ main' = Append(main, Head(starts))
    /\ starts' = Tail(starts)
    /\ UNCHANGED <<history, settled, fields, job, alive, started, shown, deaths>>

-----------------------------------------------------------------------------
(* SendingForegroundService on the main thread.                            *)

Handle(what) ==
    /\ MainIdle
    /\ main # << >>
    /\ Head(main).call = what

OnCreate ==
    /\ Handle("create")
    /\ main' = Tail(main)
    /\ UNCHANGED <<history, settled, starts, fields, job, alive, started, shown, deaths>>

\* startForeground(1, getNotification()).
StartForeground == foreground' = TRUE /\ notification' = "resolving"

Started(n) == requested[n]      \* the intent of start command n

\* Mutant: the fields are set by the first start command only.
SetFields_First(n) == fields' = IF fields = NoIntent THEN Started(n) ELSE fields

SetFields(n) == fields' = Started(n)

\* Mutant: no job is posted while another one is waiting.
PostJob_One(n) ==
    main' = IF \E i \in DOMAIN main : main[i].call = "job" THEN Tail(main)
            ELSE Append(Tail(main), Call("job", n))

PostJob(n) == main' = Append(Tail(main), Call("job", n))

OnStartCommand ==
    /\ Handle("start")
    /\ LET n == Head(main).number
       IN  /\ n # 0
           /\ SetFields(n)
           /\ StartForeground
           /\ PostJob(n)
           /\ settled' = n
    /\ UNCHANGED <<history, starts, job, alive, started, serverForeground, deaths>>

\* The posted job: it clones the files and asks the receiver that the fields
\* name now, and execute blocks the main thread.
Execute ==
    /\ Handle("job")
    /\ main' = Tail(main)
    /\ job' = fields
    /\ sent' = Append(sent, fields)
    /\ UNCHANGED <<shares, requested, settled, starts, fields, alive, started, shown, deaths>>

\* onSendingTotalProgress, updateProgress: notify(1, ...).
UpdateProgress ==
    /\ alive /\ job # NoIntent
    /\ notification' = "progress"
    /\ UNCHANGED <<history, settled, looper, fields, job, alive, started, foreground, serverForeground, deaths>>

\* Mutant: cancel(1) instead of stopForeground.
StopForeground_Cancels ==
    /\ foreground' = FALSE
    /\ notification' = "none"

\* stopForeground(true): the notification goes with the service's foreground
\* state, unless another foreground service has the same notification id.
StopForeground ==
    /\ foreground' = FALSE
    /\ notification' = IF foreground /\ ~serverForeground THEN "none" ELSE notification

\* execute returns, whatever its result, and the job ends.
JobEnd ==
    /\ alive /\ job # NoIntent
    /\ job' = NoIntent
    /\ StopForeground
    /\ UNCHANGED <<history, settled, looper, fields, alive, started, serverForeground, deaths>>

-----------------------------------------------------------------------------
(* The notification's other owner: ServerForegroundService.onCreate calls  *)
(* startForeground(1, ...), and stopping it takes the notification away.   *)

ServerStarts ==
    /\ MainIdle
    /\ ~serverForeground
    /\ serverForeground' = TRUE
    /\ notification' = "server"
    /\ UNCHANGED <<history, settled, looper, fields, job, alive, started, foreground, deaths>>

ServerStops ==
    /\ serverForeground
    /\ serverForeground' = FALSE
    /\ notification' = IF foreground THEN notification ELSE "none"
    /\ UNCHANGED <<history, settled, looper, fields, job, alive, started, foreground, deaths>>

-----------------------------------------------------------------------------
(* Process death, and START_STICKY.                                        *)

\* Mutant: START_REDELIVER_INTENT, with the last intent delivered again.
Unhandled_Redelivers(k) ==
    IF k = Len(requested) /\ k > 0 THEN << Call("start", k) >>
    ELSE [i \in 1 .. Len(requested) - k |-> Call("start", k + i)]

\* Mutant: only the last start command is delivered again.
Unhandled_LastOnly(k) ==
    IF k = Len(requested) THEN << >> ELSE << Call("start", Len(requested)) >>

\* The start commands after the k-th: START_STICKY delivers those again that
\* onStartCommand has not returned from, and no others.
Unhandled(k) == [i \in 1 .. Len(requested) - k |-> Call("start", k + i)]

\* Android gives a start command up that it has delivered three times, the
\* earlier ones first, and a service, with all of its start commands, whose
\* process crashes again soon after a crash: nothing at the first death, any of
\* this at a later one.
Die ==
    /\ alive' = FALSE
    /\ settled' \in IF deaths = 0 THEN {settled} ELSE settled .. Len(requested)
    /\ started' \in IF deaths = 0 \/ settled' < Len(requested) THEN {started}
                    ELSE {started, FALSE}
    /\ starts' = Unhandled(settled')
    /\ main' = << >>
    /\ fields' = NoIntent /\ job' = NoIntent
    /\ foreground' = FALSE /\ serverForeground' = FALSE
    /\ notification' \in {notification, "none"}
    /\ UNCHANGED history

\* Mutant: a start command without intent sends all the same.
StartWithoutIntent_Sends ==
    /\ Handle("start")
    /\ Head(main).number = 0
    /\ StartForeground
    /\ PostJob(0)
    /\ UNCHANGED <<history, settled, starts, fields, job, alive, started, serverForeground, deaths>>

\* onStartCommand dereferences its intent: without one the process dies.
StartWithoutIntent ==
    /\ Handle("start")
    /\ Head(main).number = 0
    /\ Die
    /\ UNCHANGED deaths

\* Also when onStartCommand throws because AndroidFile cannot open a file: it has
\* not returned, and the start command is delivered again until the system gives
\* it up.
ProcessDeath ==
    /\ alive /\ deaths < MaxDeaths
    /\ deaths' = deaths + 1
    /\ Die

\* The process is there again: because the sticky service is created again,
\* or, also if it has been given up, because the user opens the app.
Restart ==
    /\ ~alive
    /\ alive' = TRUE
    /\ starts' = IF ~started THEN << >>
                 ELSE << Call("create", 0) >> \o
                      (IF starts = << >> THEN << Call("start", 0) >> ELSE starts)
    /\ UNCHANGED <<history, settled, main, fields, job, started, shown, deaths>>

MainThread == OnCreate \/ OnStartCommand \/ StartWithoutIntent \/ Execute \/ JobEnd

Next ==
    \/ \E selected \in Selections : Send(selected)
    \/ Arrive
    \/ MainThread
    \/ UpdateProgress
    \/ ServerStarts
    \/ ServerStops
    \/ ProcessDeath
    \/ Restart

\* The system delivers its calls, the looper handles its queue, and execute
\* returns: it is given timeouts for resolving and asking. The process comes back
\* for a service that is started; nobody has to open the app.
Fairness == WF_vars(Arrive) /\ WF_vars(MainThread) /\ WF_vars(started /\ Restart)

Spec == Init /\ [][Next]_vars
FairSpec == Spec /\ Fairness

-----------------------------------------------------------------------------
(* Properties                                                              *)

Calls == [call : {"create", "start", "job"}, number : Nat]

\* Every variable has its type; only intents are ever sent.
TypeOK ==
    /\ shares \in 0 .. MaxShares
    /\ requested \in Seq(Intents) /\ sent \in Seq(Intents)
    /\ settled \in 0 .. Len(requested)
    /\ starts \in Seq(Calls) /\ main \in Seq(Calls)
    /\ fields \in Intents \cup {NoIntent} /\ job \in Intents \cup {NoIntent}
    /\ alive \in BOOLEAN /\ started \in BOOLEAN
    /\ foreground \in BOOLEAN /\ serverForeground \in BOOLEAN
    /\ notification \in {"none", "server", "resolving", "progress"}
    /\ deaths \in 0 .. MaxDeaths

\* Nothing is under way any more.
Quiet == alive /\ job = NoIntent /\ main = << >> /\ starts = << >>

\* The fields are read later than they are set, also by jobs of earlier start
\* commands and over process deaths; yet the i-th job never sends an older
\* request than the i-th, so nothing is sent more often than it was asked for
\* in total, and nothing of an earlier share comes back.
NeverStale ==
    \A i \in DOMAIN sent : \E j \in i .. Len(requested) : sent[i] = requested[j]

\* However start commands and jobs interleave, the last request is sent last.
NewestRequestIsSent ==
    Quiet /\ deaths = 0 /\ requested # << >> =>
        sent # << >> /\ sent[Len(sent)] = requested[Len(requested)]

Has(q, what, n) == \E i \in DOMAIN q : q[i].call = what /\ q[i].number = n

\* Whatever was asked for is under way until it is settled: a start command that
\* onStartCommand has not returned from and the system has not given up is on its
\* way, also after deaths, and as long as the process has not died each one has a
\* job that has run or waits, however start commands and jobs interleave.
NothingIsLost ==
    /\ \A n \in settled + 1 .. Len(requested) : Has(main, "start", n) \/ Has(starts, "start", n)
    /\ deaths = 0 => \A n \in Len(sent) + 1 .. settled : Has(main, "job", n)

\* Start commands are handled in turn, none twice and none passed over but those
\* that the system has given up, which it does not before the second death; and
\* the i-th job that runs is that of the i-th start command, as long as the
\* process has not died.
InTurn ==
    [][/\ OnStartCommand => settled' = settled + 1
       /\ settled' # settled /\ deaths = 0 => OnStartCommand
       /\ Execute /\ deaths = 0 => Head(main).number = Len(sent')]_vars

\* A service in the foreground has its notification, although two services
\* share it and each of them takes it away when it is done.
ForegroundIsNotified == foreground \/ serverForeground => notification # "none"

\* No start command stays undecided: although the process dies with it under way,
\* onStartCommand returns from it in the end or the system, after a second death,
\* gives it up; and each that was handled leads to a job of its own that runs,
\* unless the process dies before that.
EveryStartRuns ==
    \A n \in 1 .. MaxShares * Cardinality(Receivers) :
        /\ Len(requested) = n ~> settled >= n
        /\ settled = n ~> (Len(sent) >= n \/ deaths > 0)

\* "Send to selected devices": when all is done each selected receiver has been
\* sent the files once. False: of two start commands handled before the first
\* job runs, both jobs read the second one's fields.
EachSelectedReceiverOnce ==
    LET Times(s, r) == Cardinality({i \in DOMAIN s : s[i] = r})
    IN  Quiet /\ deaths = 0 => \A r \in Intents : Times(sent, r) = Times(requested, r)
=============================================================================
