---------------------------- MODULE ServerService ----------------------------
(***************************************************************************)
(* The receiving service: ServerForegroundService with its handler threads *)
(* and the native servers they run, the callers that start and stop it     *)
(* (MainActivity, AppController, Preferences.setReceiveInBackground,       *)
(* ServerRestartReceiver), and the part of Android's ActivityManager they  *)
(* rely on: a started service has one record with increasing start ids,    *)
(* its lifecycle calls reach the main thread in order, stopSelf(id) stops  *)
(* only if id is the last start id, and a sticky service is started again  *)
(* after its process died.                                                 *)
(***************************************************************************)
EXTENDS Naturals, Sequences

CONSTANTS MaxServices,   \* bound: service records ever created
          MaxStarts,     \* bound: start ids per record
          MaxDeaths      \* bound: how often the process dies

ASSUME BoundsAssumption == MaxServices \in Nat /\ MaxStarts \in Nat /\ MaxDeaths \in Nat

Services == 1 .. MaxServices

VARIABLES
    created,        \* number of service records created so far
    started,        \* the record that is started, or 0
    lastStartId,    \* last start id of each record
    handled,        \* last start id of each record that onStartCommand handled
    alive,          \* the app's process exists
    main,           \* lifecycle calls on their way to the main thread
    setting,        \* setReceiveInBackground between its check and its act
    receiveInBackground,  \* the preference
    thread,         \* what each service's handler thread does
    queue,          \* start ids in each handler thread's queue
    job,            \* start id of the message each handler thread handles
    deaths,         \* how often the process has died
    wanted          \* history: started, and not stopped since

system == <<created, started, lastStartId, wanted>>
handlers == <<thread, queue, job>>
vars == <<system, handled, alive, main, setting, receiveInBackground, handlers, deaths>>

NoSetting == [busy |-> FALSE, enabled |-> FALSE, running |-> FALSE]

Init ==
    /\ created = 0 /\ started = 0
    /\ lastStartId = [s \in Services |-> 0]
    /\ handled = [s \in Services |-> 0]
    /\ alive = FALSE
    /\ main = << >>
    /\ setting = NoSetting
    /\ receiveInBackground = FALSE
    /\ thread = [s \in Services |-> "none"]
    /\ queue = [s \in Services |-> << >>]
    /\ job = [s \in Services |-> 0]
    /\ deaths = 0
    /\ wanted = FALSE

Call(what, s, id) == [call |-> what, service |-> s, startId |-> id]

-----------------------------------------------------------------------------
(* ActivityManager: startService, startForegroundService, stopService.     *)

StartService ==
    /\ IF started = 0
       THEN /\ created < MaxServices
            /\ created' = created + 1
            /\ started' = created'
            /\ lastStartId' = [lastStartId EXCEPT ![created'] = 1]
            /\ main' = Append(Append(main, Call("create", created', 0)), Call("start", created', 1))
       ELSE /\ lastStartId[started] < MaxStarts
            /\ lastStartId' = [lastStartId EXCEPT ![started] = @ + 1]
            /\ main' = Append(main, Call("start", started, lastStartId'[started]))
            /\ UNCHANGED <<created, started>>
    /\ wanted' = TRUE

StopRecord ==
    /\ started' = 0
    /\ wanted' = FALSE
    /\ main' = Append(main, Call("destroy", started, 0))
    /\ UNCHANGED <<created, lastStartId>>

\* The calls that run on the main thread between two lifecycle calls.
MainIdle == alive /\ ~setting.busy

-----------------------------------------------------------------------------
(* The callers. MainActivity.onCreate and ServerRestartReceiver.onReceive  *)
(* both call start(context, false); nobody passes restart = true.          *)

Start ==
    /\ MainIdle
    /\ StartService
    /\ UNCHANGED <<handled, alive, setting, receiveInBackground, handlers, deaths>>

\* setReceiveInBackground(enabled): isServiceRunning is read first ...
CheckRunning(enabled) ==
    /\ MainIdle
    /\ enabled /\ started = 0 => created < MaxServices    \* bound
    /\ setting' = [busy |-> TRUE, enabled |-> enabled, running |-> started # 0]
    /\ UNCHANGED <<handled, system, alive, main, receiveInBackground, handlers, deaths>>

\* Mutant: stopService only if the service was not running.
SetReceiveInBackground_Inverted ==
    /\ setting.busy
    /\ setting' = NoSetting
    /\ receiveInBackground' = setting.enabled
    /\ IF setting.enabled /\ ~setting.running THEN StartService
       ELSE IF ~setting.enabled /\ ~setting.running /\ started # 0 THEN StopRecord
       ELSE UNCHANGED <<system, main>>
    /\ UNCHANGED <<handled, alive, handlers, deaths>>

\* ... and then the service is started or stopped accordingly.
SetReceiveInBackground ==
    /\ setting.busy
    /\ setting' = NoSetting
    /\ receiveInBackground' = setting.enabled
    /\ IF setting.enabled /\ ~setting.running THEN StartService
       ELSE IF ~setting.enabled /\ setting.running /\ started # 0 THEN StopRecord
       ELSE UNCHANGED <<system, main>>
    /\ UNCHANGED <<handled, alive, handlers, deaths>>

\* The user opens the app: AppController.onCreate starts the service if the
\* preference says so and the battery mode allows it.
OpenApp ==
    /\ ~alive
    /\ started = 0
    /\ alive' = TRUE
    /\ \/ receiveInBackground /\ StartService
       \/ UNCHANGED <<system, main>>       \* not switched on, or not unrestricted
    /\ UNCHANGED <<handled, setting, receiveInBackground, handlers, deaths>>

-----------------------------------------------------------------------------
(* ServerForegroundService on the main thread.                             *)

NextCall(what) ==
    /\ MainIdle
    /\ main # << >>
    /\ Head(main).call = what
    /\ main' = Tail(main)

OnCreate ==
    /\ NextCall("create")
    /\ thread' = [thread EXCEPT ![Head(main).service] = "idle"]
    /\ UNCHANGED <<handled, system, alive, setting, receiveInBackground, queue, job, deaths>>

OnStartCommand ==
    /\ NextCall("start")
    /\ handled' = [handled EXCEPT ![Head(main).service] = Head(main).startId]
    /\ queue' = [queue EXCEPT ![Head(main).service] = Append(@, Head(main).startId)]
    /\ UNCHANGED <<system, alive, setting, receiveInBackground, thread, job, deaths>>

\* onDestroy only drops messageHandler: the handler thread, its queue and its
\* server go on.
OnDestroy ==
    /\ NextCall("destroy")
    /\ UNCHANGED <<handled, system, alive, setting, receiveInBackground, handlers, deaths>>

-----------------------------------------------------------------------------
(* MessageHandler.handleMessage on the service's handler thread.           *)

\* Mutant: the messages behind the one that is handled are removed.
Run_RemovesMessages(s) ==
    /\ thread[s] = "idle"
    /\ queue[s] # << >>
    /\ job' = [job EXCEPT ![s] = Head(queue[s])]
    /\ queue' = [queue EXCEPT ![s] = << >>]
    /\ thread' = [thread EXCEPT ![s] = "running"]
    /\ UNCHANGED <<handled, system, alive, main, setting, receiveInBackground, deaths>>

\* createServer, the setters, and run, which blocks.
Run(s) ==
    /\ thread[s] = "idle"
    /\ queue[s] # << >>
    /\ job' = [job EXCEPT ![s] = Head(queue[s])]
    /\ queue' = [queue EXCEPT ![s] = Tail(@)]
    /\ thread' = [thread EXCEPT ![s] = "running"]
    /\ UNCHANGED <<handled, system, alive, main, setting, receiveInBackground, deaths>>

\* run returns, which nothing in the app brings about, and close releases
\* the server.
Close(s) ==
    /\ thread[s] = "running"
    /\ thread' = [thread EXCEPT ![s] = "closed"]
    /\ UNCHANGED <<handled, system, alive, main, setting, receiveInBackground, queue, job, deaths>>

\* Mutant: stopSelf() without the start id.
StopSelf_Any(s) ==
    /\ thread[s] = "closed"
    /\ thread' = [thread EXCEPT ![s] = "idle"]
    /\ IF s = started THEN StopRecord ELSE UNCHANGED <<system, main>>
    /\ UNCHANGED <<handled, alive, setting, receiveInBackground, queue, job, deaths>>

\* stopSelf(startId): only the started record's last start id stops it.
StopSelf(s) ==
    /\ thread[s] = "closed"
    /\ thread' = [thread EXCEPT ![s] = "idle"]
    /\ IF s = started /\ job[s] = lastStartId[s] THEN StopRecord ELSE UNCHANGED <<system, main>>
    /\ UNCHANGED <<handled, alive, setting, receiveInBackground, queue, job, deaths>>

HandlerThread(s) == Run(s) \/ StopSelf(s)

-----------------------------------------------------------------------------
(* The process dies, also when handleMessage throws. onStartCommand        *)
(* returned START_STICKY, so a started service is created again.           *)

\* Mutant: START_NOT_STICKY.
ProcessDeath_NotSticky ==
    /\ alive /\ deaths < MaxDeaths
    /\ deaths' = deaths + 1
    /\ alive' = FALSE
    /\ started' = 0
    /\ main' = << >>
    /\ setting' = NoSetting
    /\ thread' = [s \in Services |-> "none"]
    /\ queue' = [s \in Services |-> << >>]
    /\ UNCHANGED <<handled, created, lastStartId, wanted, receiveInBackground, job>>

ProcessDeath ==
    /\ alive /\ deaths < MaxDeaths
    /\ deaths' = deaths + 1
    /\ alive' = FALSE
    /\ main' = << >>
    /\ setting' = NoSetting
    /\ thread' = [s \in Services |-> "none"]
    /\ queue' = [s \in Services |-> << >>]
    /\ UNCHANGED <<handled, system, receiveInBackground, job>>

\* The new process: AppController.onCreate finds the service running and does
\* not start it; the system creates it again and delivers the start commands
\* it had not handled, or else one with a new id and no intent.
StickyRestart ==
    /\ ~alive
    /\ started # 0
    /\ alive' = TRUE
    /\ lastStartId' = [lastStartId EXCEPT ![started] = IF handled[started] = @ THEN @ + 1 ELSE @]
    /\ main' = << Call("create", started, 0) >> \o
                [i \in 1 .. lastStartId'[started] - handled[started] |->
                    Call("start", started, handled[started] + i)]
    /\ UNCHANGED <<created, started, wanted, handled, setting, receiveInBackground, handlers, deaths>>

Callers == Start \/ OpenApp \/ \E enabled \in BOOLEAN : CheckRunning(enabled)
MainThread == SetReceiveInBackground \/ OnCreate \/ OnStartCommand \/ OnDestroy

Next ==
    \/ Callers
    \/ MainThread
    \/ \E s \in Services : HandlerThread(s) \/ Close(s)
    \/ ProcessDeath
    \/ StickyRestart

\* The main thread, the handler threads and the system go on; nothing makes
\* run return, and nobody has to open the app or touch the switch.
Fairness ==
    /\ WF_vars(SetReceiveInBackground)
    /\ SF_vars(OnCreate \/ OnStartCommand \/ OnDestroy)
    /\ \A s \in Services : WF_vars(HandlerThread(s))
    /\ WF_vars(StickyRestart)

Spec == Init /\ [][Next]_vars
FairSpec == Spec /\ Fairness

-----------------------------------------------------------------------------
(* Properties                                                              *)

Running(s) == thread[s] = "running"

Calls == [call : {"create", "start", "destroy"}, service : Services, startId : Nat]

\* Every variable has its type; what a handler thread is posted is a start id,
\* which is never 0.
TypeOK ==
    /\ created \in 0 .. MaxServices
    /\ started \in 0 .. created
    /\ lastStartId \in [Services -> Nat]
    /\ handled \in [Services -> Nat]
    /\ alive \in BOOLEAN
    /\ main \in Seq(Calls)
    /\ setting \in [busy : BOOLEAN, enabled : BOOLEAN, running : BOOLEAN]
    /\ receiveInBackground \in BOOLEAN
    /\ thread \in [Services -> {"none", "idle", "running", "closed"}]
    /\ queue \in [Services -> Seq(Nat \ {0})]
    /\ job \in [Services -> Nat]
    /\ deaths \in 0 .. MaxDeaths
    /\ wanted \in BOOLEAN

\* "Stop the service using the startId, so that we don't stop the service in
\* the middle of handling another job": when stopSelf stops the service, no
\* start command of it is waiting, neither in its handler thread's queue nor
\* on the way to the main thread (ServerForegroundService:170-172).
StopSelfSparesJobs ==
    [][\A s \in Services :
         StopSelf(s) /\ started' # started =>
             /\ queue[s] = << >>
             /\ \A i \in DOMAIN main : ~(main[i].call = "start" /\ main[i].service = s)]_vars

\* A service that was started, and that nobody stops, comes to run a server of
\* its own: not one left over from a stopped service, and also when the process
\* dies or the service is started again meanwhile.
ServedWhileWanted ==
    wanted ~> (~wanted \/ \E s \in Services : s = started /\ Running(s))

\* The latest start of a service that is started is not lost before a server
\* has been run for it: its start command is on the way to the main thread, or
\* its message waits for the handler thread, or the thread is on it; and the
\* thread is there, or the onCreate that makes it is on its way.
LatestStartIsServed ==
    alive /\ started # 0 =>
        /\ \/ \E i \in DOMAIN main : main[i] = Call("start", started, lastStartId[started])
           \/ \E i \in DOMAIN queue[started] : queue[started][i] = lastStartId[started]
           \/ thread[started] \in {"running", "closed"} /\ job[started] = lastStartId[started]
        /\ thread[started] = "none" => \E i \in DOMAIN main : main[i] = Call("create", started, 0)

\* Switching background receiving off leaves the service stopped, although
\* the check and the stop are two calls and a handler thread may call
\* stopSelf in between.
SwitchedOffIsStopped ==
    [][SetReceiveInBackground /\ ~setting.enabled => started' = 0]_vars

\* "Notifications shown when FlowDrop is running": a server does not run on
\* without the foreground service, whose notification goes with it. False:
\* stopping the service stops no server.
StoppedServiceStopsServer ==
    started = 0 ~> (started # 0 \/ \A s \in Services : ~Running(s))
=============================================================================
