# FlowDrop for Android: TLA+ models, checks and proofs

This directory specifies the concurrent parts of the FlowDrop Android app:
who runs on which thread, what passes through the main looper and the Android
system, and what must hold whatever the interleaving. Every definition is
translated from the code under `src/`; `PROJECT.json` maps it to the lines.

## 1. The system

| Component | Code | State it keeps | Operations |
|---|---|---|---|
| File acceptance | ask callback in `ServerForegroundService`, `FilesAcceptanceReceiver`, `AtomicBooleanCallback`, `ServerListener` | `ATOMIC_INTEGER`, `CALLBACKS`, one latch and value per ask, one notification for all asks and transfers, Android's `PendingIntent` records | a sender asks, the main thread shows the notification, the user answers, the await ends or times out, the transfer reports progress |
| Receiving service | `ServerForegroundService`, `Preferences`, `ServerRestartReceiver`, `MainActivity`, `AppController`, `InstructionsActivity`, `SettingsActivity`; `NativeServer`, `server.cpp` | service instance, its handler thread and queue, the native server behind `ptr`, the preference `receive_in_background` | start, stop, restart, `handleMessage` (create, run, close, `stopSelf`), process death and `START_STICKY` |
| Sending service | `SendingForegroundService`; `NativeSendRequest`, `core.cpp` | fields `receiverId` and `files`, the main looper's jobs, the foreground notification | `onStartCommand`, the posted job (blocks the main thread in `execute`), `stopForeground`, sticky restart |
| Discovery and selection | `SelectDevicesFragment`, `ReceiversAdapter`, `Receiver` | list of receivers, selected positions, `isStopped` | discover thread, `view.post`, click, toggle, send, dismiss |
| DNS-SD | `NsdDNSSD` (used), `DrukDNSSD` (not used), `knot/dnssd.h` | NSD registrations and listeners | register, discover, resolve; busy loop until stopped |
| Native callbacks | `dnssd.cpp`, `Native*Callback` classes | pointers to C++ functions held by Java objects | the callback may come while the frame lives, after it, or twice |
| JNI layer | `jni_lib`, `java.cpp`, `eventlistener.cpp`, `server.cpp`, `core.cpp` | attachment of threads, global references, class registry | attach and detach around every call into Java |
| File reading and progress | `AndroidFile`, `JavaFile` in `core.cpp`, the percentages of `ServerListener` and `SendingForegroundService` | the stream of a file | `read` across the JNI boundary |
| Device model | `knotandroidinfo`, `AndroidDeviceInfo`, `AppController.onCreate` | the answer saved in `SharedPreferences` | saved answer, list from the network or the assets, fallback |

How they interact: the native server (libflowdrop, an external submodule) runs
inside `handleMessage` on the service's handler thread and calls the ask
callback and the event listener from its own threads; these post to the main
looper; the user answers through a notification whose buttons are
`PendingIntent`s that the system delivers to `FilesAcceptanceReceiver`, again
on the main thread. This receiver is exported and asks for no permission, so
broadcasts may also reach it from outside the app. `SelectDevicesFragment` discovers receivers on a thread of
its own and starts `SendingForegroundService` once per chosen receiver. That
service asks another phone's native server, and blocks its own main thread until
it has heard the answer and sent the files: two phones meet through their main
threads.

What is hard: threads of the native server against the main looper; timeouts
against late answers; state shared by id (one notification, one
`PendingIntent` per action, one pair of service fields); services that are
stopped while their threads run on; process death while notifications and
`PendingIntent`s survive; C++ pointers that outlive or underlive the Java
objects which hold them; main threads that block while other phones wait for them.

What makes each component correct:

- acceptance: an answer reaches the ask whose id it carries, exactly once; no
  transfer without an Accept that was sent, and no two with the same one; no ask
  waits for ever; no dead notification;
- receiving service: one server at a time, alive while the service is, `ptr`
  used only between create and release; a restart ends with a running server;
- sending service: no start command is lost unless the system gives it up, none
  is sent again after a death, the newest one is sent last; a service in the foreground has its notification;
- selection: the receivers sent to are the ones the user sees selected;
- native callbacks: a pointer is called only while it is valid, and freed once;
- JNI: a thread is attached whenever it calls Java and detached by whoever
  attached it;
- device model: the answer is saved only when it was found, then it is for good,
  and it is the phone's own, or else what a restore has brought;
- phones that send to each other: no circle of accepted transfers, every transfer
  ends.

## 2. The plan

The order puts first what can hurt a user most: files accepted without
consent, files sent to the wrong device, a server nobody sees.

| | Module | Models | State |
|---|---|---|---|
| A | `FileAcceptance` (abstract: `Consent`; proofs: `FileAcceptanceProofs`) | file acceptance | modelled, checked, proved |
| B | `ServerService` (proofs: `ServerServiceProofs`) | receiving service | modelled, checked, proved |
| C | `SendingService` (proofs: `SendingServiceProofs`) | sending service | modelled, checked, proved |
| D | `ReceiversSelection` (proofs: `ReceiversSelectionProofs`) | discovery and selection in the sheet | modelled, checked, proved |
| E | `NativeCallbacks` (proofs: `NativeCallbacksProofs`) | `NsdDNSSD`'s listeners, the functions of `dnssd.cpp` they call | modelled, checked, proved |
| F | `JniAttach` (proofs: `JniAttachProofs`) | attachment of threads to the virtual machine (a server's `ptr` lives within one job of B) | modelled, checked, proved |
| G | `FileTransfer` | read widths and sizes, progress arithmetic | dropped, see section 8 |
| H | `DeviceModel` (proofs: `DeviceModelProofs`) | saved answer, lists, fallback, backup | modelled, checked, proved |
| I | `Peers` (abstract: `Consent`; proofs: `PeersProofs`) | A and C of several phones together | modelled, checked, proved |

Compositions: `Peers` puts the asks of A and the jobs of C on main threads that
both need, of phones that ask each other. D with E (a sheet and the resolutions
below it) is left: each lists what it assumes of the other (3.4, 3.6). `Consent`
is the abstract specification of one phone's acceptance (A) and of all of them
together (I).

## 3. The modules and the code

Three parts are not under `src/` and appear only as far as the code relies on
them: Android (ActivityManager, Looper, NotificationManager, PendingIntents),
libflowdrop (an empty submodule), and the user.

### 3.1 `FileAcceptance`

An element of `Asks` is one invocation of the ask callback that
`ServerForegroundService` gives to the native server. Its thread's steps are
`IncrementAndGet`, `PutCallback`, `PostNotification` and `AwaitAnswered` or
`AwaitTimedOut`: one step per access to state that another thread shares, in the
order of the code. The refusal posts the cancellation in the same step as the
return, for nothing can be seen between them. The main thread takes Runnables
from `looper` in the order posted. Building the notification and showing it are
two steps (`BuildNotification`, `Notify`), since the user may fire a record of
the old notification between them. `OnReceive` and the two steps of
`CallbackSet` are the receiver; they are two because the waiting thread may wake
between them. `ReceivingTotalProgress`, `ReceivingEnd` and `SenderGone` are what
a transfer does to the notification.

Accepts and declines come from two places. `Tap` and `Swipe` fire the record of
a notification that the user has on the screen. `OtherBroadcast` is one from
outside the app: the manifest exports the receiver without a permission, the
receiver takes the id of the intent as it is, and asks nothing of who has sent it.
Each member of `Others` is one such broadcast, of any action and id in
`OtherAnswers`, at any time, also before or after the question is shown. `sent`
records every broadcast with the ask that was on the screen, or none. So what the
code ensures is that no transfer starts without an Accept that was sent for its id,
and that none starts two; that the Accept was the user's it ensures only where
nobody else sends any, which is the model with `Others = {}`.

Android, external: a `PendingIntent` is identified by its action (request code
and component are the same for all), a live record is returned as it is when no
`FLAG_UPDATE_CURRENT` is given, firing a one-shot record removes it, a record
that nothing refers to may be collected, and notifications, records and
broadcasts under way survive the death of the process.

`Consent` says what this must amount to: an ask is granted only by consuming an
Accept that the phone was sent, no Accept grants two, and every ask is decided
unless its process dies. Who sends Accepts is left open. `ImplementsConsent` maps
an ask's `pc` and `result` to its outcome, the Accepts sent to the tokens given (a
token is where an Accept came from: a record that was fired, or a member of
`Others`), and the broadcast that answered an ask to the token it used.

### 3.2 `ServerService`

A record of `Services` is one life of the started service, from the
`startService` that creates it to the stop. `StartService` and `StopRecord` are
what ActivityManager does with a record; the callers are `Start`
(`MainActivity.onCreate`, `ServerRestartReceiver.onReceive`), `CheckRunning`
followed by `SetReceiveInBackground` (`Preferences.setReceiveInBackground`,
whose check and act are two calls to the system), and `OpenApp`
(`AppController.onCreate` in a new process). `OnCreate`, `OnStartCommand` and
`OnDestroy` run on the main thread in the order of `main`; `Run`, `Close` and
`StopSelf` are `handleMessage` on the record's handler thread: everything up to
`server.run()`, its return with `close()`, and `stopSelf(startId)`.

Android, external: start ids of a record increase from 1; `stopSelf(id)` stops
only if `id` is the last one; after a process death a started record is created
again and is delivered the start commands that `onStartCommand` had not handled,
or else one with a new id and a null intent. That the system never gives such a
record up is assumed (its fairness, section 5): it may when the process crashes
again and again. This service's `onStartCommand` does not throw, but the sending
service's does (3.3), and both live in one process.

### 3.3 `SendingService`

`Send` is the sheet's loop over `sendTo`: the system gets all the start commands
in one step, as the main thread does nothing else meanwhile. `Arrive` brings
them to the main looper one by one. `OnStartCommand` sets the fields
`receiverId` and `files` (`SetFields`) and posts a job behind whatever arrived
before (`PostJob`); `Execute` is the job, reading the fields when it runs and
then blocking the main thread until `JobEnd`. `ServerStarts` and `ServerStops`
are the other owner of notification 1. A start command and the job it posts have
the position of their request in `requested` as their number: the code has no
such number, and no guard but the one for a missing intent reads it.

Process death: jobs and fields are lost. START_STICKY delivers again what
`onStartCommand` has not returned from (`Unhandled`), that is everything after
`settled`, and otherwise one start command without intent (number 0).
`StartWithoutIntent` is `onStartCommand` with that null: it dereferences it, and
the process dies. A file that cannot be opened throws in `onStartCommand` too;
this is one of the reasons of `ProcessDeath`, and the command comes again.

It does not come again for ever. Android gives a start command up after three
deliveries, and a service whose process crashes again soon after a crash with all
its start commands. `Die` lets either happen at every death but the first: it
may move `settled` past any number of the commands that wait, the earlier ones
first, and if that leaves none, the service may be no longer `started`. The
counters and delays by which Android decides are not modelled, so the model allows
more than Android does. `Restart` is the process being there again: the system's
doing for a service that is started, otherwise only the user's, on which nothing
relies.

Android, external: `stopForeground(true)` removes the notification only if the
service is in the foreground and no other foreground service has the same
notification id.

### 3.4 `ReceiversSelection`

A number in `Sheets` is one `SelectDevicesFragment`. `OnCreateView` and
`OnDismiss` are its ends; `Recreate` is both in one activity's relaunch, with the
constructor that has no files. A sheet's thread registers a listener
(`DiscoverServices`), spins on `isStopped` and ends (`StopServiceDiscovery`);
NsdManager drops the listener later (`DiscoveryStopped`), and in between a find
goes through a pointer to a C++ function that has returned
(`OnServiceFoundLate`: it works, or the process dies). Everything between
`onServiceFound` and `view.post` is one step, `OnServiceFound`, because the
thread shares nothing before it posts. On the main thread `RunPosted` adds a
device, `Layout` binds the rows again, and `LongClick`, `ClickSelects`,
`SingleSend` and `SendSelected` are the listeners of rows and button. The
positions in `selectedItems` are the `SparseBooleanArray`'s keys, `NO_POSITION`
among them.

Android, external: `notifyDataSetChanged` takes every row's position until the
next layout, `notifyItemChanged` keeps them; a destroyed sheet's `onDismiss` runs.

### 3.5 `JniAttach`

Each thread has a stack of the functions that run on it. `Callees` is the call
graph: native methods and what they give to libflowdrop, the C++ functions that
attach (`Attaching`) and the Java methods these call, down to `NsdDNSSD`, which
polls `isStopped` through C++ again; `queryIPv4Address`, which does nothing there,
and `getDeviceInfo`, a native method that only converts what it returns, are among
them. `Attach` is a C++ function up to its
`oldAttach` or `attachJavaVM`, and its frame keeps what that told it;
`AttachFails` is the same when the virtual machine refuses: the functions in
`Returning` give up, those in `Throwing` throw, and the exception unwinds every
frame of C++ above the last one that is not. `Detach` is the end of a function,
`Call` and `Return` are native and Java methods.

External: which threads libflowdrop has, and that it calls what it was given
from its own or from the caller's thread; `AttachCurrentThread`, which does
nothing on an attached thread. Left out: exceptions that a Java callback throws
(they are pending when the thread detaches, and end the process), and the C++
exceptions other than that of `attachJavaVM`: the wrapper of local references
throws when the virtual machine has returned null (`java_core.cpp:15`), for a class
or an object that it could not make. Such a throw between attaching and detaching
would leave the thread attached, so `LeftAsFound` and `ThrowSkipsNoDetach` speak of
the throw of `attachJavaVM` alone.

### 3.6 `NativeCallbacks`

The calls of libflowdrop into `dnssd.cpp` are of four kinds. `registerService` and
`findService` poll `IsStopped` until `unregisterService` or
`stopServiceDiscovery`; `resolveService` and `queryIPv4Address` copy their function
to the heap and `Return`. On NsdManager's thread a listener hears that it has
started, stopped or failed; `OnServiceFound` and `OnServiceFoundEnd` bracket the
function of a discovery, because the frame which it belongs to may end
meanwhile; `OnServiceResolved` goes through `accept` to the copy and frees it. The copy of a
query stays on the heap for ever: `NsdDNSSD.queryIPv4Address` is empty, and nobody
answers. `RepliesFree` is about resolutions.
`death` tells why the process died: stopping threw, a find went through a function
that was gone, or a reply did. This module knows nothing of sheets and devices,
and `ReceiversSelection` nothing of resolutions: there, what lies between a find and
`view.post` is one step.

Android, external: the callbacks of all listeners come on one thread; a listener
that failed to start is forgotten before it hears of it; stopping an unknown
listener throws; a `ResolveListener` hears once. Left out: converting names,
addresses and attributes.

### 3.7 `DeviceModel`

`AppController.onCreate` blocks the main thread until the lookup has an answer,
so a process has one lookup: `OnCreate` begins it with the preferences as they
are on disk. `doInBackground` is `GetSaved`, or `Open`, `Match` or `NoMatch`,
`Close` and `GetResult`; `Fail` is an exception in any of them. They are steps of
their own because the process may die and the file may be written between them:
`Match` calls `apply`, which changes what the process sees (`memory`), and
`WriteToDisk` comes later or not at all. The manifest allows Android to back the
file up, and the rules exclude nothing: `Backup` keeps the file as it is at that
moment, and `Restore` installs the app again, on the same phone or another one, with
what the backup holds, which may be older than what was saved last, or with
nothing. All this is about the `model` of `DeviceInfo`; its name comes from the
settings, and its id is new in every process.

`FoundIsForGood` says: if a row of a list is on disk while no process runs, every
later process answers with it until the app is installed again. What `apply` has
not written when the process dies is lost; the next process then looks the phone
up again and may announce another model or the fallback. `ModelIsOwn` says whose
model a phone is announced with: its own, or the answer that the last restore has
brought (`restored`), and no other. After a restore from another phone it is that
one's, see section 7.

### 3.8 `Peers`

Several phones, each with one main thread and its queue `main[d]`. A member of
`Transfers` is one job of the sending service of its `from` and the ask it makes
at its `to`. `Send` is `sendTo` up to the posted job; `Execute` takes it and
blocks the phone (`Blocked`) until `ResolveEnds`, `HearAnswer`, `AskTimesOut` and
`SendEnds` have brought it to an end. On the other phone `AskCallback` posts the
notification from the native server's thread and waits; `AwaitTimesOut` is the
end of `await(30 s)`, or `OnReceive` brings an answer, the user's (`Tap`) or one
from outside the app (`OtherAnswer`, see 3.1). Showing the
notification, hearing the answer and taking the notification away (`ClearAsk`)
all need the main thread. An ask may reach a phone after its sender gave up, and
an answer a sender that no longer waits. A transfer that has begun to send ends
as sent, of which the receiver hears, or broken, of which it does not. What 3.1 and 3.3 say of one phone is not
repeated: which ask a button carries (a `Tap` may answer any ask that has been
shown), answers that come before their ask waits or after it was answered, which
request a job sends, deaths.

`ImplementsConsent` maps a transfer's `ask` to the outcome of `Consent`, the
`granted` answers that were sent to the tokens, and lets each granted ask have used
its own.

## 4. The runs

| Run | Shows |
|---|---|
| `file_acceptance` | two asks, one Accept from outside the app, one process death: `WaitingAskIsRegistered` (an answer always finds the ask that waits for it), `RefusedAskIsWithdrawn` (a refused ask's notification is on its way out), `OneAcceptPerTransfer` (no transfer without an Accept that was sent for its id, none of them used twice), `ResultIsTheAnswer` (the latch never lets a stale value out), and the refinement `ImplementsConsent`, by which also every ask is decided |
| `own_consent` | violated, although nobody outside the app answers: the Accept button of a notification may accept an earlier ask |
| `server_service` | two records, three start ids each, one process death: `StopSelfSparesJobs`, `LatestStartIsServed` (the latest start is never lost on the way to a server of its own), `SwitchedOffIsStopped`, `ServedWhileWanted` |
| `stopped_service_stops_server` | violated: a server outlives its service |
| `sending_service` | two shares to one or two receivers, two process deaths: `NeverStale` (the i-th job sends no older request than the i-th), `NewestRequestIsSent`, `NothingIsLost` (what was asked for is under way until it is done or given up by the system), `InTurn` (start commands are handled one after the other, none twice, none passed over but those given up, and none of these before the second death), `ForegroundIsNotified`, `EveryStartRuns` |
| `each_selected_receiver_once` | violated: with two receivers selected, one gets the files twice |
| `receivers_selection` | two sheets, two finds each: `RowsShowSelection` (what is shown is what would be sent), `ButtonMeansSelection`, `OnlyTheSheetDiscovers` (every sheet but the one shown has been told to stop discovering), `ClickReachesShownDevice`, `DiscoveryEnds` |
| `files_are_sent` | violated: a sheet created again sends no files |
| `jni_attach` | a Java thread and one of libflowdrop, three attachments each: `EnvIsValid` (no nested call detaches a thread that is in use), `LeftAsFound`, `ThrowSkipsNoDetach` |
| `native_callbacks` | a server, a discovery, two resolutions and a query: `ReplyFindsItsFunction`, `RepliesFree` (of the resolutions only a failed one leaves its function behind), `ThrowsOnlyAfterFailure`, `StopReturns`, `ListenersGo` |
| `device_model` | four processes one after the other, two installations with a backup: `TypeOK` (the fallback is never saved), `ModelIsOwn` (no other phone's model but by a restore), `FoundIsForGood` |
| `peers` | two phones that send to each other, one of them to a third as well, and one Accept from outside the app: `TypeOK` (a phone runs one job at a time), `NoCircle`, `RefusedAskIsCleared` (the cancellation of a refused ask comes after its question), `EverySendEnds`, `RefusedAskGoes`, and the refinement `ImplementsConsent` |

Bounds. `FileAcceptance`: every property relates an ask to at most one other (the
one whose record, notification or id it meets), so two asks meet in every way
two can; one death lets an ask of the new process draw the id of a dead one, and
the one Accept from outside carries this id, so that it may meet either; it does
not have to meet a second one, since the first answer takes the ask out of
`CALLBACKS` wherever it comes from.
`ServerService`: two records are a stopped service and the one started after it;
three start ids put one start behind one that waits behind one that runs. The
third bound, one death, is enough for records created again with handled and
unhandled start commands. `SendingService`: two receivers and two shares give up
to four start commands, so that jobs of one share meet commands of the next; the
second death is the first at which the system may give some or all of them up.
`ReceiversSelection`: two sheets are one and the one that replaces it while the
first one's discovery still runs; two finds put two devices, or one twice, into
the list, so that a find can come between two clicks. `JniAttach`: threads share
nothing, so one of each kind is enough; the call graph bounds the stacks, and
the third attachment comes after two that have ended. `NativeCallbacks`: calls
share only NsdManager's thread, so one of each kind and a second resolution put
any two in each other's way; the second find comes while the first runs or
after it. `DeviceModel`: of four processes one finds, one dies or fails, one must still have
what was found, and one comes after a restore; a second restore meets what the first
has brought. `Peers`: two phones that send to each other are
the smallest circle, and the third gives one of them a job that waits behind the
one that blocks. `TypeOK` is the type invariant of each module; for
`FileAcceptance`, `ServerService`, `JniAttach` and `NativeCallbacks` it is proved and
in no run. Deadlock is checked except in `FileAcceptance`,
`ReceiversSelection`, `NativeCallbacks`, `DeviceModel` and `Peers`, where asks,
sheets, calls, processes and transfers are finitely many and all of them end.

## 5. Fairness

Assumed: threads that are not blocked go on (an ask's thread once the ask has
arrived, the handler threads, the main thread with its looper; in
`FileAcceptance` only the asks' threads, as nothing there needs more);
`await(30 s)` ends; the system delivers lifecycle calls and brings a sticky
service back as long as it is started, which in `SendingService` the system may end; `execute` returns, as it is given timeouts for resolving and for
asking. `ServerService` needs strong fairness for lifecycle calls, since the
main thread may be taken by the switch's two calls again and again. A discovery
thread goes on, posted Runnables run, and a row that is invalid is laid out. In
`NativeCallbacks` polling threads go on, and NsdManager's thread comes to every
message, whatever else it is sent (strong fairness). In `Peers` every main thread
goes on while nothing blocks it; resolving (`setResolveTimeout` of the job),
asking (`askTimeout` of `NativeSendRequest`) and awaiting time out; and a transfer
that has begun to send ends, sent or broken, which is libflowdrop's part. Not assumed: that a
sender asks, that an ask or its answer arrives, that a transfer progresses, that
the user or anyone else answers, that the user opens the app or touches the switch, or that `server.run()`
returns. `DeviceModel` has no liveness: the lookup on the network has no timeout,
and `onCreate` waits for it.

## 6. What is proved

For every number of asks, records, start commands, phones and deaths, checked by
TLAPS. The assumptions are those the modules declare: `NoAsk`, `NoTransfer` and
`NoAnswer` are not members of what they stand beside, broadcasts from outside the
app are no asks and carry an action and a natural number, a transfer is from a device
to a device, the receivers found are finitely many, and the bounds are natural
numbers.

`FileAcceptanceProofs`: `TypeCorrect`, `WaitingAskIsRegisteredAlways`,
`OneAcceptPerTransferAlways`, `ResultIsTheAnswerAlways`,
`RefusedAskIsWithdrawnAlways`, `ImplementsConsentSafety`. The properties are not
inductive: that a waiting ask is registered rests on ids being drawn once
(`UniqueIds`: two asks of the living process never share one, and none exceeds
the counter) and on `CALLBACKS` holding under an id only the ask that drew it
(`Registrations`); that no Accept serves two transfers rests on answers being
broadcasts that were sent (`RecordsHaveIds`, `Answers`), on a fired record being
gone and on each broadcast being handled once (`OneShot`: no two that are under way
or have answered come from the same record or sender). `IInv` is their
conjunction with `TypeOK`. That a refused ask is withdrawn needs to know where it
is on its way to the screen: in the looper, with the main thread, or shown. In
each place a cancellation is behind it (`Withdrawn`), for it was posted later. The
safety part of the refinement says that initial states map to initial states of
`Consent` and every step to one of its steps or none: a granted ask uses the
Accept that answered it, which by `OneShot` no other ask has used, and an answer
that comes late changes no ask that has one.

`ServerServiceProofs`: `TypeCorrect`, `StopSelfSparesJobsAlways`,
`SwitchedOffIsStoppedAlways`, `LatestStartIsServedAlways` and `Invariant`. Start
ids pass from the system over the main thread's calls and a handler thread's
queue to its job, and they are in order all the way: the job's id is at most
`handled`, whatever waits in the queue lies between the two, and the start calls
on their way to the main thread lie strictly between `handled` and
`lastStartId`, the last of which is reached by the last call (`StartsWait`,
`QueuesWait`, `RecordIds`). So when the job's id is the last start id, nothing
waits. `SettingSeen` says that what `setReceiveInBackground` saw as not running
is not running when it acts. `LatestStartIsServed` follows the last start id
itself from queue to queue. It needs all of that, since `stopSelf` of an earlier
id must not stop the service it is on its way to, and `CreatesWait`: the
`onCreate` of a record is on its way at most once and only while the record has
no handler thread, so no second one
takes that thread off the start it is on; and a
dead process has no threads.

`ReceiversSelectionProofs`: `TypeCorrect`, `RowsShowSelectionAlways`,
`ButtonMeansSelectionAlways`, `ClickReachesShownDeviceAlways`,
`OnlyTheSheetDiscoversAlways` and `Invariant`. A row whose
position is known and that does not wait to be bound shows its device and its
mark (`RowsInOrder`): devices are only added at the end, and every toggled
position waits to be bound. Selected positions need `SelectedAreItems`: a
position in `selectedItems` is that of an item, or `NO_POSITION`, so that a device
found later is never selected from the start. `OnlyTheSheetDiscovers` says of every
sheet that ever was in which order its thread and its flag went; it needs
`Unopened`: a sheet to come has neither a thread nor its flag set.

`SendingServiceProofs`: `TypeCorrect`, `ForegroundIsNotifiedAlways` (inductive as
it stands), `NeverStaleAlways`, `NothingIsLostAlways`, `InTurnAlways`,
`QuietIsComplete`, `NewestRequestIsSentAlways` and `Invariant`. Start commands with
their numbers go from the system over the main looper, and jobs with the same
numbers wait there too. `Ordered` says that commands which wait are among those
after `settled`, in order and split between the two queues, and that jobs which
wait have numbers after the `Len(sent)`-th and up to `settled`. So the job that
runs next is at least the `Len(sent) + 1`-th, and what it reads, the fields, is
what was handled last (`FieldsAreNewest`): no older. `NothingIsLost` is the other
half of `Ordered`: every one of those numbers does wait. Together they say which
call comes next, the first that has not been settled or run, and that is
`InTurn`; for what is taken from a queue is then not missing from it, and a
redelivery after a death brings exactly what is missing of what the system has not
given up (`UnhandledCalls`). All of this is over any number of deaths for what is not
given up, and nothing is given up at the first. `QuietIsComplete` is what
both come to when the queues are empty. For `NewestRequestIsSent` what was handled
last must be sent last or have a job that waits (`HandledIsSent`).

`DeviceModelProofs`: `TypeCorrect`, `ModelIsOwnAlways`, `FoundIsForGoodAlways`.
`Own` adds to `ModelIsOwn` that what is saved, in memory and on disk, is the
phone's or came with the last restore. For `FoundIsForGood`, `Kept(a, k)` is what
holds from the moment on in which `a` is on disk without a process after the k-th
restore, and no step ends it; the next restore makes it hold for good.

`PeersProofs`: `TypeCorrect`, `NoCircleAlways`, `RefusedAskIsClearedAlways`,
`PostedIsQueuedAlways`, `Invariant` and `ImplementsConsentSafety`, for any
devices and transfers. `InOrder` says of a main thread's queue that each
transfer has at most one job there, not begun, and that each answer there was
sent to this phone; so a job that begins blocks a phone which was free. The
argument against circles: an ask is granted on the main thread of the receiver,
which is free at that moment, so none of the receiver's own transfers flows, and
the transfer that is granted last cannot close a circle. `NoAskYet` keeps a
transfer that has not come so far from flowing by an old answer.
`RefusedAskIsCleared` is inductive with `InOrder`: a question is only posted for
an ask that is new, and the cancellation at the end of the queue is behind
whatever the phone has still to show; a phone that begins to show a question has
taken it from in front of its cancellation. `PostedIsQueued` (a transfer that
was asked for has its job in its phone's queue) holds because a main thread
takes from its queue nothing but its head, and a job leaves "posted" as it is
taken. The refinement is its safety part: initial states map to initial states
and every step to a step of `Consent` or none.

`JniAttachProofs`: `TypeCorrect`, `EnvIsValidAlways`, `LeftAsFoundAlways`,
`ThrowSkipsNoDetachAlways` and `Invariant`, for any threads. The invariant says
for each stack that only its second function has attached a thread of
libflowdrop, none a Java thread, that every function has the thread's present
`JNIEnv`, and that the thread is attached if Java's or if anything but
libflowdrop itself runs on it. So a failure to attach can only meet a stack on
which libflowdrop is alone, and the exception has nothing to unwind.

`NativeCallbacksProofs`: `TypeCorrect`, `ReplyFindsItsFunctionAlways`,
`RepliesFreeAlways`, `ThrowsOnlyAfterFailureAlways`, `LeftIsStoppingAlways` and
`Invariant`, for any calls of each kind. `Known` is what the properties lack to
be inductive: a call that has not been made has no listener, a listener that
failed is forgotten for good, and while a call polls, nothing but a failure has
removed its listener. `LeftIsStopping` adds that the listener of a call which
libflowdrop has left is being stopped or gone.

Only model-checked: liveness (`ServedWhileWanted`,
`EveryStartRuns`, `DiscoveryEnds`, `StopReturns`, `ListenersGo`, `EverySendEnds`,
`RefusedAskGoes`, the fairness part of both `ImplementsConsent`), which is out of the
prover's reach. What each of most of them comes to besides fairness is proved, that
is, that what must happen is always on its way:

| Liveness | is on its way by |
|---|---|
| `ServedWhileWanted` | `LatestStartIsServed` |
| `EveryStartRuns` | `NothingIsLost`, `InTurn` |
| `DiscoveryEnds` | `OnlyTheSheetDiscovers` |
| `ListenersGo` | `LeftIsStopping` |
| `EverySendEnds` | `PostedIsQueued` |
| `RefusedAskGoes` | `RefusedAskIsCleared` |

`PostedIsQueued`, `LeftIsStopping` and `Complete` are stated in the proof modules and
are invariants of no run. The violations of section 7 are TLC's alone, by their
nature.

## 7. Where the code differs from what it says

1. `own_consent`: `makeAcceptanceIntent` takes `PendingIntent.getBroadcast` with
   request code 0 and without `FLAG_UPDATE_CURRENT`; while an earlier record
   lives, the buttons of the next notification carry the earlier id.
2. All asks and transfers share one notification: one ask's timeout takes another
   one's away, although it says "Will be cancelled automatically in 30 seconds".
   (No run: `CancelNotification` in `FileAcceptance` does it by definition.)
3. `stopped_service_stops_server`: `onDestroy` leaves the handler thread and its
   server running.
4. `each_selected_receiver_once`: jobs read the service's fields when they run.
5. `stopForeground` ends the first of several jobs, the next one's progress is
   then an ordinary notification, and "Sending in progress..." stays when it is
   done. (No run: `StopForeground` in `SendingService` does it by definition.)
6. `files_are_sent`: the sheet's constructor without parameters, which Android
   uses after a configuration change, leaves `files` empty.
7. The saved model does not say whose it is: a phone on which another one's backup
   is restored announces itself as that model. (No run; `ModelIsOwn` says that a
   restore is the only way to it.)

## 8. Not modelled, and why

- `InterruptedException` in `AtomicBooleanCallback.await`: no code interrupts the
  native server's threads.
- `start(context, true)`: the restart parameter has no caller that sets it.
- `ServerRestartReceiver`: the broadcast it waits for is sent by nobody, so a
  service that ends by itself stays stopped; `Start` stands for its call too.
- The preference is written by `apply`; a death before it reaches the disk is
  left out, and the preference in the model survives.
- How often and how soon Android restarts a process that crashes: in
  `SendingService` it may give up at any death but the first, in `ServerService` it
  does not (3.2, 3.3).
- C++ exceptions other than that of `attachJavaVM` (3.5).
- Foreground service types of Android 14, ANR and start-foreground watchdogs:
  they end the process, which `ProcessDeath` may do at any time.
- Activities, the tile and the settings screens, except as callers.
- File reading and progress (G): `AndroidFile` keeps no state but its stream, and
  the sizes, counts and percentages are asked for and interpreted by libflowdrop,
  whose source is not in the repository (an empty submodule). A model of both
  sides would check an invented one.
- `mdnsresponder` is Apple's code, some 75,000 lines, which `CMakeLists.txt` does
  not build. It is most of the C in the repository, so the map, which is of the
  app's own code, covers a small share of all lines.
- A sheet together with the resolutions below it (D with E): the two share only
  NsdManager's thread, which each of them lets come at any time.
- In `Peers`: process deaths and which request a job sends, which are checked per
  phone, and asks of phones that are not among the devices.
