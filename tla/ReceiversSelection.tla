-------------------------- MODULE ReceiversSelection --------------------------
(***************************************************************************)
(* The sheet in which the user picks receivers: SelectDevicesFragment and  *)
(* its ReceiversAdapter on the main thread, the discovery thread that each *)
(* sheet starts (JFlowDrop.discover down to NsdDNSSD.discoverServices), and *)
(* what they rely on of Android: NsdManager reports services from a thread *)
(* of its own, also for a while after it was told to stop, posted          *)
(* Runnables reach the main thread in order, RecyclerView knows no position *)
(* of a row between notifyDataSetChanged and the next layout, and a        *)
(* destroyed sheet comes back through its constructor without parameters.  *)
(***************************************************************************)
EXTENDS Naturals, Sequences, FiniteSets

CONSTANTS Devices,     \* the devices of the network
          selfId,      \* this device
          MaxSheets,   \* bound: sheets ever opened
          MaxFound     \* bound: how often a sheet's discovery finds a device

ASSUME SelfAssumption == selfId \in Devices
ASSUME BoundsAssumption == MaxSheets \in Nat /\ MaxFound \in Nat

Sheets == 1 .. MaxSheets

\* Rows are counted from 1, so 0 is RecyclerView.NO_POSITION.
NO_POSITION == 0

VARIABLES
    opened,          \* number of sheets opened so far
    sheet,           \* the sheet on the screen, or 0
    files,           \* the sheet on the screen has files to send
    isStopped,       \* each sheet's flag
    thread,          \* each sheet's discovery thread
    listening,       \* NsdManager has a listener of the sheet
    found,           \* how often each sheet's discovery has found a device
    posted,          \* Runnables posted by discovery callbacks
    receivers,       \* items of the adapter
    selectedItems,   \* positions selected in the adapter
    isSelectionMode,
    sendButton,      \* the send button is visible
    positions,       \* the rows on the screen know their positions
    changed,         \* positions that wait to be bound again
    rows,            \* what the rows on the screen show
    requests         \* history: start commands for SendingForegroundService

discovery == <<isStopped, thread, listening, found, posted>>
selection == <<selectedItems, isSelectionMode, sendButton>>
screen == <<positions, changed, rows>>
vars == <<opened, sheet, files, discovery, receivers, selection, screen, requests>>

Init ==
    /\ opened = 0 /\ sheet = 0 /\ files = FALSE
    /\ isStopped = [s \in Sheets |-> FALSE]
    /\ thread = [s \in Sheets |-> "none"]
    /\ listening = [s \in Sheets |-> FALSE]
    /\ found = [s \in Sheets |-> 0]
    /\ posted = << >>
    /\ receivers = << >>
    /\ selectedItems = {} /\ isSelectionMode = FALSE /\ sendButton = FALSE
    /\ positions = TRUE /\ changed = {} /\ rows = << >>
    /\ requests = {}

-----------------------------------------------------------------------------
(* The sheet comes and goes.                                               *)

\* A new fragment, its adapter and its empty view; onCreateView starts the
\* discovery thread.
OnCreateView(hasFiles) ==
    /\ opened < MaxSheets
    /\ opened' = opened + 1
    /\ sheet' = opened'
    /\ files' = hasFiles
    /\ thread' = [thread EXCEPT ![opened'] = "started"]
    /\ receivers' = << >>
    /\ selectedItems' = {} /\ isSelectionMode' = FALSE /\ sendButton' = FALSE
    /\ positions' = TRUE /\ changed' = {} /\ rows' = << >>

\* Mutant: isStopped is not set.
OnDismiss_Spins == UNCHANGED isStopped

\* Mutant: isStopped is static, one flag for all sheets.
OnDismiss_Static == isStopped' = [s \in Sheets |-> TRUE]

\* onDismiss, which also runs when the view is destroyed.
OnDismiss == isStopped' = [isStopped EXCEPT ![sheet] = TRUE]

\* The user has picked files.
Open ==
    /\ sheet = 0
    /\ OnCreateView(TRUE)
    /\ UNCHANGED <<isStopped, listening, found, posted, requests>>

Dismiss ==
    /\ sheet # 0
    /\ OnDismiss
    /\ sheet' = 0
    /\ UNCHANGED <<opened, files, thread, listening, found, posted, receivers, selection, screen,
                   requests>>

\* A configuration change destroys the activity and creates it again with its
\* fragment, whose constructor without parameters leaves files empty.
Recreate ==
    /\ sheet # 0
    /\ OnDismiss
    /\ OnCreateView(FALSE)
    /\ UNCHANGED <<listening, found, posted, requests>>

-----------------------------------------------------------------------------
(* Discovery.                                                              *)

\* discover, findService, NsdDNSSD.discoverServices: the listener is registered.
DiscoverServices(s) ==
    /\ thread[s] = "started"
    /\ thread' = [thread EXCEPT ![s] = "discovering"]
    /\ listening' = [listening EXCEPT ![s] = TRUE]
    /\ UNCHANGED <<opened, sheet, files, isStopped, found, posted, receivers, selection, screen,
                   requests>>

\* The busy loop ends, and with it discoverServices, findService and discover:
\* the C++ callback that the listener points to is gone.
StopServiceDiscovery(s) ==
    /\ thread[s] = "discovering"
    /\ isStopped[s]
    /\ thread' = [thread EXCEPT ![s] = "ended"]
    /\ UNCHANGED <<opened, sheet, files, isStopped, listening, found, posted, receivers, selection,
                   screen, requests>>

DiscoveryStopped(s) ==
    /\ thread[s] = "ended"
    /\ listening[s]
    /\ listening' = [listening EXCEPT ![s] = FALSE]
    /\ UNCHANGED <<opened, sheet, files, isStopped, thread, found, posted, receivers, selection,
                   screen, requests>>

\* Mutant: the current device is not filtered out.
OnDiscovered_Self(s, d) == posted' = Append(posted, [sheet |-> s, deviceInfo |-> d])

\* The callback of onCreateView's thread: view.post, unless it is this device.
OnDiscovered(s, d) ==
    posted' = IF d = selfId THEN posted ELSE Append(posted, [sheet |-> s, deviceInfo |-> d])

OnServiceFound(s, d) ==
    /\ listening[s]
    /\ thread[s] = "discovering"
    /\ found[s] < MaxFound
    /\ found' = [found EXCEPT ![s] = @ + 1]
    /\ OnDiscovered(s, d)
    /\ UNCHANGED <<opened, sheet, files, isStopped, thread, listening, receivers, selection, screen,
                   requests>>

\* A crash of the process.
ProcessDeath ==
    /\ sheet' = 0
    /\ isStopped' = [s \in Sheets |-> FALSE]
    /\ thread' = [s \in Sheets |-> "none"]
    /\ listening' = [s \in Sheets |-> FALSE]
    /\ posted' = << >>
    /\ UNCHANGED <<opened, files, found, receivers, selection, screen, requests>>

\* A service found after discover has returned goes through a pointer to a
\* function that no longer exists: it may still work, do nothing, or crash.
OnServiceFoundLate(s, d) ==
    /\ listening[s]
    /\ thread[s] = "ended"
    /\ found[s] < MaxFound
    /\ \/ /\ found' = [found EXCEPT ![s] = @ + 1]
          /\ OnDiscovered(s, d)
          /\ UNCHANGED <<opened, sheet, files, isStopped, thread, listening, receivers, selection,
                         screen, requests>>
       \/ ProcessDeath

Discovery(s) == DiscoverServices(s) \/ StopServiceDiscovery(s) \/ DiscoveryStopped(s)

-----------------------------------------------------------------------------
(* The list, on the main thread.                                           *)

\* Mutant: the item is added in front of the others, and only a row at the end
\* is announced.
RunPosted_First ==
    /\ posted # << >>
    /\ posted' = Tail(posted)
    /\ IF Head(posted).sheet = sheet
       THEN /\ receivers' = << Head(posted).deviceInfo >> \o receivers
            /\ changed' = changed \cup {Len(receivers')}
       ELSE UNCHANGED <<receivers, changed>>
    /\ UNCHANGED <<opened, sheet, files, isStopped, thread, listening, found, selection, positions,
                   rows, requests>>

\* receivers.add and notifyDataSetChanged, on the sheet that posted it.
RunPosted ==
    /\ posted # << >>
    /\ posted' = Tail(posted)
    /\ IF Head(posted).sheet = sheet
       THEN /\ receivers' = Append(receivers, Head(posted).deviceInfo)
            /\ positions' = FALSE
       ELSE UNCHANGED <<receivers, positions>>
    /\ UNCHANGED <<opened, sheet, files, isStopped, thread, listening, found, selection, changed,
                   rows, requests>>

\* onBindViewHolder for every row that is new, invalid or changed.
Layout ==
    /\ sheet # 0
    /\ ~positions \/ changed # {}
    /\ rows' = [i \in DOMAIN receivers |->
                  IF positions /\ i \notin changed THEN rows[i]
                  ELSE [deviceInfo |-> receivers[i], selected |-> i \in selectedItems]]
    /\ positions' = TRUE
    /\ changed' = {}
    /\ UNCHANGED <<opened, sheet, files, discovery, receivers, selection, requests>>

getBindingAdapterPosition(row) == IF positions THEN row ELSE NO_POSITION

\* The positions of the selected receivers.
getSelectedReceivers(selected) == {i \in DOMAIN receivers : i \in selected}

\* Mutant: without notifyItemChanged.
ToggleItemSelection_Silent(p) ==
    /\ selectedItems' = IF p \in selectedItems THEN selectedItems \ {p} ELSE selectedItems \cup {p}
    /\ sendButton' = (getSelectedReceivers(selectedItems') # {})
    /\ UNCHANGED changed

ToggleItemSelection(p) ==
    /\ selectedItems' = IF p \in selectedItems THEN selectedItems \ {p} ELSE selectedItems \cup {p}
    /\ sendButton' = (getSelectedReceivers(selectedItems') # {})
    /\ changed' = changed \cup {p}

\* Mutant: the button is shown on entering the selection mode, whatever is selected.
StartSelectionMode_ShowsButton(p) ==
    /\ isSelectionMode' = TRUE
    /\ selectedItems' = IF p \in selectedItems THEN selectedItems \ {p} ELSE selectedItems \cup {p}
    /\ sendButton' = TRUE
    /\ changed' = changed \cup {p}

StartSelectionMode(p) ==
    /\ isSelectionMode' = TRUE
    /\ ToggleItemSelection(p)

\* onSend_before, sendTo for each position, onSend_after with its dismissal.
Send(chosen) ==
    /\ requests' = requests \cup {[receiverId |-> receivers[i], sheet |-> sheet, files |-> files] :
                                     i \in chosen}
    /\ OnDismiss
    /\ sheet' = 0
    /\ UNCHANGED <<opened, files, thread, listening, found, posted, receivers, selection, screen>>

LongClick(row) ==
    /\ sheet # 0 /\ row \in DOMAIN rows
    /\ ~isSelectionMode
    /\ StartSelectionMode(getBindingAdapterPosition(row))
    /\ UNCHANGED <<opened, sheet, files, discovery, receivers, positions, rows, requests>>

ClickSelects(row) ==
    /\ sheet # 0 /\ row \in DOMAIN rows
    /\ isSelectionMode
    /\ ToggleItemSelection(getBindingAdapterPosition(row))
    /\ UNCHANGED <<opened, sheet, files, discovery, receivers, isSelectionMode, positions, rows, requests>>

\* items.get(NO_POSITION) throws.
SingleSend(row) ==
    /\ sheet # 0 /\ row \in DOMAIN rows
    /\ ~isSelectionMode
    /\ LET p == getBindingAdapterPosition(row)
       IN  IF p = NO_POSITION THEN ProcessDeath ELSE Send({p})

SendSelected ==
    /\ sheet # 0
    /\ sendButton
    /\ Send(getSelectedReceivers(selectedItems))

User == \/ Open \/ Dismiss \/ SendSelected
        \/ \E row \in DOMAIN rows : LongClick(row) \/ ClickSelects(row) \/ SingleSend(row)

Next ==
    \/ User
    \/ Recreate
    \/ \E s \in Sheets : \/ Discovery(s)
                         \/ \E d \in Devices : OnServiceFound(s, d) \/ OnServiceFoundLate(s, d)
    \/ RunPosted
    \/ Layout

\* Discovery threads run and NsdManager stops when told to; the main thread
\* runs what is posted and lays out. Nothing makes a device appear or the user act.
Fairness ==
    /\ \A s \in Sheets : WF_vars(Discovery(s))
    /\ WF_vars(RunPosted)
    /\ WF_vars(Layout)

Spec == Init /\ [][Next]_vars
FairSpec == Spec /\ Fairness

-----------------------------------------------------------------------------
(* Properties                                                              *)

\* The types; only other devices are ever listed, shown or sent to.
TypeOK ==
    LET Others == Devices \ {selfId}
    IN  /\ opened \in 0 .. MaxSheets /\ sheet \in 0 .. opened
        /\ files \in BOOLEAN
        /\ isStopped \in [Sheets -> BOOLEAN]
        /\ thread \in [Sheets -> {"none", "started", "discovering", "ended"}]
        /\ listening \in [Sheets -> BOOLEAN]
        /\ found \in [Sheets -> 0 .. MaxFound]
        /\ posted \in Seq([sheet : Sheets, deviceInfo : Others])
        /\ receivers \in Seq(Others)
        /\ selectedItems \subseteq Nat
        /\ isSelectionMode \in BOOLEAN /\ sendButton \in BOOLEAN
        /\ positions \in BOOLEAN /\ changed \subseteq Nat
        /\ rows \in Seq([deviceInfo : Others, selected : BOOLEAN])
        /\ requests \subseteq [receiverId : Others, sheet : Sheets, files : BOOLEAN]

\* Once the sheet is laid out, what its rows show is what the adapter would
\* send: the devices shown with the selection mark are the ones selected, in
\* whatever order devices are found, rows clicked and layouts done.
RowsShowSelection ==
    sheet # 0 /\ positions /\ changed = {} =>
        rows = [i \in DOMAIN receivers |->
                  [deviceInfo |-> receivers[i], selected |-> i \in selectedItems]]

\* A click reaches the device its row shows, or none: rows keep their
\* positions while devices are added, and between an addition and the layout
\* no row has one (ReceiversAdapter:147-154).
ClickReachesShownDevice ==
    [][\A row \in DOMAIN rows :
         SingleSend(row) => \A r \in requests' \ requests : r.receiverId = rows[row].deviceInfo]_vars

\* The send button is there exactly when there is a receiver to send to, also
\* when a long click hits a row without a position.
ButtonMeansSelection ==
    sheet # 0 => (sendButton <=> getSelectedReceivers(selectedItems) # {})

\* Of all sheets that were ever opened the one on the screen, and no other, has
\* a discovery that goes on: all others have ended or have been told to, also
\* when one sheet takes the place of another that has not begun to discover.
OnlyTheSheetDiscovers ==
    \A s \in Sheets : thread[s] \in {"started", "discovering"} /\ ~isStopped[s] <=> s = sheet

\* The discovery of a sheet that has gone ends: its busy loop and its listener.
DiscoveryEnds ==
    \A s \in Sheets :
        thread[s] \in {"started", "discovering"} /\ sheet # s
            ~> thread[s] \in {"none", "ended"} /\ ~listening[s]

\* "Sending files ...": what is sent has files. False: a sheet that was
\* created again has none.
FilesAreSent == \A r \in requests : r.files
=============================================================================
