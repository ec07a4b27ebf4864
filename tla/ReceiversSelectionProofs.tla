----------------------- MODULE ReceiversSelectionProofs -----------------------
(***************************************************************************)
(* For any devices, any number of sheets and however often devices are     *)
(* found: the rows of the sheet show what would be sent, and the send      *)
(* button is there exactly when something would be.                        *)
(***************************************************************************)
EXTENDS ReceiversSelection, TLAPS

\* As long as rows have positions they show the devices in the adapter's
\* order, and the selection mark where no change is waiting to be bound.
RowsInOrder ==
    sheet # 0 /\ positions =>
        /\ DOMAIN rows = DOMAIN receivers
        /\ \A i \in DOMAIN rows :
              /\ rows[i].deviceInfo = receivers[i]
              /\ i \notin changed => rows[i].selected = (i \in selectedItems)

\* Only items of the list are selected, or no position at all: an item added
\* later is never selected already.
SelectedAreItems ==
    sheet # 0 => selectedItems \subseteq DOMAIN receivers \cup {NO_POSITION}

IInv == TypeOK /\ RowsInOrder /\ SelectedAreItems /\ ButtonMeansSelection

Others == Devices \ {selfId}
Row == [deviceInfo : Others, selected : BOOLEAN]
Post == [sheet : Sheets, deviceInfo : Others]
Request == [receiverId : Others, sheet : Sheets, files : BOOLEAN]

-----------------------------------------------------------------------------
(* Facts about sequences: appending, and rows laid out one per item.       *)

LEMMA Appended ==
    ASSUME NEW S, NEW q \in Seq(S), NEW e \in S
    PROVE  Append(q, e) \in Seq(S)
  OBVIOUS

LEMMA Shortened ==
    ASSUME NEW S, NEW q \in Seq(S), q # << >>
    PROVE  Tail(q) \in Seq(S) /\ Head(q) \in S
  OBVIOUS

LEMMA LaidOut ==
    ASSUME NEW S, NEW T, NEW q \in Seq(S), NEW r, r = [i \in DOMAIN q |-> r[i]],
           \A i \in DOMAIN q : r[i] \in T
    PROVE  r \in Seq(T) /\ DOMAIN r = DOMAIN q
<1>1. DOMAIN q = 1 .. Len(q) /\ Len(q) \in Nat
  OBVIOUS
<1>2. r \in [1 .. Len(q) -> T]
  BY <1>1
<1> QED
  BY <1>1, <1>2

LEMMA InitHolds ==
    ASSUME Init
    PROVE  IInv
<1>1. << >> \in Seq(Post) /\ << >> \in Seq(Others) /\ << >> \in Seq(Row)
  OBVIOUS
<1>2. 0 \in 0 .. MaxSheets /\ 0 \in 0 .. opened /\ 0 \in 0 .. MaxFound
  BY BoundsAssumption DEF Init
<1>3. TypeOK
  BY <1>1, <1>2 DEF Init, TypeOK, Post, Others, Row
<1> QED
  BY <1>3 DEF IInv, RowsInOrder, SelectedAreItems, ButtonMeansSelection, Init

-----------------------------------------------------------------------------
(* Steps.                                                                  *)

\* A new sheet starts with no rows, no items and nothing selected.
LEMMA OnCreateViewStep ==
    ASSUME TypeOK, NEW hasFiles \in BOOLEAN, OnCreateView(hasFiles),
           isStopped' \in [Sheets -> BOOLEAN], UNCHANGED <<listening, found, posted, requests>>
    PROVE  IInv'
<1> USE DEF OnCreateView
<1>1. opened \in Nat /\ MaxSheets \in Nat /\ opened + 1 \in Sheets
  BY BoundsAssumption DEF TypeOK, Sheets
<1>2. opened' \in 0 .. MaxSheets /\ sheet' \in 0 .. opened'
  BY <1>1 DEF Sheets
<1>3. thread' \in [Sheets -> {"none", "started", "discovering", "ended"}]
  BY <1>1 DEF TypeOK
<1>4. receivers' \in Seq(Others) /\ rows' \in Seq(Row)
  OBVIOUS
<1>5. TypeOK'
  BY <1>2, <1>3, <1>4 DEF TypeOK, Others, Row
<1>6. DOMAIN receivers' = {} /\ DOMAIN rows' = {}
  OBVIOUS
<1>7. RowsInOrder' /\ SelectedAreItems' /\ ButtonMeansSelection'
  BY <1>6 DEF RowsInOrder, SelectedAreItems, ButtonMeansSelection, getSelectedReceivers
<1> QED
  BY <1>5, <1>7 DEF IInv

LEMMA ProcessDeathStep ==
    ASSUME TypeOK, ProcessDeath
    PROVE  IInv'
<1> USE DEF ProcessDeath
<1>1. posted' \in Seq(Post)
  OBVIOUS
<1>2. sheet' \in 0 .. opened'
  BY BoundsAssumption DEF TypeOK
<1>3. TypeOK'
  BY <1>1, <1>2 DEF TypeOK, Post, selection, screen
<1> QED
  BY <1>3 DEF IInv, RowsInOrder, SelectedAreItems, ButtonMeansSelection

\* Steps that leave the list and what it shows alone.
LEMMA ListUntouched ==
    ASSUME IInv, TypeOK', UNCHANGED <<sheet, receivers, selection, screen>>
    PROVE  IInv'
BY DEF IInv, RowsInOrder, SelectedAreItems, ButtonMeansSelection, getSelectedReceivers, selection, screen

LEMMA DismissedStep ==
    ASSUME IInv, sheet # 0, OnDismiss, sheet' = 0,
           requests' \subseteq Request,
           UNCHANGED <<opened, files, thread, listening, found, posted, receivers, selection, screen>>
    PROVE  IInv'
<1>1. isStopped' \in [Sheets -> BOOLEAN]
  BY DEF IInv, TypeOK, OnDismiss
<1>2. sheet' \in 0 .. opened'
  BY BoundsAssumption DEF IInv, TypeOK
<1>3. TypeOK'
  BY <1>1, <1>2 DEF IInv, TypeOK, Request, Others, selection, screen
<1> QED
  BY <1>3 DEF IInv, RowsInOrder, SelectedAreItems, ButtonMeansSelection

\* A row that the user acts on has a device in the list, if it has a position.
LEMMA RowHasReceiver ==
    ASSUME IInv, sheet # 0, NEW row \in DOMAIN rows,
           getBindingAdapterPosition(row) # NO_POSITION
    PROVE  /\ getBindingAdapterPosition(row) = row
           /\ row \in DOMAIN receivers
           /\ receivers[row] = rows[row].deviceInfo
           /\ receivers[row] \in Others
<1>1. positions
  BY DEF getBindingAdapterPosition
<1>2. DOMAIN receivers = 1 .. Len(receivers) /\ receivers \in Seq(Others)
  BY DEF IInv, TypeOK, Others
<1>3. row \in DOMAIN receivers /\ rows[row].deviceInfo = receivers[row]
  BY <1>1 DEF IInv, RowsInOrder
<1> QED
  BY <1>1, <1>2, <1>3 DEF getBindingAdapterPosition

LEMMA SendStep ==
    ASSUME IInv, sheet # 0, NEW chosen \in SUBSET DOMAIN receivers, Send(chosen)
    PROVE  IInv'
<1>1. sheet \in Sheets
  BY BoundsAssumption DEF IInv, TypeOK, Sheets
<1>2. \A i \in chosen : receivers[i] \in Others
  <2>1. receivers \in Seq(Others)
    BY DEF IInv, TypeOK, Others
  <2> QED
    BY <2>1
<1>3. requests' \subseteq Request
  BY <1>1, <1>2 DEF IInv, TypeOK, Send, Request, Others
<1> QED
  BY <1>3, DismissedStep DEF Send

LEMMA DiscoveryStep ==
    ASSUME IInv, NEW s \in Sheets,
           Discovery(s) \/ \E d \in Devices : OnServiceFound(s, d) \/ OnServiceFoundLate(s, d)
    PROVE  IInv'
<1>1. CASE DiscoverServices(s)
  <2>1. TypeOK'
    BY <1>1 DEF DiscoverServices, IInv, TypeOK, selection, screen
  <2> QED
    BY <1>1, <2>1, ListUntouched DEF DiscoverServices
<1>2. CASE StopServiceDiscovery(s)
  <2>1. TypeOK'
    BY <1>2 DEF StopServiceDiscovery, IInv, TypeOK, selection, screen
  <2> QED
    BY <1>2, <2>1, ListUntouched DEF StopServiceDiscovery
<1>3. CASE DiscoveryStopped(s)
  <2>1. TypeOK'
    BY <1>3 DEF DiscoveryStopped, IInv, TypeOK, selection, screen
  <2> QED
    BY <1>3, <2>1, ListUntouched DEF DiscoveryStopped
<1>4. ASSUME NEW d \in Devices, found[s] < MaxFound, found' = [found EXCEPT ![s] = @ + 1],
             OnDiscovered(s, d),
             UNCHANGED <<opened, sheet, files, isStopped, thread, listening, receivers, selection,
                         screen, requests>>
      PROVE  IInv'
  <2>1. posted' \in Seq(Post)
    <3>1. posted \in Seq(Post)
      BY DEF IInv, TypeOK, Post, Others
    <3>2. CASE d = selfId
      BY <1>4, <3>1, <3>2 DEF OnDiscovered
    <3>3. CASE d # selfId
      <4>1. [sheet |-> s, deviceInfo |-> d] \in Post
        BY <3>3 DEF Post, Others
      <4> QED
        BY <1>4, <3>1, <3>3, <4>1, Appended DEF OnDiscovered
    <3> QED
      BY <3>2, <3>3
  <2>2. found' \in [Sheets -> 0 .. MaxFound]
    BY <1>4, BoundsAssumption DEF IInv, TypeOK
  <2>3. TypeOK'
    BY <1>4, <2>1, <2>2 DEF IInv, TypeOK, Post, Others, selection, screen
  <2> QED
    BY <1>4, <2>3, ListUntouched
<1>5. CASE \E d \in Devices : OnServiceFound(s, d) \/ OnServiceFoundLate(s, d)
  BY <1>4, <1>5, ProcessDeathStep DEF OnServiceFound, OnServiceFoundLate, IInv
<1> QED
  BY <1>1, <1>2, <1>3, <1>5 DEF Discovery

LEMMA RunPostedStep ==
    ASSUME IInv, RunPosted
    PROVE  IInv'
<1>1. posted \in Seq(Post) /\ posted # << >> /\ receivers \in Seq(Others)
  BY DEF IInv, TypeOK, Post, Others, RunPosted
<1>2. posted' \in Seq(Post) /\ Head(posted) \in Post
  BY <1>1, Shortened DEF RunPosted
<1>3. receivers' \in Seq(Others)
  BY <1>1, <1>2, Appended DEF RunPosted, Post
<1>4. TypeOK'
  BY <1>2, <1>3 DEF RunPosted, IInv, TypeOK, Post, Others, selection
<1>5. CASE Head(posted).sheet # sheet
  BY <1>4, <1>5, ListUntouched DEF RunPosted, screen
<1>6. CASE Head(posted).sheet = sheet
  <2>1. receivers' = Append(receivers, Head(posted).deviceInfo) /\ ~positions'
    BY <1>6 DEF RunPosted
  <2>2. RowsInOrder'
    BY <2>1 DEF RowsInOrder
  <2>3. DOMAIN receivers \subseteq DOMAIN receivers' /\ NO_POSITION \notin DOMAIN receivers'
    BY <1>1, <1>2, <2>1 DEF Post, NO_POSITION
  <2>4. UNCHANGED <<sheet, selectedItems, sendButton>>
    BY DEF RunPosted, selection
  <2>5. SelectedAreItems' /\ getSelectedReceivers(selectedItems)' = getSelectedReceivers(selectedItems)
    <3>1. CASE sheet # 0
      BY <2>3, <2>4, <3>1 DEF IInv, SelectedAreItems, getSelectedReceivers
    <3>2. CASE sheet = 0
      BY <1>2, <1>6, <3>2 DEF Post, Sheets
    <3> QED
      BY <3>1, <3>2
  <2> QED
    BY <1>4, <2>2, <2>4, <2>5 DEF IInv, ButtonMeansSelection
<1> QED
  BY <1>5, <1>6

LEMMA LayoutStep ==
    ASSUME IInv, Layout
    PROVE  IInv'
<1>1. receivers \in Seq(Others)
  BY DEF IInv, TypeOK, Others
<1>2. \A i \in DOMAIN receivers : receivers[i] \in Others
  BY <1>1
<1>3. \A i \in DOMAIN receivers :
         /\ rows'[i] \in Row
         /\ rows'[i].deviceInfo = receivers[i]
         /\ rows'[i].selected = (i \in selectedItems)
  <2>1. SUFFICES ASSUME NEW i \in DOMAIN receivers
                 PROVE  /\ rows'[i] \in Row
                        /\ rows'[i].deviceInfo = receivers[i]
                        /\ rows'[i].selected = (i \in selectedItems)
    OBVIOUS
  <2>2. CASE positions /\ i \notin changed
    <3>1. rows'[i] = rows[i]
      BY <2>2 DEF Layout
    <3>2. i \in DOMAIN rows /\ rows[i].deviceInfo = receivers[i]
          /\ rows[i].selected = (i \in selectedItems)
      BY <2>2 DEF IInv, RowsInOrder, Layout
    <3>3. rows \in Seq(Row)
      BY DEF IInv, TypeOK, Row, Others
    <3> QED
      BY <3>1, <3>2, <3>3
  <2>3. CASE ~(positions /\ i \notin changed)
    <3>1. rows'[i] = [deviceInfo |-> receivers[i], selected |-> i \in selectedItems]
      BY <2>3 DEF Layout
    <3>2. (i \in selectedItems) \in BOOLEAN
      OBVIOUS
    <3> QED
      BY <1>2, <3>1, <3>2 DEF Row
  <2> QED
    BY <2>2, <2>3
<1>4. rows' \in Seq(Row) /\ DOMAIN rows' = DOMAIN receivers
  <2>1. rows' = [i \in DOMAIN receivers |-> rows'[i]]
    BY DEF Layout
  <2> HIDE DEF Row, Others
  <2> QED
    BY <1>1, <1>3, <2>1, LaidOut
<1>5. UNCHANGED <<opened, sheet, files, discovery, receivers, selection, requests>> /\ positions' /\ changed' = {}
  BY DEF Layout
<1>6. TypeOK'
  BY <1>4, <1>5 DEF IInv, TypeOK, discovery, selection, Row, Others
<1>7. RowsInOrder'
  BY <1>3, <1>4, <1>5 DEF RowsInOrder, selection
<1>8. SelectedAreItems' /\ ButtonMeansSelection'
  BY <1>5 DEF IInv, SelectedAreItems, ButtonMeansSelection, getSelectedReceivers, selection
<1> QED
  BY <1>6, <1>7, <1>8 DEF IInv

\* A toggle changes one position, which is an item's or none.
LEMMA ToggleStep ==
    ASSUME IInv, sheet # 0, NEW row \in DOMAIN rows,
           ToggleItemSelection(getBindingAdapterPosition(row)),
           isSelectionMode' \in BOOLEAN,
           UNCHANGED <<opened, sheet, files, discovery, receivers, positions, rows, requests>>
    PROVE  IInv'
<1> DEFINE p == getBindingAdapterPosition(row)
<1>1. p \in Nat /\ p \in DOMAIN receivers \cup {NO_POSITION}
  <2>1. CASE p = NO_POSITION
    BY <2>1 DEF NO_POSITION
  <2>2. CASE p # NO_POSITION
    <3>1. p \in DOMAIN receivers
      BY <2>2, RowHasReceiver
    <3>2. receivers \in Seq(Others)
      BY DEF IInv, TypeOK, Others
    <3> QED
      BY <3>1, <3>2
  <2> QED
    BY <2>1, <2>2
<1> HIDE DEF p
<1>2. /\ selectedItems' = IF p \in selectedItems THEN selectedItems \ {p} ELSE selectedItems \cup {p}
      /\ sendButton' = (getSelectedReceivers(selectedItems') # {})
      /\ changed' = changed \cup {p}
  BY DEF p, ToggleItemSelection
<1>3. TypeOK'
  BY <1>1, <1>2 DEF IInv, TypeOK, discovery
<1>4. RowsInOrder'
  BY <1>2 DEF IInv, RowsInOrder
<1>5. SelectedAreItems'
  BY <1>1, <1>2 DEF IInv, SelectedAreItems
<1>6. ButtonMeansSelection'
  BY <1>2 DEF ButtonMeansSelection, getSelectedReceivers
<1> QED
  BY <1>3, <1>4, <1>5, <1>6 DEF IInv

LEMMA UserStep ==
    ASSUME IInv, User
    PROVE  IInv'
<1>1. CASE Open
  <2>1. isStopped' \in [Sheets -> BOOLEAN]
    BY <1>1 DEF Open, IInv, TypeOK
  <2> QED
    BY <1>1, <2>1, OnCreateViewStep DEF Open, IInv
<1>2. CASE Dismiss
  <2>1. requests' \subseteq Request
    BY <1>2 DEF Dismiss, IInv, TypeOK, Request, Others
  <2> QED
    BY <1>2, <2>1, DismissedStep DEF Dismiss
<1>3. CASE SendSelected
  BY <1>3, SendStep DEF SendSelected, getSelectedReceivers
<1>4. ASSUME NEW row \in DOMAIN rows, LongClick(row) PROVE IInv'
  BY <1>4, ToggleStep DEF LongClick, StartSelectionMode
<1>5. ASSUME NEW row \in DOMAIN rows, ClickSelects(row) PROVE IInv'
  <2>1. isSelectionMode' \in BOOLEAN
    BY <1>5 DEF ClickSelects, IInv, TypeOK
  <2> QED
    BY <1>5, <2>1, ToggleStep DEF ClickSelects
<1>6. ASSUME NEW row \in DOMAIN rows, SingleSend(row) PROVE IInv'
  <2>1. CASE getBindingAdapterPosition(row) = NO_POSITION
    BY <1>6, <2>1, ProcessDeathStep DEF SingleSend, IInv
  <2>2. CASE getBindingAdapterPosition(row) # NO_POSITION
    <3>1. sheet # 0 /\ getBindingAdapterPosition(row) \in DOMAIN receivers
      BY <1>6, <2>2, RowHasReceiver DEF SingleSend
    <3>2. Send({getBindingAdapterPosition(row)})
      BY <1>6, <2>2 DEF SingleSend
    <3> QED
      BY <3>1, <3>2, SendStep
  <2> QED
    BY <2>1, <2>2
<1> QED
  BY <1>1, <1>2, <1>3, <1>4, <1>5, <1>6 DEF User

LEMMA RecreateStep ==
    ASSUME IInv, Recreate
    PROVE  IInv'
<1>1. isStopped' \in [Sheets -> BOOLEAN]
  BY DEF Recreate, OnDismiss, IInv, TypeOK
<1> QED
  BY <1>1, OnCreateViewStep DEF Recreate, IInv

LEMMA NextPreserves ==
    ASSUME IInv, [Next]_vars
    PROVE  IInv'
<1>1. CASE UNCHANGED vars
  BY <1>1 DEF vars, discovery, selection, screen, IInv, TypeOK, RowsInOrder, SelectedAreItems,
             ButtonMeansSelection, getSelectedReceivers
<1> QED
  BY <1>1, UserStep, RecreateStep, DiscoveryStep, RunPostedStep, LayoutStep DEF Next

-----------------------------------------------------------------------------
(* Theorems.                                                               *)

\* The inductive invariant holds in every reachable state: rows and items stay
\* in step, and nothing is selected that is not in the list (ReceiversAdapter).
THEOREM Invariant == Spec => []IInv
BY InitHolds, NextPreserves, PTL DEF Spec

\* The types; only other devices are listed, shown or sent to
\* (SelectDevicesFragment:80-90).
THEOREM TypeCorrect == Spec => []TypeOK
<1>1. IInv => TypeOK
  BY DEF IInv
<1> QED
  BY <1>1, Invariant, PTL

\* What a laid out sheet shows is what would be sent (ReceiversAdapter:51-87).
THEOREM RowsShowSelectionAlways == Spec => []RowsShowSelection
<1>1. IInv => RowsShowSelection
  <2>1. SUFFICES ASSUME IInv, sheet # 0, positions, changed = {}
                 PROVE  rows = [i \in DOMAIN receivers |->
                           [deviceInfo |-> receivers[i], selected |-> i \in selectedItems]]
    BY DEF RowsShowSelection
  <2>2. rows \in Seq(Row)
    BY <2>1 DEF IInv, TypeOK, Row, Others
  <2>3. DOMAIN rows = DOMAIN receivers /\ rows = [i \in DOMAIN rows |-> rows[i]]
    BY <2>1, <2>2 DEF IInv, RowsInOrder
  <2>4. \A i \in DOMAIN rows :
           rows[i] = [deviceInfo |-> receivers[i], selected |-> i \in selectedItems]
    <3>1. TAKE i \in DOMAIN rows
    <3>2. rows[i] \in Row
      BY <2>2
    <3>3. rows[i] = [deviceInfo |-> rows[i].deviceInfo, selected |-> rows[i].selected]
      BY <3>2 DEF Row
    <3>4. rows[i].deviceInfo = receivers[i] /\ rows[i].selected = (i \in selectedItems)
      BY <2>1 DEF IInv, RowsInOrder
    <3> QED
      BY <3>3, <3>4
  <2> QED
    BY <2>3, <2>4
<1> QED
  BY <1>1, Invariant, PTL

\* The send button is there exactly when a receiver is selected
\* (ReceiversAdapter:93-109).
THEOREM ButtonMeansSelectionAlways == Spec => []ButtonMeansSelection
<1>1. IInv => ButtonMeansSelection
  BY DEF IInv
<1> QED
  BY <1>1, Invariant, PTL

\* A click sends to the device its row shows, or to none (ReceiversAdapter:147-154).
THEOREM ClickReachesShownDeviceAlways == Spec => ClickReachesShownDevice
<1> DEFINE Reaches == \A row \in DOMAIN rows :
                         SingleSend(row) => \A r \in requests' \ requests :
                                               r.receiverId = rows[row].deviceInfo
<1>1. ASSUME IInv, [Next]_vars PROVE [Reaches]_vars
  <2>1. SUFFICES ASSUME NEW row \in DOMAIN rows, SingleSend(row), NEW r \in requests' \ requests
                 PROVE  r.receiverId = rows[row].deviceInfo
    OBVIOUS
  <2>2. CASE getBindingAdapterPosition(row) = NO_POSITION
    BY <2>1, <2>2 DEF SingleSend, ProcessDeath
  <2>3. CASE getBindingAdapterPosition(row) # NO_POSITION
    <3>1. sheet # 0 /\ Send({getBindingAdapterPosition(row)})
      BY <2>1, <2>3 DEF SingleSend
    <3>2. getBindingAdapterPosition(row) = row /\ receivers[row] = rows[row].deviceInfo
      BY <1>1, <2>3, <3>1, RowHasReceiver
    <3>3. r.receiverId = receivers[row]
      BY <2>1, <3>1, <3>2 DEF Send
    <3> QED
      BY <3>2, <3>3
  <2> QED
    BY <2>2, <2>3
<1> QED
  BY <1>1, Invariant, PTL DEF Spec, ClickReachesShownDevice

-----------------------------------------------------------------------------
(* The discovery threads.                                                  *)

\* A sheet that has not been opened has no thread, and its flag is not set.
Unopened == \A s \in Sheets : s > opened => thread[s] = "none" /\ ~isStopped[s]

DiscoveryInv == Unopened /\ OnlyTheSheetDiscovers

\* A sheet comes, in an empty place or after another has been told to stop.
LEMMA OnCreateViewDiscovers ==
    ASSUME TypeOK, DiscoveryInv, NEW hasFiles \in BOOLEAN, OnCreateView(hasFiles),
           isStopped' \in [Sheets -> BOOLEAN],
           \A s \in Sheets : s # sheet => isStopped'[s] = isStopped[s],
           sheet # 0 => isStopped'[sheet]
    PROVE  DiscoveryInv'
<1> DEFINE n == opened + 1
<1>1. /\ opened < MaxSheets /\ opened' = n /\ sheet' = n
      /\ thread' = [thread EXCEPT ![n] = "started"]
  BY DEF OnCreateView
<1>2. /\ opened \in Nat /\ n \in Sheets /\ sheet \in Nat /\ sheet < n
      /\ thread \in [Sheets -> {"none", "started", "discovering", "ended"}]
      /\ sheet # 0 => sheet \in Sheets
      /\ \A s \in Sheets : s \in Nat
  BY <1>1, BoundsAssumption DEF TypeOK, Sheets
<1> HIDE DEF n
<1>3. n > opened /\ \A s \in Sheets : s > n => s > opened /\ s # n /\ s # sheet
  BY <1>2 DEF n
<1>4. thread'[n] = "started" /\ \A s \in Sheets : s # n => thread'[s] = thread[s]
  BY <1>1, <1>2
<1>5. ~isStopped'[n]
  BY <1>2, <1>3 DEF DiscoveryInv, Unopened
<1>6. Unopened'
  BY <1>1, <1>3, <1>4 DEF DiscoveryInv, Unopened
<1>7. ASSUME NEW s \in Sheets
      PROVE  thread'[s] \in {"started", "discovering"} /\ ~isStopped'[s] <=> s = sheet'
  <2>1. CASE s = n
    BY <1>1, <1>4, <1>5, <2>1
  <2>2. CASE s # n /\ s = sheet
    BY <1>1, <1>2, <2>2 DEF Sheets
  <2>3. CASE s # n /\ s # sheet
    BY <1>1, <1>4, <2>3 DEF DiscoveryInv, OnlyTheSheetDiscovers
  <2> QED BY <2>1, <2>2, <2>3
<1> QED BY <1>6, <1>7 DEF DiscoveryInv, OnlyTheSheetDiscovers

\* A sheet goes, and its thread is told to stop.
LEMMA DismissDiscovers ==
    ASSUME TypeOK, DiscoveryInv, sheet # 0, OnDismiss, sheet' = 0, UNCHANGED <<opened, thread>>
    PROVE  DiscoveryInv'
<1>1. sheet \in Sheets /\ sheet <= opened /\ \A s \in Sheets : s # 0 /\ s \in Nat
  BY BoundsAssumption DEF TypeOK, Sheets
<1>2. opened \in Nat /\ isStopped \in [Sheets -> BOOLEAN]
  BY DEF TypeOK
<1>3. isStopped'[sheet] /\ \A s \in Sheets : s # sheet => isStopped'[s] = isStopped[s]
  BY <1>1, <1>2 DEF OnDismiss
<1>4. Unopened'
  <2>1. \A s \in Sheets : s > opened => s # sheet
    BY <1>1, <1>2
  <2> QED BY <1>3, <2>1 DEF DiscoveryInv, Unopened
<1>5. OnlyTheSheetDiscovers'
  BY <1>1, <1>3 DEF DiscoveryInv, OnlyTheSheetDiscovers
<1> QED BY <1>4, <1>5 DEF DiscoveryInv

LEMMA RecreateDiscovers ==
    ASSUME TypeOK, DiscoveryInv, Recreate
    PROVE  DiscoveryInv'
<1>1. sheet \in Sheets /\ isStopped \in [Sheets -> BOOLEAN] /\ isStopped' = [isStopped EXCEPT ![sheet] = TRUE]
  BY BoundsAssumption DEF TypeOK, Sheets, Recreate, OnDismiss
<1>2. /\ isStopped' \in [Sheets -> BOOLEAN] /\ isStopped'[sheet]
      /\ \A s \in Sheets : s # sheet => isStopped'[s] = isStopped[s]
  BY <1>1
<1> QED BY <1>2, OnCreateViewDiscovers DEF Recreate

LEMMA ProcessDeathDiscovers ==
    ASSUME TypeOK, DiscoveryInv, ProcessDeath
    PROVE  DiscoveryInv'
<1>1. /\ sheet' = 0 /\ opened' = opened
      /\ \A s \in Sheets : ~isStopped'[s] /\ thread'[s] = "none" /\ s # 0
  BY DEF ProcessDeath, Sheets
<1> QED BY <1>1 DEF DiscoveryInv, Unopened, OnlyTheSheetDiscovers

\* A thread goes from discovering to its end when it has been told to.
LEMMA ThreadDiscovers ==
    ASSUME TypeOK, DiscoveryInv, NEW s \in Sheets, Discovery(s)
    PROVE  DiscoveryInv'
<1>1. thread \in [Sheets -> {"none", "started", "discovering", "ended"}] /\ opened \in Nat
      /\ \A t \in Sheets : t \in Nat
  BY DEF TypeOK, Sheets
<1>2. UNCHANGED <<opened, sheet, isStopped>>
  BY DEF Discovery, DiscoverServices, StopServiceDiscovery, DiscoveryStopped
<1>3. \A t \in Sheets :
        \/ thread'[t] = thread[t]
        \/ thread[t] = "started" /\ thread'[t] = "discovering"
        \/ thread[t] = "discovering" /\ isStopped[t] /\ thread'[t] = "ended"
  BY <1>1 DEF Discovery, DiscoverServices, StopServiceDiscovery, DiscoveryStopped
<1>4. Unopened'
  BY <1>2, <1>3 DEF DiscoveryInv, Unopened
<1>5. OnlyTheSheetDiscovers'
  BY <1>2, <1>3 DEF DiscoveryInv, OnlyTheSheetDiscovers
<1> QED BY <1>4, <1>5 DEF DiscoveryInv

LEMMA DiscoveryNext ==
    ASSUME TypeOK, DiscoveryInv, [Next]_vars
    PROVE  DiscoveryInv'
<1>1. CASE UNCHANGED <<opened, sheet, isStopped, thread>>
  BY <1>1 DEF DiscoveryInv, Unopened, OnlyTheSheetDiscovers
<1>2. CASE User
  <2>1. CASE Open
    <3>1. \A s \in Sheets : s # sheet => isStopped'[s] = isStopped[s]
      BY <2>1 DEF Open
    <3>2. isStopped' \in [Sheets -> BOOLEAN] /\ sheet = 0
      BY <2>1 DEF Open, TypeOK
    <3> QED BY <2>1, <3>1, <3>2, OnCreateViewDiscovers DEF Open
  <2>2. CASE Dismiss
    BY <2>2, DismissDiscovers DEF Dismiss
  <2>3. CASE SendSelected
    BY <2>3, DismissDiscovers DEF SendSelected, Send
  <2>4. ASSUME NEW row \in DOMAIN rows, LongClick(row) \/ ClickSelects(row)
        PROVE  UNCHANGED <<opened, sheet, isStopped, thread>>
    BY <2>4 DEF LongClick, ClickSelects, discovery
  <2>5. ASSUME NEW row \in DOMAIN rows, SingleSend(row)
        PROVE  DiscoveryInv'
    BY <2>5, ProcessDeathDiscovers, DismissDiscovers DEF SingleSend, Send
  <2> QED BY <1>1, <1>2, <2>1, <2>2, <2>3, <2>4, <2>5 DEF User
<1>3. ASSUME NEW s \in Sheets, NEW d \in Devices, OnServiceFound(s, d) \/ OnServiceFoundLate(s, d)
      PROVE  DiscoveryInv'
  BY <1>1, <1>3, ProcessDeathDiscovers DEF OnServiceFound, OnServiceFoundLate
<1>4. CASE RunPosted \/ Layout \/ UNCHANGED vars
  BY <1>1, <1>4 DEF RunPosted, Layout, vars, discovery
<1> QED BY <1>2, <1>3, <1>4, RecreateDiscovers, ThreadDiscovers DEF Next

LEMMA DiscoveryInit == Init => DiscoveryInv
<1> SUFFICES ASSUME Init PROVE DiscoveryInv
  OBVIOUS
<1>1. sheet = 0 /\ \A s \in Sheets : ~isStopped[s] /\ thread[s] = "none" /\ s # 0
  BY DEF Init, Sheets
<1> QED BY <1>1 DEF DiscoveryInv, Unopened, OnlyTheSheetDiscovers

\* Of any number of sheets the one on the screen, and no other, has a discovery
\* that goes on (SelectDevicesFragment.onCreateView and onDismiss).
THEOREM OnlyTheSheetDiscoversAlways == Spec => []OnlyTheSheetDiscovers
<1>1. DiscoveryInv => OnlyTheSheetDiscovers
  BY DEF DiscoveryInv
<1>2. Spec => []DiscoveryInv
  BY TypeCorrect, DiscoveryInit, DiscoveryNext, PTL DEF Spec
<1> QED BY <1>1, <1>2, PTL
=============================================================================
