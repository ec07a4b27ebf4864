----------------------------- MODULE DeviceModel -----------------------------
(***************************************************************************)
(* The model a phone is announced with (its name comes from the settings,  *)
(* its id is new in every process): AppController.onCreate asks            *)
(* DeviceModelInfoProvider, which reads its SharedPreferences, or else     *)
(* looks the phone up in Google's list of devices, on the network or in    *)
(* the app's assets, and saves what it finds.  onCreate blocks the main    *)
(* thread until then, so a process has one lookup and one answer.  What is *)
(* saved outlives the process, and the phone: the manifest lets Android    *)
(* back it up, and restore it when the app is installed again, on this     *)
(* phone or on another one.                                                *)
(***************************************************************************)
EXTENDS Naturals

CONSTANTS Phones,         \* phones on which the app is installed, one at a time
          NoAnswer,       \* null
          MaxProcesses,   \* bound: how often the process is started
          MaxRestores     \* bound: how often the app is installed again

ASSUME BoundsAssumption == MaxProcesses \in Nat /\ MaxRestores \in Nat

VARIABLES
    phone,      \* the phone it is on
    pc,         \* how far onCreate has come, or "off" without a process
    list,       \* the list that is read
    memory,     \* SharedPreferences: the answer saved, as the process sees it ...
    disk,       \* ... and as it is in the file
    backup,     \* ... and as it was when the file was backed up
    info,       \* the model in AppController.deviceInfo
    processes,  \* how often the process has been started
    restores,   \* how often the app has been installed again
    restored    \* history: the answer that the last of these has brought

saved == <<memory, disk>>
system == <<phone, backup, processes, restores, restored>>
vars == <<system, pc, list, saved, info>>

Lists == {"network", "local"}
ModelInfo(p, l) == [phone |-> p, list |-> l]
Found == [phone : Phones, list : Lists]     \* rows of the lists

\* MANUFACTURER and MODEL, as the build has them.
fallbackModelInfo == ModelInfo(phone, "none")

ASSUME NoAnswerAssumption == NoAnswer \notin Found

Init ==
    /\ phone \in Phones
    /\ pc = "off" /\ list = "none"
    /\ memory = NoAnswer /\ disk = NoAnswer /\ backup = NoAnswer /\ info = NoAnswer
    /\ processes = 0 /\ restores = 0 /\ restored = NoAnswer

-----------------------------------------------------------------------------
(* AppController.onCreate, and doInBackground below it.                    *)

OnCreate ==
    /\ pc = "off"
    /\ processes < MaxProcesses
    /\ processes' = processes + 1
    /\ memory' = disk
    /\ pc' = "lookup"
    /\ UNCHANGED <<phone, list, disk, backup, info, restores, restored>>

Step(from, to) == pc = from /\ pc' = to

\* What doInBackground returns is the answer of this process.
Answer(a) ==
    /\ pc' = "up"
    /\ info' = a
    /\ UNCHANGED <<system, list, saved>>

GetSaved ==
    /\ pc = "lookup" /\ memory # NoAnswer
    /\ Answer(memory)

\* Mutant: with a network, the saved answer is not enough.
Open_Always ==
    /\ Step("lookup", "scan")
    /\ \/ list' = "network"
       \/ memory = NoAnswer /\ list' = "local"
    /\ UNCHANGED <<system, saved, info>>

\* isInternetAvailable chooses the provider; if that fails, the other one is
\* not tried.
Open ==
    /\ Step("lookup", "scan")
    /\ memory = NoAnswer
    /\ list' \in Lists
    /\ UNCHANGED <<system, saved, info>>

\* Mutant: the model is compared, the codename is not.
Match_AnyCodename ==
    /\ Step("scan", "close")
    /\ \E p \in Phones : memory' = ModelInfo(p, list)
    /\ UNCHANGED <<system, list, disk, info>>

\* A row of this codename and model; apply changes the file later.
Match ==
    /\ Step("scan", "close")
    /\ memory' = ModelInfo(phone, list)
    /\ UNCHANGED <<system, list, disk, info>>

\* The list ends without one.
NoMatch ==
    /\ Step("scan", "close")
    /\ UNCHANGED <<system, list, saved, info>>

Close ==
    /\ Step("close", "closed")
    /\ UNCHANGED <<system, list, saved, info>>

\* Mutant: the fallback is saved as well.
Fail_Saves ==
    /\ pc \in {"scan", "close"}
    /\ pc' = "up"
    /\ info' = fallbackModelInfo
    /\ memory' = fallbackModelInfo
    /\ UNCHANGED <<system, list, disk>>

\* Opening, reading or closing throws. What was saved stays saved.
Fail ==
    /\ pc \in {"scan", "close"}
    /\ Answer(fallbackModelInfo)

GetResult ==
    /\ pc = "closed"
    /\ Answer(IF memory # NoAnswer THEN memory ELSE fallbackModelInfo)

-----------------------------------------------------------------------------
(* Android.                                                                *)

WriteToDisk ==
    /\ pc # "off" /\ disk # memory
    /\ disk' = memory
    /\ UNCHANGED <<system, pc, list, memory, info>>

ProcessDeath ==
    /\ Step(pc, "off") /\ pc # "off"
    /\ memory' = NoAnswer /\ info' = NoAnswer
    /\ list' = "none"
    /\ UNCHANGED <<system, disk>>

\* Android copies the file, whenever it does.
Backup ==
    /\ backup # disk
    /\ backup' = disk
    /\ UNCHANGED <<phone, pc, list, saved, info, processes, restores, restored>>

\* The app is installed again, on this phone or on another one, with the data of
\* the last backup, which may be older than what was saved last, or without any.
Restore(p) ==
    /\ pc = "off"
    /\ restores < MaxRestores
    /\ restores' = restores + 1
    /\ phone' = p
    /\ disk' = backup /\ restored' = backup
    /\ UNCHANGED <<pc, list, memory, backup, info, processes>>

Lookup == GetSaved \/ Open \/ Match \/ NoMatch \/ Close \/ Fail \/ GetResult

Next ==
    \/ OnCreate \/ Lookup
    \/ WriteToDisk \/ ProcessDeath \/ Backup
    \/ \E p \in Phones : Restore(p)

Spec == Init /\ [][Next]_vars

-----------------------------------------------------------------------------
(* Properties                                                              *)

\* The types; only rows of a list are saved, never the fallback, so that a
\* lookup which failed is made again by the next process.
TypeOK ==
    /\ phone \in Phones
    /\ pc \in {"off", "lookup", "scan", "close", "closed", "up"}
    /\ list \in Lists \cup {"none"}
    /\ {memory, disk, backup, restored} \subseteq Found \cup {NoAnswer}
    /\ info \in [phone : Phones, list : Lists \cup {"none"}] \cup {NoAnswer}
    /\ processes \in 0 .. MaxProcesses /\ restores \in 0 .. MaxRestores

\* A phone is announced with its own model, whichever list it was found in and
\* however many lookups have failed or were cut short, or else with the answer that
\* came with the last restore, and with no other phone's: the saved answer does not
\* say whose it is, and is not compared with the phone.
ModelIsOwn == pc = "up" => info.phone = phone \/ info = restored

\* Whatever a process has found and written, every later process announces, with or
\* without network, also if that one dies and the next has to begin again, until the
\* app is installed again: a phone's model is not one today and another tomorrow.
\* (What apply has not written when the process dies is lost, and looked up again.)
FoundIsForGood ==
    \A a \in Found, k \in 0 .. MaxRestores :
        []((pc = "off" /\ disk = a /\ restores = k) =>
               [](pc = "up" /\ restores = k => info = a))
=============================================================================
