-------------------------- MODULE DeviceModelProofs --------------------------
(***************************************************************************)
(* Proofs of the properties of DeviceModel, for any phones and any number  *)
(* of processes and restores.                                      *)
(***************************************************************************)
EXTENDS DeviceModel, TLAPS

USE BoundsAssumption, NoAnswerAssumption

-----------------------------------------------------------------------------
(* Types: only rows of a list are saved.                                   *)

\* The list that is scanned is one of the two.
Scanning == pc = "scan" => list \in Lists

Types == TypeOK /\ Scanning

LEMMA TypesInit == Init => Types
BY DEF Init, Types, TypeOK, Scanning

\* No step stores anything but a row that was found.
LEMMA TypesStep == Types /\ [Next]_vars => Types'
<1> SUFFICES ASSUME Types, [Next]_vars PROVE Types'
  OBVIOUS
<1> USE DEF Types, TypeOK, Scanning, system, saved, Lists
<1>1. CASE OnCreate
  BY <1>1 DEF OnCreate
<1>2. CASE GetSaved
  BY <1>2 DEF GetSaved, Answer, Found
<1>3. CASE Open
  BY <1>3 DEF Open, Step
<1>4. CASE Match
  <2>1. memory' \in Found
    BY <1>4 DEF Match, Step, ModelInfo, Found
  <2> QED
    BY <1>4, <2>1 DEF Match, Step
<1>5. CASE NoMatch \/ Close
  BY <1>5 DEF NoMatch, Close, Step
<1>6. CASE Fail
  <2>1. info' \in [phone : Phones, list : Lists \cup {"none"}]
    BY <1>6 DEF Fail, Answer, fallbackModelInfo, ModelInfo
  <2> QED
    BY <1>6, <2>1 DEF Fail, Answer
<1>7. CASE GetResult
  <2>1. info' \in [phone : Phones, list : Lists \cup {"none"}]
    BY <1>7 DEF GetResult, Answer, fallbackModelInfo, ModelInfo, Found
  <2> QED
    BY <1>7, <2>1 DEF GetResult, Answer
<1>8. CASE WriteToDisk
  BY <1>8 DEF WriteToDisk
<1>9. CASE ProcessDeath
  BY <1>9 DEF ProcessDeath, Step
<1>10. CASE \E p \in Phones : Restore(p)
  BY <1>10 DEF Restore
<1>11. CASE Backup
  BY <1>11 DEF Backup
<1>12. CASE UNCHANGED vars
  BY <1>12 DEF vars
<1> QED
  BY <1>1, <1>2, <1>3, <1>4, <1>5, <1>6, <1>7, <1>8, <1>9, <1>10, <1>11, <1>12 DEF Next, Lookup

LEMMA TypesAlways == Spec => []Types
BY TypesInit, TypesStep, PTL DEF Spec

\* The variables keep their types; what is saved is always a row of a list.
THEOREM TypeCorrect == Spec => []TypeOK
<1>1. Types => TypeOK
  BY DEF Types
<1> QED
  BY <1>1, TypesAlways, PTL

-----------------------------------------------------------------------------
(* A phone's own model.                                                    *)

\* Whatever is kept or announced was found on this phone or came with a restore.
Own ==
    /\ memory # NoAnswer => memory.phone = phone \/ memory = restored
    /\ disk # NoAnswer => disk.phone = phone \/ disk = restored
    /\ pc = "up" => info.phone = phone \/ info = restored
    /\ pc = "off" => memory = NoAnswer

\* No step of a process mixes up two phones, and a restore says what it brings.
LEMMA OwnStep == Types /\ Own /\ [Next]_vars => Own'
<1> SUFFICES ASSUME Types, Own, [Next]_vars PROVE Own'
  OBVIOUS
<1> USE DEF Types, TypeOK, Own, system, saved
<1>1. CASE OnCreate
  BY <1>1 DEF OnCreate
<1>2. CASE Lookup
  BY <1>2 DEF Lookup, GetSaved, Open, Match, NoMatch, Close, Fail, GetResult,
              Step, Answer, fallbackModelInfo, ModelInfo
<1>3. CASE WriteToDisk \/ ProcessDeath \/ Backup
  BY <1>3 DEF WriteToDisk, ProcessDeath, Backup, Step
<1>4. CASE \E p \in Phones : Restore(p)
  BY <1>4 DEF Restore
<1>5. CASE UNCHANGED vars
  BY <1>5 DEF vars
<1> QED
  BY <1>1, <1>2, <1>3, <1>4, <1>5 DEF Next

\* A phone is announced with its own model, whichever lookups fail or are cut
\* short, or with the answer that the last restore has brought.
THEOREM ModelIsOwnAlways == Spec => []ModelIsOwn
<1>1. Init => Own
  BY DEF Init, Own
<1>2. Own => ModelIsOwn
  BY DEF Own, ModelIsOwn
<1> QED
  BY <1>1, <1>2, OwnStep, TypesAlways, PTL DEF Spec

-----------------------------------------------------------------------------
(* A model for good.                                                       *)

\* Since the k-th restore answer a is on disk and every process starts from it, or
\* the app has been installed again since.
Kept(a, k) ==
    /\ restores \in Nat
    /\ \/ restores > k
       \/ /\ restores = k /\ disk = a
          /\ \/ pc = "off"
             \/ pc = "lookup" /\ memory = a
             \/ pc = "up" /\ memory = a /\ info = a

\* A kept answer leaves a lookup nothing to do but to return it.
LEMMA KeptStep ==
  ASSUME NEW a \in Found, NEW k \in Nat
  PROVE  Kept(a, k) /\ [Next]_vars => Kept(a, k)'
<1> SUFFICES ASSUME Kept(a, k), [Next]_vars PROVE Kept(a, k)'
  OBVIOUS
<1> USE DEF Kept, system, saved
<1>1. a # NoAnswer
  OBVIOUS
<1>2. CASE OnCreate
  BY <1>2 DEF OnCreate
<1>3. CASE Lookup
  BY <1>1, <1>3 DEF Lookup, GetSaved, Open, Match, NoMatch, Close, Fail, GetResult, Step, Answer
<1>4. CASE WriteToDisk \/ ProcessDeath \/ Backup
  BY <1>4 DEF WriteToDisk, ProcessDeath, Backup, Step
<1>5. CASE \E p \in Phones : Restore(p)
  BY <1>5 DEF Restore
<1>6. CASE UNCHANGED vars
  BY <1>6 DEF vars
<1> QED
  BY <1>2, <1>3, <1>4, <1>5, <1>6 DEF Next

\* Whatever a process has found and written, every later process announces until
\* the app is installed again, also when processes die and backups are taken.
THEOREM FoundIsForGoodAlways == Spec => FoundIsForGood
<1> SUFFICES ASSUME NEW a \in Found, NEW k \in 0 .. MaxRestores
             PROVE  Spec => []((pc = "off" /\ disk = a /\ restores = k) =>
                                   [](pc = "up" /\ restores = k => info = a))
  BY DEF FoundIsForGood
<1>1. pc = "off" /\ disk = a /\ restores = k => Kept(a, k)
  BY DEF Kept
<1>2. Kept(a, k) => (pc = "up" /\ restores = k => info = a)
  BY DEF Kept
<1>3. Kept(a, k) /\ [Next]_vars => Kept(a, k)'
  BY KeptStep
<1> QED
  BY <1>1, <1>2, <1>3, PTL DEF Spec
=============================================================================
