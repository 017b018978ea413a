------------------------- MODULE StoreWriteBackProofs --------------------------
(***************************************************************************)
(* Proofs about the write-back store: what differs from the disk is dirty,  *)
(* edits are stored or leave no trace, and events and ledgers agree.        *)
(***************************************************************************)
EXTENDS StoreWriteBack, SequenceTheorems, FiniteSetTheorems, TLAPS

-----------------------------------------------------------------------------
(* The operators on changes *)

LEMMA BoundedType ==
    ASSUME NEW events \in Seq(Usage) PROVE Bounded(events) \in Pending
  <1>. DEFINE from == IF Len(events) > MaxPending THEN Len(events) - MaxPending + 1 ELSE 1
  <1>1. Len(events) \in Nat /\ MaxPending \in Nat \ {0}
    BY LenProperties, WriteBackAssumption
  <1>2. from \in 1 .. Len(events) + 1 /\ from \in Int /\ Len(events) \in Int
    BY <1>1
  <1>3. \A i \in from .. Len(events) : events[i] \in Usage
    BY <1>2, LenProperties
  <1>4. Len(SubSeq(events, from, Len(events))) = IF from <= Len(events) THEN Len(events) - from + 1 ELSE 0
    <2>. HIDE DEF from
    <2> QED BY <1>2, <1>3
  <1>5. SubSeq(events, from, Len(events)) \in Seq(Usage)
    BY <1>2, <1>3, SubSeqProperties, Zenon
  <1>6. Len(SubSeq(events, from, Len(events))) <= MaxPending
    BY <1>1, <1>4
  <1> QED
    BY <1>5, <1>6 DEF Bounded, Pending

LEMMA NoChangesType == NoChanges \in Changes
  <1>1. <<>> \in Seq(Usage) /\ Len(<<>>) = 0
    OBVIOUS
  <1> QED
    BY <1>1, WriteBackAssumption DEF NoChanges, Changes, Pending

LEMMA MergeType ==
    ASSUME NEW pending \in Changes, NEW touched \in SUBSET Parts, NEW events \in Seq(Usage)
    PROVE  /\ Merge(pending, touched, events) \in Changes
           /\ Merge(pending, touched, events).parts = pending.parts \union touched
  <1>1. pending.events \in Seq(Usage) /\ pending.parts \in SUBSET Parts
    BY DEF Changes, Pending
  <1>2. pending.events \o events \in Seq(Usage)
    BY <1>1
  <1>3. Bounded(pending.events \o events) \in Pending
    BY <1>2, BoundedType
  <1> QED
    BY <1>1, <1>3 DEF Merge, Changes

LEMMA ChangedType ==
    ASSUME memory \in Contents, NEW op \in Ops, NEW touched \in SUBSET Parts
    PROVE  /\ Changed(op, touched) \in Contents
           /\ \A p \in Parts : Changed(op, touched)[p] =
                 IF p \in touched THEN memory[p] \union {op} ELSE memory[p]
  BY DEF Changed, Contents

LEMMA DroppedType ==
    ASSUME NEW events \in Seq(Usage), NEW before \in Changes
    PROVE  Range(before.events \o events) \subseteq Usage /\ Range(events) \subseteq Usage
  <1>1. before.events \in Seq(Usage)
    BY DEF Changes, Pending
  <1>2. before.events \o events \in Seq(Usage)
    BY <1>1
  <1>3. ASSUME NEW s \in Seq(Usage) PROVE Range(s) \subseteq Usage
    BY LenProperties DEF Range
  <1> QED
    BY <1>2, <1>3

(* What a write that succeeds does to the disk. *)
LEMMA WriteEffect ==
    ASSUME disk \in [Files -> Disk], file \in Files \union {NoFile},
           NEW state \in Contents, NEW changes \in Changes, Write(state, changes)
    PROVE  /\ file \in Files
           /\ disk' \in [Files -> Disk]
           /\ \A f \in Files \ {file} : disk'[f] = disk[f]
           /\ \A p \in Parts : disk'[file].parts[p] =
                 IF p \in changes.parts THEN state[p] ELSE disk[file].parts[p]
           /\ dirty' = NoChanges
           /\ outage' = [failed |-> FALSE, onsets |-> 0]
  <1>1. file \in Files /\ disk' = [disk EXCEPT ![file] = Saved(disk[file], state, changes)]
    BY DEF Write, NothingToWrite
  <1>2. disk[file] \in Disk
    BY <1>1
  <1>3. disk[file].parts \in Contents /\ disk[file].events \in Seq(Usage)
    BY <1>2 DEF Disk
  <1>4. changes.parts \in SUBSET Parts /\ changes.events \in Seq(Usage)
    BY DEF Changes, Pending
  <1>5. disk[file].events \o changes.events \in Seq(Usage)
    BY <1>3, <1>4
  <1>6. [p \in Parts |-> IF p \in changes.parts THEN state[p] ELSE disk[file].parts[p]] \in Contents
    BY <1>3 DEF Contents
  <1>7. /\ Saved(disk[file], state, changes) \in Disk
        /\ Saved(disk[file], state, changes).parts =
             [p \in Parts |-> IF p \in changes.parts THEN state[p] ELSE disk[file].parts[p]]
    BY <1>5, <1>6 DEF Saved, Disk
  <1>8. disk'[file] = Saved(disk[file], state, changes)
    BY <1>1
  <1>9. disk' \in [Files -> Disk] /\ \A f \in Files \ {file} : disk'[f] = disk[f]
    BY <1>1, <1>7
  <1>10. \A p \in Parts : disk'[file].parts[p] =
             IF p \in changes.parts THEN state[p] ELSE disk[file].parts[p]
    BY <1>7, <1>8
  <1> QED
    BY <1>1, <1>9, <1>10 DEF Write

(* Saving what is dirty and what was just changed saves everything. *)
LEMMA WriteSavesAll ==
    ASSUME disk \in [Files -> Disk], file \in Files \union {NoFile}, dirty \in Changes,
           OnlyDirtyDiffers,
           NEW state \in Contents, NEW changes \in Changes, Write(state, changes),
           dirty.parts \subseteq changes.parts,
           \A p \in Parts \ changes.parts : state[p] = memory[p]
    PROVE  disk'[file].parts = state
  <1>1. /\ file \in Files /\ disk' \in [Files -> Disk]
        /\ \A p \in Parts : disk'[file].parts[p] =
               IF p \in changes.parts THEN state[p] ELSE disk[file].parts[p]
    BY WriteEffect
  <1>2. \A p \in Parts \ dirty.parts : memory[p] = disk[file].parts[p]
    BY <1>1, WriteBackAssumption DEF OnlyDirtyDiffers
  <1>3. \A p \in Parts : disk'[file].parts[p] = state[p]
    BY <1>1, <1>2
  <1>4. disk'[file] \in Disk
    BY <1>1
  <1>5. disk'[file].parts \in Contents
    BY <1>4 DEF Disk
  <1> QED
    BY <1>3, <1>5 DEF Contents

-----------------------------------------------------------------------------
(* The invariant *)

(* A file that is being loaded is not the one in use, and nobody writes it. *)
SnapshotIsCurrent ==
    loading # NotLoading => loading.file # file /\ loading.parts = disk[loading.file].parts

(* Memory is never behind the disk. *)
DiskWithinMemory ==
    file # NoFile => \A p \in Parts : disk[file].parts[p] \subseteq memory[p]

Nowhere(e) == \A p \in Parts : e \notin memory[p] /\ \A f \in Files : e \notin disk[f].parts[p]

(* Changes to come are nowhere, and neither are refused edits. *)
OnlyAcceptedChanges == \A e \in Ops : outcome[e] \in {"unused", "refused"} => Nowhere(e)

Consistent ==
    /\ OnlyDirtyDiffers
    /\ SnapshotIsCurrent
    /\ DiskWithinMemory
    /\ OnlyAcceptedChanges
    /\ AcknowledgedEditLasts

IInv == TypeOK /\ Consistent /\ AdmittedOnSavedLedger

-----------------------------------------------------------------------------
(* Types *)

LEMMA FreshType == Fresh \in Contents
  BY DEF Fresh, Contents

LEMMA InitTypes == Init => TypeOK
  <1> SUFFICES ASSUME Init PROVE TypeOK
    OBVIOUS
  <1>1. [parts |-> Fresh, events |-> <<>>] \in Disk
    <2>1. <<>> \in Seq(Usage)
      OBVIOUS
    <2> QED
      BY <2>1, FreshType DEF Disk
  <1>2. disk \in [Files -> Disk]
    BY <1>1 DEF Init
  <1>3. outage \in [failed : BOOLEAN, onsets : Nat]
    BY DEF Init
  <1> QED
    BY <1>2, <1>3, FreshType, NoChangesType DEF Init, TypeOK

(* The parts of the state that every write and every failed write keep typed. *)
LEMMA WriteOutageTypes ==
    ASSUME TypeOK, NEW state, NEW changes
    PROVE  /\ Write(state, changes) => outage' \in [failed : BOOLEAN, onsets : Nat]
           /\ WriteFails(changes) => outage' \in [failed : BOOLEAN, onsets : Nat]
  <1>. DEFINE Outage == [failed : BOOLEAN, onsets : Nat]
  <1>1. [failed |-> FALSE, onsets |-> 0] \in Outage
    OBVIOUS
  <1>2. outage \in Outage
    BY DEF TypeOK
  <1>3. [outage EXCEPT !.failed = TRUE] \in Outage
    BY <1>2
  <1> QED
    BY <1>1, <1>3 DEF Write, WriteFails

LEMMA ReportsType ==
    ASSUME TypeOK, NEW c \in Callers, NEW result \in {"idle", "failed", "saved"}, Reports(c, result)
    PROVE  pc' \in [Callers -> {"idle", "failed", "saved"}]
  BY DEF TypeOK, Reports

LEMMA UpdateTypes ==
    ASSUME TypeOK, NEW c \in Callers, NEW op \in Ops, NEW touched \in SUBSET Parts,
           Update(c, op, touched)
    PROVE  TypeOK'
  <1>. PICK events : events = IF op \in Usage THEN <<op>> ELSE <<>>
    OBVIOUS
  <1>. PICK changes : changes = Merge(dirty, touched, events)
    OBVIOUS
  <1>1. events \in Seq(Usage) /\ dirty \in Changes /\ memory \in Contents
    BY DEF TypeOK
  <1>2. changes \in Changes
    BY <1>1, MergeType
  <1>3. /\ memory' = Changed(op, touched)
        /\ admission' = "none"
        /\ outcome' = [outcome EXCEPT ![op] = "live"]
        /\ gone' = gone \union IF file = NoFile THEN Range(events) ELSE Dropped(events)
        /\ file' = file /\ loading' = loading /\ lastError' = lastError
        /\ \/ DoesNotWrite(changes)
           \/ Write(memory', changes) /\ Reports(c, "saved")
           \/ WriteFails(changes) /\ Keeps(touched, events) /\ Reports(c, "failed")
    BY DEF Update
  <1>4. memory' \in Contents
    BY <1>1, <1>3, ChangedType
  <1>5. gone' \subseteq Usage
    BY <1>1, <1>3, DroppedType DEF Dropped, TypeOK
  <1>6. outcome' \in [Ops -> {"unused", "live", "saved", "refused"}]
    BY <1>3 DEF TypeOK
  <1>7. /\ dirty' \in Changes /\ disk' \in [Files -> Disk]
        /\ pc' \in [Callers -> {"idle", "failed", "saved"}]
        /\ outage' \in [failed : BOOLEAN, onsets : Nat]
    <2>1. CASE DoesNotWrite(changes)
      BY <2>1 DEF DoesNotWrite, TypeOK
    <2>2. CASE Write(memory', changes) /\ Reports(c, "saved")
      <3>1. disk' \in [Files -> Disk] /\ dirty' = NoChanges
        BY <1>2, <1>4, <2>2, WriteEffect DEF TypeOK
      <3> QED
        BY <2>2, <3>1, NoChangesType, WriteOutageTypes, ReportsType
    <2>3. CASE WriteFails(changes) /\ Keeps(touched, events) /\ Reports(c, "failed")
      <3>1. dirty' = changes /\ disk' = disk
        BY <2>3 DEF Keeps, WriteFails
      <3> QED
        BY <1>2, <2>3, <3>1, WriteOutageTypes, ReportsType DEF TypeOK
    <2> QED
      BY <1>3, <2>1, <2>2, <2>3
  <1> QED
    BY <1>3, <1>4, <1>5, <1>6, <1>7 DEF TypeOK

LEMMA EditTypes ==
    ASSUME TypeOK, NEW c \in Callers, NEW op \in Other, NEW touched \in SUBSET Parts,
           Edit(c, op, touched)
    PROVE  TypeOK'
  <1>. PICK changes : changes = Merge(dirty, touched, <<>>)
    OBVIOUS
  <1>1. <<>> \in Seq(Usage) /\ dirty \in Changes /\ memory \in Contents /\ op \in Ops
    BY DEF TypeOK, Ops
  <1>2. changes \in Changes
    BY <1>1, MergeType
  <1>3. Changed(op, touched) \in Contents
    BY <1>1, ChangedType
  <1>4. /\ admission' = "none" /\ gone' = gone
        /\ file' = file /\ loading' = loading /\ lastError' = lastError
        /\ \/ /\ DoesNotWrite(changes)
              /\ memory' = Changed(op, touched)
              /\ outcome' = [outcome EXCEPT ![op] = "live"]
           \/ /\ Write(Changed(op, touched), changes)
              /\ memory' = Changed(op, touched)
              /\ outcome' = [outcome EXCEPT ![op] = IF touched = {} THEN "live" ELSE "saved"]
              /\ Reports(c, "saved")
           \/ /\ WriteFails(changes)
              /\ Discard(op, touched)
              /\ outcome' = [outcome EXCEPT ![op] = "refused"]
              /\ Reports(c, "failed")
    BY DEF Edit
  <1>5. outcome' \in [Ops -> {"unused", "live", "saved", "refused"}]
    BY <1>4 DEF TypeOK
  <1>6. /\ memory' \in Contents /\ dirty' \in Changes /\ disk' \in [Files -> Disk]
        /\ pc' \in [Callers -> {"idle", "failed", "saved"}]
        /\ outage' \in [failed : BOOLEAN, onsets : Nat]
    <2>1. CASE DoesNotWrite(changes) /\ memory' = Changed(op, touched)
      BY <1>3, <2>1 DEF DoesNotWrite, TypeOK
    <2>2. CASE Write(Changed(op, touched), changes) /\ memory' = Changed(op, touched) /\ Reports(c, "saved")
      <3>1. disk' \in [Files -> Disk] /\ dirty' = NoChanges
        BY <1>2, <1>3, <2>2, WriteEffect DEF TypeOK
      <3> QED
        BY <1>3, <2>2, <3>1, NoChangesType, WriteOutageTypes, ReportsType
    <2>3. CASE WriteFails(changes) /\ Discard(op, touched) /\ Reports(c, "failed")
      <3>1. dirty' = dirty /\ memory' = memory /\ disk' = disk
        BY <2>3 DEF Discard, WriteFails
      <3> QED
        BY <1>1, <2>3, <3>1, WriteOutageTypes, ReportsType DEF TypeOK
    <2> QED
      BY <1>4, <2>1, <2>2, <2>3
  <1> QED
    BY <1>4, <1>5, <1>6 DEF TypeOK

LEMMA AdmitTypes ==
    ASSUME TypeOK, AdmitGroup PROVE TypeOK'
  <1>1. dirty \in Changes /\ memory \in Contents
    BY DEF TypeOK
  <1>2. /\ memory' = memory /\ file' = file /\ loading' = loading /\ lastError' = lastError
        /\ outcome' = outcome /\ gone' = gone /\ pc' = pc
        /\ admission' \in {"allowed", "accounting_unavailable"}
    BY DEF AdmitGroup, DoesNotWrite
  <1>3. /\ dirty' \in Changes /\ disk' \in [Files -> Disk]
        /\ outage' \in [failed : BOOLEAN, onsets : Nat]
    <2>1. CASE DoesNotWrite(dirty)
      BY <2>1 DEF DoesNotWrite, TypeOK
    <2>2. CASE Write(memory, dirty)
      <3>1. disk' \in [Files -> Disk] /\ dirty' = NoChanges
        BY <1>1, <2>2, WriteEffect DEF TypeOK
      <3> QED
        BY <2>2, <3>1, NoChangesType, WriteOutageTypes
    <2>3. CASE WriteFails(dirty) /\ UNCHANGED dirty
      <3>1. disk' = disk
        BY <2>3 DEF WriteFails
      <3> QED
        BY <2>3, <3>1, WriteOutageTypes DEF TypeOK
    <2> QED
      BY <2>1, <2>2, <2>3 DEF AdmitGroup
  <1> QED
    BY <1>2, <1>3 DEF TypeOK

LEMMA LostType == ASSUME TypeOK PROVE Lost \subseteq Usage
  <1>1. dirty.events \in Seq(Usage)
    BY DEF TypeOK, Changes, Pending
  <1> QED
    BY <1>1, LenProperties DEF Lost, Range

LEMMA ReportTypes ==
    ASSUME TypeOK, NEW c \in Callers, RecordWriteError(c) \/ RecordWriteSuccess(c)
    PROVE  TypeOK'
  <1>1. pc' \in [Callers -> {"idle", "failed", "saved"}]
    BY ReportsType DEF RecordWriteError, RecordWriteSuccess
  <1>2. outage \in [failed : BOOLEAN, onsets : Nat]
    BY DEF TypeOK
  <1>3. PICK n : n = IF lastError THEN outage.onsets ELSE outage.onsets + 1
    OBVIOUS
  <1>4. n \in Nat
    BY <1>2, <1>3
  <1>5. outage' = [outage EXCEPT !.onsets = n] \/ outage' = outage
    BY <1>3 DEF RecordWriteError, RecordWriteSuccess
  <1>6. outage' \in [failed : BOOLEAN, onsets : Nat]
    BY <1>2, <1>4, <1>5
  <1>7. /\ UNCHANGED <<memory, file, dirty, disk, loading, outcome, gone>>
        /\ lastError' \in BOOLEAN /\ admission' = "none"
    BY DEF RecordWriteError, RecordWriteSuccess, storeVars
  <1> QED
    BY <1>1, <1>6, <1>7 DEF TypeOK

LEMMA ConfigureTypes ==
    ASSUME TypeOK,
           \/ \E f \in Files : BeginConfigure(f)
           \/ ConfigureFails
           \/ FinishConfigure
           \/ Close
           \/ Crash
    PROVE  TypeOK'
  <1>1. ASSUME NEW f \in Files, BeginConfigure(f) PROVE TypeOK'
    <2>1. disk[f].parts \in Contents
      BY DEF TypeOK, Disk
    <2> QED
      BY <1>1, <2>1 DEF BeginConfigure, TypeOK, Loaded
  <1>2. CASE ConfigureFails
    BY <1>2 DEF ConfigureFails, TypeOK
  <1>3. CASE FinishConfigure
    <2>1. loading.parts \in Contents /\ loading.file \in Files
      BY <1>3 DEF FinishConfigure, TypeOK, Loaded
    <2> QED
      BY <1>3, <2>1, NoChangesType, LostType DEF FinishConfigure, TypeOK
  <1>4. CASE Close
    BY <1>4, NoChangesType, LostType DEF Close, TypeOK
  <1>5. CASE Crash
    BY <1>5, NoChangesType, LostType, FreshType DEF Crash, TypeOK
  <1> QED
    BY <1>1, <1>2, <1>3, <1>4, <1>5

LEMMA TypeStep == TypeOK /\ [Next]_vars => TypeOK'
  <1> SUFFICES ASSUME TypeOK, [Next]_vars PROVE TypeOK'
    OBVIOUS
  <1>1. ASSUME NEW c \in Callers, NEW op \in Ops, NEW touched \in SUBSET Parts, Update(c, op, touched)
        PROVE  TypeOK'
    BY <1>1, UpdateTypes
  <1>2. ASSUME NEW c \in Callers, NEW op \in Other, NEW touched \in SUBSET Parts, Edit(c, op, touched)
        PROVE  TypeOK'
    BY <1>2, EditTypes
  <1>3. CASE AdmitGroup
    BY <1>3, AdmitTypes
  <1>4. ASSUME NEW c \in Callers, RecordWriteError(c) \/ RecordWriteSuccess(c) PROVE TypeOK'
    BY <1>4, ReportTypes
  <1>5. CASE \/ \E f \in Files : BeginConfigure(f)
             \/ ConfigureFails \/ FinishConfigure \/ Close \/ Crash
    BY <1>5, ConfigureTypes
  <1>6. CASE UNCHANGED vars
    BY <1>6 DEF vars, TypeOK
  <1> QED
    BY <1>1, <1>2, <1>3, <1>4, <1>5, <1>6 DEF Next

(* Every variable of the store keeps its type: in particular no more than  *)
(* MaxPending events ever wait, and what is loaded, saved and dropped is    *)
(* what the repository can hold.                                            *)
THEOREM TypeCorrect == Spec => []TypeOK
  BY InitTypes, TypeStep, PTL DEF Spec

-----------------------------------------------------------------------------
(* The shapes of the steps *)

(* A change that waits for a later write, or that nothing can be written for. *)
KeptStep(op, touched) ==
    /\ outcome[op] = "unused"
    /\ outcome' = [outcome EXCEPT ![op] = "live"]
    /\ memory' = Changed(op, touched)
    /\ UNCHANGED <<file, disk, loading>>
    /\ file # NoFile => dirty'.parts = dirty.parts \union touched

(* A write that succeeds. *)
StoredStep ==
    /\ file \in Files
    /\ disk'[file].parts = memory'
    /\ \A f \in Files \ {file} : disk'[f] = disk[f]
    /\ dirty' = NoChanges
    /\ UNCHANGED <<file, loading>>

(* The change that such a write includes. *)
Includes(op, touched, result) ==
    /\ outcome[op] = "unused"
    /\ outcome' = [outcome EXCEPT ![op] = result]
    /\ memory' = Changed(op, touched)
    /\ result = "live" \/ (result = "saved" /\ touched # {})

(* A step that leaves memory, file, dirty and disk alone. *)
IdleStep ==
    /\ UNCHANGED <<memory, file, dirty, disk>>
    /\ \/ outcome' = outcome
       \/ \E op \in Ops : outcome[op] = "unused" /\ outcome' = [outcome EXCEPT ![op] = "refused"]
    /\ \/ loading' \in {loading, NotLoading}
       \/ \E f \in Files : f # file /\ loading' = [file |-> f, parts |-> disk[f].parts]

LEMMA UpdateShape ==
    ASSUME IInv, NEW c \in Callers, NEW op \in Ops, NEW touched \in SUBSET Parts,
           Update(c, op, touched)
    PROVE  KeptStep(op, touched) \/ (StoredStep /\ Includes(op, touched, "live"))
  <1>. PICK events : events = IF op \in Usage THEN <<op>> ELSE <<>>
    OBVIOUS
  <1>. PICK changes : changes = Merge(dirty, touched, events)
    OBVIOUS
  <1>1. events \in Seq(Usage) /\ dirty \in Changes /\ memory \in Contents
        /\ disk \in [Files -> Disk] /\ file \in Files \union {NoFile}
    BY DEF IInv, TypeOK
  <1>2. changes \in Changes /\ changes.parts = dirty.parts \union touched
    BY <1>1, MergeType
  <1>3. /\ outcome[op] = "unused"
        /\ memory' = Changed(op, touched)
        /\ outcome' = [outcome EXCEPT ![op] = "live"]
        /\ file' = file /\ loading' = loading
        /\ \/ DoesNotWrite(changes)
           \/ Write(memory', changes)
           \/ WriteFails(changes) /\ Keeps(touched, events)
    BY DEF Update
  <1>4. CASE DoesNotWrite(changes)
    <2>1. disk' = disk /\ dirty' = dirty
      BY <1>4 DEF DoesNotWrite
    <2>2. file # NoFile => dirty.parts \union touched = {}
      BY <1>2, <1>4 DEF DoesNotWrite, NothingToWrite, NoChanges
    <2>3. file # NoFile => dirty'.parts = dirty.parts \union touched
      BY <2>1, <2>2
    <2> QED
      BY <1>3, <2>1, <2>3 DEF KeptStep
  <1>5. CASE Write(memory', changes)
    <2>1. memory' \in Contents /\ \A p \in Parts \ touched : memory'[p] = memory[p]
      BY <1>1, <1>3, ChangedType
    <2>2. \A p \in Parts \ changes.parts : memory'[p] = memory[p]
      BY <1>2, <2>1
    <2>3. disk'[file].parts = memory'
      BY <1>1, <1>2, <1>5, <2>1, <2>2, WriteSavesAll DEF IInv, Consistent
    <2>4. file \in Files /\ dirty' = NoChanges /\ \A f \in Files \ {file} : disk'[f] = disk[f]
      BY <1>1, <1>2, <1>5, <2>1, WriteEffect
    <2> QED
      BY <1>3, <2>3, <2>4 DEF StoredStep, Includes
  <1>6. CASE WriteFails(changes) /\ Keeps(touched, events)
    <2>1. disk' = disk /\ dirty' = changes
      BY <1>6 DEF WriteFails, Keeps
    <2> QED
      BY <1>2, <1>3, <2>1 DEF KeptStep
  <1> QED
    BY <1>3, <1>4, <1>5, <1>6

LEMMA EditShape ==
    ASSUME IInv, NEW c \in Callers, NEW op \in Other, NEW touched \in SUBSET Parts,
           Edit(c, op, touched)
    PROVE  \/ KeptStep(op, touched)
           \/ StoredStep /\ \E result \in {"live", "saved"} : Includes(op, touched, result)
           \/ IdleStep
  <1>. PICK changes : changes = Merge(dirty, touched, <<>>)
    OBVIOUS
  <1>1. <<>> \in Seq(Usage) /\ dirty \in Changes /\ memory \in Contents /\ op \in Ops
        /\ disk \in [Files -> Disk] /\ file \in Files \union {NoFile}
    BY DEF IInv, TypeOK, Ops
  <1>2. changes \in Changes /\ changes.parts = dirty.parts \union touched
    BY <1>1, MergeType
  <1>3. Changed(op, touched) \in Contents
        /\ \A p \in Parts \ touched : Changed(op, touched)[p] = memory[p]
    BY <1>1, ChangedType
  <1>4. /\ outcome[op] = "unused" /\ file' = file /\ loading' = loading
        /\ \/ /\ DoesNotWrite(changes)
              /\ memory' = Changed(op, touched)
              /\ outcome' = [outcome EXCEPT ![op] = "live"]
           \/ /\ Write(Changed(op, touched), changes)
              /\ memory' = Changed(op, touched)
              /\ outcome' = [outcome EXCEPT ![op] = IF touched = {} THEN "live" ELSE "saved"]
           \/ /\ WriteFails(changes)
              /\ Discard(op, touched)
              /\ outcome' = [outcome EXCEPT ![op] = "refused"]
    BY DEF Edit
  <1>5. CASE /\ DoesNotWrite(changes)
             /\ memory' = Changed(op, touched)
             /\ outcome' = [outcome EXCEPT ![op] = "live"]
    <2>1. disk' = disk /\ dirty' = dirty
      BY <1>5 DEF DoesNotWrite
    <2>2. file # NoFile => dirty.parts \union touched = {}
      BY <1>2, <1>5 DEF DoesNotWrite, NothingToWrite, NoChanges
    <2>3. file # NoFile => dirty'.parts = dirty.parts \union touched
      BY <2>1, <2>2
    <2> QED
      BY <1>4, <1>5, <2>1, <2>3 DEF KeptStep
  <1>6. CASE /\ Write(Changed(op, touched), changes)
             /\ memory' = Changed(op, touched)
             /\ outcome' = [outcome EXCEPT ![op] = IF touched = {} THEN "live" ELSE "saved"]
    <2>1. \A p \in Parts \ changes.parts : Changed(op, touched)[p] = memory[p]
      BY <1>2, <1>3
    <2>2. disk'[file].parts = memory'
      BY <1>1, <1>2, <1>3, <1>6, <2>1, WriteSavesAll DEF IInv, Consistent
    <2>3. file \in Files /\ dirty' = NoChanges /\ \A f \in Files \ {file} : disk'[f] = disk[f]
      BY <1>1, <1>2, <1>3, <1>6, WriteEffect
    <2>4. StoredStep
      BY <1>4, <2>2, <2>3 DEF StoredStep
    <2>5. touched = {} => Includes(op, touched, "live")
      BY <1>4, <1>6 DEF Includes
    <2>6. touched # {} => Includes(op, touched, "saved")
      BY <1>4, <1>6 DEF Includes
    <2> QED
      BY <2>4, <2>5, <2>6
  <1>7. CASE /\ WriteFails(changes)
             /\ Discard(op, touched)
             /\ outcome' = [outcome EXCEPT ![op] = "refused"]
    BY <1>1, <1>4, <1>7 DEF WriteFails, Discard, IdleStep
  <1> QED
    BY <1>4, <1>5, <1>6, <1>7

LEMMA AdmitShape ==
    ASSUME IInv, AdmitGroup
    PROVE  /\ UNCHANGED <<memory, outcome>>
           /\ StoredStep \/ IdleStep
           /\ admission' = "allowed" =>
                 StoredStep \/ (IdleStep /\ NothingToWrite(dirty))
  <1>1. dirty \in Changes /\ memory \in Contents
        /\ disk \in [Files -> Disk] /\ file \in Files \union {NoFile}
    BY DEF IInv, TypeOK
  <1>2. UNCHANGED <<memory, file, loading, outcome>>
    BY DEF AdmitGroup
  <1>3. CASE Write(memory, dirty)
    <2>1. disk'[file].parts = memory'
      BY <1>1, <1>2, <1>3, WriteSavesAll DEF IInv, Consistent
    <2>2. file \in Files /\ dirty' = NoChanges /\ \A f \in Files \ {file} : disk'[f] = disk[f]
      BY <1>1, <1>3, WriteEffect
    <2> QED
      BY <1>2, <2>1, <2>2 DEF StoredStep
  <1>4. CASE DoesNotWrite(dirty)
    <2>1. IdleStep /\ NothingToWrite(dirty)
      BY <1>2, <1>4 DEF DoesNotWrite, IdleStep
    <2> QED
      BY <1>2, <2>1
  <1>5. CASE WriteFails(dirty) /\ UNCHANGED dirty /\ admission' = "accounting_unavailable"
    <2>1. IdleStep
      BY <1>2, <1>5 DEF WriteFails, IdleStep
    <2> QED
      BY <1>2, <1>5, <2>1
  <1> QED
    BY <1>3, <1>4, <1>5 DEF AdmitGroup

-----------------------------------------------------------------------------
(* Each shape keeps memory and disks consistent *)

LEMMA KeptKeeps ==
    ASSUME IInv, NEW op \in Ops, NEW touched \in SUBSET Parts, KeptStep(op, touched)
    PROVE  Consistent'
  <1>1. /\ memory \in Contents /\ outcome \in [Ops -> {"unused", "live", "saved", "refused"}]
        /\ dirty \in Changes
    BY DEF IInv, TypeOK
  <1>2. \A p \in Parts : memory'[p] = IF p \in touched THEN memory[p] \union {op} ELSE memory[p]
    BY <1>1, ChangedType DEF KeptStep
  <1>3. /\ UNCHANGED <<file, disk, loading>>
        /\ file # NoFile => dirty'.parts = dirty.parts \union touched
    BY DEF KeptStep
  <1>4. /\ outcome'[op] = "live"
        /\ \A e \in Ops \ {op} : outcome'[e] = outcome[e]
    BY <1>1 DEF KeptStep
  <1>5. OnlyDirtyDiffers'
    BY <1>2, <1>3 DEF OnlyDirtyDiffers, IInv, Consistent
  <1>6. SnapshotIsCurrent'
    BY <1>3 DEF SnapshotIsCurrent, IInv, Consistent
  <1>7. DiskWithinMemory'
    BY <1>2, <1>3 DEF DiskWithinMemory, IInv, Consistent
  <1>8. OnlyAcceptedChanges'
    <2> SUFFICES ASSUME NEW e \in Ops, outcome'[e] \in {"unused", "refused"} PROVE Nowhere(e)'
      BY DEF OnlyAcceptedChanges
    <2>1. e # op /\ outcome[e] \in {"unused", "refused"}
      BY <1>4
    <2>2. Nowhere(e)
      BY <2>1 DEF IInv, Consistent, OnlyAcceptedChanges
    <2> QED
      BY <1>2, <1>3, <2>1, <2>2 DEF Nowhere
  <1>9. AcknowledgedEditLasts'
    <2> SUFFICES ASSUME NEW e \in Other, outcome'[e] = "saved"
                 PROVE  \E f \in Files, p \in Parts : e \in disk'[f].parts[p]
      BY DEF AcknowledgedEditLasts
    <2>1. outcome[e] = "saved"
      BY <1>4 DEF Ops
    <2> QED
      BY <1>3, <2>1 DEF IInv, Consistent, AcknowledgedEditLasts
  <1> QED
    BY <1>5, <1>6, <1>7, <1>8, <1>9 DEF Consistent

(* A write that succeeds, whatever it includes. *)
LEMMA StoredKeeps ==
    ASSUME IInv, StoredStep, NEW new \in SUBSET Ops,
           \A p \in Parts : memory[p] \subseteq memory'[p] /\ memory'[p] \subseteq memory[p] \union new,
           \A e \in Ops : outcome'[e] \in {"unused", "refused"} =>
               e \notin new /\ outcome[e] \in {"unused", "refused"},
           \A e \in Other : outcome'[e] = "saved" =>
               outcome[e] = "saved" \/ \E p \in Parts : e \in memory'[p]
    PROVE  Consistent'
  <1>1. /\ file \in Files /\ file' = file /\ loading' = loading
        /\ disk'[file].parts = memory'
        /\ \A f \in Files \ {file} : disk'[f] = disk[f]
    BY DEF StoredStep
  <1>2. OnlyDirtyDiffers' /\ DiskWithinMemory'
    BY <1>1 DEF OnlyDirtyDiffers, DiskWithinMemory
  <1>3. SnapshotIsCurrent'
    <2> SUFFICES ASSUME loading # NotLoading
                 PROVE  loading.file # file /\ loading.parts = disk'[loading.file].parts
      BY <1>1 DEF SnapshotIsCurrent, NotLoading
    <2>1. loading.file # file /\ loading.parts = disk[loading.file].parts /\ loading.file \in Files
      BY DEF IInv, Consistent, SnapshotIsCurrent, TypeOK, Loaded
    <2> QED
      BY <1>1, <2>1
  <1>4. OnlyAcceptedChanges'
    <2> SUFFICES ASSUME NEW e \in Ops, outcome'[e] \in {"unused", "refused"} PROVE Nowhere(e)'
      BY DEF OnlyAcceptedChanges
    <2>1. Nowhere(e) /\ e \notin new
      BY DEF IInv, Consistent, OnlyAcceptedChanges
    <2>2. \A p \in Parts : e \notin memory'[p]
      BY <2>1 DEF Nowhere
    <2>3. ASSUME NEW f \in Files, NEW p \in Parts PROVE e \notin disk'[f].parts[p]
      BY <1>1, <2>1, <2>2 DEF Nowhere
    <2> QED
      BY <2>2, <2>3 DEF Nowhere
  <1>5. AcknowledgedEditLasts'
    <2> SUFFICES ASSUME NEW e \in Other, outcome'[e] = "saved"
                 PROVE  \E f \in Files, p \in Parts : e \in disk'[f].parts[p]
      BY DEF AcknowledgedEditLasts
    <2>1. CASE \E p \in Parts : e \in memory'[p]
      BY <1>1, <2>1
    <2>2. CASE outcome[e] = "saved"
      <3>1. PICK f \in Files, p \in Parts : e \in disk[f].parts[p]
        BY <2>2 DEF IInv, Consistent, AcknowledgedEditLasts
      <3>2. CASE f = file
        <4>1. e \in memory[p]
          BY <1>1, <3>1, <3>2, WriteBackAssumption DEF IInv, Consistent, DiskWithinMemory
        <4> QED
          BY <1>1, <4>1
      <3>3. CASE f # file
        BY <1>1, <3>1, <3>3
      <3> QED
        BY <3>2, <3>3
    <2> QED
      BY <2>1, <2>2
  <1> QED
    BY <1>2, <1>3, <1>4, <1>5 DEF Consistent

LEMMA IncludesKeeps ==
    ASSUME IInv, StoredStep, NEW op \in Ops, NEW touched \in SUBSET Parts,
           NEW result, Includes(op, touched, result)
    PROVE  Consistent'
  <1>1. memory \in Contents /\ outcome \in [Ops -> {"unused", "live", "saved", "refused"}]
    BY DEF IInv, TypeOK
  <1>2. \A p \in Parts : memory'[p] = IF p \in touched THEN memory[p] \union {op} ELSE memory[p]
    BY <1>1, ChangedType DEF Includes
  <1>3. /\ outcome'[op] = result /\ result \in {"live", "saved"}
        /\ \A e \in Ops \ {op} : outcome'[e] = outcome[e]
        /\ result = "saved" => touched # {}
    BY <1>1 DEF Includes
  <1>4. \A p \in Parts : memory[p] \subseteq memory'[p] /\ memory'[p] \subseteq memory[p] \union {op}
    BY <1>2
  <1>5. \A e \in Ops : outcome'[e] \in {"unused", "refused"} =>
            e \notin {op} /\ outcome[e] \in {"unused", "refused"}
    BY <1>3
  <1>6. \A e \in Other : outcome'[e] = "saved" =>
            outcome[e] = "saved" \/ \E p \in Parts : e \in memory'[p]
    BY <1>2, <1>3 DEF Ops
  <1>7. {op} \in SUBSET Ops
    OBVIOUS
  <1> QED
    BY <1>4, <1>5, <1>6, <1>7, StoredKeeps

LEMMA IdleKeeps ==
    ASSUME IInv, IdleStep PROVE Consistent'
  <1>1. UNCHANGED <<memory, file, dirty, disk>>
    BY DEF IdleStep
  <1>2. /\ \A e \in Ops : outcome'[e] \in {"unused", "refused"} => outcome[e] \in {"unused", "refused"}
        /\ \A e \in Ops : outcome'[e] = "saved" => outcome[e] = "saved"
    BY DEF IdleStep, IInv, TypeOK
  <1>3. OnlyDirtyDiffers' /\ DiskWithinMemory'
    BY <1>1 DEF IInv, Consistent, OnlyDirtyDiffers, DiskWithinMemory
  <1>4. SnapshotIsCurrent'
    BY <1>1 DEF IdleStep, IInv, Consistent, SnapshotIsCurrent, NotLoading
  <1>5. OnlyAcceptedChanges'
    BY <1>1, <1>2 DEF IInv, Consistent, OnlyAcceptedChanges, Nowhere
  <1>6. AcknowledgedEditLasts'
    BY <1>1, <1>2 DEF IInv, Consistent, AcknowledgedEditLasts, Ops
  <1> QED
    BY <1>3, <1>4, <1>5, <1>6 DEF Consistent

LEMMA FinishKeeps ==
    ASSUME IInv, FinishConfigure PROVE Consistent'
  <1>1. /\ memory' = loading.parts /\ file' = loading.file /\ loading' = NotLoading
        /\ disk' = disk /\ outcome' = outcome
    BY DEF FinishConfigure
  <1>2. loading.file \in Files /\ loading.parts = disk[loading.file].parts
    BY DEF FinishConfigure, IInv, Consistent, SnapshotIsCurrent, TypeOK, Loaded
  <1>3. OnlyDirtyDiffers' /\ DiskWithinMemory'
    BY <1>1, <1>2 DEF OnlyDirtyDiffers, DiskWithinMemory
  <1>4. SnapshotIsCurrent'
    BY <1>1 DEF SnapshotIsCurrent
  <1>5. OnlyAcceptedChanges'
    BY <1>1, <1>2 DEF IInv, Consistent, OnlyAcceptedChanges, Nowhere
  <1>6. AcknowledgedEditLasts'
    BY <1>1 DEF IInv, Consistent, AcknowledgedEditLasts
  <1> QED
    BY <1>3, <1>4, <1>5, <1>6 DEF Consistent

LEMMA StopKeeps ==
    ASSUME IInv, Close \/ Crash PROVE Consistent'
  <1>1. /\ file' = NoFile /\ loading' = NotLoading /\ disk' = disk /\ outcome' = outcome
        /\ memory' \in {memory, Fresh}
    BY DEF Close, Crash
  <1>2. OnlyDirtyDiffers' /\ DiskWithinMemory' /\ SnapshotIsCurrent'
    BY <1>1 DEF OnlyDirtyDiffers, DiskWithinMemory, SnapshotIsCurrent
  <1>3. OnlyAcceptedChanges'
    BY <1>1 DEF IInv, Consistent, OnlyAcceptedChanges, Nowhere, Fresh
  <1>4. AcknowledgedEditLasts'
    BY <1>1 DEF IInv, Consistent, AcknowledgedEditLasts
  <1> QED
    BY <1>2, <1>3, <1>4 DEF Consistent

-----------------------------------------------------------------------------
(* The invariant holds *)

Shape ==
    \/ \E op \in Ops, touched \in SUBSET Parts : KeptStep(op, touched)
    \/ StoredStep /\ \E op \in Ops, touched \in SUBSET Parts, result \in {"live", "saved"} :
                        Includes(op, touched, result)
    \/ StoredStep /\ UNCHANGED <<memory, outcome>>
    \/ IdleStep
    \/ FinishConfigure
    \/ Close
    \/ Crash

LEMMA NextShape == IInv /\ [Next]_vars => Shape
  <1> SUFFICES ASSUME IInv, [Next]_vars PROVE Shape
    OBVIOUS
  <1>1. ASSUME NEW c \in Callers, NEW op \in Ops, NEW touched \in SUBSET Parts, Update(c, op, touched)
        PROVE  Shape
    BY <1>1, UpdateShape DEF Shape
  <1>2. ASSUME NEW c \in Callers, NEW op \in Other, NEW touched \in SUBSET Parts, Edit(c, op, touched)
        PROVE  Shape
    <2>1. op \in Ops
      BY DEF Ops
    <2> QED
      BY <1>2, <2>1, EditShape DEF Shape
  <1>3. CASE AdmitGroup
    BY <1>3, AdmitShape DEF Shape
  <1>4. ASSUME NEW c \in Callers, RecordWriteError(c) \/ RecordWriteSuccess(c) PROVE Shape
    <2>1. UNCHANGED <<memory, file, dirty, disk, loading, outcome>>
      BY <1>4 DEF RecordWriteError, RecordWriteSuccess, storeVars
    <2> QED
      BY <2>1 DEF Shape, IdleStep
  <1>5. ASSUME NEW f \in Files, BeginConfigure(f) PROVE Shape
    <2>1. /\ UNCHANGED <<memory, file, dirty, disk, outcome>>
          /\ f # file /\ loading' = [file |-> f, parts |-> disk[f].parts]
      BY <1>5 DEF BeginConfigure, Load
    <2> QED
      BY <2>1 DEF Shape, IdleStep
  <1>6. CASE ConfigureFails
    BY <1>6 DEF Shape, IdleStep, ConfigureFails
  <1>7. CASE FinishConfigure \/ Close \/ Crash
    BY <1>7 DEF Shape
  <1>8. CASE UNCHANGED vars
    BY <1>8 DEF vars, Shape, IdleStep
  <1> QED
    BY <1>1, <1>2, <1>3, <1>4, <1>5, <1>6, <1>7, <1>8 DEF Next

LEMMA ShapeKeeps == ASSUME IInv, Shape PROVE Consistent'
  <1>1. CASE \E op \in Ops, touched \in SUBSET Parts : KeptStep(op, touched)
    BY <1>1, KeptKeeps
  <1>2. CASE StoredStep /\ \E op \in Ops, touched \in SUBSET Parts, result \in {"live", "saved"} :
                              Includes(op, touched, result)
    BY <1>2, IncludesKeeps
  <1>3. CASE StoredStep /\ UNCHANGED <<memory, outcome>>
    <2>1. {} \in SUBSET Ops
      OBVIOUS
    <2>2. \A p \in Parts : memory[p] \subseteq memory'[p] /\ memory'[p] \subseteq memory[p] \union {}
      BY <1>3
    <2>3. \A e \in Ops : outcome'[e] \in {"unused", "refused"} =>
              e \notin {} /\ outcome[e] \in {"unused", "refused"}
      BY <1>3
    <2>4. \A e \in Other : outcome'[e] = "saved" =>
              outcome[e] = "saved" \/ \E p \in Parts : e \in memory'[p]
      BY <1>3
    <2> QED
      BY <1>3, <2>1, <2>2, <2>3, <2>4, StoredKeeps
  <1>4. CASE IdleStep
    BY <1>4, IdleKeeps
  <1>5. CASE FinishConfigure
    BY <1>5, FinishKeeps
  <1>6. CASE Close \/ Crash
    BY <1>6, StopKeeps
  <1> QED
    BY <1>1, <1>2, <1>3, <1>4, <1>5, <1>6 DEF Shape

(* Nothing but an admission answers, and it answers over a saved ledger. *)
LEMMA AdmissionStep == IInv /\ [Next]_vars => AdmittedOnSavedLedger'
  <1> SUFFICES ASSUME IInv, [Next]_vars PROVE AdmittedOnSavedLedger'
    OBVIOUS
  <1>1. CASE AdmitGroup
    <2> SUFFICES ASSUME admission' = "allowed", file' # NoFile
                 PROVE  memory' = disk'[file'].parts /\ dirty' = NoChanges
      BY DEF AdmittedOnSavedLedger
    <2>1. CASE StoredStep
      BY <2>1 DEF StoredStep
    <2>2. CASE IdleStep /\ NothingToWrite(dirty)
      <3>1. UNCHANGED <<memory, file, dirty, disk>>
        BY <2>2 DEF IdleStep
      <3>2. dirty = NoChanges /\ file \in Files
        BY <2>2, <3>1 DEF NothingToWrite, IInv, TypeOK
      <3>3. \A p \in Parts : memory[p] = disk[file].parts[p]
        BY <3>1, <3>2, WriteBackAssumption DEF IInv, Consistent, OnlyDirtyDiffers, NoChanges
      <3>4. memory \in Contents /\ disk[file].parts \in Contents
        BY <3>2 DEF IInv, TypeOK, Disk
      <3>5. memory = disk[file].parts
        BY <3>3, <3>4 DEF Contents
      <3> QED
        BY <3>1, <3>2, <3>5
    <2> QED
      BY <1>1, <2>1, <2>2, AdmitShape
  <1>2. CASE UNCHANGED vars
    BY <1>2 DEF vars, IInv, AdmittedOnSavedLedger
  <1>3. CASE Next /\ ~AdmitGroup
    <2>1. admission' = "none"
      BY <1>3 DEF Next, Update, Edit, RecordWriteError, RecordWriteSuccess, BeginConfigure,
                  ConfigureFails, FinishConfigure, Close, Crash
    <2> QED
      BY <2>1 DEF AdmittedOnSavedLedger
  <1> QED
    BY <1>1, <1>2, <1>3

LEMMA InitInvariant == Init => IInv
  <1> SUFFICES ASSUME Init PROVE IInv
    OBVIOUS
  <1>1. file = NoFile /\ loading = NotLoading /\ admission = "none"
    BY DEF Init
  <1>2. \A e \in Ops : outcome[e] = "unused"
    BY DEF Init
  <1>3. \A e \in Ops : Nowhere(e)
    BY DEF Init, Nowhere, Fresh
  <1>4. AcknowledgedEditLasts
    BY <1>2 DEF AcknowledgedEditLasts, Ops
  <1> QED
    BY <1>1, <1>3, <1>4, InitTypes DEF IInv, Consistent, OnlyDirtyDiffers, SnapshotIsCurrent,
       DiskWithinMemory, OnlyAcceptedChanges, AdmittedOnSavedLedger

LEMMA InvariantStep == IInv /\ [Next]_vars => IInv'
  <1> SUFFICES ASSUME IInv, [Next]_vars PROVE IInv'
    OBVIOUS
  <1>1. TypeOK'
    BY TypeStep DEF IInv
  <1>2. Consistent'
    BY NextShape, ShapeKeeps
  <1>3. AdmittedOnSavedLedger'
    BY AdmissionStep
  <1> QED
    BY <1>1, <1>2, <1>3 DEF IInv

THEOREM Invariant == Spec => []IInv
  BY InitInvariant, InvariantStep, PTL DEF Spec

(* Whatever fails, what memory and the file in use disagree on is marked for *)
(* the next write (updateResult, editConfiguration, AdmitGroup, Configure).  *)
THEOREM DifferencesAreDirty == Spec => []OnlyDirtyDiffers
  <1>1. IInv => OnlyDirtyDiffers
    BY DEF IInv, Consistent
  <1> QED
    BY <1>1, Invariant, PTL

(* AdmitGroup lets a key in only over a ledger that is completely saved. *)
THEOREM AdmissionIsSaved == Spec => []AdmittedOnSavedLedger
  <1>1. IInv => AdmittedOnSavedLedger
    BY DEF IInv
  <1> QED
    BY <1>1, Invariant, PTL

(* An edit that editConfiguration refused for its failed write never shows  *)
(* up later: not in memory, and not on disk with the retry of usage.         *)
THEOREM RefusedEditsVanish == Spec => []RefusedEditLeavesNoTrace
  <1>1. IInv => RefusedEditLeavesNoTrace
    BY DEF IInv, Consistent, OnlyAcceptedChanges, Nowhere, RefusedEditLeavesNoTrace, Ops
  <1> QED
    BY <1>1, Invariant, PTL

(* An edit that editConfiguration acknowledged stays on disk through later  *)
(* failures, crashes and reconfigurations.                                   *)
THEOREM AcknowledgedEditsLast == Spec => []AcknowledgedEditLasts
  <1>1. IInv => AcknowledgedEditLasts
    BY DEF IInv, Consistent
  <1> QED
    BY <1>1, Invariant, PTL

-----------------------------------------------------------------------------
(* Refinement: saving the dirty parts is saving everything *)

StoredParts == [f \in Files |-> disk[f].parts]

LEMMA RefinementInit == Init => Store!Init
  BY DEF Init, Store!Init, Store!Fresh, Fresh

LEMMA RefinementStep == IInv /\ [Next]_vars => [Store!Next]_Store!vars
  <1> SUFFICES ASSUME IInv, [Next]_vars PROVE [Store!Next]_Store!vars
    OBVIOUS
  <1>1. memory \in Contents /\ disk \in [Files -> Disk]
    BY DEF IInv, TypeOK
  <1>2. ASSUME NEW op, NEW touched PROVE Changed(op, touched) = Store!Changed(op, touched)
    BY DEF Changed, Store!Changed
  <1>3. ASSUME NEW op \in Ops, NEW touched \in SUBSET Parts, KeptStep(op, touched)
        PROVE  Store!Change
    BY <1>2, <1>3 DEF KeptStep, Store!Change
  <1>4. ASSUME StoredStep,
               \/ UNCHANGED memory
               \/ \E op \in Ops, touched \in SUBSET Parts : memory' = Changed(op, touched)
        PROVE  Store!Flush
    <2>1. StoredParts' = [StoredParts EXCEPT ![file] = memory']
      BY <1>4 DEF StoredParts, StoredStep
    <2>2. file \in Files /\ file' = file
      BY <1>4 DEF StoredStep
    <2> QED
      BY <1>2, <1>4, <2>1, <2>2 DEF Store!Flush, StoredParts
  <1>5. CASE \E op \in Ops, touched \in SUBSET Parts : KeptStep(op, touched)
    BY <1>3, <1>5 DEF Store!Next
  <1>6. CASE StoredStep /\ \E op \in Ops, touched \in SUBSET Parts, result \in {"live", "saved"} :
                              Includes(op, touched, result)
    BY <1>4, <1>6 DEF Includes, Store!Next
  <1>7. CASE StoredStep /\ UNCHANGED <<memory, outcome>>
    BY <1>4, <1>7 DEF Store!Next
  <1>8. CASE IdleStep
    BY <1>8 DEF IdleStep, Store!vars
  <1>9. CASE FinishConfigure
    <2>1. loading.file \in Files /\ loading.parts = disk[loading.file].parts
      BY <1>9 DEF FinishConfigure, IInv, Consistent, SnapshotIsCurrent, TypeOK, Loaded
    <2>2. Store!Open(loading.file)
      BY <1>9, <2>1 DEF FinishConfigure, Store!Open
    <2> QED
      BY <2>1, <2>2 DEF Store!Next
  <1>10. CASE Close \/ Crash
    BY <1>10 DEF Close, Crash, Fresh, Store!Fresh, Store!Shut, Store!Next
  <1> QED
    BY <1>5, <1>6, <1>7, <1>8, <1>9, <1>10, NextShape DEF Shape

(* The write-back store implements the store that saves all of its working  *)
(* set or nothing, and in which an acknowledged edit is stored at once.      *)
THEOREM StoreIsDurable == Spec => ImplementsDurableStore
  <1>1. Store!Init /\ [][Store!Next]_Store!vars => ImplementsDurableStore
    BY PTL DEF ImplementsDurableStore, Store!Spec
  <1> QED
    BY <1>1, RefinementInit, RefinementStep, Invariant, PTL DEF Spec

-----------------------------------------------------------------------------
(* Queues of events without repetitions *)

LEMMA EmptyQueue ==
    /\ <<>> \in Seq(Usage) /\ IsInjective(<<>>) /\ Range(<<>>) = {}
    /\ NoChanges.events = <<>>
  BY DEF IsInjective, Range, NoChanges

LEMMA OneEvent ==
    ASSUME NEW e \in Usage
    PROVE  <<e>> \in Seq(Usage) /\ IsInjective(<<e>>) /\ Range(<<e>>) = {e}
  BY DEF IsInjective, Range

LEMMA ConcatDistinct ==
    ASSUME NEW s \in Seq(Usage), NEW t \in Seq(Usage), IsInjective(s), IsInjective(t),
           Range(s) \intersect Range(t) = {}
    PROVE  /\ s \o t \in Seq(Usage)
           /\ IsInjective(s \o t)
           /\ Range(s \o t) = Range(s) \union Range(t)
  <1>. DEFINE m == Len(s)
              n == Len(t)
              c == s \o t
  <1>1. /\ c \in Seq(Usage) /\ Len(c) = m + n
        /\ \A i \in 1 .. m + n : c[i] = IF i <= m THEN s[i] ELSE t[i - m]
    BY ConcatProperties
  <1>2. /\ m \in Nat /\ n \in Nat /\ DOMAIN s = 1 .. m /\ DOMAIN t = 1 .. n /\ DOMAIN c = 1 .. m + n
    BY <1>1, LenProperties
  <1>3. Range(c) = Range(s) \union Range(t)
    BY RangeConcatenation
  <1>4. \A i \in DOMAIN s, j \in DOMAIN t : s[i] # t[j]
    BY DEF Range
  <1>. HIDE DEF c, m, n
  <1>5. ASSUME NEW i \in DOMAIN c, NEW j \in DOMAIN c, c[i] = c[j] PROVE i = j
    <2>1. i \in Int /\ j \in Int /\ 1 <= i /\ i <= m + n /\ 1 <= j /\ j <= m + n
      BY <1>2
    <2>2. CASE i <= m /\ j <= m
      BY <1>1, <1>2, <1>5, <2>1, <2>2 DEF IsInjective
    <2>3. CASE i <= m /\ ~(j <= m)
      <3>1. i \in DOMAIN s /\ j - m \in DOMAIN t /\ c[i] = s[i] /\ c[j] = t[j - m]
        BY <1>1, <1>2, <2>1, <2>3
      <3> QED
        BY <1>4, <1>5, <3>1
    <2>4. CASE ~(i <= m) /\ j <= m
      <3>1. j \in DOMAIN s /\ i - m \in DOMAIN t /\ c[j] = s[j] /\ c[i] = t[i - m]
        BY <1>1, <1>2, <2>1, <2>4
      <3> QED
        BY <1>4, <1>5, <3>1
    <2>5. CASE ~(i <= m) /\ ~(j <= m)
      <3>1. i - m \in DOMAIN t /\ j - m \in DOMAIN t /\ t[i - m] = t[j - m]
        BY <1>1, <1>2, <1>5, <2>1, <2>5
      <3>2. i - m = j - m
        BY <3>1 DEF IsInjective
      <3> QED
        BY <1>2, <2>1, <3>2
    <2> QED
      BY <2>2, <2>3, <2>4, <2>5
  <1>6. IsInjective(c)
    BY <1>5 DEF IsInjective
  <1> QED
    BY <1>1, <1>3, <1>6 DEF c

(* The bound takes the oldest events and repeats none. *)
LEMMA BoundedDistinct ==
    ASSUME NEW s \in Seq(Usage), IsInjective(s)
    PROVE  /\ Bounded(s) \in Seq(Usage)
           /\ IsInjective(Bounded(s))
           /\ Range(Bounded(s)) \subseteq Range(s)
  <1>. DEFINE n == Len(s)
              from == IF n > MaxPending THEN n - MaxPending + 1 ELSE 1
              b == SubSeq(s, from, n)
  <1>1. n \in Nat /\ MaxPending \in Nat \ {0} /\ DOMAIN s = 1 .. n
    BY LenProperties, WriteBackAssumption
  <1>2. from \in 1 .. n + 1 /\ from \in Int /\ n \in Int
    BY <1>1
  <1>3. \A i \in from .. n : s[i] \in Usage
    BY <1>2, LenProperties
  <1>. HIDE DEF from
  <1>4. /\ b \in Seq(Usage)
        /\ Len(b) = IF from <= n THEN n - from + 1 ELSE 0
        /\ \A i \in 1 .. n - from + 1 : b[i] = s[from + i - 1]
    <2>1. b \in Seq(Usage)
      BY <1>2, <1>3, SubSeqProperties, Zenon
    <2>2. Len(b) = IF from <= n THEN n - from + 1 ELSE 0
      BY <1>2, <1>3, SubSeqProperties, Zenon
    <2>3. \A i \in 1 .. n - from + 1 : b[i] = s[from + i - 1]
      BY <1>2
    <2> QED
      BY <2>1, <2>2, <2>3
  <1>5. DOMAIN b = 1 .. Len(b)
    BY <1>4, LenProperties
  <1>. HIDE DEF b, n
  <1>6. \A i \in DOMAIN b : /\ i \in Int /\ from + i - 1 \in DOMAIN s
                            /\ b[i] = s[from + i - 1]
    BY <1>1, <1>2, <1>4, <1>5
  <1>7. IsInjective(b)
    <2> SUFFICES ASSUME NEW i \in DOMAIN b, NEW j \in DOMAIN b, b[i] = b[j] PROVE i = j
      BY DEF IsInjective
    <2>1. from + i - 1 = from + j - 1
      BY <1>6 DEF IsInjective
    <2> QED
      BY <1>2, <1>6, <2>1
  <1>8. Range(b) \subseteq Range(s)
    BY <1>6 DEF Range
  <1>9. Bounded(s) = b
    BY DEF Bounded, b, from, n
  <1> QED
    BY <1>4, <1>7, <1>8, <1>9

LEMMA BoundedShort ==
    ASSUME NEW s \in Pending PROVE Bounded(s) = s
  <1>1. s \in Seq(Usage) /\ Len(s) \in Nat /\ ~(Len(s) > MaxPending)
    BY LenProperties, WriteBackAssumption DEF Pending
  <1> QED
    BY <1>1, SubSeqFull DEF Bounded

(* Merging nothing into the pending changes drops nothing. *)
LEMMA NothingNew ==
    ASSUME dirty \in Changes
    PROVE  /\ dirty.events \o <<>> = dirty.events
           /\ Bounded(dirty.events) = dirty.events
           /\ Dropped(<<>>) = {}
  <1>1. dirty.events \in Pending /\ dirty.events \in Seq(Usage)
    BY DEF Changes, Pending
  <1>2. dirty.events \o <<>> = dirty.events /\ Bounded(dirty.events) = dirty.events
    BY <1>1, ConcatEmptySeq, BoundedShort
  <1> QED
    BY <1>2 DEF Dropped

(* Only no event at all merges to none. *)
LEMMA MergedEmpty ==
    ASSUME NEW s \in Seq(Usage), Bounded(s) = <<>> PROVE s = <<>>
  <1>. DEFINE from == IF Len(s) > MaxPending THEN Len(s) - MaxPending + 1 ELSE 1
  <1>1. Len(s) \in Nat /\ MaxPending \in Nat \ {0}
    BY LenProperties, WriteBackAssumption
  <1>2. from \in 1 .. Len(s) + 1 /\ from \in Int /\ Len(s) \in Int /\ (Len(s) # 0 => from <= Len(s))
    BY <1>1
  <1>3. \A i \in from .. Len(s) : s[i] \in Usage
    BY <1>2, LenProperties
  <1>4. Len(SubSeq(s, from, Len(s))) = IF from <= Len(s) THEN Len(s) - from + 1 ELSE 0
    <2>. HIDE DEF from
    <2> QED BY <1>2, <1>3, SubSeqProperties, Zenon
  <1>5. Len(<<>>) = 0 /\ SubSeq(s, from, Len(s)) = <<>>
    BY DEF Bounded
  <1>6. Len(s) = 0
    <2>. HIDE DEF from
    <2> QED BY <1>1, <1>2, <1>4, <1>5
  <1> QED
    BY <1>6, EmptySeq

-----------------------------------------------------------------------------
(* Events and ledgers *)

Waiting == Range(dirty.events)
Stored(f) == Range(disk[f].events)

EventsDistinct ==
    /\ IsInjective(dirty.events)
    /\ \A f \in Files : IsInjective(disk[f].events)

EventsApart ==
    /\ \A f \in Files : Stored(f) \intersect Waiting = {}
    /\ \A f, g \in Files : f # g => Stored(f) \intersect Stored(g) = {}

(* An event that came in and was not dropped is somewhere, and no other is. *)
EventsFound ==
    \A e \in Usage :
        /\ (e \in Waiting \/ \E f \in Files : e \in Stored(f)) <=> outcome[e] # "unused" /\ e \notin gone
        /\ e \in gone => outcome[e] # "unused"

(* A charge in memory has its event on the disk in use or on its way there. *)
MemoryIsAccounted ==
    file # NoFile =>
        \A e \in Usage, p \in Parts : e \in memory[p] => e \in Stored(file) \union Waiting \union gone

EventInv ==
    /\ EventsDistinct /\ EventsApart /\ EventsFound
    /\ ChargedWithEvent /\ MemoryIsAccounted

(* What a step does when the usage with the events `es` comes in. *)
ComesIn(es) ==
    /\ es \in Seq(Usage) /\ IsInjective(es)
    /\ \A e \in Range(es) : outcome[e] = "unused"
    /\ \A e \in Usage : outcome'[e] # "unused" <=> outcome[e] # "unused" \/ e \in Range(es)
    /\ \A p \in Parts : /\ memory[p] \subseteq memory'[p]
                        /\ memory'[p] \intersect Usage \subseteq memory[p] \union Range(es)
    /\ file' = file

EventsKept(es) ==
    /\ dirty'.events = Bounded(dirty.events \o es)
    /\ disk' = disk
    /\ gone' = gone \union Dropped(es)

EventsStored(es) ==
    /\ file \in Files
    /\ dirty'.events = <<>>
    /\ disk'[file].events = disk[file].events \o Bounded(dirty.events \o es)
    /\ disk'[file].parts = memory'
    /\ \A f \in Files \ {file} : disk'[f] = disk[f]
    /\ gone' = gone \union Dropped(es)

EventsSkipped(es) ==
    /\ file = NoFile
    /\ dirty' = dirty /\ disk' = disk
    /\ gone' = gone \union Range(es)

EventsLost ==
    /\ dirty'.events = <<>> /\ disk' = disk /\ outcome' = outcome
    /\ gone' = gone \union Waiting
    /\ file' = NoFile \/ (file' \in Files /\ memory' = disk[file'].parts)

(* Events that come in are new: nowhere and in no ledger. *)
LEMMA NewEvents ==
    ASSUME IInv, EventInv, NEW es, ComesIn(es)
    PROVE  /\ Range(es) \subseteq Usage
           /\ dirty.events \in Seq(Usage) /\ \A f \in Files : disk[f].events \in Seq(Usage)
           /\ Waiting \subseteq Usage
           /\ Range(es) \intersect Waiting = {}
           /\ \A f \in Files : Stored(f) \subseteq Usage /\ Range(es) \intersect Stored(f) = {}
           /\ \A e \in Range(es) : Nowhere(e)
           /\ dirty.events \o es \in Seq(Usage)
           /\ IsInjective(dirty.events \o es)
           /\ Range(dirty.events \o es) = Waiting \union Range(es)
  <1>1. es \in Seq(Usage) /\ Range(es) \subseteq Usage
    BY RangeOfSeq DEF ComesIn
  <1>2. dirty.events \in Seq(Usage) /\ \A f \in Files : disk[f].events \in Seq(Usage)
    BY DEF IInv, TypeOK, Changes, Pending, Disk
  <1>3. Waiting \subseteq Usage /\ \A f \in Files : Stored(f) \subseteq Usage
    BY <1>2, RangeOfSeq DEF Waiting, Stored
  <1>4. \A e \in Range(es) : outcome[e] = "unused" /\ e \in Ops
    BY <1>1 DEF ComesIn, Ops
  <1>5. Range(es) \intersect Waiting = {} /\ \A f \in Files : Range(es) \intersect Stored(f) = {}
    BY <1>1, <1>4 DEF EventInv, EventsFound
  <1>6. \A e \in Range(es) : Nowhere(e)
    BY <1>4 DEF IInv, Consistent, OnlyAcceptedChanges
  <1>7. /\ dirty.events \o es \in Seq(Usage)
        /\ IsInjective(dirty.events \o es)
        /\ Range(dirty.events \o es) = Waiting \union Range(es)
    BY <1>1, <1>2, <1>5, ConcatDistinct DEF Waiting, EventInv, EventsDistinct, ComesIn
  <1> QED
    BY <1>1, <1>2, <1>3, <1>5, <1>6, <1>7

LEMMA KeptEvents ==
    ASSUME IInv, EventInv, NEW es, ComesIn(es), EventsKept(es)
    PROVE  EventInv'
  <1>. DEFINE merged == Bounded(dirty.events \o es)
              kept == Range(merged)
  <1>1. merged \in Seq(Usage) /\ IsInjective(merged) /\ kept \subseteq Waiting \union Range(es)
    <2>1. /\ dirty.events \o es \in Seq(Usage)
          /\ IsInjective(dirty.events \o es)
          /\ Range(dirty.events \o es) = Waiting \union Range(es)
      BY NewEvents
    <2> QED
      BY <2>1, BoundedDistinct
  <1>2. /\ dirty'.events = merged /\ disk' = disk /\ file' = file
        /\ gone' = gone \union ((Waiting \union Range(es)) \ kept)
    BY NewEvents DEF EventsKept, Dropped, ComesIn
  <1>. HIDE DEF merged
  <1>3. Waiting' = kept /\ \A f \in Files : Stored(f)' = Stored(f)
    BY <1>2 DEF Waiting, Stored
  <1>. HIDE DEF kept
  <1>4. EventsDistinct'
    BY <1>1, <1>2 DEF EventInv, EventsDistinct
  <1>5. EventsApart'
    BY <1>1, <1>2, <1>3, NewEvents DEF EventInv, EventsApart
  <1>6. EventsFound'
    <2> SUFFICES ASSUME NEW e \in Usage
                 PROVE  /\ (e \in kept \/ \E f \in Files : e \in Stored(f))
                               <=> outcome'[e] # "unused" /\ e \notin gone'
                        /\ e \in gone' => outcome'[e] # "unused"
      BY <1>2, <1>3 DEF EventsFound
    <2>1. outcome'[e] # "unused" <=> outcome[e] # "unused" \/ e \in Range(es)
      BY DEF ComesIn
    <2>2. /\ (e \in Waiting \/ \E f \in Files : e \in Stored(f)) <=> outcome[e] # "unused" /\ e \notin gone
          /\ e \in gone => outcome[e] # "unused"
      BY DEF EventInv, EventsFound
    <2>3. e \in Waiting => \A f \in Files : e \notin Stored(f)
      BY DEF EventInv, EventsApart
    <2>4. e \in Range(es) => outcome[e] = "unused"
      BY DEF ComesIn
    <2> QED
      BY <1>1, <1>2, <2>1, <2>2, <2>3, <2>4
  <1>7. ASSUME file # NoFile, NEW e \in Usage, NEW p \in Parts, e \in memory'[p]
        PROVE  /\ e \in Stored(file) \union kept \union gone'
               /\ OnDisk(e, file) => e \in memory[p]
    <2>1. e \in memory[p] \/ e \in Range(es)
      BY <1>7 DEF ComesIn
    <2>2. file \in Files
      BY <1>7 DEF IInv, TypeOK
    <2>3. e \in memory[p] => e \in Stored(file) \union Waiting \union gone
      BY <1>7 DEF EventInv, MemoryIsAccounted
    <2>4. e \in Range(es) => e \notin Stored(file)
      BY <2>2, NewEvents
    <2> QED
      BY <1>2, <2>1, <2>3, <2>4 DEF OnDisk, Stored
  <1>8. MemoryIsAccounted'
    BY <1>2, <1>3, <1>7 DEF MemoryIsAccounted, Stored
  <1>9. ChargedWithEvent'
    BY <1>2, <1>7 DEF EventInv, ChargedWithEvent, OnDisk, ChargedOnDisk
  <1> QED
    BY <1>4, <1>5, <1>6, <1>8, <1>9 DEF EventInv

LEMMA StoredEvents ==
    ASSUME IInv, EventInv, NEW es, ComesIn(es), EventsStored(es)
    PROVE  EventInv'
  <1>. DEFINE merged == Bounded(dirty.events \o es)
              kept == Range(merged)
  <1>1. merged \in Seq(Usage) /\ IsInjective(merged) /\ kept \subseteq Waiting \union Range(es)
    <2>1. /\ dirty.events \o es \in Seq(Usage)
          /\ IsInjective(dirty.events \o es)
          /\ Range(dirty.events \o es) = Waiting \union Range(es)
      BY NewEvents
    <2> QED
      BY <2>1, BoundedDistinct
  <1>2. /\ file \in Files /\ file' = file /\ dirty'.events = <<>>
        /\ disk'[file].events = disk[file].events \o merged
        /\ disk'[file].parts = memory'
        /\ \A f \in Files \ {file} : disk'[f] = disk[f]
        /\ gone' = gone \union ((Waiting \union Range(es)) \ kept)
    BY NewEvents DEF EventsStored, Dropped, ComesIn
  <1>. HIDE DEF merged
  <1>3. Stored(file) \intersect kept = {}
    BY <1>1, <1>2, NewEvents DEF EventInv, EventsApart
  <1>4. /\ IsInjective(disk'[file].events)
        /\ Range(disk'[file].events) = Stored(file) \union kept
    BY <1>1, <1>2, <1>3, NewEvents, ConcatDistinct DEF EventInv, EventsDistinct, Stored
  <1>5. /\ Waiting' = {} /\ IsInjective(dirty'.events)
        /\ Stored(file)' = Stored(file) \union kept
        /\ \A f \in Files \ {file} : Stored(f)' = Stored(f)
    <2>1. Waiting' = {} /\ IsInjective(dirty'.events)
      BY <1>2, EmptyQueue DEF Waiting
    <2>2. Stored(file)' = Range(disk'[file].events)
      BY <1>2 DEF Stored
    <2>3. \A f \in Files \ {file} : Stored(f)' = Stored(f)
      BY <1>2 DEF Stored
    <2> QED
      BY <1>4, <2>1, <2>2, <2>3
  <1>. HIDE DEF kept
  <1>6. EventsDistinct'
    BY <1>2, <1>4, <1>5 DEF EventInv, EventsDistinct
  <1>7. \A f \in Files : Stored(f) \intersect kept = {}
    <2> SUFFICES ASSUME NEW f \in Files, NEW e \in Stored(f), e \in kept PROVE FALSE
      OBVIOUS
    <2>1. e \notin Range(es)
      BY NewEvents
    <2>2. e \notin Waiting
      BY DEF EventInv, EventsApart
    <2> QED
      BY <1>1, <2>1, <2>2
  <1>8. EventsApart'
    <2>1. \A f \in Files : Stored(f)' = IF f = file THEN Stored(file) \union kept ELSE Stored(f)
      BY <1>2, <1>5
    <2>2. \A f, g \in Files : f # g => Stored(f) \intersect Stored(g) = {}
      BY DEF EventInv, EventsApart
    <2>3. \A f, g \in Files : f # g => Stored(f)' \intersect Stored(g)' = {}
      BY <1>2, <1>7, <2>1, <2>2
    <2> QED
      BY <1>5, <2>3 DEF EventsApart
  <1>9. EventsFound'
    <2> SUFFICES ASSUME NEW e \in Usage
                 PROVE  /\ (\E f \in Files : e \in Stored(f)')
                               <=> outcome'[e] # "unused" /\ e \notin gone'
                        /\ e \in gone' => outcome'[e] # "unused"
      BY <1>5 DEF EventsFound
    <2>1. outcome'[e] # "unused" <=> outcome[e] # "unused" \/ e \in Range(es)
      BY DEF ComesIn
    <2>2. /\ (e \in Waiting \/ \E f \in Files : e \in Stored(f)) <=> outcome[e] # "unused" /\ e \notin gone
          /\ e \in gone => outcome[e] # "unused"
      BY DEF EventInv, EventsFound
    <2>3. e \in Waiting => \A f \in Files : e \notin Stored(f)
      BY DEF EventInv, EventsApart
    <2>4. e \in Range(es) => outcome[e] = "unused"
      BY DEF ComesIn
    <2>5. (\E f \in Files : e \in Stored(f)') <=> e \in kept \/ \E f \in Files : e \in Stored(f)
      BY <1>2, <1>5
    <2> QED
      BY <1>1, <1>2, <2>1, <2>2, <2>3, <2>4, <2>5
  <1>10. ASSUME NEW e \in Usage, NEW p \in Parts, e \in memory'[p]
         PROVE  e \in Stored(file)' \union gone'
    <2>1. e \in memory[p] \/ e \in Range(es)
      BY <1>10 DEF ComesIn
    <2>2. e \in memory[p] => e \in Stored(file) \union Waiting \union gone
      BY <1>2, WriteBackAssumption DEF EventInv, MemoryIsAccounted
    <2> QED
      BY <1>2, <1>5, <2>1, <2>2
  <1>11. MemoryIsAccounted'
    BY <1>2, <1>10 DEF MemoryIsAccounted, Stored
  <1>12. ChargedWithEvent'
    <2>1. ASSUME NEW f \in Files, NEW e \in Usage, NEW p \in Parts, e \in disk'[f].parts[p]
          PROVE  e \in Stored(f)' \/ e \in gone'
      <3>1. CASE f = file
        BY <1>2, <1>10, <2>1, <3>1
      <3>2. CASE f # file
        <4>1. ChargedOnDisk(e, f)
          BY <1>2, <2>1, <3>2 DEF ChargedOnDisk
        <4>2. e \in Stored(f) \/ e \in gone
          BY <4>1 DEF EventInv, ChargedWithEvent, OnDisk, Stored
        <4> QED
          BY <1>2, <1>5, <3>2, <4>2
      <3> QED
        BY <3>1, <3>2
    <2>2. \A e \in Usage, p \in Parts : e \in memory'[p] => e \in disk'[file].parts[p]
      BY <1>2
    <2> QED
      BY <1>2, <2>1, <2>2 DEF ChargedWithEvent, ChargedOnDisk, OnDisk, Stored
  <1> QED
    BY <1>6, <1>8, <1>9, <1>11, <1>12 DEF EventInv

LEMMA SkippedEvents ==
    ASSUME IInv, EventInv, NEW es, ComesIn(es), EventsSkipped(es)
    PROVE  EventInv'
  <1>1. /\ file' = NoFile /\ dirty' = dirty /\ disk' = disk /\ gone' = gone \union Range(es)
        /\ Waiting' = Waiting /\ \A f \in Files : Stored(f)' = Stored(f)
    BY DEF EventsSkipped, ComesIn, Waiting, Stored
  <1>2. EventsDistinct' /\ EventsApart'
    BY <1>1 DEF EventInv, EventsDistinct, EventsApart
  <1>3. EventsFound'
    BY <1>1 DEF EventInv, EventsFound, ComesIn
  <1>4. ChargedWithEvent' /\ MemoryIsAccounted'
    BY <1>1 DEF EventInv, ChargedWithEvent, MemoryIsAccounted, ChargedOnDisk, OnDisk
  <1> QED
    BY <1>2, <1>3, <1>4 DEF EventInv

LEMMA LostEvents ==
    ASSUME IInv, EventInv, EventsLost
    PROVE  EventInv'
  <1>1. /\ disk' = disk /\ outcome' = outcome /\ gone' = gone \union Waiting
        /\ dirty'.events = <<>> /\ Waiting' = {} /\ IsInjective(dirty'.events)
        /\ \A f \in Files : Stored(f)' = Stored(f)
    BY EmptyQueue DEF EventsLost, Waiting, Stored
  <1>2. EventsDistinct' /\ EventsApart'
    BY <1>1 DEF EventInv, EventsDistinct, EventsApart
  <1>3. EventsFound'
    <2> SUFFICES ASSUME NEW e \in Usage
                 PROVE  /\ (\E f \in Files : e \in Stored(f))
                               <=> outcome[e] # "unused" /\ e \notin gone'
                        /\ e \in gone' => outcome[e] # "unused"
      BY <1>1 DEF EventsFound
    <2>1. e \in Waiting => \A f \in Files : e \notin Stored(f)
      BY DEF EventInv, EventsApart
    <2> QED
      BY <1>1, <2>1 DEF EventInv, EventsFound
  <1>4. \A f \in Files, e \in Usage : ChargedOnDisk(e, f) => OnDisk(e, f) \/ e \in gone
    BY DEF EventInv, ChargedWithEvent
  <1>5. file' # NoFile => file' \in Files /\ memory' = disk[file'].parts
    BY DEF EventsLost
  <1>6. ChargedWithEvent'
    BY <1>1, <1>4, <1>5 DEF ChargedWithEvent, ChargedOnDisk, OnDisk
  <1>7. MemoryIsAccounted'
    BY <1>1, <1>4, <1>5 DEF MemoryIsAccounted, ChargedOnDisk, OnDisk, Stored
  <1> QED
    BY <1>2, <1>3, <1>6, <1>7 DEF EventInv

LEMMA EventInit == Init => EventInv
  <1> SUFFICES ASSUME Init PROVE EventInv
    OBVIOUS
  <1>1. /\ file = NoFile /\ dirty.events = <<>> /\ gone = {}
        /\ \A f \in Files : disk[f].events = <<>> /\ disk[f].parts = Fresh
        /\ \A e \in Usage : outcome[e] = "unused"
    BY DEF Init, NoChanges, Ops
  <1>2. Waiting = {} /\ \A f \in Files : Stored(f) = {}
    BY <1>1, EmptyQueue DEF Waiting, Stored
  <1>3. EventsDistinct /\ EventsApart /\ EventsFound /\ MemoryIsAccounted
    BY <1>1, <1>2, EmptyQueue DEF EventsDistinct, EventsApart, EventsFound, MemoryIsAccounted
  <1>4. ChargedWithEvent
    BY <1>1 DEF ChargedWithEvent, ChargedOnDisk, Fresh
  <1> QED
    BY <1>3, <1>4 DEF EventInv

LEMMA WriteAppends ==
    ASSUME disk \in [Files -> Disk], file \in Files \union {NoFile},
           NEW state, NEW changes, Write(state, changes)
    PROVE  disk'[file].events = disk[file].events \o changes.events
  <1>1. file \in Files /\ disk' = [disk EXCEPT ![file] = Saved(disk[file], state, changes)]
    BY DEF Write, NothingToWrite
  <1> QED
    BY <1>1 DEF Saved

(* Which of these each step is. *)
EventStep ==
    \/ \E es : ComesIn(es) /\ (EventsKept(es) \/ EventsStored(es) \/ EventsSkipped(es))
    \/ EventsLost

LEMMA UpdateEvents ==
    ASSUME IInv, NEW c \in Callers, NEW op \in Ops, NEW touched \in SUBSET Parts,
           Update(c, op, touched)
    PROVE  EventStep
  <1>. PICK es : es = IF op \in Usage THEN <<op>> ELSE <<>>
    OBVIOUS
  <1>. PICK changes : changes = Merge(dirty, touched, es)
    OBVIOUS
  <1>1. /\ dirty \in Changes /\ memory \in Contents /\ disk \in [Files -> Disk]
        /\ file \in Files \union {NoFile}
        /\ outcome \in [Ops -> {"unused", "live", "saved", "refused"}]
    BY DEF IInv, TypeOK
  <1>2. /\ es \in Seq(Usage) /\ IsInjective(es)
        /\ Range(es) = IF op \in Usage THEN {op} ELSE {}
    BY EmptyQueue, OneEvent
  <1>3. /\ outcome[op] = "unused" /\ outcome' = [outcome EXCEPT ![op] = "live"]
        /\ memory' = Changed(op, touched)
        /\ file' = file
        /\ gone' = gone \union IF file = NoFile THEN Range(es) ELSE Dropped(es)
        /\ \/ DoesNotWrite(changes)
           \/ Write(memory', changes)
           \/ WriteFails(changes) /\ Keeps(touched, es)
    BY DEF Update
  <1>4. ComesIn(es)
    <2>1. \A e \in Range(es) : outcome[e] = "unused"
      BY <1>2, <1>3
    <2>2. \A e \in Usage : outcome'[e] # "unused" <=> outcome[e] # "unused" \/ e \in Range(es)
      <3>1. \A e \in Ops : outcome'[e] = IF e = op THEN "live" ELSE outcome[e]
        BY <1>1, <1>3
      <3>2. \A e \in Usage : e \in Ops /\ (e \in Range(es) <=> e = op)
        BY <1>2 DEF Ops
      <3> QED
        BY <1>3, <3>1, <3>2
    <2>3. \A p \in Parts : memory'[p] = IF p \in touched THEN memory[p] \union {op} ELSE memory[p]
      BY <1>3 DEF Changed
    <2>4. \A p \in Parts : /\ memory[p] \subseteq memory'[p]
                           /\ memory'[p] \intersect Usage \subseteq memory[p] \union Range(es)
      BY <1>2, <2>3
    <2> QED
      BY <1>2, <1>3, <2>1, <2>2, <2>4 DEF ComesIn
  <1>5. changes \in Changes /\ changes.parts = dirty.parts \union touched
    BY <1>1, <1>2, MergeType
  <1>6. changes.events = Bounded(dirty.events \o es)
    BY DEF Merge
  <1>7. CASE DoesNotWrite(changes)
    <2>1. disk' = disk /\ dirty' = dirty
      BY <1>7 DEF DoesNotWrite
    <2>2. CASE file = NoFile
      BY <1>3, <1>4, <2>1, <2>2 DEF EventsSkipped, EventStep
    <2>3. CASE file # NoFile
      <3>1. Bounded(dirty.events \o es) = <<>>
        BY <1>6, <1>7, <2>3, EmptyQueue DEF DoesNotWrite, NothingToWrite
      <3>2. dirty.events \in Seq(Usage) /\ dirty.events \o es \in Seq(Usage)
        BY <1>1, <1>2, ConcatProperties DEF Changes, Pending
      <3>3. dirty.events \o es = <<>>
        BY <3>1, <3>2, MergedEmpty
      <3>4. dirty.events = <<>>
        BY <1>2, <3>2, <3>3, ConcatEqualIffEmpty
      <3>5. EventsKept(es)
        BY <1>3, <2>1, <2>3, <3>1, <3>4 DEF EventsKept
      <3> QED
        BY <1>4, <3>5 DEF EventStep
    <2> QED
      BY <2>2, <2>3
  <1>8. CASE Write(memory', changes)
    <2>1. memory' \in Contents /\ \A p \in Parts \ touched : memory'[p] = memory[p]
      BY <1>1, <1>3, ChangedType
    <2>2. \A p \in Parts \ changes.parts : memory'[p] = memory[p]
      BY <1>5, <2>1
    <2>3. disk'[file].parts = memory'
      BY <1>1, <1>5, <1>8, <2>1, <2>2, WriteSavesAll DEF IInv, Consistent
    <2>4. disk'[file].events = disk[file].events \o changes.events
      BY <1>1, <1>8, WriteAppends
    <2>5. file \in Files /\ dirty' = NoChanges /\ \A f \in Files \ {file} : disk'[f] = disk[f]
      BY <1>1, <1>5, <1>8, <2>1, WriteEffect
    <2>6. EventsStored(es)
      BY <1>3, <1>6, <2>3, <2>4, <2>5, EmptyQueue, WriteBackAssumption DEF EventsStored
    <2> QED
      BY <1>4, <2>6 DEF EventStep
  <1>9. CASE WriteFails(changes) /\ Keeps(touched, es)
    <2>1. disk' = disk /\ dirty' = changes /\ file # NoFile
      BY <1>9 DEF WriteFails, Keeps, NothingToWrite
    <2>2. EventsKept(es)
      BY <1>3, <1>6, <2>1 DEF EventsKept
    <2> QED
      BY <1>4, <2>2 DEF EventStep
  <1> QED
    BY <1>3, <1>7, <1>8, <1>9

(* A step in which no event comes in. *)
LEMMA QuietEvents ==
    ASSUME IInv, file' = file, gone' = gone,
           \A e \in Usage : outcome'[e] = outcome[e],
           \A p \in Parts : /\ memory[p] \subseteq memory'[p]
                            /\ memory'[p] \intersect Usage \subseteq memory[p],
           \/ dirty'.events = dirty.events /\ disk' = disk
           \/ /\ file \in Files /\ dirty' = NoChanges
              /\ disk'[file].events = disk[file].events \o dirty.events
              /\ disk'[file].parts = memory'
              /\ \A f \in Files \ {file} : disk'[f] = disk[f]
    PROVE  EventStep
  <1>1. ComesIn(<<>>)
    BY EmptyQueue DEF ComesIn
  <1>2. /\ Bounded(dirty.events \o <<>>) = dirty.events
        /\ gone \union Dropped(<<>>) = gone
    BY NothingNew DEF IInv, TypeOK
  <1>3. EventsKept(<<>>) \/ EventsStored(<<>>)
    BY <1>2, EmptyQueue DEF EventsKept, EventsStored
  <1> QED
    BY <1>1, <1>3 DEF EventStep

LEMMA EditEvents ==
    ASSUME IInv, NEW c \in Callers, NEW op \in Other, NEW touched \in SUBSET Parts,
           Edit(c, op, touched)
    PROVE  EventStep
  <1>. PICK changes : changes = Merge(dirty, touched, <<>>)
    OBVIOUS
  <1>1. /\ dirty \in Changes /\ memory \in Contents /\ disk \in [Files -> Disk]
        /\ file \in Files \union {NoFile} /\ op \in Ops /\ op \notin Usage
        /\ outcome \in [Ops -> {"unused", "live", "saved", "refused"}]
    BY WriteBackAssumption DEF IInv, TypeOK, Ops
  <1>2. changes \in Changes /\ changes.parts = dirty.parts \union touched
    BY <1>1, MergeType, EmptyQueue
  <1>3. changes.events = dirty.events
    BY <1>1, NothingNew DEF Merge
  <1>4. /\ Changed(op, touched) \in Contents
        /\ \A p \in Parts : Changed(op, touched)[p] =
               IF p \in touched THEN memory[p] \union {op} ELSE memory[p]
    BY <1>1, ChangedType
  <1>5. /\ file' = file /\ gone' = gone
        /\ \/ /\ DoesNotWrite(changes)
              /\ memory' = Changed(op, touched)
              /\ outcome' = [outcome EXCEPT ![op] = "live"]
           \/ /\ Write(Changed(op, touched), changes)
              /\ memory' = Changed(op, touched)
              /\ outcome' = [outcome EXCEPT ![op] = IF touched = {} THEN "live" ELSE "saved"]
           \/ /\ WriteFails(changes)
              /\ Discard(op, touched)
              /\ outcome' = [outcome EXCEPT ![op] = "refused"]
    BY DEF Edit
  <1>6. \A e \in Usage : outcome'[e] = outcome[e]
    <2>1. \E result : outcome' = [outcome EXCEPT ![op] = result]
      BY <1>5
    <2>2. \A e \in Usage : e \in Ops /\ e # op
      BY <1>1 DEF Ops
    <2> QED
      BY <1>1, <2>1, <2>2
  <1>7. \A p \in Parts : /\ memory[p] \subseteq memory'[p]
                         /\ memory'[p] \intersect Usage \subseteq memory[p]
    <2>1. memory' = memory \/ memory' = Changed(op, touched)
      BY <1>5 DEF Discard
    <2>2. CASE memory' = memory
      BY <2>2
    <2>3. CASE memory' = Changed(op, touched)
      BY <1>1, <1>4, <2>3
    <2> QED
      BY <2>1, <2>2, <2>3
  <1>8. CASE Write(Changed(op, touched), changes) /\ memory' = Changed(op, touched)
    <2>1. \A p \in Parts \ changes.parts : Changed(op, touched)[p] = memory[p]
      BY <1>2, <1>4
    <2>2. disk'[file].parts = memory'
      BY <1>1, <1>2, <1>4, <1>8, <2>1, WriteSavesAll DEF IInv, Consistent
    <2>3. disk'[file].events = disk[file].events \o dirty.events
      BY <1>1, <1>3, <1>8, WriteAppends
    <2>4. file \in Files /\ dirty' = NoChanges /\ \A f \in Files \ {file} : disk'[f] = disk[f]
      BY <1>1, <1>2, <1>4, <1>8, WriteEffect
    <2> QED
      BY <1>5, <1>6, <1>7, <2>2, <2>3, <2>4, QuietEvents
  <1>9. CASE dirty' = dirty /\ disk' = disk
    BY <1>5, <1>6, <1>7, <1>9, QuietEvents
  <1> QED
    BY <1>5, <1>8, <1>9 DEF DoesNotWrite, WriteFails, Discard

LEMMA AdmitEvents ==
    ASSUME IInv, AdmitGroup PROVE EventStep
  <1>1. dirty \in Changes /\ memory \in Contents
        /\ disk \in [Files -> Disk] /\ file \in Files \union {NoFile}
    BY DEF IInv, TypeOK
  <1>2. UNCHANGED <<memory, file, outcome, gone>>
    BY DEF AdmitGroup
  <1>3. CASE Write(memory, dirty)
    <2>1. disk'[file].parts = memory'
      BY <1>1, <1>2, <1>3, WriteSavesAll DEF IInv, Consistent
    <2>2. disk'[file].events = disk[file].events \o dirty.events
      BY <1>1, <1>3, WriteAppends
    <2>3. file \in Files /\ dirty' = NoChanges /\ \A f \in Files \ {file} : disk'[f] = disk[f]
      BY <1>1, <1>3, WriteEffect
    <2> QED
      BY <1>2, <2>1, <2>2, <2>3, QuietEvents
  <1>4. CASE dirty' = dirty /\ disk' = disk
    BY <1>2, <1>4, QuietEvents
  <1> QED
    BY <1>3, <1>4 DEF AdmitGroup, DoesNotWrite, WriteFails

LEMMA LosingEvents ==
    ASSUME IInv, FinishConfigure \/ Close \/ Crash PROVE EventStep
  <1>1. dirty' = NoChanges /\ disk' = disk /\ outcome' = outcome /\ gone' = gone \union Waiting
    BY DEF FinishConfigure, Close, Crash, Lost, Waiting
  <1>2. file' = NoFile \/ (file' \in Files /\ memory' = disk[file'].parts)
    BY DEF FinishConfigure, Close, Crash, IInv, Consistent, SnapshotIsCurrent, TypeOK, Loaded
  <1> QED
    BY <1>1, <1>2, EmptyQueue DEF EventsLost, EventStep

LEMMA NextEvents == IInv /\ [Next]_vars => EventStep
  <1> SUFFICES ASSUME IInv, [Next]_vars PROVE EventStep
    OBVIOUS
  <1>1. CASE UNCHANGED <<memory, file, dirty, disk, outcome, gone>>
    BY <1>1, QuietEvents
  <1>2. ASSUME NEW c \in Callers, RecordWriteError(c) \/ RecordWriteSuccess(c) PROVE EventStep
    BY <1>1, <1>2 DEF RecordWriteError, RecordWriteSuccess, storeVars
  <1>3. ASSUME NEW f \in Files, BeginConfigure(f) PROVE EventStep
    BY <1>1, <1>3 DEF BeginConfigure
  <1>4. CASE ConfigureFails
    BY <1>1, <1>4 DEF ConfigureFails
  <1>5. CASE UNCHANGED vars
    BY <1>1, <1>5 DEF vars
  <1> QED
    BY <1>2, <1>3, <1>4, <1>5, UpdateEvents, EditEvents, AdmitEvents, LosingEvents DEF Next

LEMMA EventsNext == IInv /\ EventInv /\ [Next]_vars => EventInv'
  BY NextEvents, KeptEvents, StoredEvents, SkippedEvents, LostEvents DEF EventStep

(* Distinct queues that are apart hold an event at most once. *)
LEMMA OncePlaced ==
    ASSUME IInv, EventInv, NEW e \in Usage
    PROVE  Cardinality(Places(e)) = IF outcome[e] = "unused" \/ e \in gone THEN 0 ELSE 1
  <1>1. \A f \in Files : Queue(f) = disk[f].events
    BY WriteBackAssumption DEF Queue
  <1>2. Queue(NoFile) = dirty.events
    BY DEF Queue
  <1>3. \A x : x \in Places(e) <=> \E f \in Files \union {NoFile} : \E i \in DOMAIN Queue(f) :
                                      Queue(f)[i] = e /\ x = <<f, i>>
    BY DEF Places
  <1>4. (Places(e) # {}) <=> (e \in Waiting \/ \E f \in Files : e \in Stored(f))
    <2>1. (Places(e) # {}) <=> \E f \in Files \union {NoFile} : e \in Range(Queue(f))
      BY <1>3 DEF Range
    <2> QED
      BY <1>1, <1>2, <2>1 DEF Waiting, Stored
  <1>5. ASSUME NEW x \in Places(e), NEW y \in Places(e) PROVE x = y
    <2>1. PICK f \in Files \union {NoFile} :
            \E i \in DOMAIN Queue(f) : Queue(f)[i] = e /\ x = <<f, i>>
      BY <1>3
    <2>2. PICK i \in DOMAIN Queue(f) : Queue(f)[i] = e /\ x = <<f, i>>
      BY <2>1
    <2>3. PICK g \in Files \union {NoFile} :
            \E j \in DOMAIN Queue(g) : Queue(g)[j] = e /\ y = <<g, j>>
      BY <1>3
    <2>4. PICK j \in DOMAIN Queue(g) : Queue(g)[j] = e /\ y = <<g, j>>
      BY <2>3
    <2>5. e \in Range(Queue(f)) /\ e \in Range(Queue(g))
      BY <2>2, <2>4 DEF Range
    <2>6. f = g
      BY <1>1, <1>2, <2>5 DEF EventInv, EventsApart, Waiting, Stored
    <2>7. IsInjective(Queue(f))
      BY <1>1, <1>2 DEF EventInv, EventsDistinct
    <2>8. i = j
      BY <2>2, <2>4, <2>6, <2>7 DEF IsInjective
    <2> QED
      BY <2>2, <2>4, <2>6, <2>8
  <1>6. CASE Places(e) = {}
    <2>1. outcome[e] = "unused" \/ e \in gone
      BY <1>4, <1>6 DEF EventInv, EventsFound
    <2> QED
      BY <1>6, <2>1, FS_EmptySet
  <1>7. CASE Places(e) # {}
    <2>1. ~(outcome[e] = "unused" \/ e \in gone)
      BY <1>4, <1>7 DEF EventInv, EventsFound
    <2>2. PICK x : Places(e) = {x}
      BY <1>5, <1>7
    <2> QED
      BY <2>1, <2>2, FS_Singleton
  <1> QED
    BY <1>6, <1>7

(* What the database holds of usage is the same in its events and in its      *)
(* ledgers: no retry after a failed write repeats a request event or loses    *)
(* one, but for what the bound or the end of the process takes, and a ledger  *)
(* contains a charge whose event is there completely, and no other but those  *)
(* whose event the bound dropped (store.go, updateResult; repository Save).   *)
THEOREM LedgersAgreeWithEvents == Spec => []LedgersMatchEvents
  <1>1. Init => IInv /\ EventInv
    BY InitInvariant, EventInit
  <1>2. IInv /\ EventInv /\ [Next]_vars => IInv' /\ EventInv'
    BY InvariantStep, EventsNext
  <1>3. IInv /\ EventInv => LedgersMatchEvents
    BY OncePlaced DEF LedgersMatchEvents, EventsExactlyOnce, EventInv
  <1> QED
    BY <1>1, <1>2, <1>3, PTL DEF Spec

================================================================================
