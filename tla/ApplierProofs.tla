--------------------------- MODULE ApplierProofs ---------------------------
(***************************************************************************)
(* Proofs about Applier, for any number of tasks of each kind: the two     *)
(* locks and the freeze depth; and what compaction, recovery and snapshots *)
(* leave of the log, until two installations get in each other's way.      *)
(***************************************************************************)
EXTENDS Applier, FiniteSetTheorems, WellFoundedInduction, TLAPS

-----------------------------------------------------------------------------
(* The inductive invariant: tasks, locks and freezes *)

\* A task holds fsm_lock from where it takes it to where it drops it.
Holding == {"loop", "advance", "restoring", "reading"}

LockInv == \A t \in Task : fsm_lock = t <=> pc[t] \in Holding

\* The freeze depth counts the tasks between their freeze and their thaw.
Freezing == {"save", "truncate", "thaw", "restore", "restoring", "finalize",
             "serialize", "reading"}

Freezers == {t \in Task : pc[t] \in Freezing}

FreezeInv == freeze_depth = Cardinality(Freezers)

\* A task that is about to move the horizon has applied a committed entry.
AdvanceInv == \A t \in Task : pc[t] = "advance" => applied[t] < committed[t]

\* A process that is down has no tasks, and has restored nothing.
DownInv == status \in {"Down", "Refused"} =>
               restored = 0 /\ \A t \in Task : pc[t] = "idle"

TaskInv == TypeOK /\ LockInv /\ FreezeInv /\ AdvanceInv /\ DownInv

-----------------------------------------------------------------------------
(* The inductive invariant: the log, the horizon and the disk, until two     *)
(* installations clash                                                       *)

\* c is between reading what to compact and having compacted it.
Shortens(c) == pc[c] \in {"save", "truncate"}

\* t has accepted a snapshot, and not moved the horizon to it yet.
Installs(t) == pc[t] \in {"restore", "restoring", "finalize"}

\* s has read the label of a snapshot, and not the data yet.
Labels(s) == pc[s] \in {"freeze", "serialize"}

\* Every index from i up to j is in the log.
Logged(i, j) == i..j \subseteq log

\* Every committed entry after k that no restored snapshot covers is.
Kept(k) == \A i \in (k + 1)..last_committed : i > restored => i \in log

\* x is behind k, or behind a snapshot that was restored.
Behind(x, k) == x <= k \/ x <= restored

\* The tombstone stands while a snapshot is being restored.
TombstoneInv == restore_in_progress <=> \E t \in Installers : pc[t] = "restoring"

\* The state machine covers every snapshot restored, except while the next one
\* replaces it.
RestoredInv ==
    /\ (\A t \in Installers : pc[t] # "restoring") => restored <= fsm_applied
    /\ \A t \in Installers : pc[t] = "finalize" => index[t] <= restored

\* The horizon is behind the commit index, and behind the state machine except
\* while the latter is replaced.
HorizonInv ==
    /\ last_applied <= last_committed
    /\ last_included <= last_applied
    /\ Kept(last_applied)
    /\ (\A t \in Installers : pc[t] \notin {"restoring", "finalize"}) =>
            last_applied <= fsm_applied

\* An apply loop knows no more than what is committed, and the state machine
\* is one entry ahead of it when it has applied one.
LoopInv ==
    \A t \in Task :
        /\ pc[t] \in {"loop", "advance"} => committed[t] <= last_committed
        /\ pc[t] = "advance" => fsm_applied = applied[t] + 1

\* A compaction removes only what was applied when it started.
CompactInv == \A c \in Compactors : Shortens(c) => index[c] <= last_applied

\* An accepted snapshot is ahead of everything compaction does meanwhile, and
\* the log goes on after it; unless a newer one was restored first.
InstallInv ==
    \A t \in Installers : Installs(t) =>
        /\ Behind(last_included, index[t])
        /\ Kept(index[t])
        /\ \A c \in Compactors : Shortens(c) => index[c] < index[t]

\* A label that was read is behind the horizon, and behind every snapshot
\* accepted since; again unless a newer one was restored.
LabelInv ==
    \A s \in Serializers : Labels(s) =>
        /\ Behind(index[s], last_applied)
        /\ \A t \in Installers : Installs(t) => Behind(index[s], index[t])

RunInv == Running => /\ TombstoneInv /\ RestoredInv /\ HorizonInv /\ LoopInv
                     /\ CompactInv /\ InstallInv /\ LabelInv

\* The data of a snapshot covers its label.
DataCovers ==
    \A s \in Serializers : pc[s] \in {"reading", "thaw"} => applied[s] >= index[s]

\* On disk, the log goes on after the commit index and the compacted part is
\* committed; unless a crash came between the two writes that finish an
\* installation, and recovery will see the state machine ahead.
DiskInv ==
    \/ /\ \A i \in log : Logged(last_committed + 1, i)
       /\ last_included <= last_committed
    \/ /\ status \in {"Down", "Refused"}
       /\ ~restore_in_progress
       /\ fsm_applied > last_committed
    \/ status = "Refused"

ApplierInv == TaskInv /\ RunInv /\ DiskInv /\ DataCovers

OrderedInv == TaskInv /\ (~clashed => ApplierInv)

-----------------------------------------------------------------------------
(* Helpers *)

\* A nonempty set of naturals has a least element.
LEMMA LeastExists ==
    ASSUME NEW S \in SUBSET Nat, S # {}
    PROVE  \E x \in S : \A y \in S : x <= y
<1> DEFINE R == {ss \in Nat \X Nat : ss[1] < ss[2]}
<1>1. IsWellFoundedOn(R, Nat)
  BY NatLessThanWellFounded, Zenon DEF OpToRel
<1> HIDE DEF R
<1>2. PICK x \in S : \A y \in S : ~ (<<y, x>> \in R)
  BY <1>1, WFMin
<1>3. \A y \in S : x <= y
  <2> SUFFICES ASSUME NEW y \in S, ~ (x <= y) PROVE FALSE
    OBVIOUS
  <2>1. x \in Nat /\ y \in Nat /\ y < x
    OBVIOUS
  <2>2. <<y, x>> \in R
    BY <2>1 DEF R
  <2> QED
    BY <1>2, <2>2
<1> QED
  BY <1>3

\* A range that starts later is part of the one that starts earlier.
LEMMA Narrower ==
    ASSUME NEW a \in Int, NEW b \in Int, NEW i \in Int, a <= b
    PROVE  (b + 1)..i \subseteq (a + 1)..i
OBVIOUS

\* Nonempty sets of indices have the extrema Min and Max choose.
LEMMA ExtremaOfIndices ==
    ASSUME NEW S \in SUBSET (0..MaxIndex), S # {}
    PROVE  /\ Min(S) \in S /\ \A y \in S : Min(S) <= y
           /\ Max(S) \in S /\ \A y \in S : y <= Max(S)
<1> USE IndexAssumption
<1>1. \E x \in S : \A y \in S : x <= y
  BY LeastExists
<1>2. \E x \in S : \A y \in S : x >= y
  <2> DEFINE D == {MaxIndex - y : y \in S}
  <2>1. D \in SUBSET Nat /\ D # {}
    <3>1. \A y \in S : MaxIndex - y \in Nat
      OBVIOUS
    <3> QED
      BY <3>1
  <2>2. PICK d \in D : \A e \in D : d <= e
    BY <2>1, LeastExists
  <2>3. PICK x \in S : d = MaxIndex - x
    BY <2>2
  <2>4. \A y \in S : MaxIndex - x <= MaxIndex - y
    BY <2>2, <2>3
  <2>5. \A y \in S : x >= y
    BY <2>4
  <2> QED
    BY <2>5
<1> QED
  BY <1>1, <1>2 DEF Min, Max

\* The end of the log.
LEMMA LastIs ==
    ASSUME TypeOK
    PROVE  /\ last_log_index \in 0..MaxIndex
           /\ last_log_index \in log \cup {last_included}
           /\ \A i \in log \cup {last_included} : i <= last_log_index
<1>1. log \cup {last_included} \in SUBSET (0..MaxIndex)
  <2>1. \A i \in 1..MaxIndex : i \in 0..MaxIndex
    BY IndexAssumption
  <2> QED
    BY <2>1 DEF TypeOK
<1>2. log \cup {last_included} # {}
  OBVIOUS
<1> QED
  BY <1>1, <1>2, ExtremaOfIndices DEF last_log_index

\* The larger of two indices.
LEMMA MaxOfTwo ==
    ASSUME NEW a \in 0..MaxIndex, NEW b \in 0..MaxIndex
    PROVE  Max({a, b}) \in {a, b} /\ a <= Max({a, b}) /\ b <= Max({a, b})
<1>1. {a, b} \in SUBSET (0..MaxIndex) /\ {a, b} # {}
  OBVIOUS
<1> QED
  BY <1>1, ExtremaOfIndices

-----------------------------------------------------------------------------
(* Locks and freezes *)

\* Where a task can be.
Points == {"idle", "woken", "enter", "loop", "advance", "save", "truncate", "thaw",
           "restore", "restoring", "finalize", "freeze", "serialize", "reading"}

\* A step of t takes or drops the lock as its points say,
Locks(t, from, to) ==
    /\ to \in Holding /\ from \notin Holding => fsm_lock = None
    /\ fsm_lock' = IF to \in Holding THEN t ELSE IF from \in Holding THEN None ELSE fsm_lock

\* and freezes or thaws.
Freezes(t, from, to) ==
    freeze_depth' = IF to \in Freezing
                    THEN IF from \in Freezing THEN freeze_depth ELSE freeze_depth + 1
                    ELSE IF from \in Freezing THEN freeze_depth - 1 ELSE freeze_depth

\* It leaves the loops of others alone.
KeepsLoops(t, to) ==
    /\ \A u \in Task \ {t} : applied'[u] = applied[u] /\ committed'[u] = committed[u]
    /\ to = "advance" => applied'[t] < committed'[t]

\* Such a step keeps the lock with one task, and the freeze depth the number
\* of those that froze: no thaw can underflow it.
LEMMA StepKeeps ==
    ASSUME TaskInv, NEW t \in Task, NEW from, NEW to \in Points, Step(t, from, to),
           Locks(t, from, to), Freezes(t, from, to), KeepsLoops(t, to),
           status' \in {"Running", "Poisoned"}
    PROVE  /\ LockInv' /\ FreezeInv' /\ AdvanceInv' /\ DownInv'
           /\ freeze_depth' \in Nat /\ fsm_lock' \in Task \cup {None} /\ pc' \in [Task -> Points]
<1>1. /\ TypeOK /\ LockInv /\ FreezeInv /\ AdvanceInv
      /\ pc \in [Task -> Points]
  BY DEF TaskInv, TypeOK, Points
<1>2. pc[t] = from /\ pc' = [pc EXCEPT ![t] = to]
  BY DEF Step
<1>3. /\ pc' \in [Task -> Points] /\ pc'[t] = to
      /\ \A u \in Task \ {t} : pc'[u] = pc[u]
  BY <1>1, <1>2
<1>4. None \notin Task /\ IsFiniteSet(Task)
  BY TaskAssumption
<1>5. LockInv' /\ fsm_lock' \in Task \cup {None}
  <2>1. fsm_lock \in Task \cup {None}
    BY <1>1 DEF TypeOK
  <2>2. fsm_lock = t <=> from \in Holding
    BY <1>1, <1>2 DEF LockInv
  <2>3. ASSUME NEW u \in Task PROVE fsm_lock' = u <=> pc'[u] \in Holding
    <3>1. CASE u = t
      BY <1>3, <1>4, <2>2, <3>1 DEF Locks
    <3>2. CASE u # t
      <4>1. fsm_lock = u <=> pc'[u] \in Holding
        BY <1>1, <1>3, <3>2 DEF LockInv
      <4> QED
        BY <1>4, <2>1, <2>2, <3>2, <4>1 DEF Locks
    <3> QED
      BY <3>1, <3>2
  <2> QED
    BY <2>1, <2>3 DEF Locks, LockInv
<1>6. FreezeInv' /\ freeze_depth' \in Nat
  <2> DEFINE new == {u \in Task : pc'[u] \in Freezing}
  <2>1. /\ IsFiniteSet(Freezers) /\ Cardinality(Freezers) \in Nat
        /\ freeze_depth = Cardinality(Freezers)
    BY <1>1, <1>4, FS_Subset, FS_CardinalityType DEF Freezers, FreezeInv
  <2>2. new = IF to \in Freezing THEN Freezers \cup {t} ELSE Freezers \ {t}
    BY <1>3 DEF Freezers
  <2>3. t \in Freezers <=> from \in Freezing
    BY <1>2 DEF Freezers
  <2> HIDE DEF new
  <2>4. /\ Cardinality(Freezers \cup {t}) =
              IF t \in Freezers THEN Cardinality(Freezers) ELSE Cardinality(Freezers) + 1
        /\ IsFiniteSet(Freezers \cup {t})
    BY <2>1, FS_AddElement
  <2>5. /\ Cardinality(Freezers \ {t}) =
              IF t \in Freezers THEN Cardinality(Freezers) - 1 ELSE Cardinality(Freezers)
        /\ IsFiniteSet(Freezers \ {t})
    BY <2>1, FS_RemoveElement
  <2>6. IsFiniteSet(new) /\ freeze_depth' = Cardinality(new)
    BY <2>1, <2>2, <2>3, <2>4, <2>5 DEF Freezes
  <2>7. Cardinality(new) \in Nat
    BY <2>6, FS_CardinalityType
  <2> QED
    BY <2>6, <2>7 DEF FreezeInv, Freezers, new
<1>7. AdvanceInv'
  BY <1>1, <1>3 DEF AdvanceInv, KeepsLoops
<1>8. DownInv'
  BY DEF DownInv
<1> QED
  BY <1>3, <1>5, <1>6, <1>7, <1>8

\* What a step of t does to locks, freezes and loops,
Sound(t, from, to) ==
    /\ Step(t, from, to) /\ Locks(t, from, to) /\ Freezes(t, from, to)
    /\ KeepsLoops(t, to) /\ status' \in {"Running", "Poisoned"}

\* and the types of everything else.
RestOK ==
    /\ log \in SUBSET (1..MaxIndex)
    /\ last_committed \in 0..MaxIndex /\ last_included \in 0..MaxIndex
    /\ fsm_applied \in 0..MaxIndex /\ last_applied \in 0..MaxIndex
    /\ restore_in_progress \in BOOLEAN
    /\ status \in {"Running", "Poisoned", "Down", "Refused"}
    /\ restarts \in 0..MaxRestarts
    /\ signal \in BOOLEAN
    /\ index \in [Task -> 0..MaxIndex]
    /\ applied \in [Task -> 0..MaxIndex]
    /\ committed \in [Task -> 0..MaxIndex]
    /\ restored \in 0..MaxIndex /\ clashed \in BOOLEAN

\* Together they preserve the invariant.
LEMMA SoundStep ==
    ASSUME TaskInv, NEW t \in Task, NEW from, NEW to \in Points, Sound(t, from, to), RestOK'
    PROVE  TaskInv'
<1>1. /\ LockInv' /\ FreezeInv' /\ AdvanceInv' /\ DownInv'
      /\ freeze_depth' \in Nat /\ fsm_lock' \in Task \cup {None} /\ pc' \in [Task -> Points]
  BY StepKeeps DEF Sound
<1>2. TypeOK'
  BY <1>1 DEF RestOK, TypeOK, Points
<1> QED
  BY <1>1, <1>2 DEF TaskInv

\* A signal is raised or left alone.
LEMMA BroadcastType ==
    ASSUME signal \in BOOLEAN, Broadcast
    PROVE  signal' \in BOOLEAN
BY DEF Broadcast

\* The steps of the environment touch no lock, freeze or loop.
LEMMA ConsensusTasks ==
    ASSUME TaskInv, Consensus
    PROVE  TaskInv'
<1>1. /\ RestOK
  BY DEF TaskInv, TypeOK, RestOK
<1>2. UNCHANGED <<pc, freeze_depth, fsm_lock, applied, committed, status, restored>>
  BY DEF Consensus, AppendEntries, AdvanceCommitted, ChangeRole, shell, process, locals, history
<1>3. RestOK'
  <2> USE DEF fsm, process, shell, locals, logStore, history
  <2>1. CASE AppendEntries
    <3>1. last_log_index \in 0..MaxIndex /\ last_log_index < MaxIndex
      BY <2>1, LastIs DEF AppendEntries, TaskInv
    <3>2. log' \in SUBSET (1..MaxIndex)
      <4>1. last_log_index + 1 \in 1..MaxIndex
        BY <3>1, IndexAssumption
      <4> QED
        BY <1>1, <2>1, <4>1 DEF AppendEntries, RestOK
    <3>3. signal' \in BOOLEAN
      BY <1>1, <2>1, BroadcastType DEF AppendEntries, RestOK
    <3> QED
      BY <1>1, <2>1, <3>2, <3>3 DEF AppendEntries, RestOK
  <2>2. CASE AdvanceCommitted
    <3>1. last_log_index \in 0..MaxIndex
      BY LastIs DEF TaskInv
    <3>2. PICK i \in (last_committed + 1)..last_log_index : last_committed' = i
      BY <2>2 DEF AdvanceCommitted
    <3>3. last_committed' \in 0..MaxIndex
      BY <1>1, <3>1, <3>2, IndexAssumption DEF RestOK
    <3>4. signal' \in BOOLEAN
      BY <1>1, <2>2, BroadcastType DEF AdvanceCommitted, RestOK
    <3> QED
      BY <1>1, <2>2, <3>3, <3>4 DEF AdvanceCommitted, RestOK
  <2>3. CASE ChangeRole
    BY <1>1, <2>3 DEF ChangeRole, RestOK
  <2> QED
    BY <2>1, <2>2, <2>3 DEF Consensus
<1> QED
  BY <1>2, <1>3 DEF TaskInv, TypeOK, RestOK, LockInv, FreezeInv, Freezers, AdvanceInv, DownInv

\* The background applier and every task that applies.
LEMMA ApplyingTasks ==
    ASSUME TaskInv, NEW t \in Task, Applying(t)
    PROVE  TaskInv'
<1> USE DEF logStore, fsm, process, shell, horizon, locals, history, poison
<1>1. RestOK /\ AdvanceInv
  BY DEF TaskInv, TypeOK, RestOK
<1>2. CASE EnterApply(t)
  <2>1. Sound(t, "enter", "loop")
    BY <1>1, <1>2 DEF EnterApply, Sound, Locks, Freezes, KeepsLoops, Holding, Freezing, RestOK, Step, Running
  <2>2. RestOK'
    BY <1>1, <1>2 DEF EnterApply, RestOK
  <2> QED
    BY <2>1, <2>2, SoundStep DEF Points
<1>3. CASE ApplyEntry(t)
  <2>1. /\ applied[t] \in 0..MaxIndex /\ committed[t] \in 0..MaxIndex
        /\ applied[t] + 1 <= committed[t]
    BY <1>1, <1>3 DEF ApplyEntry, RestOK
  <2>2. applied[t] < committed[t] /\ applied[t] + 1 \in 0..MaxIndex
    BY <2>1, IndexAssumption
  <2>3. Sound(t, "loop", "advance")
    BY <1>3, <2>2 DEF ApplyEntry, Sound, Locks, Freezes, KeepsLoops, Holding, Freezing, Step, Running,
                      TaskInv, LockInv
  <2>4. RestOK'
    BY <1>1, <1>3, <2>2 DEF ApplyEntry, RestOK
  <2> QED
    BY <2>3, <2>4, SoundStep DEF Points
<1>4. CASE AdvanceHorizon(t)
  <2>1. /\ applied[t] \in 0..MaxIndex /\ committed[t] \in 0..MaxIndex
        /\ applied[t] < committed[t]
    BY <1>1, <1>4 DEF AdvanceHorizon, Step, RestOK, AdvanceInv
  <2>2. applied[t] + 1 \in 0..MaxIndex
    BY <2>1, IndexAssumption
  <2>3. Sound(t, "advance", "loop")
    BY <1>1, <1>4 DEF AdvanceHorizon, Sound, Locks, Freezes, KeepsLoops, Holding, Freezing, Step, Running,
                      TaskInv, LockInv, RestOK
  <2>4. signal' \in BOOLEAN
    BY <1>1, <1>4, BroadcastType DEF AdvanceHorizon, RestOK
  <2>5. RestOK'
    BY <1>1, <1>4, <2>2, <2>4 DEF AdvanceHorizon, RestOK
  <2> QED
    BY <2>3, <2>5, SoundStep DEF Points
<1>5. CASE LeaveApply(t)
  <2>1. Sound(t, "loop", "idle")
    BY <1>5 DEF LeaveApply, Sound, Locks, Freezes, KeepsLoops, Holding, Freezing, Step, Running
  <2>2. RestOK'
    BY <1>1, <1>5 DEF LeaveApply, RestOK
  <2> QED
    BY <2>1, <2>2, SoundStep DEF Points
<1> QED
  BY <1>2, <1>3, <1>4, <1>5 DEF Applying

\* The wake-ups of the background applier.
LEMMA WakingTasks ==
    ASSUME TaskInv, Wake \/ CheckFrozen
    PROVE  TaskInv'
<1> USE DEF logStore, fsm, process, shell, horizon, locals, history
<1>1. RestOK /\ Background \in Task
  BY DEF TaskInv, TypeOK, RestOK, Task
<1>2. CASE Wake
  <2>1. Sound(Background, "idle", "woken")
    BY <1>2 DEF Wake, Sound, Locks, Freezes, KeepsLoops, Holding, Freezing, Step, Running
  <2>2. RestOK'
    BY <1>1, <1>2 DEF Wake, RestOK
  <2> QED
    BY <1>1, <2>1, <2>2, SoundStep DEF Points
<1>3. CASE CheckFrozen
  <2>1. RestOK'
    BY <1>1, <1>3 DEF CheckFrozen, RestOK
  <2>2. CASE is_frozen
    <3>1. Sound(Background, "woken", "idle")
      BY <1>3, <2>2 DEF CheckFrozen, Sound, Locks, Freezes, KeepsLoops, Holding, Freezing, Step, Running
    <3> QED
      BY <1>1, <2>1, <3>1, SoundStep DEF Points
  <2>3. CASE ~ is_frozen
    <3>1. Sound(Background, "woken", "enter")
      BY <1>3, <2>3 DEF CheckFrozen, Sound, Locks, Freezes, KeepsLoops, Holding, Freezing, Step, Running
    <3> QED
      BY <1>1, <2>1, <3>1, SoundStep DEF Points
  <2> QED
    BY <2>2, <2>3
<1> QED
  BY <1>2, <1>3

\* Compaction.
LEMMA CompactingTasks ==
    ASSUME TaskInv, NEW c \in Compactors, StartCompaction(c) \/ Compacting(c)
    PROVE  TaskInv'
<1> USE DEF logStore, fsm, process, shell, horizon, locals, history
<1>1. RestOK /\ c \in Task
  BY DEF TaskInv, TypeOK, RestOK, Task
<1>2. ASSUME Broadcast PROVE signal' \in BOOLEAN
  BY <1>1, <1>2, BroadcastType DEF RestOK
<1>3. CASE StartCompaction(c)
  <2>1. Sound(c, "idle", "save")
    BY <1>3 DEF StartCompaction, frozen_by_compaction, Sound, Locks, Freezes, KeepsLoops, Holding,
                Freezing, Step, Running
  <2>2. RestOK'
    BY <1>1, <1>2, <1>3 DEF StartCompaction, compaction_index, RestOK
  <2> QED
    BY <1>1, <2>1, <2>2, SoundStep DEF Points
<1>4. CASE SaveMetadata(c)
  <2>1. Sound(c, "save", "truncate")
    BY <1>4 DEF SaveMetadata, Sound, Locks, Freezes, KeepsLoops, Holding, Freezing, Step, Running
  <2>2. RestOK'
    BY <1>1, <1>2, <1>4 DEF SaveMetadata, RestOK
  <2> QED
    BY <1>1, <2>1, <2>2, SoundStep DEF Points
<1>5. CASE TruncateFront(c)
  <2>1. Sound(c, "truncate", "thaw")
    BY <1>5 DEF TruncateFront, Sound, Locks, Freezes, KeepsLoops, Holding, Freezing, Step, Running
  <2>2. RestOK'
    BY <1>1, <1>5 DEF TruncateFront, RestOK
  <2> QED
    BY <1>1, <2>1, <2>2, SoundStep DEF Points
<1>6. CASE ThawAfterCompaction(c)
  <2>1. Sound(c, "thaw", "enter")
    BY <1>6 DEF ThawAfterCompaction, Sound, Locks, Freezes, KeepsLoops, Holding, Freezing, Step, Running
  <2>2. RestOK'
    BY <1>1, <1>2, <1>6 DEF ThawAfterCompaction, RestOK
  <2> QED
    BY <1>1, <2>1, <2>2, SoundStep DEF Points
<1> QED
  BY <1>3, <1>4, <1>5, <1>6 DEF Compacting

\* Installations.
LEMMA InstallingTasks ==
    ASSUME TaskInv, NEW t \in Installers, AcceptSnapshot(t) \/ Installing(t)
    PROVE  TaskInv'
<1> USE DEF logStore, fsm, process, shell, horizon, locals, history
<1>1. RestOK /\ t \in Task /\ index[t] \in 0..MaxIndex
  BY DEF TaskInv, TypeOK, RestOK, Task
<1>2. ASSUME Broadcast PROVE signal' \in BOOLEAN
  BY <1>1, <1>2, BroadcastType DEF RestOK
<1>3. CASE AcceptSnapshot(t)
  <2>1. PICK i \in (last_applied + 1)..MaxIndex : index' = [index EXCEPT ![t] = i]
    BY <1>3 DEF AcceptSnapshot
  <2>2. i \in 0..MaxIndex
    BY <1>1, <2>1, IndexAssumption DEF RestOK
  <2>3. Sound(t, "idle", "restore")
    BY <1>3 DEF AcceptSnapshot, Sound, Locks, Freezes, KeepsLoops, Holding, Freezing, Step, Running
  <2>4. index' \in [Task -> 0..MaxIndex]
    BY <1>1, <2>1, <2>2 DEF RestOK
  <2>5. RestOK'
    BY <1>1, <1>2, <1>3, <2>4 DEF AcceptSnapshot, RestOK
  <2> QED
    BY <1>1, <2>3, <2>5, SoundStep DEF Points
<1>4. CASE ClearState(t)
  <2>1. Sound(t, "restore", "restoring")
    BY <1>4 DEF ClearState, Sound, Locks, Freezes, KeepsLoops, Holding, Freezing, Step, Running
  <2>2. RestOK'
    BY <1>1, <1>4, IndexAssumption DEF ClearState, RestOK
  <2> QED
    BY <1>1, <2>1, <2>2, SoundStep DEF Points
<1>5. CASE FinalizeRestoration(t)
  <2>1. Sound(t, "restoring", "finalize")
    BY <1>5 DEF FinalizeRestoration, Sound, Locks, Freezes, KeepsLoops, Holding, Freezing, Step, Running
  <2>2. Max({restored, index[t]}) \in 0..MaxIndex
    BY <1>1, MaxOfTwo DEF RestOK
  <2>3. clashed' \in BOOLEAN
    BY <1>5 DEF FinalizeRestoration
  <2>4. RestOK'
    BY <1>1, <1>5, <2>2, <2>3 DEF FinalizeRestoration, RestOK
  <2> QED
    BY <1>1, <2>1, <2>4, SoundStep DEF Points
<1>6. CASE FinalizeInstall(t)
  <2>1. Sound(t, "finalize", "idle")
    BY <1>6 DEF FinalizeInstall, Sound, Locks, Freezes, KeepsLoops, Holding, Freezing, Step, Running
  <2>2. Max({last_committed, index[t]}) \in 0..MaxIndex
    BY <1>1, MaxOfTwo DEF RestOK
  <2>3. RestOK'
    BY <1>1, <1>2, <1>6, <2>2 DEF FinalizeInstall, RestOK
  <2> QED
    BY <1>1, <2>1, <2>3, SoundStep DEF Points
<1> QED
  BY <1>3, <1>4, <1>5, <1>6 DEF Installing

\* Snapshots for peers.
LEMMA SerializingTasks ==
    ASSUME TaskInv, NEW s \in Serializers, ChooseSnapshot(s) \/ Serializing(s)
    PROVE  TaskInv'
<1> USE DEF logStore, fsm, process, shell, horizon, locals, history
<1>1. RestOK /\ s \in Task
  BY DEF TaskInv, TypeOK, RestOK, Task
<1>2. ASSUME Broadcast PROVE signal' \in BOOLEAN
  BY <1>1, <1>2, BroadcastType DEF RestOK
<1>3. CASE ChooseSnapshot(s)
  <2>1. Sound(s, "idle", "freeze")
    BY <1>3 DEF ChooseSnapshot, Sound, Locks, Freezes, KeepsLoops, Holding, Freezing, Step, Running
  <2>2. RestOK'
    BY <1>1, <1>3 DEF ChooseSnapshot, snapshot_label, RestOK
  <2> QED
    BY <1>1, <2>1, <2>2, SoundStep DEF Points
<1>4. CASE AbandonSnapshot(s)
  <2>1. Sound(s, "freeze", "idle")
    BY <1>4 DEF AbandonSnapshot, Sound, Locks, Freezes, KeepsLoops, Holding, Freezing, Step, Running
  <2>2. RestOK'
    BY <1>1, <1>4 DEF AbandonSnapshot, RestOK
  <2> QED
    BY <1>1, <2>1, <2>2, SoundStep DEF Points
<1>5. CASE FreezeForSnapshot(s)
  <2>1. Sound(s, "freeze", "serialize")
    BY <1>5 DEF FreezeForSnapshot, Sound, Locks, Freezes, KeepsLoops, Holding, Freezing, Step, Running
  <2>2. RestOK'
    BY <1>1, <1>2, <1>5 DEF FreezeForSnapshot, RestOK
  <2> QED
    BY <1>1, <2>1, <2>2, SoundStep DEF Points
<1>6. CASE BeginSnapshot(s)
  <2>1. Sound(s, "serialize", "reading")
    BY <1>1, <1>6 DEF BeginSnapshot, ReadTrees, Sound, Locks, Freezes, KeepsLoops, Holding, Freezing,
                      Step, Running, RestOK
  <2>2. RestOK'
    BY <1>1, <1>6 DEF BeginSnapshot, RestOK
  <2> QED
    BY <1>1, <2>1, <2>2, SoundStep DEF Points
<1>7. CASE EndSnapshot(s)
  <2>1. Sound(s, "reading", "thaw")
    BY <1>7 DEF EndSnapshot, Sound, Locks, Freezes, KeepsLoops, Holding, Freezing, Step, Running
  <2>2. RestOK'
    BY <1>1, <1>7 DEF EndSnapshot, RestOK
  <2> QED
    BY <1>1, <2>1, <2>2, SoundStep DEF Points
<1>8. CASE ThawAfterSnapshot(s)
  <2>1. Sound(s, "thaw", "idle")
    BY <1>8 DEF ThawAfterSnapshot, Sound, Locks, Freezes, KeepsLoops, Holding, Freezing, Step, Running
  <2>2. RestOK'
    BY <1>1, <1>2, <1>8 DEF ThawAfterSnapshot, RestOK
  <2> QED
    BY <1>1, <2>1, <2>2, SoundStep DEF Points
<1> QED
  BY <1>3, <1>4, <1>5, <1>6, <1>7, <1>8 DEF Serializing

\* A crash ends all tasks.
LEMMA DyingTasks ==
    ASSUME TaskInv, RestOK', Die
    PROVE  TaskInv'
<1>1. /\ pc' = [t \in Task |-> "idle"] /\ freeze_depth' = 0 /\ fsm_lock' = None
      /\ restored' = 0
  BY DEF Die
<1>2. TypeOK'
  BY <1>1 DEF RestOK, TypeOK
<1>3. LockInv' /\ AdvanceInv' /\ DownInv'
  BY <1>1, TaskAssumption DEF LockInv, AdvanceInv, DownInv, Holding
<1>4. FreezeInv'
  <2>1. {t \in Task : pc'[t] \in Freezing} = {}
    BY <1>1 DEF Freezing
  <2> QED
    BY <1>1, <2>1, FS_EmptySet DEF FreezeInv, Freezers
<1> QED
  BY <1>2, <1>3, <1>4 DEF TaskInv

\* Crashes at rest, and between the writes that finish an installation.
LEMMA CrashingTasks ==
    ASSUME TaskInv, Crash \/ \E t \in Installers : CrashInFinalize(t)
    PROVE  TaskInv'
<1> USE DEF logStore, fsm
<1>1. RestOK
  BY DEF TaskInv, TypeOK, RestOK
<1>2. Die /\ UNCHANGED <<log, last_committed, fsm_applied, restore_in_progress>>
  BY DEF Crash, CrashInFinalize
<1>3. last_included' \in 0..MaxIndex
  BY <1>1 DEF Crash, CrashInFinalize, RestOK, Task
<1>4. restarts' \in 0..MaxRestarts
  <2>1. restarts \in 0..MaxRestarts /\ restarts < MaxRestarts /\ restarts' = restarts + 1
    BY <1>1, <1>2 DEF Die, RestOK
  <2> QED
    BY <2>1, IndexAssumption
<1>5. RestOK'
  <2>1. 0 \in 0..MaxIndex
    BY IndexAssumption
  <2>2. /\ index' = [t \in Task |-> 0] /\ applied' = [t \in Task |-> 0]
        /\ committed' = [t \in Task |-> 0] /\ last_applied' = 0
        /\ status' = "Down" /\ signal' = FALSE /\ restored' = 0
    BY <1>2 DEF Die
  <2>3. /\ index' \in [Task -> 0..MaxIndex] /\ applied' \in [Task -> 0..MaxIndex]
        /\ committed' \in [Task -> 0..MaxIndex] /\ last_applied' \in 0..MaxIndex
        /\ restored' \in 0..MaxIndex
    BY <2>1, <2>2
  <2>4. clashed' \in BOOLEAN
    BY <1>1 DEF Crash, CrashInFinalize, RestOK
  <2> QED
    BY <1>1, <1>2, <1>3, <1>4, <2>2, <2>3, <2>4, Zenon DEF RestOK
<1> QED
  BY <1>2, <1>5, DyingTasks

\* Recovery starts from a process without tasks.
LEMMA BootingTasks ==
    ASSUME TaskInv, Boot
    PROVE  TaskInv'
<1> USE DEF logStore, shell, locals, history
<1>1. RestOK /\ restored = 0 /\ \A t \in Task : pc[t] = "idle"
  BY DEF TaskInv, TypeOK, RestOK, DownInv, Boot
<1>2. fsm_lock = None /\ freeze_depth = 0
  <2>1. fsm_lock \in Task \cup {None} /\ \A t \in Task : fsm_lock # t
    BY <1>1 DEF TaskInv, TypeOK, LockInv, Holding
  <2>2. Freezers = {}
    BY <1>1 DEF Freezers, Freezing
  <2> QED
    BY <2>1, <2>2, FS_EmptySet DEF TaskInv, FreezeInv
<1>3. sanitized \in 0..MaxIndex
  BY <1>1, IndexAssumption DEF sanitized, RestOK
<1>4. missing # {} => Min(missing) \in 1..MaxIndex
  <2>1. missing \in SUBSET (1..MaxIndex)
    <3>1. \A i \in (sanitized + 1)..last_committed : i \in 1..MaxIndex
      BY <1>1, <1>3, IndexAssumption DEF RestOK
    <3> QED
      BY <3>1 DEF missing
  <2>2. missing \in SUBSET (0..MaxIndex)
    <3>1. \A i \in 1..MaxIndex : i \in 0..MaxIndex
      BY IndexAssumption
    <3> QED
      BY <2>1, <3>1
  <2> QED
    BY <2>1, <2>2, ExtremaOfIndices
<1>5. /\ pc' \in [Task -> {"idle", "enter"}]
      /\ status' = "Refused" => pc' = pc
      /\ status' \in {"Running", "Refused"}
      /\ UNCHANGED <<freeze_depth, fsm_lock, restored>>
  <2>1. pc \in [Task -> {"idle", "enter"}]
    BY <1>1 DEF TaskInv, TypeOK
  <2> QED
    BY <2>1 DEF Boot
<1>6. fsm_applied' \in 0..MaxIndex
  <2>1. missing # {} => Min(missing) - 1 \in 0..MaxIndex
    BY <1>4, IndexAssumption
  <2> QED
    BY <1>1, <1>3, <2>1 DEF Boot, RestOK
<1>7. RestOK'
  BY <1>1, <1>5, <1>6 DEF Boot, RestOK
<1>8. TypeOK'
  <2>1. freeze_depth' \in Nat /\ fsm_lock' \in Task \cup {None}
    BY <1>2, <1>5
  <2>2. \A t \in Task : pc'[t] \in {"idle", "enter"}
    BY <1>5
  <2> QED
    BY <1>5, <1>7, <2>1, <2>2 DEF RestOK, TypeOK
<1>9. LockInv' /\ AdvanceInv' /\ DownInv'
  <2>1. LockInv'
    BY <1>2, <1>5, TaskAssumption DEF LockInv, Holding
  <2>2. AdvanceInv'
    BY <1>5 DEF AdvanceInv
  <2>3. DownInv'
    BY <1>1, <1>5 DEF DownInv
  <2> QED
    BY <2>1, <2>2, <2>3
<1>10. FreezeInv'
  <2>1. {t \in Task : pc'[t] \in Freezing} = {}
    BY <1>5 DEF Freezing
  <2> QED
    BY <1>2, <1>5, <2>1, FS_EmptySet DEF FreezeInv, Freezers
<1> QED
  BY <1>8, <1>9, <1>10 DEF TaskInv

\* Every step preserves the invariant.
LEMMA TaskStep == TaskInv /\ [Next]_vars => TaskInv'
<1> SUFFICES ASSUME TaskInv, [Next]_vars PROVE TaskInv'
  OBVIOUS
<1>1. CASE UNCHANGED vars
  BY <1>1 DEF vars, logStore, fsm, process, shell, horizon, locals, history, TaskInv, TypeOK, LockInv,
              FreezeInv, Freezers, AdvanceInv, DownInv
<1>2. ASSUME NEW t \in {Background} \cup Compactors, Applying(t) PROVE TaskInv'
  BY <1>2, ApplyingTasks DEF Task
<1> QED
  BY <1>1, <1>2, ConsensusTasks, WakingTasks, CompactingTasks, InstallingTasks,
     SerializingTasks, CrashingTasks, BootingTasks DEF Next

\* The invariant holds in every reachable state, for any tasks.
LEMMA TaskInvHolds == Spec => []TaskInv
<1>1. Init => TaskInv
  <2> SUFFICES ASSUME Init PROVE TaskInv
    OBVIOUS
  <2>1. /\ pc \in [Task -> {"idle", "enter"}] /\ fsm_lock = None /\ freeze_depth = 0
        /\ status = "Running"
    BY DEF Init
  <2>2. TypeOK
    <3>1. 0 \in 0..MaxIndex /\ 0 \in 0..MaxRestarts /\ 0 \in Nat
      BY IndexAssumption
    <3>2. /\ index \in [Task -> 0..MaxIndex] /\ applied \in [Task -> 0..MaxIndex]
          /\ committed \in [Task -> 0..MaxIndex]
      BY <3>1 DEF Init
    <3>3. RestOK
      BY <3>1, <3>2 DEF Init, RestOK
    <3>4. \A t \in Task : pc[t] \in {"idle", "enter"}
      BY <2>1
    <3> QED
      BY <2>1, <3>1, <3>3, <3>4 DEF RestOK, TypeOK
  <2>3. LockInv /\ AdvanceInv /\ DownInv
    BY <2>1, TaskAssumption DEF LockInv, AdvanceInv, DownInv, Holding
  <2>4. Freezers = {}
    BY <2>1 DEF Freezers, Freezing
  <2>5. FreezeInv
    BY <2>1, <2>4, FS_EmptySet DEF FreezeInv
  <2> QED
    BY <2>2, <2>3, <2>5 DEF TaskInv
<1> QED
  BY <1>1, TaskStep, PTL DEF Spec

\* Every variable keeps its type however many compactions, installations and
\* serialisations run at once; in particular the freeze depth is never thawed
\* below zero, which would be fatal.
THEOREM FreezesBalance == Spec => []TypeOK
<1>1. TaskInv => TypeOK
  BY DEF TaskInv
<1> QED
  BY <1>1, TaskInvHolds, PTL

\* No apply loop and no installation changes the state machine while its trees
\* are being serialised, whether or not they were under way before the freeze.
THEOREM SnapshotsArePointsInTime == Spec => SnapshotIsPointInTime
<1> DEFINE Still == \A s \in Serializers : pc[s] = "reading" /\ status' # "Down" => UNCHANGED fsm
<1>1. TaskInv /\ [Next]_vars => Still
  <2> SUFFICES ASSUME TaskInv, [Next]_vars, NEW s \in Serializers, pc[s] = "reading"
               PROVE  UNCHANGED fsm
    OBVIOUS
  <2> USE DEF logStore, process, shell, horizon, locals
  <2>1. s \in Task /\ fsm_lock = s /\ fsm_lock # None
    BY TaskAssumption DEF TaskInv, LockInv, Holding, Task
  <2>2. status \notin {"Down", "Refused"}
    BY <2>1 DEF TaskInv, DownInv
  <2>3. ASSUME NEW t \in Task, pc[t] \in {"loop", "restoring"} PROVE FALSE
    <3>1. fsm_lock = t
      BY <2>3 DEF TaskInv, LockInv, Holding
    <3> QED
      BY <2>1, <2>3, <3>1
  <2>4. CASE UNCHANGED vars
    BY <2>4 DEF vars
  <2>5. CASE Consensus \/ Wake \/ CheckFrozen \/ Crash
    BY <2>5 DEF Consensus, AppendEntries, AdvanceCommitted, ChangeRole, Wake, CheckFrozen, Crash
  <2>6. ASSUME NEW t \in {Background} \cup Compactors, Applying(t) PROVE UNCHANGED fsm
    BY <2>3, <2>6 DEF Applying, EnterApply, ApplyEntry, AdvanceHorizon, LeaveApply, Step, Task
  <2>7. ASSUME NEW c \in Compactors, StartCompaction(c) \/ Compacting(c) PROVE UNCHANGED fsm
    BY <2>7 DEF StartCompaction, Compacting, SaveMetadata, TruncateFront, ThawAfterCompaction
  <2>8. ASSUME NEW t \in Installers, AcceptSnapshot(t) \/ Installing(t) \/ CrashInFinalize(t)
        PROVE  UNCHANGED fsm
    BY <2>1, <2>3, <2>8 DEF AcceptSnapshot, Installing, ClearState, FinalizeRestoration,
                            FinalizeInstall, CrashInFinalize, Step, Task
  <2>9. ASSUME NEW x \in Serializers, ChooseSnapshot(x) \/ Serializing(x) PROVE UNCHANGED fsm
    BY <2>9 DEF ChooseSnapshot, Serializing, AbandonSnapshot, FreezeForSnapshot, BeginSnapshot,
                EndSnapshot, ThawAfterSnapshot
  <2>10. CASE Boot
    BY <2>2, <2>10 DEF Boot
  <2> QED
    BY <2>4, <2>5, <2>6, <2>7, <2>8, <2>9, <2>10 DEF Next
<1> HIDE DEF Still
<1>2. Spec => [][Still]_vars
  BY <1>1, TaskInvHolds, PTL DEF Spec
<1> QED
  BY <1>2 DEF Still, SnapshotIsPointInTime

-----------------------------------------------------------------------------
(* The log, the horizon and the disk *)

\* What ApplierInv says of a running node.
LEMMA RunningFacts ==
    ASSUME ApplierInv, Running
    PROVE  /\ TombstoneInv /\ RestoredInv /\ HorizonInv /\ LoopInv /\ CompactInv /\ InstallInv /\ LabelInv
           /\ RestOK
           /\ \A i \in log : Logged(last_committed + 1, i)
           /\ last_included <= last_committed
           /\ DataCovers
<1>1. RestOK
  BY DEF ApplierInv, TaskInv, TypeOK, RestOK
<1>2. status \notin {"Down", "Refused"}
  BY DEF Running
<1> QED
  BY <1>1, <1>2 DEF ApplierInv, RunInv, DiskInv

\* A step moves one task.
LEMMA OthersStay ==
    ASSUME TaskInv, NEW t \in Task, NEW from, NEW to, Step(t, from, to)
    PROVE  /\ pc[t] = from /\ pc'[t] = to /\ \A u \in Task \ {t} : pc'[u] = pc[u]
           /\ Running
BY DEF TaskInv, TypeOK, Step

\* The kinds of tasks are tasks, and exclude one another.
LEMMA Kinds ==
    /\ Compactors \subseteq Task /\ Installers \subseteq Task /\ Serializers \subseteq Task
    /\ Background \in Task
    /\ \A c \in Compactors : c \notin Installers /\ c \notin Serializers /\ c # Background
    /\ \A t \in Installers : t \notin Compactors /\ t \notin Serializers /\ t # Background
    /\ \A s \in Serializers : s \notin Compactors /\ s \notin Installers /\ s # Background
BY TaskAssumption DEF Task

\* While nothing is being restored, the state machine covers every horizon that
\* was reached and that is behind each accepted snapshot.
LEMMA StateCovers ==
    ASSUME ApplierInv, Running,
           \A t \in Installers : pc[t] # "restoring",
           NEW x \in 0..MaxIndex, Behind(x, last_applied),
           \A t \in Installers : Installs(t) => Behind(x, index[t])
    PROVE  x <= fsm_applied
<1>1. RestoredInv /\ HorizonInv /\ RestOK
  BY RunningFacts
<1>2. /\ x \in Int /\ restored \in Int /\ last_applied \in Int /\ fsm_applied \in Int
      /\ restored <= fsm_applied
  BY <1>1 DEF RestOK, RestoredInv
<1>3. CASE \E t \in Installers : pc[t] = "finalize"
  <2>1. PICK t \in Installers : pc[t] = "finalize"
    BY <1>3
  <2>2. Behind(x, index[t]) /\ index[t] <= restored
    BY <1>1, <2>1 DEF Installs, RestoredInv
  <2>3. index[t] \in Int
    BY <1>1, Kinds DEF RestOK
  <2> QED
    BY <1>2, <2>2, <2>3 DEF Behind
<1>4. CASE ~ \E t \in Installers : pc[t] = "finalize"
  <2>1. last_applied <= fsm_applied
    BY <1>1, <1>4 DEF HorizonInv
  <2> QED
    BY <1>2, <2>1 DEF Behind
<1> QED
  BY <1>3, <1>4

\* While nothing is being restored, the log goes on after the state machine.
LEMMA LogCovers ==
    ASSUME ApplierInv, Running,
           \A t \in Installers : pc[t] # "restoring"
    PROVE  Logged(fsm_applied + 1, last_committed)
<1>1. RestoredInv /\ HorizonInv /\ InstallInv /\ RestOK
  BY RunningFacts
<1>2. /\ restored \in Int /\ last_applied \in Int /\ fsm_applied \in Int
      /\ last_committed \in Int /\ restored <= fsm_applied
  BY <1>1 DEF RestOK, RestoredInv
<1> SUFFICES ASSUME NEW i \in (fsm_applied + 1)..last_committed PROVE i \in log
  BY DEF Logged
<1>3. i \in Int /\ i > fsm_applied /\ i > restored /\ i <= last_committed
  BY <1>2
<1>4. CASE \E t \in Installers : pc[t] = "finalize"
  <2>1. PICK t \in Installers : pc[t] = "finalize"
    BY <1>4
  <2>2. Kept(index[t]) /\ index[t] <= restored /\ index[t] \in Int
    BY <1>1, <2>1, Kinds DEF Installs, InstallInv, RestoredInv, RestOK
  <2>3. i \in (index[t] + 1)..last_committed
    BY <1>2, <1>3, <2>2
  <2> QED
    BY <1>3, <2>2, <2>3 DEF Kept
<1>5. CASE ~ \E t \in Installers : pc[t] = "finalize"
  <2>1. last_applied <= fsm_applied /\ Kept(last_applied)
    BY <1>1, <1>5 DEF HorizonInv
  <2>2. i \in (last_applied + 1)..last_committed
    BY <1>2, <1>3, <2>1
  <2> QED
    BY <1>3, <2>1, <2>2 DEF Kept
<1> QED
  BY <1>4, <1>5

\* What the steps below preserve.
Rest == RunInv /\ DiskInv /\ DataCovers

\* A step that only moves a task past the parts the invariant is about.
LEMMA QuietStep ==
    ASSUME ApplierInv, NEW t \in Task, NEW from, NEW to, Step(t, from, to),
           from \notin {"restoring", "finalize"},
           to \in {"idle", "woken", "enter", "serialize", "thaw"},
           to = "serialize" => from = "freeze",
           to = "thaw" /\ t \in Serializers => from = "reading",
           UNCHANGED <<logStore, fsm, status, last_applied, locals, history>>
    PROVE  Rest'
<1> USE DEF logStore, fsm, locals, history
<1>1. /\ pc[t] = from /\ pc'[t] = to /\ \A u \in Task \ {t} : pc'[u] = pc[u]
      /\ Running /\ Running'
  BY OthersStay DEF ApplierInv, Running
<1>2. /\ TombstoneInv /\ RestoredInv /\ HorizonInv /\ LoopInv /\ CompactInv /\ InstallInv /\ LabelInv
      /\ DataCovers
  BY <1>1, RunningFacts
<1>3. \A u \in Task : /\ pc'[u] \in {"restoring", "finalize", "restore", "loop", "advance", "save",
                                     "truncate", "freeze"} => pc[u] = pc'[u]
                      /\ pc[u] \in {"restoring", "finalize"} => pc'[u] = pc[u]
                      /\ pc'[u] = "serialize" => pc[u] \in {"serialize", "freeze"}
  BY <1>1
<1>4. TombstoneInv'
  BY <1>2, <1>3, Kinds DEF TombstoneInv
<1>5. RestoredInv' /\ HorizonInv'
  BY <1>2, <1>3, Kinds DEF RestoredInv, HorizonInv, Kept
<1>6. LoopInv'
  BY <1>2, <1>3 DEF LoopInv
<1>7. CompactInv'
  BY <1>2, <1>3, Kinds DEF CompactInv, Shortens
<1>8. InstallInv'
  BY <1>2, <1>3, Kinds DEF InstallInv, Shortens, Installs, Kept, Behind
<1>9. LabelInv'
  BY <1>2, <1>3, Kinds DEF LabelInv, Labels, Installs, Behind
<1>10. DiskInv'
  BY DEF DiskInv, Logged, ApplierInv
<1>11. DataCovers'
  BY <1>1, <1>2, Kinds DEF DataCovers
<1> QED
  BY <1>4, <1>5, <1>6, <1>7, <1>8, <1>9, <1>10, <1>11 DEF Rest, RunInv

\* Consensus appends after the end of the log, and commits up to it.
LEMMA ConsensusRest ==
    ASSUME ApplierInv, Consensus
    PROVE  Rest'
<1> USE DEF logStore, fsm, process, shell, locals, history
<1>1. Running /\ Running'
  BY DEF Consensus, AppendEntries, AdvanceCommitted, ChangeRole, Running
<1>2. /\ TombstoneInv /\ RestoredInv /\ HorizonInv /\ LoopInv /\ CompactInv /\ InstallInv /\ LabelInv /\ RestOK
      /\ \A i \in log : Logged(last_committed + 1, i)
      /\ last_included <= last_committed
      /\ DataCovers
  BY <1>1, RunningFacts
<1>3. UNCHANGED <<pc, locals, fsm, last_applied, last_included, history>>
  BY DEF Consensus, AppendEntries, AdvanceCommitted, ChangeRole
<1>4. TombstoneInv' /\ RestoredInv' /\ CompactInv' /\ LabelInv' /\ DataCovers'
  BY <1>2, <1>3 DEF TombstoneInv, RestoredInv, CompactInv, LabelInv, DataCovers, Shortens,
                    Labels, Installs, Behind
<1>5. /\ last_log_index \in 0..MaxIndex
      /\ last_log_index \in log \cup {last_included}
      /\ \A i \in log \cup {last_included} : i <= last_log_index
  BY LastIs DEF ApplierInv, TaskInv
<1>6. /\ last_committed' \in Int /\ last_committed <= last_committed' /\ log \subseteq log'
      /\ \A i \in (last_committed + 1)..last_committed' : i \in log'
      /\ \A i \in log' : \A j \in (last_committed' + 1)..i : j \in log'
  <2>1. CASE AppendEntries
    <3>1. log' = log \cup {last_log_index + 1} /\ last_committed' = last_committed
      BY <2>1 DEF AppendEntries
    <3>2. ASSUME NEW i \in log', NEW j \in (last_committed + 1)..i PROVE j \in log'
      <4>1. CASE i \in log
        BY <1>2, <3>1, <3>2, <4>1 DEF Logged
      <4>2. CASE i = last_log_index + 1 /\ j = i
        BY <3>1, <4>2
      <4>3. CASE i = last_log_index + 1 /\ j # i
        <5>1. j \in Int /\ last_committed < j /\ j <= last_log_index
          BY <1>2, <1>5, <3>2, <4>3 DEF RestOK
        <5>2. last_log_index \in log
          BY <1>2, <1>5, <5>1 DEF RestOK
        <5>3. j \in (last_committed + 1)..last_log_index
          BY <1>2, <1>5, <5>1 DEF RestOK
        <5> QED
          BY <1>2, <3>1, <5>2, <5>3 DEF Logged
      <4> QED
        BY <3>1, <3>2, <4>1, <4>2, <4>3
    <3> QED
      BY <1>2, <3>1, <3>2 DEF RestOK
  <2>2. CASE AdvanceCommitted
    <3>1. PICK n \in (last_committed + 1)..last_log_index : last_committed' = n
      BY <2>2 DEF AdvanceCommitted
    <3>2. log' = log
      BY <2>2 DEF AdvanceCommitted
    <3>3. last_log_index \in log
      BY <1>2, <1>5, <3>1 DEF RestOK
    <3>4. Logged(last_committed + 1, last_log_index)
      BY <1>2, <3>3
    <3>5. n \in Int /\ last_committed < n /\ n <= last_log_index
      BY <1>2, <1>5, <3>1 DEF RestOK
    <3>6. \A i \in (last_committed + 1)..n : i \in log
      BY <1>2, <1>5, <3>4, <3>5 DEF Logged, RestOK
    <3>7. ASSUME NEW i \in log, NEW j \in (n + 1)..i PROVE j \in log
      <4>1. j \in (last_committed + 1)..i
        BY <1>2, <3>5, <3>7 DEF RestOK
      <4> QED
        BY <1>2, <4>1 DEF Logged
    <3> QED
      BY <1>2, <3>1, <3>2, <3>5, <3>6, <3>7 DEF RestOK
  <2>3. CASE ChangeRole
    BY <1>2, <2>3 DEF ChangeRole, RestOK, Logged
  <2> QED
    BY <2>1, <2>2, <2>3 DEF Consensus
<1>7. ASSUME NEW k \in 0..MaxIndex, Kept(k)
      PROVE  \A i \in (k + 1)..last_committed' : i > restored => i \in log'
  <2> SUFFICES ASSUME NEW i \in (k + 1)..last_committed', i > restored PROVE i \in log'
    OBVIOUS
  <2>1. i \in Int /\ (i \in (k + 1)..last_committed \/ i \in (last_committed + 1)..last_committed')
    BY <1>2, <1>6, <1>7 DEF RestOK
  <2> QED
    BY <1>6, <1>7, <2>1 DEF Kept
<1>8. HorizonInv'
  BY <1>2, <1>3, <1>6, <1>7 DEF HorizonInv, Kept, RestOK
<1>9. LoopInv'
  BY <1>2, <1>3, <1>6 DEF LoopInv, RestOK
<1>10. InstallInv'
  <2>1. \A t \in Installers : index[t] \in 0..MaxIndex
    BY <1>2, Kinds DEF RestOK
  <2>2. \A t \in Installers : Installs(t) =>
            \A i \in (index[t] + 1)..last_committed' : i > restored => i \in log'
    BY <1>2, <1>7, <2>1 DEF InstallInv
  <2> QED
    BY <1>2, <1>3, <2>2 DEF InstallInv, Installs, Shortens, Kept, Behind
<1>11. DiskInv'
  <2>1. last_included' <= last_committed'
    BY <1>2, <1>3, <1>6 DEF RestOK
  <2>2. \A i \in log' : (last_committed' + 1)..i \subseteq log'
    BY <1>6
  <2> QED
    BY <2>1, <2>2, Zenon DEF DiskInv, Logged
<1> QED
  BY <1>4, <1>8, <1>9, <1>10, <1>11 DEF Rest, RunInv

\* The applier wakes up, and drops the wake-up while frozen.
LEMMA WakingRest ==
    ASSUME ApplierInv, Wake \/ CheckFrozen
    PROVE  Rest'
<1> USE DEF process, horizon, history
<1>1. CASE Wake
  BY <1>1, Kinds, QuietStep DEF Wake
<1>2. CASE CheckFrozen
  <2>1. PICK to \in {"idle", "enter"} : Step(Background, "woken", to)
    BY <1>2 DEF CheckFrozen
  <2> QED
    BY <1>2, <2>1, Kinds, QuietStep DEF CheckFrozen
<1> QED
  BY <1>1, <1>2

\* A step that halts the node leaves the disk and the snapshots as they are.
LEMMA PoisonRest ==
    ASSUME ApplierInv, Running, status' = "Poisoned", UNCHANGED logStore,
           \A s \in Serializers : pc'[s] = pc[s] /\ applied'[s] = applied[s] /\ index'[s] = index[s]
    PROVE  Rest'
<1>1. /\ \A i \in log : Logged(last_committed + 1, i)
      /\ last_included <= last_committed
      /\ DataCovers
  BY RunningFacts
<1>2. RunInv'
  BY DEF RunInv, Running
<1>3. DiskInv'
  BY <1>1 DEF DiskInv, Logged, logStore
<1>4. DataCovers'
  BY <1>1 DEF DataCovers
<1> QED
  BY <1>2, <1>3, <1>4 DEF Rest

\* Taking the lock and reading the horizons.
LEMMA EnterRest ==
    ASSUME ApplierInv, NEW t \in {Background} \cup Compactors, EnterApply(t)
    PROVE  Rest'
<1> USE DEF logStore, fsm, horizon, history
<1>0. t \in Task /\ t \notin Serializers /\ t \notin Installers
  BY Kinds
<1>1. /\ pc[t] = "enter" /\ pc'[t] = "loop" /\ \A u \in Task \ {t} : pc'[u] = pc[u]
      /\ Running
  BY <1>0, OthersStay DEF ApplierInv, EnterApply
<1>2. /\ TombstoneInv /\ RestoredInv /\ HorizonInv /\ LoopInv /\ CompactInv /\ InstallInv /\ LabelInv /\ RestOK
      /\ DataCovers
  BY <1>1, RunningFacts
<1>3. /\ UNCHANGED <<logStore, fsm, last_applied, index, history>>
      /\ \A u \in Task \ {t} : applied'[u] = applied[u] /\ committed'[u] = committed[u]
      /\ committed'[t] = last_committed
  BY <1>0, <1>2 DEF EnterApply, RestOK
<1>4. status' = "Running"
  <2>1. ~(last_applied > last_committed)
    BY <1>2 DEF HorizonInv, RestOK
  <2> QED
    BY <1>1, <2>1 DEF EnterApply, Running
<1>5. TombstoneInv' /\ RestoredInv' /\ HorizonInv'
  BY <1>0, <1>1, <1>2, <1>3, Kinds DEF TombstoneInv, RestoredInv, HorizonInv, Kept
<1>6. LoopInv'
  BY <1>0, <1>1, <1>2, <1>3 DEF LoopInv, RestOK
<1>7. CompactInv' /\ InstallInv' /\ LabelInv'
  BY <1>0, <1>1, <1>2, <1>3, Kinds DEF CompactInv, InstallInv, LabelInv, Shortens, Installs,
                                       Labels, Kept, Behind
<1>8. DataCovers'
  BY <1>0, <1>1, <1>2, <1>3, Kinds DEF DataCovers
<1>9. DiskInv'
  BY <1>1, <1>3, <1>4 DEF DiskInv, Logged, ApplierInv, Running
<1> QED
  BY <1>5, <1>6, <1>7, <1>8, <1>9 DEF Rest, RunInv

\* Applying an entry: the holder of the lock is alone with the state machine.
LEMMA ApplyRest ==
    ASSUME ApplierInv, NEW t \in {Background} \cup Compactors, ApplyEntry(t)
    PROVE  Rest'
<1> USE DEF logStore, fsm, horizon, locals, shell, history
<1>0. t \in Task /\ t \notin Serializers /\ t \notin Installers
  BY Kinds
<1>1. /\ pc[t] = "loop" /\ pc'[t] = "advance" /\ \A u \in Task \ {t} : pc'[u] = pc[u]
      /\ Running
  BY <1>0, OthersStay DEF ApplierInv, ApplyEntry
<1>2. /\ TombstoneInv /\ RestoredInv /\ HorizonInv /\ LoopInv /\ CompactInv /\ InstallInv /\ LabelInv /\ RestOK
      /\ DataCovers
  BY <1>1, RunningFacts
<1>3. UNCHANGED <<logStore, restore_in_progress, last_applied, locals, history>>
  BY DEF ApplyEntry
<1>4. CASE status' = "Poisoned"
  BY <1>0, <1>1, <1>3, <1>4, Kinds, PoisonRest
<1>5. CASE status' # "Poisoned"
  <2>1. status' = "Running" /\ fsm_applied' = applied[t] + 1 /\ fsm_applied' = fsm_applied + 1
    BY <1>1, <1>5 DEF ApplyEntry, poison, Running
  <2>2. \A u \in Task \ {t} : pc[u] # "advance"
    <3>1. fsm_lock = t
      BY <1>0, <1>1 DEF ApplierInv, TaskInv, LockInv, Holding
    <3> QED
      BY <3>1 DEF ApplierInv, TaskInv, LockInv, Holding
  <2>3. fsm_applied < fsm_applied' /\ fsm_applied \in Int /\ fsm_applied' \in Int
    BY <1>2, <2>1 DEF RestOK
  <2>4. TombstoneInv'
    BY <1>0, <1>1, <1>2, <1>3, Kinds DEF TombstoneInv
  <2>5. RestoredInv' /\ HorizonInv'
    <3>1. /\ last_applied <= fsm_applied => last_applied <= fsm_applied'
          /\ restored <= fsm_applied => restored <= fsm_applied'
      BY <1>2, <2>3 DEF RestOK
    <3> QED
      BY <1>0, <1>1, <1>2, <1>3, <3>1, Kinds DEF RestoredInv, HorizonInv, Kept
  <2>6. LoopInv'
    BY <1>0, <1>1, <1>2, <1>3, <2>1, <2>2 DEF LoopInv
  <2>7. CompactInv' /\ LabelInv'
    BY <1>0, <1>1, <1>2, <1>3, Kinds DEF CompactInv, LabelInv, Shortens, Installs, Labels,
                                         Behind
  <2>8. InstallInv'
    BY <1>0, <1>1, <1>2, <1>3, Kinds DEF InstallInv, Shortens, Installs, Kept, Behind
  <2>9. DataCovers'
    BY <1>0, <1>1, <1>2, <1>3, Kinds DEF DataCovers
  <2>10. DiskInv'
    BY <1>1, <1>3, <2>1 DEF DiskInv, Logged, ApplierInv, Running
  <2> QED
    BY <2>4, <2>5, <2>6, <2>7, <2>8, <2>9, <2>10 DEF Rest, RunInv
<1> QED
  BY <1>4, <1>5

\* Moving the horizon to the entry just applied.
LEMMA AdvanceRest ==
    ASSUME ApplierInv, NEW t \in {Background} \cup Compactors, AdvanceHorizon(t)
    PROVE  Rest'
<1> USE DEF logStore, fsm, horizon, shell, history
<1>0. t \in Task /\ t \notin Serializers /\ t \notin Installers
  BY Kinds
<1>1. /\ pc[t] = "advance" /\ pc'[t] = "loop" /\ \A u \in Task \ {t} : pc'[u] = pc[u]
      /\ Running
  BY <1>0, OthersStay DEF ApplierInv, AdvanceHorizon
<1>2. /\ TombstoneInv /\ RestoredInv /\ HorizonInv /\ LoopInv /\ CompactInv /\ InstallInv /\ LabelInv /\ RestOK
      /\ DataCovers
  BY <1>1, RunningFacts
<1>3. /\ UNCHANGED <<logStore, fsm, index, history>>
      /\ \A u \in Task \ {t} : applied'[u] = applied[u] /\ committed'[u] = committed[u]
  BY <1>0, <1>2 DEF AdvanceHorizon, RestOK
<1>4. CASE status' = "Poisoned"
  BY <1>0, <1>1, <1>3, <1>4, Kinds, PoisonRest
<1>5. CASE status' # "Poisoned"
  <2>1. /\ status' = "Running" /\ last_applied' = applied[t] + 1
        /\ committed'[t] = last_committed
    BY <1>0, <1>1, <1>2, <1>5 DEF AdvanceHorizon, poison, Running, RestOK
  <2>2. last_applied' = fsm_applied
    BY <1>0, <1>1, <1>2, <2>1 DEF LoopInv
  <2>3. \A i \in Installers : pc[i] # "restoring"
    <3>1. fsm_lock = t
      BY <1>0, <1>1 DEF ApplierInv, TaskInv, LockInv, Holding
    <3> QED
      BY <1>0, <3>1, Kinds DEF ApplierInv, TaskInv, LockInv, Holding
  <2>4. ASSUME NEW x \in 0..MaxIndex, Behind(x, last_applied),
               \A i \in Installers : Installs(i) => Behind(x, index[i])
        PROVE  x <= last_applied'
    BY <1>1, <2>2, <2>3, <2>4, StateCovers
  <2>5. TombstoneInv' /\ RestoredInv'
    BY <1>0, <1>1, <1>2, <1>3, Kinds DEF TombstoneInv, RestoredInv
  <2>6. HorizonInv'
    <3>1. last_applied' <= last_committed
      <4>1. applied[t] < committed[t] /\ committed[t] <= last_committed
        BY <1>0, <1>1, <1>2 DEF LoopInv, ApplierInv, TaskInv, AdvanceInv
      <4> QED
        BY <1>0, <1>2, <2>1, <4>1 DEF RestOK
    <3>2. last_included <= last_applied'
      BY <1>2, <2>4 DEF HorizonInv, InstallInv, RestOK, Behind
    <3>3. Logged(fsm_applied + 1, last_committed)
      BY <1>1, <2>3, LogCovers
    <3>4. fsm_applied <= fsm_applied
      BY <1>2 DEF RestOK
    <3> QED
      BY <1>3, <2>2, <3>1, <3>2, <3>3, <3>4 DEF HorizonInv, Logged, Kept
  <2>7. LoopInv'
    BY <1>0, <1>1, <1>2, <1>3, <2>1 DEF LoopInv, RestOK
  <2>8. CompactInv'
    <3>1. ASSUME NEW c \in Compactors, Shortens(c) PROVE index[c] <= last_applied'
      <4>1. index[c] \in 0..MaxIndex
        BY <1>2, Kinds DEF RestOK
      <4>2. \A i \in Installers : index[i] \in 0..MaxIndex
        BY <1>2, Kinds DEF RestOK
      <4> QED
        BY <1>2, <2>4, <3>1, <4>1, <4>2 DEF CompactInv, InstallInv, Behind
    <3>2. \A c \in Compactors : pc'[c] \in {"save", "truncate"} => pc[c] = pc'[c]
      BY <1>0, <1>1, Kinds
    <3> QED
      BY <1>3, <3>1, <3>2 DEF CompactInv, Shortens
  <2>9. LabelInv'
    <3>1. ASSUME NEW s \in Serializers, Labels(s) PROVE index[s] <= last_applied'
      <4>1. index[s] \in 0..MaxIndex
        BY <1>2, Kinds DEF RestOK
      <4> QED
        BY <1>2, <2>4, <3>1, <4>1 DEF LabelInv
    <3> QED
      BY <1>0, <1>1, <1>2, <1>3, <3>1, Kinds DEF LabelInv, Labels, Installs,
                                                Behind
  <2>10. InstallInv'
    BY <1>0, <1>1, <1>2, <1>3, Kinds DEF InstallInv, Shortens, Installs, Kept, Behind
  <2>11. DataCovers'
    BY <1>0, <1>1, <1>2, <1>3, Kinds DEF DataCovers
  <2>12. DiskInv'
    BY <1>1, <1>3, <2>1 DEF DiskInv, Logged, ApplierInv, Running
  <2> QED
    BY <2>5, <2>6, <2>7, <2>8, <2>9, <2>10, <2>11, <2>12 DEF Rest, RunInv
<1> QED
  BY <1>4, <1>5

\* The apply loop.
LEMMA ApplyingRest ==
    ASSUME ApplierInv, NEW t \in {Background} \cup Compactors, Applying(t)
    PROVE  Rest'
<1>1. CASE LeaveApply(t)
  BY <1>1, Kinds, QuietStep DEF LeaveApply, process, horizon, history
<1> QED
  BY <1>1, EnterRest, ApplyRest, AdvanceRest DEF Applying

\* Compaction reads the horizon while nothing is frozen, so before any snapshot
\* is accepted, and removes what is behind it.
LEMMA CompactingRest ==
    ASSUME ApplierInv, NEW c \in Compactors, StartCompaction(c) \/ Compacting(c)
    PROVE  Rest'
<1> USE DEF logStore, fsm, horizon, locals, process, history
<1>0. c \in Task /\ c \notin Serializers /\ c \notin Installers
  BY Kinds
<1>1. CASE ThawAfterCompaction(c)
  BY <1>0, <1>1, QuietStep DEF ThawAfterCompaction
<1>2. CASE ~ThawAfterCompaction(c)
  <2>0. /\ Running /\ Running' /\ UNCHANGED <<fsm, status, last_applied, last_committed, applied, committed, history>>
        /\ pc'[c] \in {"save", "truncate", "thaw"} /\ pc[c] \in {"idle", "save", "truncate"}
        /\ \A u \in Task \ {c} : pc'[u] = pc[u]
    <3>1. PICK from \in {"idle", "save", "truncate"}, to \in {"save", "truncate", "thaw"} :
             Step(c, from, to)
      BY <1>2 DEF StartCompaction, Compacting, SaveMetadata, TruncateFront
    <3> QED
      BY <1>0, <1>2, <3>1, OthersStay DEF ApplierInv, Running, StartCompaction, Compacting, SaveMetadata, TruncateFront
  <2>1. /\ TombstoneInv /\ RestoredInv /\ HorizonInv /\ LoopInv /\ CompactInv /\ InstallInv /\ LabelInv /\ RestOK
        /\ \A i \in log : Logged(last_committed + 1, i)
        /\ last_included <= last_committed
        /\ DataCovers
    BY <2>0, RunningFacts
  <2>2. /\ index'[c] \in 0..MaxIndex /\ index'[c] <= last_applied
        /\ \A t \in Installers : Installs(t) => index'[c] < index[t]
        /\ \A u \in Task \ {c} : index'[u] = index[u]
    <3>1. CASE StartCompaction(c)
      <4>1. index'[c] = last_applied /\ \A u \in Task \ {c} : index'[u] = index[u]
        BY <1>0, <2>1, <3>1 DEF StartCompaction, compaction_index, RestOK
      <4>2. Freezers = {}
        <5>1. ~(freeze_depth > 0) /\ freeze_depth \in Nat /\ freeze_depth = Cardinality(Freezers)
          BY <3>1 DEF StartCompaction, is_frozen, ApplierInv, TaskInv, TypeOK, FreezeInv
        <5>2. IsFiniteSet(Freezers)
          BY TaskAssumption, FS_Subset DEF Freezers
        <5>3. Cardinality(Freezers) = 0
          BY <5>1
        <5> QED
          BY <5>2, <5>3, FS_EmptySet
      <4>3. \A t \in Installers : ~Installs(t)
        BY <4>2, Kinds DEF Freezers, Freezing, Installs
      <4> QED
        BY <2>1, <4>1, <4>3 DEF RestOK
    <3>2. CASE SaveMetadata(c) \/ TruncateFront(c)
      <4>1. index' = index /\ Shortens(c)
        BY <3>2 DEF SaveMetadata, TruncateFront, Shortens, Step
      <4> QED
        BY <1>0, <2>1, <4>1 DEF CompactInv, InstallInv, RestOK
    <3> QED
      BY <1>2, <3>1, <3>2 DEF Compacting
  <2>3. /\ last_included' \in 0..MaxIndex /\ last_included' <= last_applied
        /\ \A t \in Installers : Installs(t) => Behind(last_included', index[t])
    <3>1. last_included' \in {last_included, index'[c]}
      BY <1>2 DEF StartCompaction, Compacting, SaveMetadata, TruncateFront
    <3>2. \A t \in Installers : index[t] \in 0..MaxIndex
      BY <2>1, Kinds DEF RestOK
    <3> QED
      BY <2>1, <2>2, <3>1, <3>2 DEF HorizonInv, InstallInv, RestOK, Behind
  <2>4. log' \subseteq log /\ \A i \in log : i > index'[c] => i \in log'
    BY <1>2 DEF StartCompaction, Compacting, SaveMetadata, TruncateFront
  <2>5. ASSUME NEW k \in 0..MaxIndex, index'[c] <= k, NEW m \in 0..MaxIndex, Logged(k + 1, m)
        PROVE  \A i \in (k + 1)..m : i \in log'
    BY <2>2, <2>4, <2>5, IndexAssumption DEF Logged
  <2>14. ASSUME NEW k \in 0..MaxIndex, index'[c] <= k, Kept(k)
         PROVE  \A i \in (k + 1)..last_committed : i > restored => i \in log'
    <3> SUFFICES ASSUME NEW i \in (k + 1)..last_committed, i > restored PROVE i \in log'
      OBVIOUS
    <3>1. i \in log
      BY <2>14 DEF Kept
    <3>2. i > index'[c]
      BY <2>1, <2>2, <2>14 DEF RestOK
    <3> QED
      BY <2>4, <3>1, <3>2
  <2>6. \A t \in Installers : /\ Installs(t)' = Installs(t)
                              /\ index'[t] = index[t] /\ pc'[t] = pc[t] /\ index[t] \in 0..MaxIndex
    BY <1>0, <2>0, <2>1, <2>2, Kinds DEF Installs, RestOK
  <2>7. TombstoneInv' /\ RestoredInv'
    BY <2>0, <2>1, <2>6 DEF TombstoneInv, RestoredInv
  <2>8. HorizonInv'
    <3>1. \A i \in (last_applied + 1)..last_committed : i > restored => i \in log'
      BY <2>1, <2>2, <2>14 DEF HorizonInv, RestOK
    <3> QED
      BY <2>0, <2>1, <2>3, <2>6, <3>1 DEF HorizonInv, Kept
  <2>9. LoopInv'
    BY <2>0, <2>1 DEF LoopInv
  <2>10. CompactInv'
    BY <1>0, <2>0, <2>1, <2>2, Kinds DEF CompactInv, Shortens
  <2>11. InstallInv'
    <3>1. ASSUME NEW t \in Installers, Installs(t)
          PROVE  \A i \in (index[t] + 1)..last_committed : i > restored => i \in log'
      <4>1. index'[c] <= index[t] /\ Kept(index[t])
        BY <2>1, <2>2, <2>6, <3>1 DEF InstallInv
      <4> QED
        BY <2>1, <2>6, <2>14, <4>1
    <3>2. ASSUME NEW t \in Installers, Installs(t), NEW d \in Compactors, Shortens(d)'
          PROVE  index'[d] < index[t]
      BY <1>0, <2>0, <2>1, <2>2, <3>2, Kinds DEF InstallInv, Shortens
    <3> QED
      BY <2>0, <2>1, <2>3, <2>6, <3>1, <3>2 DEF InstallInv, Kept, Behind
  <2>12. LabelInv' /\ DataCovers'
    BY <1>0, <2>0, <2>1, <2>2, <2>6, Kinds DEF LabelInv, Labels, DataCovers, Behind
  <2>13. DiskInv'
    <3>1. last_included' <= last_committed'
      BY <2>0, <2>1, <2>3 DEF HorizonInv, RestOK
    <3>2. index'[c] <= last_committed
      BY <2>1, <2>2 DEF HorizonInv, RestOK
    <3>3. \A i \in log' : (last_committed' + 1)..i \subseteq log'
      <4>1. ASSUME NEW i \in log' PROVE \A j \in (last_committed + 1)..i : j \in log'
        <5>1. i \in 0..MaxIndex /\ Logged(last_committed + 1, i) /\ last_committed \in 0..MaxIndex
          BY <2>1, <2>4, <4>1, IndexAssumption DEF RestOK
        <5> QED
          BY <2>5, <3>2, <5>1
      <4> QED
        BY <2>0, <4>1
    <3> QED
      BY <3>1, <3>3, Zenon DEF DiskInv, Logged
  <2> QED
    BY <2>7, <2>8, <2>9, <2>10, <2>11, <2>12, <2>13 DEF Rest, RunInv
<1> QED
  BY <1>1, <1>2

\* A snapshot is accepted, restored under the lock, and made the horizon.
LEMMA InstallingRest ==
    ASSUME ApplierInv, NEW t \in Installers, AcceptSnapshot(t) \/ Installing(t),
           ~clashed'
    PROVE  Rest'
<1> USE DEF logStore, fsm, horizon, locals, process, history
<1>0. t \in Task /\ t \notin Serializers /\ t \notin Compactors /\ t # Background
  BY Kinds
<1>1. PICK from, to : Step(t, from, to)
  BY DEF AcceptSnapshot, Installing, ClearState, FinalizeRestoration, FinalizeInstall
<1>2. /\ Running /\ pc[t] = from /\ pc'[t] = to /\ \A u \in Task \ {t} : pc'[u] = pc[u]
  BY <1>0, <1>1, OthersStay DEF ApplierInv
<1>3. /\ TombstoneInv /\ RestoredInv /\ HorizonInv /\ LoopInv /\ CompactInv /\ InstallInv /\ LabelInv /\ RestOK
      /\ \A i \in log : Logged(last_committed + 1, i)
      /\ last_included <= last_committed
      /\ DataCovers
  BY <1>2, RunningFacts
<1>4. /\ log' = log /\ applied' = applied /\ committed' = committed /\ status' = status /\ Running'
      /\ \A u \in Task \ {t} : index'[u] = index[u]
  BY <1>0, <1>2, <1>3 DEF AcceptSnapshot, Installing, ClearState, FinalizeRestoration,
                          FinalizeInstall, Running, RestOK
<1>5. DataCovers'
  BY <1>0, <1>2, <1>3, <1>4, Kinds DEF DataCovers
<1>6. index[t] \in 0..MaxIndex
  BY <1>0, <1>3 DEF RestOK
<1>7. CASE AcceptSnapshot(t)
  <2>1. /\ UNCHANGED <<last_committed, last_included, last_applied, fsm, history>>
        /\ pc[t] = "idle" /\ pc'[t] = "restore"
    BY <1>0, <1>7, OthersStay DEF AcceptSnapshot, ApplierInv
  <2>2. index'[t] \in 0..MaxIndex /\ last_applied < index'[t]
    <3>1. PICK i \in (last_applied + 1)..MaxIndex : index' = [index EXCEPT ![t] = i]
      BY <1>7 DEF AcceptSnapshot
    <3>2. index'[t] = i
      BY <1>0, <1>3, <3>1 DEF RestOK
    <3> QED
      BY <1>3, <3>1, <3>2, IndexAssumption DEF RestOK
  <2>0. \A u \in Installers : u # t => pc'[u] = pc[u] /\ index'[u] = index[u]
    BY <1>2, <1>4, Kinds
  <2>3. TombstoneInv' /\ RestoredInv'
    BY <1>0, <1>3, <2>0, <2>1 DEF TombstoneInv, RestoredInv
  <2>4. HorizonInv'
    BY <1>0, <1>3, <1>4, <2>0, <2>1 DEF HorizonInv, Kept
  <2>5. LoopInv'
    BY <1>0, <1>2, <1>3, <1>4, <2>1 DEF LoopInv
  <2>6. CompactInv'
    BY <1>0, <1>2, <1>3, <1>4, <2>1, Kinds DEF CompactInv, Shortens
  <2>7. InstallInv'
    <3>1. last_included <= index'[t]
      BY <1>3, <2>2 DEF HorizonInv, RestOK
    <3>2. \A i \in (index'[t] + 1)..last_committed : i > restored => i \in log
      <4> SUFFICES ASSUME NEW i \in (index'[t] + 1)..last_committed, i > restored PROVE i \in log
        OBVIOUS
      <4>1. i \in (last_applied + 1)..last_committed
        BY <1>3, <2>2 DEF RestOK
      <4> QED
        BY <1>3, <4>1 DEF HorizonInv, Kept
    <3>3. ASSUME NEW c \in Compactors, Shortens(c)' PROVE index'[c] < index'[t]
      <4>1. index'[c] = index[c] /\ index[c] <= last_applied /\ index[c] \in 0..MaxIndex
        BY <1>0, <1>2, <1>3, <1>4, <3>3, Kinds DEF CompactInv, Shortens, RestOK
      <4> QED
        BY <1>3, <2>2, <4>1 DEF RestOK
    <3>4. ASSUME NEW c \in Compactors, Shortens(c)' PROVE Shortens(c) /\ index'[c] = index[c]
      BY <1>0, <1>2, <1>4, <3>4, Kinds DEF Shortens
    <3>5. ASSUME NEW u \in Installers, Installs(u)'
          PROVE  /\ Behind(last_included, index'[u])
                 /\ \A i \in (index'[u] + 1)..last_committed : i > restored => i \in log
                 /\ \A c \in Compactors : Shortens(c)' => index'[c] < index'[u]
      <4>1. CASE u = t
        BY <3>1, <3>2, <3>3, <4>1 DEF Behind
      <4>2. CASE u # t
        <5>1. Installs(u) /\ index'[u] = index[u]
          BY <2>0, <3>5, <4>2 DEF Installs
        <5> QED
          BY <1>3, <3>4, <5>1 DEF InstallInv, Kept
      <4> QED
        BY <4>1, <4>2
    <3> QED
      BY <1>4, <2>1, <3>5 DEF InstallInv, Kept, Behind
  <2>8. LabelInv'
    <3>1. ASSUME NEW s \in Serializers, Labels(s)'
          PROVE  /\ Labels(s) /\ index'[s] = index[s]
                 /\ Behind(index'[s], last_applied) /\ Behind(index'[s], index'[t])
      <4>1. /\ index'[s] = index[s] /\ Behind(index[s], last_applied)
            /\ index[s] \in 0..MaxIndex /\ Labels(s)
        BY <1>0, <1>2, <1>3, <1>4, <3>1, Kinds DEF LabelInv, Labels, RestOK
      <4> QED
        BY <1>3, <2>2, <4>1 DEF RestOK, Behind
    <3>2. ASSUME NEW s \in Serializers, Labels(s)', NEW u \in Installers, Installs(u)'
          PROVE  Behind(index'[s], index'[u])
      <4>1. CASE u = t
        BY <3>1, <3>2, <4>1
      <4>2. CASE u # t
        BY <1>3, <2>0, <3>1, <3>2, <4>2 DEF LabelInv, Installs
      <4> QED
        BY <4>1, <4>2
    <3> QED
      BY <2>1, <3>1, <3>2 DEF LabelInv, Behind
  <2>9. DiskInv'
    BY <1>2, <1>4, <2>1 DEF DiskInv, ApplierInv, Logged
  <2> QED
    BY <1>5, <2>3, <2>4, <2>5, <2>6, <2>7, <2>8, <2>9 DEF Rest, RunInv
<1>8. CASE ClearState(t) \/ FinalizeRestoration(t)
  <2>1. /\ UNCHANGED <<last_committed, last_included, last_applied, index>>
        /\ pc'[t] \in {"restoring", "finalize"} /\ Installs(t)
        /\ restore_in_progress' <=> pc'[t] = "restoring"
        /\ restored' \in 0..MaxIndex /\ restored <= restored'
        /\ pc'[t] = "finalize" => fsm_applied' = index[t] /\ restored' = index[t]
    <3>1. CASE ClearState(t)
      <4>1. pc[t] = "restore" /\ pc'[t] = "restoring"
        BY <1>0, <3>1, OthersStay DEF ClearState, ApplierInv
      <4> QED
        BY <1>3, <3>1, <4>1 DEF ClearState, Installs, RestOK
    <3>2. CASE FinalizeRestoration(t)
      <4>1. pc[t] = "restoring" /\ pc'[t] = "finalize"
        BY <1>0, <3>2, OthersStay DEF FinalizeRestoration, ApplierInv
      <4>2. ~(index[t] < restored) /\ restored' = Max({restored, index[t]})
        BY <3>2 DEF FinalizeRestoration
      <4>3. /\ restored \in 0..MaxIndex
            /\ restored' \in {restored, index[t]} /\ restored <= restored' /\ index[t] <= restored'
        BY <1>3, <1>6, <4>2, MaxOfTwo DEF RestOK
      <4>4. restored' = index[t]
        BY <1>6, <4>2, <4>3
      <4> QED
        BY <1>6, <3>2, <4>1, <4>3, <4>4 DEF FinalizeRestoration, Installs
    <3> QED
      BY <1>8, <3>1, <3>2
  <2>2. \A u \in Task : pc[u] # "advance" /\ (u # t => pc[u] # "restoring")
    <3>1. fsm_lock = None \/ (fsm_lock = t /\ pc[t] = "restoring")
      <4>1. CASE ClearState(t)
        BY <4>1 DEF ClearState
      <4>2. CASE FinalizeRestoration(t)
        BY <1>0, <4>2 DEF FinalizeRestoration, Step, ApplierInv, TaskInv, LockInv, Holding
      <4> QED
        BY <1>8, <4>1, <4>2
    <3> QED
      BY <1>0, <3>1, TaskAssumption DEF ApplierInv, TaskInv, LockInv, Holding
  <2>10. ASSUME NEW x \in Int, NEW k \in Int, Behind(x, k) PROVE Behind(x, k)'
    BY <1>3, <2>1, <2>10 DEF Behind, RestOK
  <2>11. \A u \in Installers : /\ Installs(u)' => Installs(u)
                               /\ u # t => pc'[u] = pc[u] /\ pc'[u] # "restoring"
                               /\ index[u] \in 0..MaxIndex
    BY <1>2, <1>3, <2>1, <2>2, Kinds DEF Installs, RestOK
  <2>3. TombstoneInv'
    BY <2>1, <2>11 DEF TombstoneInv
  <2>12. RestoredInv'
    <3>1. \A u \in Installers : pc'[u] = "finalize" => index[u] <= restored'
      <4> SUFFICES ASSUME NEW u \in Installers, pc'[u] = "finalize" PROVE index[u] <= restored'
        OBVIOUS
      <4>1. CASE u = t
        BY <1>6, <2>1, <4>1
      <4>2. CASE u # t
        BY <1>3, <2>1, <2>11, <4>2 DEF RestoredInv, RestOK
      <4> QED
        BY <4>1, <4>2
    <3>2. (\A u \in Installers : pc'[u] # "restoring") => restored' <= fsm_applied'
      BY <1>6, <2>1
    <3> QED
      BY <2>1, <3>1, <3>2 DEF RestoredInv
  <2>4. HorizonInv'
    <3>1. Kept(last_applied)'
      BY <1>3, <1>4, <2>1 DEF HorizonInv, Kept, RestOK
    <3> QED
      BY <1>3, <1>4, <2>1, <3>1 DEF HorizonInv
  <2>5. LoopInv'
    BY <1>2, <1>3, <1>4, <2>1, <2>2 DEF LoopInv
  <2>6. CompactInv'
    BY <1>0, <1>2, <1>3, <2>1, Kinds DEF CompactInv, Shortens
  <2>7. InstallInv'
    <3> SUFFICES ASSUME NEW u \in Installers, Installs(u)'
                 PROVE  /\ Behind(last_included, index[u])'
                        /\ Kept(index[u])'
                        /\ \A c \in Compactors : Shortens(c)' => index'[c] < index'[u]
      BY DEF InstallInv
    <3>1. Behind(last_included, index[u])'
      BY <1>3, <2>1, <2>10, <2>11 DEF InstallInv, RestOK, Behind
    <3>2. Kept(index[u])'
      BY <1>3, <1>4, <2>1, <2>11 DEF InstallInv, Kept, RestOK
    <3>3. \A c \in Compactors : Shortens(c)' => index'[c] < index'[u]
      BY <1>0, <1>2, <1>3, <2>1, <2>11, Kinds DEF InstallInv, Shortens
    <3> QED
      BY <3>1, <3>2, <3>3
  <2>8. LabelInv'
    <3> SUFFICES ASSUME NEW s \in Serializers, Labels(s)'
                 PROVE  /\ Behind(index[s], last_applied)'
                        /\ \A u \in Installers : Installs(u)' => Behind(index[s], index[u])'
      BY DEF LabelInv
    <3>1. Labels(s) /\ index[s] \in Int /\ last_applied \in Int
      BY <1>0, <1>2, <1>3, Kinds DEF Labels, RestOK
    <3>2. Behind(index[s], last_applied) /\ \A u \in Installers : Installs(u) => Behind(index[s], index[u])
      BY <1>3, <3>1 DEF LabelInv
    <3> QED
      BY <1>3, <2>1, <2>11, <3>1, <3>2 DEF Behind, RestOK
  <2>9. DiskInv'
    BY <1>3, <1>4, <2>1 DEF DiskInv, Logged
  <2> QED
    BY <1>5, <2>3, <2>4, <2>5, <2>6, <2>7, <2>8, <2>9, <2>12 DEF Rest, RunInv
<1>9. CASE FinalizeInstall(t)
  <2>1. /\ UNCHANGED <<fsm, index, history>> /\ last_included' = index[t] /\ last_applied' = index[t]
        /\ pc[t] = "finalize" /\ pc'[t] = "idle" /\ Installs(t)
        /\ last_committed' = Max({last_committed, index[t]})
    BY <1>0, <1>9, OthersStay DEF FinalizeInstall, Installs, ApplierInv
  <2>2. /\ last_committed' \in {last_committed, index[t]}
        /\ last_committed <= last_committed' /\ index[t] <= last_committed'
        /\ last_committed \in Int /\ index[t] \in Int /\ last_committed' \in Int
    BY <1>3, <1>6, <2>1, MaxOfTwo DEF RestOK
  <2>3. index[t] <= restored /\ restored \in Int
    BY <1>3, <2>1 DEF RestoredInv, RestOK
  <2>11. \A u \in Installers : /\ Installs(u)' => Installs(u) /\ u # t
                               /\ u # t => pc'[u] = pc[u]
                               /\ index[u] \in 0..MaxIndex
    BY <1>2, <1>3, <2>1, Kinds DEF Installs, RestOK
  <2>4. TombstoneInv' /\ RestoredInv'
    <3>1. (\A u \in Installers : pc'[u] # "restoring") <=> (\A u \in Installers : pc[u] # "restoring")
      BY <2>1, <2>11
    <3> QED
      BY <1>3, <2>1, <2>11, <3>1 DEF TombstoneInv, RestoredInv
  <2>12. ASSUME NEW k \in 0..MaxIndex, Kept(k)
         PROVE  \A i \in (k + 1)..last_committed' : i > restored => i \in log
    <3> SUFFICES ASSUME NEW i \in (k + 1)..last_committed', i > restored PROVE i \in log
      OBVIOUS
    <3>1. i \in (k + 1)..last_committed
      BY <2>2, <2>3
    <3> QED
      BY <2>12, <3>1 DEF Kept
  <2>5. HorizonInv'
    <3>1. \A i \in (index[t] + 1)..last_committed' : i > restored => i \in log
      BY <1>3, <1>6, <2>1, <2>12 DEF InstallInv
    <3>2. index[t] <= index[t]
      BY <1>6
    <3>3. ASSUME \A u \in Installers : pc'[u] \notin {"restoring", "finalize"}
          PROVE  index[t] <= fsm_applied
      <4>1. \A u \in Installers : pc[u] # "restoring"
        BY <2>1, <2>11, <3>3
      <4>2. restored <= fsm_applied
        BY <1>3, <4>1 DEF RestoredInv
      <4> QED
        BY <1>3, <1>6, <2>3, <4>2 DEF RestOK
    <3> QED
      BY <1>4, <2>1, <2>2, <3>1, <3>2, <3>3 DEF HorizonInv, Kept
  <2>6. LoopInv'
    BY <1>0, <1>2, <1>3, <1>4, <2>1, <2>2 DEF LoopInv, RestOK
  <2>7. CompactInv'
    <3>1. \A c \in Compactors : Shortens(c) => index[c] <= index[t]
      <4>1. \A c \in Compactors : index[c] \in 0..MaxIndex
        BY <1>3, Kinds DEF RestOK
      <4> QED
        BY <1>3, <1>6, <2>1, <4>1 DEF InstallInv
    <3> QED
      BY <1>0, <1>2, <2>1, <3>1, Kinds DEF CompactInv, Shortens
  <2>8. InstallInv'
    <3> SUFFICES ASSUME NEW u \in Installers, Installs(u)'
                 PROVE  /\ Behind(last_included, index[u])'
                        /\ Kept(index[u])'
                        /\ \A c \in Compactors : Shortens(c)' => index'[c] < index'[u]
      BY DEF InstallInv
    <3>1. Behind(last_included, index[u])'
      BY <2>1, <2>3 DEF Behind
    <3>2. Kept(index[u])'
      BY <1>3, <1>4, <2>1, <2>11, <2>12 DEF InstallInv, Kept
    <3>3. \A c \in Compactors : Shortens(c)' => index'[c] < index'[u]
      BY <1>0, <1>2, <1>3, <2>1, <2>11, Kinds DEF InstallInv, Shortens
    <3> QED
      BY <3>1, <3>2, <3>3
  <2>9. LabelInv'
    <3> SUFFICES ASSUME NEW s \in Serializers, Labels(s)'
                 PROVE  /\ Behind(index[s], last_applied)'
                        /\ \A u \in Installers : Installs(u)' => Behind(index[s], index[u])'
      BY DEF LabelInv
    <3>1. Labels(s)
      BY <1>0, <1>2, Kinds DEF Labels
    <3>2. \A u \in Installers : Installs(u) => Behind(index[s], index[u])
      BY <1>3, <3>1 DEF LabelInv
    <3> QED
      BY <2>1, <2>11, <3>2 DEF Behind
  <2>10. DiskInv'
    <3>1. last_included' <= last_committed'
      BY <2>1, <2>2
    <3>2. \A i \in log' : (last_committed' + 1)..i \subseteq log'
      <4>1. ASSUME NEW i \in log PROVE (last_committed' + 1)..i \subseteq (last_committed + 1)..i
        <5>1. i \in Int
          BY <1>3, IndexAssumption DEF RestOK
        <5> QED
          BY <2>2, <5>1, Narrower
      <4> QED
        BY <1>3, <1>4, <4>1 DEF Logged
    <3> QED
      BY <3>1, <3>2, Zenon DEF DiskInv, Logged
  <2> QED
    BY <1>5, <2>4, <2>5, <2>6, <2>7, <2>8, <2>9, <2>10 DEF Rest, RunInv
<1> QED
  BY <1>7, <1>8, <1>9 DEF Installing

\* A snapshot is labelled with the compaction horizon; the data is read once the
\* lock is free, so never from a state machine that is being restored.
LEMMA SerializingRest ==
    ASSUME ApplierInv, NEW s \in Serializers, ChooseSnapshot(s) \/ Serializing(s)
    PROVE  Rest'
<1> USE DEF logStore, fsm, horizon, locals, process, shell, history
<1>0. s \in Task /\ s \notin Installers /\ s \notin Compactors /\ s # Background
  BY Kinds
<1>1. CASE AbandonSnapshot(s)
  BY <1>0, <1>1, QuietStep DEF AbandonSnapshot
<1>2. CASE FreezeForSnapshot(s)
  BY <1>0, <1>2, QuietStep DEF FreezeForSnapshot
<1>3. CASE EndSnapshot(s)
  BY <1>0, <1>3, QuietStep DEF EndSnapshot
<1>4. CASE ThawAfterSnapshot(s)
  BY <1>0, <1>4, QuietStep DEF ThawAfterSnapshot
<1>5. CASE ChooseSnapshot(s) \/ BeginSnapshot(s)
  <2>1. PICK from, to : Step(s, from, to)
    BY <1>5 DEF ChooseSnapshot, BeginSnapshot
  <2>2. /\ Running /\ pc[s] = from /\ pc'[s] = to /\ \A u \in Task \ {s} : pc'[u] = pc[u]
    BY <1>0, <2>1, OthersStay DEF ApplierInv
  <2>3. /\ TombstoneInv /\ RestoredInv /\ HorizonInv /\ LoopInv /\ CompactInv /\ InstallInv /\ LabelInv /\ RestOK
        /\ DataCovers
    BY <2>2, RunningFacts
  <2>4. /\ UNCHANGED <<logStore, fsm, status, last_applied, committed, history>> /\ Running'
        /\ \A u \in Task \ {s} : index'[u] = index[u] /\ applied'[u] = applied[u]
        /\ pc'[s] \in {"freeze", "reading"} /\ pc[s] \in {"idle", "serialize"}
    <3>1. CASE ChooseSnapshot(s)
      <4>1. pc[s] = "idle" /\ pc'[s] = "freeze"
        BY <1>0, <3>1, OthersStay DEF ChooseSnapshot, ApplierInv
      <4> QED
        BY <1>0, <2>2, <2>3, <3>1, <4>1 DEF ChooseSnapshot, Running, RestOK
    <3>2. CASE BeginSnapshot(s)
      <4>1. pc[s] = "serialize" /\ pc'[s] = "reading"
        BY <1>0, <3>2, OthersStay DEF BeginSnapshot, ApplierInv
      <4> QED
        BY <1>0, <2>2, <2>3, <3>2, <4>1 DEF BeginSnapshot, Running, RestOK
    <3> QED
      BY <1>5, <3>1, <3>2
  <2>5. TombstoneInv' /\ RestoredInv' /\ HorizonInv'
    BY <1>0, <2>2, <2>3, <2>4, Kinds DEF TombstoneInv, RestoredInv, HorizonInv, Kept
  <2>6. LoopInv'
    BY <1>0, <2>2, <2>3, <2>4 DEF LoopInv
  <2>7. CompactInv'
    BY <1>0, <2>2, <2>3, <2>4, Kinds DEF CompactInv, Shortens
  <2>8. InstallInv'
    BY <1>0, <2>2, <2>3, <2>4, Kinds DEF InstallInv, Shortens, Installs, Kept, Behind
  <2>9. DiskInv'
    BY <2>2, <2>4 DEF DiskInv, ApplierInv, Logged
  <2>10. LabelInv'
    <3>1. ASSUME pc'[s] = "freeze"
          PROVE  /\ Behind(index'[s], last_applied)
                 /\ \A t \in Installers : Installs(t) => Behind(index'[s], index[t])
      <4>1. CASE ChooseSnapshot(s)
        <5>1. index'[s] = last_included
          BY <1>0, <2>3, <4>1 DEF ChooseSnapshot, snapshot_label, RestOK
        <5> QED
          BY <2>3, <5>1 DEF HorizonInv, InstallInv, Behind
      <4>2. CASE BeginSnapshot(s)
        BY <1>0, <2>2, <3>1, <4>2 DEF BeginSnapshot, Step, ApplierInv, TaskInv, TypeOK
      <4> QED
        BY <1>5, <4>1, <4>2
    <3> QED
      BY <1>0, <2>2, <2>3, <2>4, <3>1, Kinds DEF LabelInv, Labels, Installs,
                                                Behind
  <2>11. DataCovers'
    <3>1. ASSUME pc'[s] = "reading" PROVE applied'[s] >= index'[s]
      <4>1. CASE BeginSnapshot(s)
        <5>1. applied'[s] = fsm_applied /\ index' = index /\ fsm_lock = None /\ Labels(s)
          BY <1>0, <2>2, <2>3, <4>1 DEF BeginSnapshot, ReadTrees, RestOK, Step, Labels
        <5>2. \A t \in Installers : pc[t] # "restoring"
          BY <5>1, Kinds, TaskAssumption DEF ApplierInv, TaskInv, LockInv, Holding
        <5>3. index[s] \in 0..MaxIndex /\ fsm_applied \in 0..MaxIndex
          BY <1>0, <2>3 DEF RestOK
        <5>4. /\ Behind(index[s], last_applied)
              /\ \A t \in Installers : Installs(t) => Behind(index[s], index[t])
          BY <2>3, <5>1 DEF LabelInv
        <5>5. index[s] <= fsm_applied
          BY <2>2, <5>2, <5>3, <5>4, StateCovers
        <5> QED
          BY <5>1, <5>3, <5>5
      <4>2. CASE ChooseSnapshot(s)
        BY <1>0, <2>2, <3>1, <4>2 DEF ChooseSnapshot, Step, ApplierInv, TaskInv, TypeOK
      <4> QED
        BY <1>5, <4>1, <4>2
    <3> QED
      BY <1>0, <2>2, <2>3, <2>4, <3>1, Kinds DEF DataCovers
  <2> QED
    BY <2>5, <2>6, <2>7, <2>8, <2>9, <2>10, <2>11 DEF Rest, RunInv
<1> QED
  BY <1>1, <1>2, <1>3, <1>4, <1>5 DEF Serializing

\* Crashes at rest, and between the two writes that finish an installation:
\* then either the snapshot was committed already, or the state machine on disk
\* is ahead of the commit index.
LEMMA CrashingRest ==
    ASSUME ApplierInv, Crash \/ \E t \in Installers : CrashInFinalize(t),
           ~clashed'
    PROVE  Rest'
<1> USE DEF logStore, fsm
<1>1. /\ status' = "Down" /\ UNCHANGED <<log, last_committed, fsm>>
      /\ \A s \in Serializers : pc'[s] = "idle"
  BY Kinds DEF Crash, CrashInFinalize, Die
<1>2. RunInv' /\ DataCovers'
  BY <1>1 DEF RunInv, Running, DataCovers
<1>3. status \in {"Running", "Poisoned"}
  BY DEF Crash, CrashInFinalize, Die
<1>4. \A i \in log : Logged(last_committed + 1, i)
  BY <1>3 DEF ApplierInv, DiskInv
<1>5. DiskInv'
  <2>1. CASE Crash
    <3>1. last_included' = last_included /\ last_included <= last_committed
      BY <1>3, <2>1 DEF Crash, ApplierInv, DiskInv
    <3> QED
      BY <1>1, <1>4, <3>1 DEF DiskInv, Logged
  <2>2. ASSUME NEW t \in Installers, CrashInFinalize(t) PROVE DiskInv'
    <3>1. Running /\ pc[t] = "finalize" /\ last_included' = index[t]
      BY <2>2 DEF CrashInFinalize
    <3>2. TombstoneInv /\ RestoredInv /\ RestOK
      BY <3>1, RunningFacts
    <3>4. /\ index[t] \in Int /\ fsm_applied \in Int /\ last_committed \in Int
          /\ restored \in Int
      BY <3>2, Kinds DEF RestOK
    <3>7. ~restore_in_progress
      BY <2>2 DEF CrashInFinalize
    <3>3. index[t] <= fsm_applied /\ ~restore_in_progress
      BY <3>1, <3>2, <3>4, <3>7 DEF RestoredInv, TombstoneInv
    <3>5. CASE index[t] <= last_committed
      BY <1>1, <1>4, <3>1, <3>5 DEF DiskInv, Logged
    <3>6. CASE ~(index[t] <= last_committed)
      <4>1. fsm_applied > last_committed
        BY <3>3, <3>4, <3>6
      <4> QED
        BY <1>1, <3>3, <4>1, Zenon DEF DiskInv
    <3> QED
      BY <3>5, <3>6
  <2> QED
    BY <2>1, <2>2
<1> QED
  BY <1>2, <1>5 DEF Rest

\* Recovery replays up to the commit index, or refuses to start.
LEMMA BootingRest ==
    ASSUME ApplierInv, Boot
    PROVE  Rest'
<1> USE DEF logStore, locals, shell, history
<1>1. /\ status = "Down" /\ \A t \in Task : pc[t] = "idle"
      /\ RestOK /\ UNCHANGED <<logStore, locals, history>> /\ restored = 0 /\ restore_in_progress' = FALSE
  BY DEF Boot, ApplierInv, TaskInv, DownInv, TypeOK, RestOK
<1>2. \A t \in Task : pc'[t] \in {"idle", "enter"}
  BY <1>1 DEF Boot, ApplierInv, TaskInv, TypeOK
<1>3. DataCovers'
  BY <1>2, Kinds DEF DataCovers
<1>4. CASE ~recoverable
  <2>1. status' = "Refused"
    BY <1>4 DEF Boot
  <2> QED
    BY <1>3, <2>1 DEF Rest, RunInv, Running, DiskInv
<1>5. CASE recoverable
  <2>1. /\ fsm_applied' = last_committed /\ last_applied' = last_committed /\ status' = "Running"
    BY <1>5 DEF Boot
  <2>2. ~(~restore_in_progress /\ fsm_applied > last_committed)
    <3>1. sanitized <= last_committed
      BY <1>5 DEF recoverable
    <3>2. CASE restore_in_progress
      BY <3>2
    <3>3. CASE ~restore_in_progress
      <4>1. fsm_applied <= last_committed
        BY <3>1, <3>3 DEF sanitized
      <4>2. fsm_applied \in Int /\ last_committed \in Int
        BY <1>1 DEF RestOK
      <4> QED
        BY <4>1, <4>2
    <3> QED
      BY <3>2, <3>3
  <2>3. /\ \A i \in log : Logged(last_committed + 1, i)
        /\ last_included <= last_committed
    BY <1>1, <2>2, Zenon DEF ApplierInv, DiskInv
  <2>4. DiskInv'
    BY <1>1, <2>3 DEF DiskInv, Logged
  <2>5. TombstoneInv' /\ RestoredInv'
    <3>1. 0 <= last_committed
      BY <1>1 DEF RestOK
    <3> QED
      BY <1>1, <1>2, <2>1, <3>1, Kinds DEF TombstoneInv, RestoredInv
  <2>6. HorizonInv'
    <3>1. (last_committed + 1)..last_committed = {} /\ last_committed <= last_committed
      BY <1>1 DEF RestOK
    <3> QED
      BY <1>1, <2>1, <2>3, <3>1 DEF HorizonInv, Kept
  <2>7. LoopInv' /\ CompactInv' /\ InstallInv' /\ LabelInv'
    BY <1>2, Kinds DEF LoopInv, CompactInv, InstallInv, LabelInv, Shortens, Installs, Labels
  <2> QED
    BY <1>3, <2>4, <2>5, <2>6, <2>7 DEF Rest, RunInv
<1> QED
  BY <1>4, <1>5

\* Every step preserves the invariant, until installations clash.
LEMMA ApplierStep == OrderedInv /\ [Next]_vars => OrderedInv'
<1> SUFFICES ASSUME OrderedInv, [Next]_vars PROVE OrderedInv'
  OBVIOUS
<1>1. TaskInv'
  BY TaskStep DEF OrderedInv
<1>2. ASSUME ~clashed' PROVE ApplierInv'
  <2>1. ~clashed
    BY <1>2 DEF Next, vars, history, Consensus, AppendEntries, AdvanceCommitted, ChangeRole, Wake,
                CheckFrozen, Applying, EnterApply, ApplyEntry, AdvanceHorizon, LeaveApply,
                StartCompaction, Compacting, SaveMetadata, TruncateFront, ThawAfterCompaction,
                AcceptSnapshot, Installing, ClearState, FinalizeRestoration, FinalizeInstall,
                CrashInFinalize, ChooseSnapshot, Serializing, AbandonSnapshot, FreezeForSnapshot,
                BeginSnapshot, EndSnapshot, ThawAfterSnapshot, Crash, Boot
  <2>2. ApplierInv
    BY <2>1 DEF OrderedInv
  <2>3. ASSUME UNCHANGED vars PROVE Rest'
    <3> USE <2>2, <2>3 DEF vars, logStore, fsm, process, shell, horizon, locals, history, ApplierInv
    <3>1. DiskInv' /\ DataCovers'
      BY DEF DiskInv, DataCovers, Logged
    <3>2. ASSUME Running'
          PROVE  /\ TombstoneInv' /\ RestoredInv' /\ HorizonInv' /\ LoopInv'
                 /\ CompactInv' /\ InstallInv' /\ LabelInv'
      <4>1. /\ TombstoneInv /\ RestoredInv /\ HorizonInv /\ LoopInv
            /\ CompactInv /\ InstallInv /\ LabelInv
        BY <3>2 DEF RunInv, Running
      <4>2. TombstoneInv' /\ RestoredInv' /\ HorizonInv' /\ LoopInv'
        BY <4>1 DEF TombstoneInv, RestoredInv, HorizonInv, LoopInv, Kept
      <4>3. CompactInv' /\ InstallInv' /\ LabelInv'
        BY <4>1 DEF CompactInv, InstallInv, LabelInv, Kept, Behind, Shortens, Installs, Labels
      <4> QED
        BY <4>2, <4>3
    <3> QED
      BY <3>1, <3>2 DEF Rest, RunInv
  <2>4. ASSUME NEW t \in {Background} \cup Compactors, Applying(t) PROVE Rest'
    BY <2>2, <2>4, ApplyingRest
  <2>5. ASSUME NEW c \in Compactors, StartCompaction(c) \/ Compacting(c) PROVE Rest'
    BY <2>2, <2>5, CompactingRest
  <2>6. ASSUME NEW t \in Installers, AcceptSnapshot(t) \/ Installing(t) PROVE Rest'
    BY <1>2, <2>2, <2>6, InstallingRest
  <2>7. ASSUME NEW s \in Serializers, ChooseSnapshot(s) \/ Serializing(s) PROVE Rest'
    BY <2>2, <2>7, SerializingRest
  <2>9. ASSUME NEW t \in Installers, CrashInFinalize(t) PROVE Rest'
    BY <1>2, <2>2, <2>9, CrashingRest
  <2>10. ASSUME Consensus \/ Wake \/ CheckFrozen \/ Crash \/ Boot PROVE Rest'
    BY <1>2, <2>2, <2>10, ConsensusRest, WakingRest, CrashingRest, BootingRest
  <2>8. ASSUME Next PROVE Rest'
    BY <2>4, <2>5, <2>6, <2>7, <2>8, <2>9, <2>10 DEF Next
  <2> QED
    BY <1>1, <2>3, <2>8 DEF ApplierInv, Rest
<1> QED
  BY <1>1, <1>2 DEF OrderedInv

\* The invariant holds in every reachable state.
LEMMA ApplierInvHolds == Spec => []OrderedInv
<1>1. Init /\ TaskInv => OrderedInv
  <2> SUFFICES ASSUME Init, TaskInv PROVE ApplierInv
    BY DEF OrderedInv
  <2>1. \A t \in Task : pc[t] \in {"idle", "enter"}
    BY DEF Init
  <2>2. /\ log = {} /\ last_committed = 0 /\ last_included = 0 /\ last_applied = 0
        /\ fsm_applied = 0 /\ restore_in_progress = FALSE /\ status = "Running"
        /\ restored = 0
    BY DEF Init
  <2>3. TombstoneInv /\ RestoredInv
    BY <2>1, <2>2, Kinds DEF TombstoneInv, RestoredInv
  <2>4. HorizonInv /\ DiskInv
    BY <2>2 DEF HorizonInv, DiskInv, Logged, Kept
  <2>5. LoopInv /\ CompactInv /\ InstallInv /\ LabelInv /\ DataCovers
    BY <2>1, Kinds DEF LoopInv, CompactInv, InstallInv, LabelInv, Shortens, Installs, Labels,
                       DataCovers
  <2> QED
    BY <2>3, <2>4, <2>5 DEF ApplierInv, RunInv
<1>2. OrderedInv /\ [Next]_vars => OrderedInv'
  BY ApplierStep
<1> QED
  BY <1>1, <1>2, TaskInvHolds, PTL DEF Spec

\* With any number of installations at once: at every moment of a compaction,
\* of an installation, of a crash between any two of their writes and of the
\* recovery after it, a committed entry is in the state machine or in the log;
\* until an older snapshot is restored after a newer one, or a crash finds one
\* half recorded and another half restored.
THEOREM NoEntryIsLost == Spec => []UnappliedEntriesInLog
<1>1. OrderedInv => UnappliedEntriesInLog
  <2> SUFFICES ASSUME ApplierInv, Running, ~restore_in_progress
               PROVE  (fsm_applied + 1)..last_committed \subseteq log
    BY DEF UnappliedEntriesInLog, OrderedInv
  <2>1. \A t \in Installers : pc[t] # "restoring"
    BY RunningFacts DEF TombstoneInv
  <2> QED
    BY <2>1, LogCovers DEF Logged
<1> QED
  BY <1>1, ApplierInvHolds, PTL

\* With any number of installations at once: the data sent to a lagging peer
\* covers the label it is sent with, whatever is compacted, applied or installed
\* between reading the label and reading the data; with the same exceptions.
THEOREM SnapshotsCoverTheirLabel == Spec => []SnapshotCoversLabel
<1>1. OrderedInv => SnapshotCoversLabel
  BY DEF OrderedInv, ApplierInv, DataCovers, SnapshotCoversLabel
<1> QED
  BY <1>1, ApplierInvHolds, PTL
=============================================================================
