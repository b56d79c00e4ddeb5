------------------------------ MODULE Applier ------------------------------
(***************************************************************************)
(* What happens on one node between "committed" and "applied":             *)
(* orchestration.rs (apply_committed, handle_install_snapshot), the        *)
(* background applier and log compaction of consensus/lifecycle.rs, the    *)
(* serialisation of a snapshot for a lagging peer, and recovery.rs.        *)
(*                                                                         *)
(* These tasks share the state machine under fsm_lock, the consensus state *)
(* under the shell's lock, and the freeze depth, an atomic counter.  One   *)
(* action is what a task does under one lock acquisition, or one durable   *)
(* step of unlocked I/O.  Consensus itself (module Raft) is the            *)
(* environment: it appends entries, commits them and delivers snapshots.   *)
(*                                                                         *)
(* Entries are represented by their index: module Raft shows that what is  *)
(* committed at an index never changes.                                    *)
(***************************************************************************)
EXTENDS Integers, FiniteSets, FiniteSetsExt

CONSTANTS
    Background,     \* the background applier
    Compactors,     \* bound: compaction tasks at the same time
    Installers,     \* bound: InstallSnapshot tasks at the same time
    Serializers,    \* bound: snapshot serialisations at the same time
    None,           \* no holder of fsm_lock
    Threshold,      \* snapshot_threshold
    MaxIndex,       \* bound: last index of the cluster's log
    MaxRestarts     \* bound: crashes

Task == {Background} \cup Compactors \cup Installers \cup Serializers

ASSUME TaskAssumption ==
    /\ IsFiniteSet(Task)
    /\ Background \notin Compactors \cup Installers \cup Serializers
    /\ Compactors \cap (Installers \cup Serializers) = {}
    /\ Installers \cap Serializers = {}
    /\ None \notin Task

ASSUME IndexAssumption ==
    /\ Threshold \in Nat
    /\ MaxIndex \in Nat
    /\ MaxRestarts \in Nat

VARIABLES
    \* SledStorage: the indices in the log tree, and the metadata.
    log, last_committed, last_included,
    \* LactoStore: last_applied of its meta tree, and the tombstone.
    fsm_applied, restore_in_progress,
    \* The process: "Running", "Poisoned", "Down" after a crash, "Refused"
    \* when recovery panicked.
    status, restarts,
    \* The volatile horizon of LogicalNode, the shell's freeze depth and
    \* fsm_lock, and whether the applier has a progress signal to consume.
    last_applied, freeze_depth, fsm_lock, signal,
    \* Where each task is, the index it works for, and the loop variables of
    \* its apply_committed.
    pc, index, applied, committed,
    \* History: the newest snapshot this process has restored, and whether two
    \* installations ever got in each other's way: an older snapshot restored
    \* after a newer one, or a crash with one half recorded and another half
    \* restored.
    restored, clashed

logStore == <<log, last_committed, last_included>>
fsm      == <<fsm_applied, restore_in_progress>>
process  == <<status, restarts>>
shell    == <<freeze_depth, fsm_lock>>
horizon  == <<last_applied, signal>>
locals   == <<index, applied, committed>>
history  == <<restored, clashed>>
vars == <<logStore, fsm, process, shell, horizon, pc, locals, history>>

Running == status = "Running"

\* Task t, at point from, goes on to point to.
Step(t, from, to) ==
    /\ Running
    /\ pc[t] = from
    /\ pc' = [pc EXCEPT ![t] = to]

poison == status' = "Poisoned"

is_frozen == freeze_depth > 0

last_log_index == Max(log \cup {last_included})

\* What is broadcast when the write lock is released: a change of the
\* ConsensusProgress this module knows of.  The freeze depth is no part of it.
Progress == <<last_log_index, last_committed, last_applied>>

Broadcast == signal' = (signal \/ Progress' # Progress)

-----------------------------------------------------------------------------
(* The environment: consensus *)

AppendEntries ==
    /\ Running
    /\ last_log_index < MaxIndex
    /\ log' = log \cup {last_log_index + 1}
    /\ UNCHANGED <<last_committed, last_included, fsm, process, shell, last_applied,
                   pc, locals, history>>
    /\ Broadcast

AdvanceCommitted ==
    /\ Running
    /\ \E i \in (last_committed + 1)..last_log_index : last_committed' = i
    /\ UNCHANGED <<log, last_included, fsm, process, shell, last_applied, pc,
                   locals, history>>
    /\ Broadcast

\* A change of term, role, leader hint or read epoch.
ChangeRole ==
    /\ Running
    /\ signal' = TRUE
    /\ UNCHANGED <<logStore, fsm, process, shell, last_applied, pc, locals,
                   history>>

-----------------------------------------------------------------------------
(* apply_committed, run by the background applier and by compaction tasks    *)

\* progress_rx.changed()
Wake ==
    /\ signal
    /\ Step(Background, "idle", "woken")
    /\ signal' = FALSE
    /\ UNCHANGED <<logStore, fsm, process, shell, last_applied, locals, history>>

\* While frozen the signal is dropped.
CheckFrozen ==
    /\ Step(Background, "woken", IF is_frozen THEN "idle" ELSE "enter")
    /\ UNCHANGED <<logStore, fsm, process, shell, horizon, locals, history>>

\* Take fsm_lock and read both horizons.
EnterApply(t) ==
    /\ Step(t, "enter", "loop")
    /\ fsm_lock = None
    /\ fsm_lock' = t
    /\ applied' = [applied EXCEPT ![t] = last_applied]
    /\ committed' = [committed EXCEPT ![t] = last_committed]
    /\ IF last_applied > last_committed THEN poison ELSE UNCHANGED status
    /\ UNCHANGED <<logStore, fsm, restarts, freeze_depth, horizon, index, history>>

\* Read the next entry and apply it, without the shell's lock.  A missing
\* entry, or one the state machine does not expect, halts the node.
ApplyEntry(t) ==
    LET next == applied[t] + 1
    IN  /\ next <= committed[t]
        /\ Step(t, "loop", "advance")
        /\ IF next \in log /\ next = fsm_applied + 1
           THEN fsm_applied' = next /\ UNCHANGED status
           ELSE poison /\ UNCHANGED fsm_applied
        /\ UNCHANGED <<logStore, restore_in_progress, restarts, shell, horizon,
                       locals, history>>

\* advance_horizon_after_snapshot, called for a single entry; committing an
\* index the log does not reach is fatal.
AdvanceHorizon(t) ==
    LET next == applied[t] + 1
    IN  /\ Step(t, "advance", "loop")
        /\ IF next >= last_committed /\ next > last_log_index
           THEN /\ poison
                /\ UNCHANGED <<last_applied, applied, committed>>
           ELSE /\ last_applied' = next
                /\ applied' = [applied EXCEPT ![t] = next]
                /\ committed' = [committed EXCEPT ![t] = last_committed]
                /\ UNCHANGED status
        /\ UNCHANGED <<logStore, fsm, restarts, shell, index, history>>
        /\ Broadcast

LeaveApply(t) ==
    /\ applied[t] >= committed[t]
    /\ Step(t, "loop", "idle")
    /\ fsm_lock' = None
    /\ UNCHANGED <<logStore, fsm, process, freeze_depth, horizon, locals, history>>

-----------------------------------------------------------------------------
(* Log compaction *)

\* The tick loop's trigger.  Variant: compacts what is committed.
compaction_index_committed == last_committed

compaction_index == last_applied

\* Variant: does not freeze.
frozen_by_compaction_not == freeze_depth

frozen_by_compaction == freeze_depth + 1

StartCompaction(c) ==
    /\ Step(c, "idle", "save")
    /\ ~is_frozen
    /\ last_applied - last_included > Threshold
    /\ freeze_depth' = frozen_by_compaction
    /\ index' = [index EXCEPT ![c] = compaction_index]
    /\ UNCHANGED <<logStore, fsm, process, fsm_lock, last_applied, applied,
                   committed, history>>
    /\ Broadcast

\* The metadata is overwritten, whatever it is by now.
SaveMetadata(c) ==
    /\ Step(c, "save", "truncate")
    /\ last_included' = index[c]
    /\ UNCHANGED <<log, last_committed, fsm, process, shell, last_applied,
                   locals, history>>
    /\ Broadcast

TruncateFront(c) ==
    /\ Step(c, "truncate", "thaw")
    /\ log' = {i \in log : i > index[c]}
    /\ UNCHANGED <<last_committed, last_included, fsm, process, shell, horizon,
                   locals, history>>

\* Compaction then applies itself what was committed meanwhile.
ThawAfterCompaction(c) ==
    /\ Step(c, "thaw", "enter")
    /\ freeze_depth' = freeze_depth - 1
    /\ UNCHANGED <<logStore, fsm, process, fsm_lock, last_applied, locals, history>>
    /\ Broadcast

-----------------------------------------------------------------------------
(* handle_install_snapshot *)

\* Phase 1: a snapshot beyond last_applied is accepted, and acknowledged.
AcceptSnapshot(t) ==
    /\ Step(t, "idle", "restore")
    /\ \E i \in (last_applied + 1)..MaxIndex : index' = [index EXCEPT ![t] = i]
    /\ freeze_depth' = freeze_depth + 1
    /\ UNCHANGED <<logStore, fsm, process, fsm_lock, last_applied, applied,
                   committed, history>>
    /\ Broadcast

\* Phase 2: the state machine is cleared behind a tombstone, and restored.
ClearState(t) ==
    /\ Step(t, "restore", "restoring")
    /\ fsm_lock = None
    /\ fsm_lock' = t
    /\ fsm_applied' = 0
    /\ restore_in_progress' = TRUE
    /\ UNCHANGED <<logStore, process, freeze_depth, horizon, locals, history>>

FinalizeRestoration(t) ==
    /\ Step(t, "restoring", "finalize")
    /\ fsm_lock' = None
    /\ fsm_applied' = index[t]
    /\ restore_in_progress' = FALSE
    /\ restored' = Max({restored, index[t]})
    /\ clashed' = (clashed \/ index[t] < restored)
    /\ UNCHANGED <<logStore, process, freeze_depth, horizon, locals>>

\* Phase 3: thaw, and move the node's horizon to the snapshot.
FinalizeInstall(t) ==
    /\ Step(t, "finalize", "idle")
    /\ freeze_depth' = freeze_depth - 1
    /\ last_included' = index[t]
    /\ last_committed' = Max({last_committed, index[t]})
    /\ last_applied' = index[t]
    /\ UNCHANGED <<log, fsm, process, fsm_lock, locals, history>>
    /\ Broadcast

-----------------------------------------------------------------------------
(* replicate_snapshot_to_peer *)

\* The horizon a snapshot is labelled with.  Variant: the commit index.
snapshot_label_committed == last_committed

snapshot_label == last_included

\* The strategy is chosen; then a probe is awaited.
ChooseSnapshot(s) ==
    /\ last_included > 0
    /\ Step(s, "idle", "freeze")
    /\ index' = [index EXCEPT ![s] = snapshot_label]
    /\ UNCHANGED <<logStore, fsm, process, shell, horizon, applied, committed,
                   history>>

\* The probe fails, or finds a higher term.
AbandonSnapshot(s) ==
    /\ Step(s, "freeze", "idle")
    /\ UNCHANGED <<logStore, fsm, process, shell, horizon, locals, history>>

FreezeForSnapshot(s) ==
    /\ Step(s, "freeze", "serialize")
    /\ freeze_depth' = freeze_depth + 1
    /\ UNCHANGED <<logStore, fsm, process, fsm_lock, last_applied, locals, history>>
    /\ Broadcast

\* The trees are read one after the other.  Variant: trusts the freeze.
ReadTreesFrozen(s) ==
    /\ is_frozen
    /\ UNCHANGED fsm_lock

ReadTrees(s) ==
    /\ fsm_lock = None
    /\ fsm_lock' = s

BeginSnapshot(s) ==
    /\ Step(s, "serialize", "reading")
    /\ ReadTrees(s)
    /\ applied' = [applied EXCEPT ![s] = fsm_applied]
    /\ UNCHANGED <<logStore, fsm, process, freeze_depth, horizon, index,
                   committed, history>>

EndSnapshot(s) ==
    /\ Step(s, "reading", "thaw")
    /\ fsm_lock' = None
    /\ UNCHANGED <<logStore, fsm, process, freeze_depth, horizon, locals, history>>

\* Then the request is sent.
ThawAfterSnapshot(s) ==
    /\ Step(s, "thaw", "idle")
    /\ freeze_depth' = freeze_depth - 1
    /\ UNCHANGED <<logStore, fsm, process, fsm_lock, last_applied, locals, history>>
    /\ Broadcast

-----------------------------------------------------------------------------
(* Crashes and recovery *)

\* The process dies, also when it is an operator who stops a poisoned one.
Die ==
    /\ status \in {"Running", "Poisoned"}
    /\ restarts < MaxRestarts
    /\ restarts' = restarts + 1
    /\ status' = "Down"
    /\ pc' = [t \in Task |-> "idle"]
    /\ index' = [t \in Task |-> 0]
    /\ applied' = [t \in Task |-> 0]
    /\ committed' = [t \in Task |-> 0]
    /\ last_applied' = 0
    /\ freeze_depth' = 0
    /\ fsm_lock' = None
    /\ signal' = FALSE
    /\ restored' = 0

Crash ==
    /\ Die
    /\ UNCHANGED <<logStore, fsm, clashed>>

\* Between the two writes of phase 3.
CrashInFinalize(t) ==
    /\ Running
    /\ pc[t] = "finalize"
    /\ Die
    /\ last_included' = index[t]
    /\ clashed' = (clashed \/ restore_in_progress)
    /\ UNCHANGED <<log, last_committed, fsm>>

\* What LactoStore::new leaves: a tombstone purges everything.
sanitized == IF restore_in_progress THEN 0 ELSE fsm_applied

\* The entries recovery would replay but cannot read.
missing == ((sanitized + 1)..last_committed) \ log

recoverable == sanitized <= last_committed /\ missing = {}

\* Sanitise, check, replay, and only then start the node and the applier,
\* which first applies what is committed.
Boot ==
    /\ status = "Down"
    /\ restore_in_progress' = FALSE
    /\ \/ /\ recoverable
          /\ fsm_applied' = last_committed
          /\ last_applied' = last_committed
          /\ status' = "Running"
          /\ pc' = [pc EXCEPT ![Background] = "enter"]
       \/ /\ ~recoverable
          /\ fsm_applied' = IF missing = {} THEN sanitized ELSE Min(missing) - 1
          /\ status' = "Refused"
          /\ UNCHANGED <<last_applied, pc>>
    /\ UNCHANGED <<logStore, restarts, shell, signal, locals, history>>

-----------------------------------------------------------------------------
\* An empty node that has just booted.
Init ==
    /\ log = {}
    /\ last_committed = 0
    /\ last_included = 0
    /\ fsm_applied = 0
    /\ restore_in_progress = FALSE
    /\ status = "Running"
    /\ restarts = 0
    /\ last_applied = 0
    /\ freeze_depth = 0
    /\ fsm_lock = None
    /\ signal = FALSE
    /\ pc = [t \in Task |-> IF t = Background THEN "enter" ELSE "idle"]
    /\ index = [t \in Task |-> 0]
    /\ applied = [t \in Task |-> 0]
    /\ committed = [t \in Task |-> 0]
    /\ restored = 0
    /\ clashed = FALSE

Consensus == AppendEntries \/ AdvanceCommitted \/ ChangeRole

Applying(t) == EnterApply(t) \/ ApplyEntry(t) \/ AdvanceHorizon(t) \/ LeaveApply(t)

Compacting(c) == SaveMetadata(c) \/ TruncateFront(c) \/ ThawAfterCompaction(c)

Installing(t) == ClearState(t) \/ FinalizeRestoration(t) \/ FinalizeInstall(t)

Serializing(s) == \/ AbandonSnapshot(s) \/ FreezeForSnapshot(s) \/ BeginSnapshot(s)
                  \/ EndSnapshot(s) \/ ThawAfterSnapshot(s)

Next ==
    \/ Consensus
    \/ Wake \/ CheckFrozen
    \/ \E t \in {Background} \cup Compactors : Applying(t)
    \/ \E c \in Compactors : StartCompaction(c) \/ Compacting(c)
    \/ \E t \in Installers : AcceptSnapshot(t) \/ Installing(t) \/ CrashInFinalize(t)
    \/ \E s \in Serializers : ChooseSnapshot(s) \/ Serializing(s)
    \/ Crash
    \/ Boot

Spec == Init /\ [][Next]_vars

-----------------------------------------------------------------------------
(* Properties *)

\* Every variable has its type; a freeze depth in Nat means that no thaw runs
\* into the fatal underflow.
TypeOK ==
    /\ log \in SUBSET (1..MaxIndex)
    /\ {last_committed, last_included, fsm_applied, last_applied} \subseteq 0..MaxIndex
    /\ restore_in_progress \in BOOLEAN
    /\ status \in {"Running", "Poisoned", "Down", "Refused"}
    /\ restarts \in 0..MaxRestarts
    /\ freeze_depth \in Nat
    /\ fsm_lock \in Task \cup {None}
    /\ signal \in BOOLEAN
    /\ pc \in [Task -> {"idle", "woken", "enter", "loop", "advance", "save",
                        "truncate", "thaw", "restore", "restoring", "finalize",
                        "freeze", "serialize", "reading"}]
    /\ index \in [Task -> 0..MaxIndex]
    /\ applied \in [Task -> 0..MaxIndex]
    /\ committed \in [Task -> 0..MaxIndex]
    /\ restored \in 0..MaxIndex
    /\ clashed \in BOOLEAN

\* On a running node every committed entry is either in the state machine or
\* still in the log, at each moment of a compaction, of installations that
\* overlap, or after a crash in between: apply_committed and recovery never miss
\* one.  Nothing orders installations, so it holds only until an older snapshot
\* is restored after a newer one, or a crash finds one half recorded and another
\* half restored.
UnappliedEntriesInLog ==
    Running /\ ~restore_in_progress /\ ~clashed =>
        (fsm_applied + 1)..last_committed \subseteq log

\* The data of a snapshot is never older than the horizon it is labelled with,
\* although the label is read before the probe and the data long after it, with
\* installations in between: the peer would skip the entries in between.  The
\* same two clashes of installations excepted.
SnapshotCoversLabel ==
    ~clashed => \A s \in Serializers :
        pc[s] \in {"reading", "thaw"} => applied[s] >= index[s]

\* While the trees are serialised the state machine does not change: the freeze
\* does not stop an apply loop that is already running.
SnapshotIsPointInTime ==
    [][\A s \in Serializers : pc[s] = "reading" /\ status' # "Down" => UNCHANGED fsm]_vars
============================================================================
