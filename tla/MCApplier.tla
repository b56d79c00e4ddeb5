----------------------------- MODULE MCApplier -----------------------------
(***************************************************************************)
(* Applier with two installations that may overlap.  The view blanks the   *)
(* locals a task will overwrite before it reads them.                      *)
(***************************************************************************)
EXTENDS Applier, TLC

Symmetry == Permutations(Installers)

\* t uses its loop variables: in an apply loop, or for a snapshot's contents.
Loops(t) == pc[t] \in {"loop", "advance", "reading", "thaw"}

View ==
    <<logStore, fsm, process, shell, horizon, pc, history,
      [t \in Task |-> IF pc[t] \in {"idle", "woken", "enter"} \/ t = Background
                      THEN 0 ELSE index[t]],
      [t \in Task |-> IF Loops(t) THEN <<applied[t], committed[t]>> ELSE <<>>]>>
============================================================================
