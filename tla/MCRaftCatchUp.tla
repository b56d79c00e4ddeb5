--------------------------- MODULE MCRaftCatchUp ---------------------------
(***************************************************************************)
(* Instances of RaftCatchUp for TLC.                                       *)
(***************************************************************************)
EXTENDS RaftCatchUp

\* Logs that agree with the leader's as far as both go.  At most one peer can
\* have <<1, 2, 2>>: it was the leader of term 2.
Lagging == {<<>>, <<1>>, <<1, 2>>, <<1, 2, 2>>}

\* <<1, 1>> is the log of a leader of term 1 that did not replicate its second
\* entry; the other peer has the first.
Diverged == {<<1>>, <<1, 1>>}
============================================================================
