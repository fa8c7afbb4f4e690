----------------------------- MODULE MCLaunchTrace -----------------------------
(***************************************************************************)
(* Two threads, two launches, one handle that may change kernels; the file *)
(* is new, or an earlier process left an open launch in it, alone or after *)
(* a complete one.                                                         *)
(***************************************************************************)
EXTENDS LaunchTrace, TLC

Record(id, event) == <<[id |-> id, event |-> event]>>

EarlierRuns ==
  {<<Record(1, "begin")>>,
   <<Record(1, "begin"), Record(1, "done"), Record(2, "begin")>>}

Symmetry == Permutations(Threads) \union Permutations(Kernels)
================================================================================
