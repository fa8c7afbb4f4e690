---------------------------- MODULE MCMiopenBackend ----------------------------
(***************************************************************************)
(* Instances of MiopenBackend for TLC: three required symbols stand for    *)
(* the 25, one optional for the 14.  A library is missing, complete, lacks *)
(* the optional symbol, or lacks a required one in the middle of the list. *)
(***************************************************************************)
EXTENDS MiopenBackend

MCRequired == <<"create", "set_stream", "destroy">>
MCOptional == {"fill_tensor"}

Complete  == {"create", "set_stream", "destroy", "fill_tensor"}
Older     == {"create", "set_stream", "destroy"}
Truncated == {"create", "destroy", "fill_tensor"}

MCMachines ==
  {[configured |-> c, onPath |-> p] :
     c \in {{}, Complete, Truncated}, p \in {Complete, Older}}
=============================================================================
