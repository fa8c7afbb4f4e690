----------------------------- MODULE MCPromotion -----------------------------
(***************************************************************************)
(* Instances of Promotion for TLC.  cub_sort_scan stands for the probes of *)
(* DRIVER_REQUIRED and is traced as well; in the second instance           *)
(* driver_memcpy2d_async is required, too.                                 *)
(***************************************************************************)
EXTENDS Promotion

MCDriverRequired == {"cub_sort_scan"}
MCCapTests == <<"cub_sort_scan">>
MCTraced == {"cub_sort_scan"}
MCFunctionalRequired == {"matmul"}
MCFunTests == <<"matmul">>

(* The -Tests of the command line in docs/PROMOTION_POLICY.md name the       *)
(* required probes except driver_memcpy2d_async.                             *)
AllRequired == {"cub_sort_scan", "driver_memcpy2d_async"}
=============================================================================
