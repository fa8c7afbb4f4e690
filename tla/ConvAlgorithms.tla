---------------------------- MODULE ConvAlgorithms ----------------------------
(***************************************************************************)
(* The constant part of the cuDNN bridge: how MIOpen statuses become cuDNN *)
(* statuses and how the algorithm families of the two libraries correspond *)
(* in the three convolution directions.  An enumerator is named by a       *)
(* string; a MIOpen family the switches do not list is "OTHER".            *)
(***************************************************************************)
EXTENDS Naturals, FiniteSets

MiopenStatus == {"SUCCESS", "NOT_INITIALIZED", "INVALID_VALUE", "BAD_PARM",
                 "ALLOC_FAILED", "INTERNAL_ERROR", "NOT_IMPLEMENTED",
                 "UNKNOWN_ERROR", "UNSUPPORTED_OP", "GPU_OPERATIONS_SKIPPED",
                 "VERSION_MISMATCH"}

CudnnStatus == {"SUCCESS", "NOT_INITIALIZED", "ALLOC_FAILED", "BAD_PARAM",
                "NOT_SUPPORTED", "EXECUTION_FAILED", "VERSION_MISMATCH"}

(* The switch of bridge_status, default branch included. *)
bridge_status(ms) ==
  CASE ms \in {"SUCCESS", "GPU_OPERATIONS_SKIPPED"}  -> "SUCCESS"
    [] ms \in {"NOT_INITIALIZED", "ALLOC_FAILED", "VERSION_MISMATCH"} -> ms
    [] ms \in {"INVALID_VALUE", "BAD_PARM"}           -> "BAD_PARAM"
    [] ms \in {"NOT_IMPLEMENTED", "UNSUPPORTED_OP"}   -> "NOT_SUPPORTED"
    [] OTHER                                          -> "EXECUTION_FAILED"

-----------------------------------------------------------------------------
Dirs == {"fwd", "bwdData", "bwdFilter"}

(* The cuDNN enumerators of the three directions, by name. *)
Algorithms == {"IMPLICIT_GEMM", "IMPLICIT_PRECOMP_GEMM", "GEMM", "DIRECT", "FFT",
               "FFT_TILING", "WINOGRAD", "WINOGRAD_NONFUSED", "ALGO_0", "ALGO_1",
               "ALGO_3"}

(* MIOpen families as they may appear in a solution record. *)
Families == {"GEMM", "DIRECT", "FFT", "WINOGRAD", "IMPLICIT_GEMM", "OTHER"}

(* cuDNN forward algorithm -> the one MIOpen family that runs it. *)
bridge_map_algo ==
  [IMPLICIT_GEMM         |-> "IMPLICIT_GEMM",
   IMPLICIT_PRECOMP_GEMM |-> "IMPLICIT_GEMM",
   GEMM                  |-> "GEMM",
   DIRECT                |-> "DIRECT",
   FFT                   |-> "FFT",
   WINOGRAD              |-> "WINOGRAD"]

(* MIOpen family -> the cuDNN algorithm under which it is published. *)
bridge_unmap_algo ==
  [GEMM |-> "GEMM", DIRECT |-> "DIRECT", FFT |-> "FFT",
   WINOGRAD |-> "WINOGRAD", IMPLICIT_GEMM |-> "IMPLICIT_GEMM"]

bridge_unmap_bwd_data_algo ==
  [GEMM |-> "ALGO_1", IMPLICIT_GEMM |-> "ALGO_1", DIRECT |-> "ALGO_0",
   FFT |-> "FFT", WINOGRAD |-> "WINOGRAD"]

bridge_unmap_bwd_filter_algo ==
  [GEMM |-> "ALGO_1", IMPLICIT_GEMM |-> "ALGO_1", DIRECT |-> "ALGO_0",
   WINOGRAD |-> "WINOGRAD_NONFUSED"]

Unmap(d) == CASE d = "fwd"     -> bridge_unmap_algo
              [] d = "bwdData" -> bridge_unmap_bwd_data_algo
              [] OTHER         -> bridge_unmap_bwd_filter_algo

(* Family f can be published in direction d, and under which name. *)
Publishable(d, f) == f \in DOMAIN Unmap(d)
PublishedAs(d, f) == Unmap(d)[f]

(* The test the three solution pickers apply to a record of family f when   *)
(* algorithm a is asked for: forward maps the request, the backward pickers  *)
(* unmap the record.                                                         *)
Serves(d, f, a) ==
  IF d = "fwd" THEN a \in DOMAIN bridge_map_algo /\ bridge_map_algo[a] = f
               ELSE Publishable(d, f) /\ PublishedAs(d, f) = a

(* The constants the three ...AlgorithmMaxCount entry points report. *)
AlgorithmMaxCount(d) == CASE d = "fwd" -> 5 [] d = "bwdData" -> 4 [] OTHER -> 3
=============================================================================
