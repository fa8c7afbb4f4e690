------------------------------- MODULE MCProbes -------------------------------
(***************************************************************************)
(* Every probe as a process of ProbeMachine, for a backend that advertises *)
(* sm 80 and one that advertises sm 90, and what each is known not to see. *)
(* The loops have the lengths of the source; the bound is MaxFaults, the   *)
(* deviations of the backend in one process.                               *)
(***************************************************************************)
EXTENDS ProbeMachine, DriverProbes, TorchProbes, CudnnQualification

Devices == {80, 90}

Capability ==
  [device_info |-> {device_info}, driver_pci_bus_id |-> {driver_pci_bus_id},
   driver_api |-> {driver_api}, driver_launch_ex |-> {driver_launch_ex},
   driver_pdl_semantics |-> {driver_pdl_semantics(sm, 5) : sm \in Devices},
   driver_func_attributes |-> {driver_func_attributes},
   driver_function_metadata |-> {driver_function_metadata},
   cub_sort_scan |-> {cub_sort_scan},
   driver_ptx_selection |-> {driver_ptx_selection(sm) : sm \in Devices},
   driver_launch_blocking |-> {driver_launch_blocking(sm) : sm \in Devices},
   driver_buffer_clear |-> {driver_buffer_clear(sm) : sm \in Devices},
   driver_memcpy2d_async |-> {driver_memcpy2d_async},
   nvml |-> {nvml(e) : e \in BOOLEAN},
   memory_copy |-> {memory_copy}, streams_events |-> {streams_events},
   elementwise |-> {elementwise}, reductions |-> {reductions}, matmul |-> {matmul},
   bf16_matmul |-> {bf16_matmul}, fft |-> {fft}, sparse_mm |-> {sparse_mm},
   linalg_solve |-> {linalg_solve}, linalg_cholesky |-> {linalg_cholesky},
   linalg_qr |-> {linalg_qr}, linalg_inv |-> {linalg_inv},
   linalg_lstsq |-> {linalg_lstsq}, linalg_svd |-> {linalg_svd},
   linalg_pinv |-> {linalg_pinv}, linalg_eigh |-> {linalg_eigh},
   linalg_eigvalsh |-> {linalg_eigvalsh}, softmax |-> {softmax},
   layernorm |-> {layernorm}, gather_scatter |-> {gather_scatter},
   random |-> {random}, autograd_backward |-> {autograd_backward},
   optimizer_sgd |-> {optimizer_sgd}, optimizer_adam |-> {optimizer_adam},
   amp |-> {amp}, conv2d |-> {conv2d},
   batch_norm |-> {batch_norm(e) : e \in BOOLEAN},
   sdpa_math |-> {sdpa}, sdpa_flash |-> {sdpa}, sdpa_mem_efficient |-> {sdpa},
   cuda_graph |-> {cuda_graph}]

Functional ==
  [functional_matmul |-> {functional_matmul}, functional_conv2d |-> {functional_conv2d},
   functional_sdpa |-> {functional_sdpa}]

Qualification ==
  [direct_activation |-> {direct(direct_activation, <<"x", "dy", "y", "dx">>)},
   direct_softmax |-> {direct(direct_softmax, <<"x", "dy", "y", "dx">>)},
   direct_pooling |-> {direct(direct_pooling(FALSE), <<"x", "y">>)},
   direct_tensor |-> {direct(direct_tensor, <<"x", "y">>)},
   direct_half |-> {direct(block, <<"x", "dy", "y", "dx">>) : block \in direct_half},
   activation_pytorch |-> {activation_pytorch}, softmax_pytorch |-> {softmax_pytorch},
   transform_pytorch |-> {transform_pytorch}, bridge_pytorch |-> {bridge_pytorch(5)}]

WarmUp == [training_warmup |-> {training_warmup(e) : e \in BOOLEAN}]

AllProbes ==
  DOMAIN Capability \union DOMAIN Functional \union DOMAIN Qualification \union DOMAIN WarmUp
Qualifications == DOMAIN Qualification

Programs ==
  [p \in AllProbes |->
     IF p \in Qualifications THEN Qualification[p]
     ELSE IF p \in DOMAIN WarmUp THEN WarmUp[p]
     ELSE {Prologue \o c : c \in IF p \in DOMAIN Functional THEN Functional[p]
                                  ELSE Capability[p]}]

AllNames ==
  {"ctx", "module", "module90", "stream", "data", "scratch", "data_host",
   "scratch_host", "name", "count", "device_out", "host", "ptx_version",
   "ptx_version2", "device", "output", "optin", "nvml", "memory", "src", "dst",
   "a", "b", "c", "d", "e", "generator", "loss", "w", "handle", "x", "dy", "y", "dx",
   "xd", "yd", "xd16", "yd16", "act", "pd", "dims", "identity", "dw", "db"}

Runners == AllProbes \ Qualifications
Markers == Runners \ {"functional_matmul", "training_warmup"}

(* The limits of the checks, each argued at its probe.                     *)
Unseen ==
  [p \in AllProbes |->
     CASE p \in {"driver_launch_ex", "driver_ptx_selection"} -> {"dropped"}
       [] p \in {"driver_buffer_clear", "driver_launch_blocking", "driver_pdl_semantics"} ->
              {"uncopied"}
       [] p \in {"matmul", "linalg_solve", "linalg_cholesky", "linalg_qr"} -> {"imag"}
       [] p \in {"linalg_svd", "linalg_eigh"} -> {"factors"}
       [] p \in {"random", "amp"} -> {"wrong"}
       [] p \in {"optimizer_sgd", "optimizer_adam"} -> {"wrong", "nan", "reordered"}
       [] p \in Qualifications -> {"nan"}
       [] p = "training_warmup" -> {"wrong", "nan", "reordered"}
       [] OTHER -> {}]

Outside ==
  [p \in AllProbes |->
     CASE p = "driver_function_metadata" -> {"ctx"}
       [] p \in {"direct_activation", "direct_softmax"} -> {"xd"}
       [] p \in {"direct_pooling", "direct_half"} -> {"xd", "yd"}
       [] OTHER -> {}]
===============================================================================
