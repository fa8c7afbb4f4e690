------------------------------ MODULE TorchProbes -----------------------------
(***************************************************************************)
(* The probes of scripts/capability_probe.py and functional_probe.py that  *)
(* go through PyTorch.  An operator has the name of its runner, without    *)
(* the "run_" prefix.  A PyTorch operation queues one kernel on the        *)
(* current stream and may raise; a product made on the device only to      *)
(* check another result is part of the operation it checks.  The loops     *)
(* over data types and shapes are over kinds of data: "real" stands for    *)
(* FP32 and FP64, "complex" for complex64 and complex128.                  *)
(* training_warmup.py, which makes PyTorch steps only to have them         *)
(* compiled, is written the same way.                                      *)
(***************************************************************************)
EXTENDS ProbeSteps

Kinds == <<"real", "complex">>
Bad(kind) == {"wrong", "nan"} \union (IF kind = "complex" THEN {"imag"} ELSE {})

On(stream, waits, b, label, needs, bad) ==
  Torch(Push(Kernel(stream, waits, needs, {<<b, label>>}, bad, {})))
Run(b, label, needs, bad) == On("default", {}, b, label, needs, bad)

(* torch.cuda.synchronize()                                                *)
sync == Torch(Drain("default"))

(* tensor_metrics: the result must be finite and close to its reference,   *)
(* after both went through .float(), which drops an imaginary part.        *)
tensor_metrics(b, label) == Check(b, label, {"imag"})

(* max_abs = |got - ref|.max(); ok = max_abs <= tol: NaN fails it, and the *)
(* absolute value of a complex difference sees both parts.                 *)
max_abs(b, label) == Check(b, label, {})

Compared(b, label, needs, bad) ==
  <<Run(b, label, needs, bad), sync, tensor_metrics(b, label)>>
Measured(b, label, needs, bad) ==
  <<Run(b, label, needs, bad), sync, max_abs(b, label)>>

ForKinds(body) == FlattenSeq([i \in 1..2 |-> body[Kinds[i]]])

-------------------------------------------------------------------------------
device_info == <<Torch(Nothing), Torch(Nothing), Torch(Nothing)>>

(* y.cpu() waits for the copy, before sync does.                           *)
memory_copy ==
  <<Run("a", "x", {}, {"wrong", "nan"}), Run("b", "x", {<<"a", "x">>}, {"wrong", "nan"}),
    Torch(Drain("default")), sync, tensor_metrics("b", "x")>>

(* The kernel runs on a stream of its own that was made to wait for the    *)
(* producer of its input; the host then waits for that stream.  That the   *)
(* time between its two events is not negative is not modelled.            *)
streams_events ==
  <<Run("a", "x", {}, {"wrong", "nan"}), Torch(Nothing),
    On("s", {"default"}, "b", "2x+1", {<<"a", "x">>}, {"wrong", "nan"}),
    Torch(Drain("s")), tensor_metrics("b", "2x+1")>>

elementwise == Compared("a", "elementwise", {}, Bad("real"))
reductions == Compared("a", "reductions", {}, Bad("real"))

matmul ==
  LET Case[kind \in Range(Kinds)] == Compared("a", kind, {}, Bad(kind))
  IN ForKinds(Case) \o Compared("a", "fp16", {}, Bad("real"))

bf16_matmul == Compared("a", "bf16", {}, Bad("real"))

(* The real and the imaginary part are compared one after the other; the   *)
(* inverse starts from the transform the device made.                      *)
fft ==
  LET Pair(i, t, inv) ==
        Measured("a", t, {}, Bad("complex"))
          \o Measured("b", inv, {<<"a", t>>}, IF i = 2 THEN Bad("complex") ELSE Bad("real"))
  IN Pair(1, "r2c", "c2r") \o Pair(2, "c2c", "c2c_inverse")
       \o Pair(3, "d2z", "z2d") \o Pair(4, "rank2", "rank2_inverse")

sparse_mm == Compared("a", "sparse", {}, Bad("real"))

linalg_solve ==
  LET Case[kind \in Range(Kinds)] == Compared("a", kind, {}, Bad(kind))
  IN ForKinds(Case)

(* The solution and the inverse are made from the factor of the device.    *)
linalg_cholesky ==
  LET Case[kind \in Range(Kinds)] ==
        Times(2, Compared("a", "factor", {}, Bad(kind))
                   \o Compared("b", "solution", {<<"a", "factor">>}, Bad(kind))
                   \o Compared("c", "inverse", {<<"a", "factor">>}, Bad(kind)))
  IN ForKinds(Case)

(* Reconstruction and orthogonality together leave no other factors; the   *)
(* reference of Q's application is made from the reflectors of the device. *)
linalg_qr ==
  LET Case[kind \in Range(Kinds)] ==
        Times(2, Compared("a", "qr", {}, Bad(kind) \union {"factors"}))
          \o Compared("b", "reflectors", {}, Bad(kind))
          \o Compared("c", "application", {}, Bad(kind))
  IN ForKinds(Case)

(* The comparisons that do not go through tensor_metrics.                  *)
TwoShapes ==
  LET Case[kind \in Range(Kinds)] == Times(2, Measured("a", kind, {}, Bad(kind)))
  IN ForKinds(Case)

linalg_inv == TwoShapes
linalg_lstsq == TwoShapes

(* Only the product of the factors is compared.                            *)
linalg_svd ==
  Times(2, <<Run("a", "usv", {}, Bad("real") \union {"factors"}), sync,
             Check("a", "usv", {"factors"})>>)

linalg_pinv == Measured("a", "pinv", {}, Bad("real"))

(* Only the residual is measured: any pairs that satisfy it get through.   *)
linalg_eigh ==
  LET Case[kind \in Range(Kinds)] ==
        <<Run("a", kind, {}, Bad(kind) \union {"factors"}), sync,
          Check("a", kind, {"factors"})>>
  IN ForKinds(Case)

(* The eigenvalues of a Hermitian matrix are real.                         *)
linalg_eigvalsh ==
  LET Case[kind \in Range(Kinds)] == Measured("a", kind, {}, Bad("real"))
  IN ForKinds(Case)

-------------------------------------------------------------------------------
softmax == Compared("a", "softmax", {}, Bad("real"))
layernorm == Compared("a", "layernorm", {}, Bad("real"))

gather_scatter ==
  <<Run("a", "gather", {}, Bad("real")), Run("b", "scatter", {}, Bad("real")), sync,
    tensor_metrics("a", "gather"), tensor_metrics("b", "scatter")>>

(* Two draws from one seed must be the same, finite and roughly normal: a  *)
(* generator that is not CUDA's gets through.                              *)
random ==
  <<Torch(Store("generator", "philox", {}, {"wrong"})),
    Run("a", "draw", {}, {"wrong", "nan"}), sync,
    Run("b", "draw", {}, {"wrong", "nan"}), sync,
    Check("a", "draw", {}), Check("b", "draw", {}),
    Check("generator", "philox", {"wrong"})>>

autograd_backward ==
  <<Run("a", "loss", {}, Bad("real")),
    Run("b", "grad", {<<"a", "loss">>}, Bad("real")), sync, tensor_metrics("b", "grad")>>

(* Three steps; the losses must be finite and fall.  A loss is read before *)
(* the update that follows it.                                             *)
Training ==
  LET Step(i) ==
        LET w == <<"w0", "w1", "w2", "w3">>
            losses == <<"l1", "l2", "l3">>
        IN <<Run("loss", losses[i], IF i = 1 THEN {} ELSE {<<"w", w[i]>>}, Bad("real")),
             Run("w", w[i + 1], {<<"loss", losses[i]>>}, Bad("real")), sync,
             Check("loss", losses[i], {"wrong"})>>
  IN Step(1) \o Step(2) \o Step(3)

optimizer_sgd == Training \o <<sync>>
optimizer_adam == Training \o <<sync>>

(* Only finiteness.                                                        *)
amp == <<Run("a", "product", {}, Bad("real")), sync, Check("a", "product", {"wrong"})>>

conv2d == Compared("a", "conv2d", {}, Bad("real"))

(* With cuDNN disabled the probe answers ok = False, which is reported as  *)
(* an incorrect result.                                                    *)
batch_norm(cudnn_enabled) ==
  IF ~cudnn_enabled THEN <<Decline>> ELSE
  <<Run("a", "train", {}, Bad("real")), Run("b", "grad_x", {<<"a", "train">>}, Bad("real")),
    Run("c", "grad_w", {<<"a", "train">>}, Bad("real")),
    Run("d", "grad_b", {<<"a", "train">>}, Bad("real")), sync,
    tensor_metrics("a", "train"), tensor_metrics("b", "grad_x"),
    tensor_metrics("c", "grad_w"), tensor_metrics("d", "grad_b")>>
  \o Compared("e", "inference", {}, Bad("real"))

(* One of three backends is enabled; PyTorch refuses what it cannot run.   *)
sdpa == <<Torch(Nothing)>> \o Compared("a", "attention", {}, Bad("real"))

(* The graph is captured on a device that was waited for; only the replay  *)
(* runs it.                                                                *)
cuda_graph ==
  <<Run("a", "ones", {}, Bad("real")), sync, Torch(Nothing),
    Run("b", "fives", {<<"a", "ones">>}, Bad("real") \union {"dropped"}), sync,
    tensor_metrics("b", "fives")>>

cub_sort_scan ==
  Times(2, Measured("a", "sorted", {}, Bad("real")) \o Measured("b", "scan", {}, Bad("real")))

-------------------------------------------------------------------------------
(* functional_probe.py: its metrics are those of tensor_metrics.           *)
functional_matmul ==
  Compared("a", "fp32", {}, Bad("real")) \o Compared("a", "fp16", {}, Bad("real"))
functional_conv2d == Compared("a", "conv2d", {}, Bad("real"))
functional_sdpa == <<Torch(Nothing)>> \o Compared("a", "attention", {}, Bad("real"))

-------------------------------------------------------------------------------
(* training_warmup.py: every step is made twice between two waits and none *)
(* of its results is looked at.  Three of the extended steps are           *)
(* operations without a backward pass, two of them of two operations.  The *)
(* models and their inputs are made by the first call, the last one asks   *)
(* for the name of the device.                                             *)
timed(step) == Times(2, <<sync>> \o step \o <<sync>>)
forward_step == <<Run("a", "out", {}, Bad("real"))>>
backward_step == forward_step \o <<Run("b", "grad", {<<"a", "out">>}, Bad("real"))>>
optimizer_step ==
  backward_step \o <<Run("w", "update", {<<"b", "grad">>}, Bad("real"))>>

training_warmup(extended) ==
  <<Torch(Nothing)>> \o Times(6, timed(backward_step)) \o timed(optimizer_step) \o
  (IF ~extended THEN <<>> ELSE
     LET sort_topk == timed(forward_step \o forward_step) det_slogdet == sort_topk
         conv_transpose2d == timed(forward_step)
     IN sort_topk \o det_slogdet \o Times(4, timed(backward_step)) \o conv_transpose2d)
  \o <<Torch(Nothing)>>

-------------------------------------------------------------------------------
(* main(): the name of the device is asked for first.                      *)
Prologue == <<Torch(Nothing)>>
===============================================================================
