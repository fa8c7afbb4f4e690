--------------------------- MODULE CudnnQualification -------------------------
(***************************************************************************)
(* The scripts that qualify the cuDNN bridge on a real GPU, outside the    *)
(* probe runners: test-cudnn-direct-hip-gpu.py (its --only modes one by    *)
(* one), test-cudnn-activation-pytorch.py, test-cudnn-softmax-pytorch.py,  *)
(* test-cudnn-transform-pytorch.py and test-cudnn-bridge-pytorch.py.       *)
(* They raise on a mismatch, and their tests are err > tolerance, which is *)
(* false of NaN: a NaN result passes, and a NaN first argument of max()    *)
(* hides the second.  Nothing catches their exceptions.  hipFree waits for *)
(* the device, so a queued kernel outlives none of its buffers.            *)
(***************************************************************************)
EXTENDS ProbeSteps

(* A cuDNN call that queues one kernel, and err > tolerance about it.      *)
Op(uses, b, label, needs) ==
  ck(uses, Push(Kernel("default", {}, needs, {<<b, label>>}, {"wrong", "nan", "dropped"}, {})))
Within(b, label) == Insist(b, label, {"nan"})
WithinBoth(first, second) == <<first, [second EXCEPT !.after = {first.b}]>>

Create(d) == ck({}, Gain(d, {}))
Configure(d) == ck({d}, Nothing)
Destroy(d) == ckRelease(d, {})

-------------------------------------------------------------------------------
(* test-cudnn-direct-hip-gpu.py.                                           *)

(* device_buffer, host_values and tensor_desc: the sequences of HIP and    *)
(* cuDNN calls the modes are made of.  Nothing reads the zeros.            *)
device_buffer(b, label) ==
  <<ck({}, Gain(b, {})),
    ck({b}, Store(b, label, {}, IF label = "zeros" THEN {} ELSE {"wrong", "uncopied"}))>>
host_values(h, b, label) ==
  <<ck({}, Drain("default")), ck({b}, Store(h, label, {<<b, label>>}, {"wrong", "uncopied"}))>>
tensor_desc(d) == <<Create(d), Configure(d)>>
Four == device_buffer("x", "x") \o device_buffer("dy", "dy")
          \o device_buffer("y", "zeros") \o device_buffer("dx", "zeros")

(* Forward, backward and their comparison.                                 *)
ForwardBackward(desc, fwd, bwd) ==
  <<Op(desc \union {"handle", "x", "y"}, "y", fwd, {<<"x", "x">>}),
    Op(desc \union {"handle", "x", "y", "dy", "dx"}, "dx", bwd,
       {<<"x", "x">>, <<"y", fwd>>, <<"dy", "dy">>})>>
  \o host_values("a", "y", fwd) \o host_values("b", "dx", bwd)
  \o WithinBoth(Within("a", fwd), Within("b", bwd))

direct_activation ==
  Four \o tensor_desc("xd") \o
  Try(<<Create("act")>> \o
        LET Mode(fwd, bwd) ==
              <<Configure("act")>> \o ForwardBackward({"act", "xd"}, fwd, bwd)
        IN Mode("sigmoid", "dsigmoid") \o Mode("relu", "drelu") \o Mode("tanh", "dtanh"),
      <<Destroy("act"), Destroy("xd")>>)

direct_softmax ==
  Four \o tensor_desc("xd") \o
  Try(ForwardBackward({"xd"}, "softmax", "dsoftmax"), <<Destroy("xd")>>)

(* Average pooling is asked for first and must be refused with 9.          *)
direct_pooling(half) ==
  device_buffer("x", "x") \o device_buffer("y", "zeros")
  \o tensor_desc("xd") \o tensor_desc("yd") \o
  Try(<<Create("pd")>>
        \o (IF half THEN <<Configure("pd")>>
            ELSE <<MustRefuse(Configure("pd")), Configure("pd"),
                   ck({"pd", "xd"}, Store("dims", "dims", {}, {"wrong", "dropped"})),
                   Insist("dims", "dims", {})>>)
        \o <<Op({"handle", "pd", "xd", "yd", "x", "y"}, "y", "pooled", {<<"x", "x">>})>>
        \o host_values("a", "y", "pooled") \o <<Within("a", "pooled")>>,
      <<Destroy("pd"), Destroy("yd"), Destroy("xd")>>)

(* Transform into a strided destination, fill it, scale it: each result is *)
(* the input of the next.                                                  *)
direct_tensor ==
  device_buffer("x", "x") \o device_buffer("y", "tens") \o
  Try(<<Create("xd"), Create("yd"), Configure("xd"), Configure("yd")>> \o
        LET Stage(label, needs) ==
              <<Op({"handle", "xd", "yd", "x", "y"}, "y", label, needs)>>
                \o host_values("a", "y", label) \o <<Within("a", label)>>
        IN Stage("transformed", {<<"x", "x">>, <<"y", "tens">>})
             \o Stage("threes", {}) \o Stage("sixes", {<<"y", "threes">>}),
      <<Destroy("yd"), Destroy("xd")>>)

(* --only half: the same blocks on FP16 buffers, here one at a time.       *)
direct_half ==
  {direct_activation, direct_softmax, direct_pooling(TRUE), direct_tensor}

(* The name of the device, and the hashes of the DLLs that were loaded.    *)
loaded_identity ==
  <<ck({}, Nothing), ck({}, Store("identity", "loaded", {}, {"dropped"})),
    Insist("identity", "loaded", {})>>

(* main(): the device, the handle, the chosen mode, and the release of     *)
(* every buffer in reverse and of the handle.                              *)
direct(mode, buffers) ==
  <<ck({}, Nothing), ck({}, Store("count", "some", {}, {"wrong", "dropped"})),
    Insist("count", "some", {}), ck({}, Nothing), Create("handle")>> \o
  Try(mode, Append([i \in 1..Len(buffers) |-> Destroy(buffers[Len(buffers) + 1 - i])],
                   Destroy("handle"))) \o
  loaded_identity

-------------------------------------------------------------------------------
(* The PyTorch qualification scripts, for each of two data types.  A host  *)
(* tensor is copied to the device before .to() returns.                    *)
Held(b, label, bad) == Torch(Store(b, label, {}, bad))
Tensor(b, label) == Held(b, label, {"wrong"})
new(b) == Torch(Store(b, "junk", {}, {}))
synchronize == Torch(Drain("default"))
PerType(body) == Times(2, body)

Fwd(desc, fwd) == Op(desc \union {"handle"}, "y", fwd, {<<"x", "x">>})
Bwd(desc, fwd, bwd) ==
  Op(desc \union {"handle"}, "dx", bwd, {<<"x", "x">>, <<"y", fwd>>, <<"dy", "dy">>})
Both(fwd, bwd) == <<synchronize>> \o WithinBoth(Within("y", fwd), Within("dx", bwd))

activation_pytorch ==
  <<Create("handle")>> \o
  Try(<<Create("act"), Create("xd"), Create("yd")>> \o
        LET Mode(fwd, bwd) ==
              <<Configure("act"), Fwd({"act", "xd", "yd"}, fwd),
                Bwd({"act", "xd", "yd"}, fwd, bwd)>> \o Both(fwd, bwd)
        IN PerType(<<Tensor("x", "x"), Tensor("dy", "dy"), new("y"),
                       new("dx"), Configure("xd"), Configure("yd")>>
                     \o Mode("sigmoid", "dsigmoid") \o Mode("relu", "drelu")
                     \o Mode("tanh", "dtanh")),
      <<Destroy("yd"), Destroy("xd"), Destroy("act"), Destroy("handle")>>)
  \o <<Torch(Nothing)>>

softmax_pytorch ==
  <<Create("handle")>> \o
  Try(<<Create("xd"), Create("yd")>> \o
        PerType(<<Tensor("x", "x"), Tensor("dy", "dy"), new("y"),
                  new("dx"), Configure("xd"), Configure("yd"),
                  Fwd({"xd", "yd"}, "softmax"), Bwd({"xd", "yd"}, "softmax", "dsoftmax")>>
                  \o Both("softmax", "dsoftmax")),
      <<Destroy("yd"), Destroy("xd"), Destroy("handle")>>)
  \o <<Torch(Nothing)>>

(* The reference is computed from what the device holds, so a wrong        *)
(* transfer of the inputs is not a deviation here.                         *)
transform_pytorch ==
  LET Type(xd, yd) ==
        LET Stage(label, needs) ==
              <<Op({"handle", xd, yd}, "y", label, needs), synchronize, Within("y", label)>>
        IN <<Held("x", "x", {}), Held("y", "tens", {})>> \o
           Try(<<Create(xd), Create(yd), Configure(xd), Configure(yd)>>
                 \o Stage("transformed", {<<"x", "x">>, <<"y", "tens">>})
                 \o Stage("threes", {}) \o Stage("sixes", {<<"y", "threes">>}),
               <<Destroy(yd), Destroy(xd)>>)
  IN <<Create("handle")>>
     \o Try(Type("xd", "yd") \o Type("xd16", "yd16"), <<Destroy("handle")>>)
     \o <<Torch(Nothing)>>

-------------------------------------------------------------------------------
(* test-cudnn-bridge-pytorch.py.                                           *)
Conv(b, label, needs) ==
  Torch(Push(Kernel("default", {}, needs, {<<b, label>>}, {"wrong", "nan"}, {})))

forward_check ==
  <<Tensor("x", "x"), Tensor("w", "w"),
    Conv("a", "forward", {<<"x", "x">>, <<"w", "w">>}),
    Conv("b", "forward", {<<"x", "x">>, <<"w", "w">>}),
    synchronize, Within("a", "forward"), Within("b", "forward")>>

backward_check ==
  <<Tensor("x", "x"), Tensor("w", "w"), new("y"),
    Conv("y", "forward", {<<"x", "x">>, <<"w", "w">>}),
    Conv("dx", "dx", {<<"y", "forward">>, <<"w", "w">>}),
    Conv("dw", "dw", {<<"y", "forward">>, <<"x", "x">>}),
    synchronize, Within("y", "forward"), Within("dx", "dx"), Within("dw", "dw")>>

bias_training_check ==
  LET under(check) == [check EXCEPT !.after = {"y"}] IN
  <<Tensor("x", "x"), Tensor("w", "w"), Tensor("b", "bias"), new("y"),
    Conv("y", "forward", {<<"x", "x">>, <<"w", "w">>, <<"b", "bias">>}),
    Conv("dx", "dx", {<<"y", "forward">>, <<"w", "w">>}),
    Conv("dw", "dw", {<<"y", "forward">>, <<"x", "x">>}),
    Conv("db", "db", {<<"y", "forward">>}),
    synchronize, Within("y", "forward"), under(Within("dx", "dx")),
    under(Within("dw", "dw")), under(Within("db", "db"))>>

(* The matrix: cases are the bound, five in the script.                    *)
bridge_pytorch(cases) ==
  <<Torch(Nothing)>>
  \o PerType(Times(cases, forward_check) \o Times(cases, backward_check))
  \o PerType(bias_training_check)
===============================================================================
