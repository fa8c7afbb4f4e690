----------------------------- MODULE ConvGeometry -----------------------------
(***************************************************************************)
(* The descriptors a convolution call is made with and what the bridge     *)
(* checks of them (bridge_validate_conv_shapes, bridge_contiguous_strides  *)
(* of native/cudnn_bridge/cudnn_bridge.c).  Tensors are NCHW by logical    *)
(* dimension; the strides of x and y go to MIOpen unread, the filter's are *)
(* computed.  Left out are mode, compute type and filter format, which the *)
(* setters allow only the values the checks accept.                        *)
(***************************************************************************)
EXTENDS Integers, Sequences, FiniteSets

CONSTANT IntMax     (* INT32_MAX *)

ASSUME IntMaxAssumption == IntMax \in Nat \ {0}

DataTypes == {"FLOAT", "DOUBLE", "HALF", "BFLOAT16", "INT8", "INT32", "INT64"}
Positive == Nat \ {0}

(* What the setters let through; nb_dims is the length of dims, and it and   *)
(* spatial_dims are 0 until a setter has succeeded.                          *)
Tensor == [type : DataTypes, dims : Seq(Positive)]
Convolution == {c \in [pad : Seq(Nat), stride : Seq(Positive),
                       dilation : Seq(Positive), groups : Positive] :
                  Len(c.stride) = Len(c.pad) /\ Len(c.dilation) = Len(c.pad)}
Geometry == [x : Tensor, w : Tensor, c : Convolution, y : Tensor]

(* bridge_valid_tensor, bridge_valid_filter, bridge_valid_conv. *)
Valid(g) == /\ \A d \in {g.x, g.w, g.y} : d.dims # <<>>
            /\ Len(g.c.pad) = 2

(* C's integer division, which truncates towards zero. *)
Quotient(a, b) == IF a >= 0 THEN a \div b ELSE -((-a) \div b)

(* Spatial dimension 1 or 2 is dims[2] or dims[3] of the C arrays. *)
Spatial == {1, 2}
Padded(g, s) == g.x.dims[s + 2] + 2 * g.c.pad[s]

(* Mutant: the dilation is multiplied by the filter's size. *)
Extent_Full(g, s) == g.c.dilation[s] * g.w.dims[s + 2]

(* What one application of the dilated filter spans. *)
Extent(g, s) == g.c.dilation[s] * (g.w.dims[s + 2] - 1) + 1

(* oh and ow. *)
OutputSize(g, s) == 1 + Quotient(Padded(g, s) - Extent(g, s), g.c.stride[s])

(* A product of two int: out of range it is undefined, and wraps in a build. *)
Wrapped(n) == ((n + IntMax + 1) % (2 * (IntMax + 1))) - (IntMax + 1)

Mismatched(g) ==
  \/ g.x.type # g.w.type \/ g.x.type # g.y.type
  \/ g.x.dims[2] # Wrapped(g.w.dims[2] * g.c.groups)
  \/ g.w.dims[1] % g.c.groups # 0
  \/ g.y.dims[1] # g.x.dims[1] \/ g.y.dims[2] # g.w.dims[1]
  \/ \E s \in Spatial :
       OutputSize(g, s) <= 0 \/ g.y.dims[s + 2] # OutputSize(g, s)

bridge_validate_conv_shapes(g) ==
  IF ~Valid(g) THEN "BAD_PARAM"
  ELSE IF \E d \in {g.x, g.w, g.y} : Len(d.dims) # 4 THEN "NOT_SUPPORTED"
  ELSE IF Mismatched(g) THEN "BAD_PARAM" ELSE "SUCCESS"

(* The packed strides of a filter with four dimensions stay in the int range.*)
bridge_contiguous_strides(w) == w.dims[2] * w.dims[3] * w.dims[4] <= IntMax

-----------------------------------------------------------------------------
(* The definition of a convolution's output, for comparison: the positions   *)
(* at multiples of the stride where every tap of the filter lies in the      *)
(* padded input.                                                             *)
LastTap(g, s) == g.c.dilation[s] * (g.w.dims[s + 2] - 1)
Positions(g, s) ==
  {p \in 0 .. Padded(g, s) :
     p % g.c.stride[s] = 0 /\ \A j \in 0 .. (g.w.dims[s + 2] - 1) :
                                 p + g.c.dilation[s] * j < Padded(g, s)}

(* No position is left, and less than a stride is missing for the first.     *)
Overhangs(g, s) ==
  /\ Padded(g, s) <= LastTap(g, s)
  /\ LastTap(g, s) < Padded(g, s) + g.c.stride[s] - 1
=============================================================================
