-------------------------- MODULE ConvGeometry_proofs --------------------------
(***************************************************************************)
(* Proofs about the shape checks of module ConvGeometry, for descriptors   *)
(* of any size, and what they mean for the calls of module BridgeConv.     *)
(***************************************************************************)
EXTENDS BridgeConv_proofs, FiniteSetTheorems

(* Division by a positive number leaves a remainder smaller than it. *)
LEMMA Division ==
  ASSUME NEW a \in Nat, NEW b \in Positive
  PROVE  /\ a \div b \in Nat
         /\ a % b \in 0 .. b - 1
         /\ a = b * (a \div b) + (a % b)
BY DEF Positive

LEMMA MultipleLeavesNothing ==
  ASSUME NEW n \in Nat, NEW b \in Positive
  PROVE  (b * n) % b = 0
<1> DEFINE q == (b * n) \div b
           r == (b * n) % b
<1>1. b * n \in Nat
  BY DEF Positive
<1>2. q \in Nat /\ r \in 0 .. b - 1 /\ b * n = b * q + r
  BY <1>1, Division
<1> HIDE DEF q, r
<1>3. b * (n - q) = r
  BY <1>2 DEF Positive
<1>4. CASE n - q >= 1
  <2>1. b * (n - q) >= b
    BY <1>4, <1>2 DEF Positive
  <2>2. QED
    BY <2>1, <1>2, <1>3 DEF Positive
<1>5. CASE n - q <= -1
  <2>1. b * (n - q) <= -b
    BY <1>5, <1>2 DEF Positive
  <2>2. QED
    BY <2>1, <1>2, <1>3 DEF Positive
<1>6. CASE n - q = 0
  BY <1>6, <1>2, <1>3 DEF Positive, r
<1>7. QED
  BY <1>2, <1>4, <1>5, <1>6

(* There is one multiple of b for each quotient that a reaches, and 0.       *)
LEMMA MultiplesCount ==
  ASSUME NEW a \in Nat, NEW b \in Positive
  PROVE  Cardinality({p \in 0 .. a : p % b = 0}) = 1 + a \div b
<1> DEFINE S == {p \in 0 .. a : p % b = 0}
           f == [n \in 1 .. 1 + a \div b |-> b * (n - 1)]
<1>1. a \div b \in Nat /\ b * (a \div b) <= a
  BY Division DEF Positive
<1>2. ASSUME NEW n \in 1 .. 1 + a \div b
      PROVE  f[n] \in S
  <2>1. b * (n - 1) <= b * (a \div b) /\ b * (n - 1) \in Nat
    BY <1>1 DEF Positive
  <2>2. (b * (n - 1)) % b = 0
    <3>1. n - 1 \in Nat
      BY <1>1
    <3>2. QED
      BY <3>1, MultipleLeavesNothing
  <2>3. f[n] = b * (n - 1)
    OBVIOUS
  <2>4. b * (n - 1) \in 0 .. a
    BY <1>1, <2>1 DEF Positive
  <2>5. QED
    BY <2>2, <2>3, <2>4
<1>3. ASSUME NEW m \in 1 .. 1 + a \div b, NEW n \in 1 .. 1 + a \div b, f[m] = f[n]
      PROVE  m = n
  BY <1>1, <1>3 DEF Positive
<1>4. ASSUME NEW p \in S
      PROVE  \E n \in 1 .. 1 + a \div b : f[n] = p
  <2> DEFINE q == p \div b
  <2>1. q \in Nat /\ p = b * q
    BY Division DEF Positive
  <2>2. q <= a \div b
    <3>1. a < b * (a \div b + 1)
      BY Division DEF Positive
    <3>2. b * q < b * (a \div b + 1)
      BY <2>1, <3>1, <1>1 DEF Positive
    <3> HIDE DEF q
    <3>3. QED
      BY <3>2, <2>1, <1>1 DEF Positive
  <2>3. q + 1 \in 1 .. 1 + a \div b /\ f[q + 1] = p
    BY <2>1, <2>2, <1>1 DEF Positive
  <2>4. QED
    BY <2>3
<1>5. f \in Bijection(1 .. 1 + a \div b, S)
  BY <1>2, <1>3, <1>4 DEF Bijection, Injection, Surjection, IsInjective
<1>6. ExistsBijection(1 .. 1 + a \div b, S)
  BY <1>5 DEF ExistsBijection
<1>7. 1 + a \div b \in Nat
  BY <1>1
<1>8. QED
  BY <1>6, <1>7, FS_CountingElements

-----------------------------------------------------------------------------

(* The shapes bridge_validate_conv_shapes accepts: four dimensions, two      *)
(* spatial ones, and the output the bridge computes.                         *)
LEMMA AcceptedShapes ==
  ASSUME NEW g \in Geometry, bridge_validate_conv_shapes(g) = "SUCCESS", NEW s \in Spatial
  PROVE  /\ g.x.dims[s + 2] \in Positive /\ g.w.dims[s + 2] \in Positive
         /\ g.c.pad[s] \in Nat /\ g.c.stride[s] \in Positive
         /\ g.c.dilation[s] \in Positive
         /\ OutputSize(g, s) > 0 /\ g.y.dims[s + 2] = OutputSize(g, s)
<1>1. Valid(g) /\ (\A d \in {g.x, g.w, g.y} : Len(d.dims) = 4) /\ ~Mismatched(g)
  BY DEF bridge_validate_conv_shapes
<1>2. g.x \in Tensor /\ g.w \in Tensor /\ g.c \in Convolution
  BY DEF Geometry
<1>3. /\ g.x.dims \in Seq(Positive) /\ Len(g.x.dims) = 4
      /\ g.w.dims \in Seq(Positive) /\ Len(g.w.dims) = 4
  BY <1>1, <1>2 DEF Tensor
<1>4. /\ g.c.pad \in Seq(Nat) /\ Len(g.c.pad) = 2
      /\ g.c.stride \in Seq(Positive) /\ Len(g.c.stride) = 2
      /\ g.c.dilation \in Seq(Positive) /\ Len(g.c.dilation) = 2
  BY <1>1, <1>2 DEF Convolution, Valid
<1>5. g.x.dims[s + 2] \in Positive /\ g.w.dims[s + 2] \in Positive
  BY <1>3 DEF Spatial
<1>6. g.c.pad[s] \in Nat /\ g.c.stride[s] \in Positive /\ g.c.dilation[s] \in Positive
  BY <1>4 DEF Spatial
<1>7. ~(OutputSize(g, s) <= 0) /\ g.y.dims[s + 2] = OutputSize(g, s)
  BY <1>1 DEF Mismatched
<1>8. OutputSize(g, s) > 0
  <2>1. Padded(g, s) \in Int /\ Extent(g, s) \in Int
    BY <1>5, <1>6 DEF Padded, Extent, Positive
  <2>2. Padded(g, s) - Extent(g, s) \in Int
    BY <2>1
  <2>3. OutputSize(g, s) \in Int
    BY <2>2, <1>6 DEF OutputSize, Quotient, Positive
  <2>4. QED
    BY <2>3, <1>7
<1>9. QED
  BY <1>5, <1>6, <1>7, <1>8

(* The last tap reaches farthest, so the filter fits where its last tap does.*)
LEMMA FitsWithLastTap ==
  ASSUME NEW d \in Positive, NEW k \in Positive, NEW p \in Int, NEW size \in Int
  PROVE  (\A j \in 0 .. k - 1 : p + d * j < size) <=> p + d * (k - 1) < size
<1>1. k - 1 \in 0 .. k - 1
  BY DEF Positive
<1>2. ASSUME p + d * (k - 1) < size, NEW j \in 0 .. k - 1
      PROVE  p + d * j < size
  <2>1. d * j <= d * (k - 1)
    BY DEF Positive
  <2>2. QED
    BY <1>2, <2>1 DEF Positive
<1>3. QED
  BY <1>1, <1>2

(* bridge_validate_conv_shapes accepts an output size only if it is the      *)
(* number of positions of the filter in the padded input, or one element for *)
(* a filter that overhangs it by less than the stride.                       *)
THEOREM AcceptedSize ==
  ASSUME NEW g \in Geometry, bridge_validate_conv_shapes(g) = "SUCCESS", NEW s \in Spatial
  PROVE  g.y.dims[s + 2] =
           IF Overhangs(g, s) THEN 1 ELSE Cardinality(Positions(g, s))
<1> DEFINE size == Padded(g, s)
           last == LastTap(g, s)
           stride == g.c.stride[s]
           room == size - (last + 1)
<1>1. /\ size \in Nat /\ last \in Nat /\ stride \in Positive
      /\ g.c.dilation[s] \in Positive /\ g.w.dims[s + 2] \in Positive
      /\ last = g.c.dilation[s] * (g.w.dims[s + 2] - 1)
      /\ Extent(g, s) = last + 1
  BY AcceptedShapes DEF Padded, LastTap, Extent, Positive
<1>2. /\ g.y.dims[s + 2] = 1 + Quotient(room, stride)
      /\ 1 + Quotient(room, stride) > 0
  BY <1>1, AcceptedShapes DEF OutputSize
<1>3. Positions(g, s) = {p \in 0 .. size : p % stride = 0 /\ p + last < size}
  <2>1. \A p \in 0 .. size :
          (\A j \in 0 .. (g.w.dims[s + 2] - 1) : p + g.c.dilation[s] * j < size)
             <=> p + last < size
    <3>1. TAKE p \in 0 .. size
    <3>2. p \in Int /\ size \in Int
      BY <1>1
    <3> HIDE DEF size
    <3>3. QED
      BY <3>2, <1>1, FitsWithLastTap
  <2>2. QED
    BY <2>1 DEF Positions
<1>4. Overhangs(g, s) <=> size <= last /\ last < size + stride - 1
  BY DEF Overhangs
<1> HIDE DEF size, last, stride
<1>5. CASE room >= 0
  <2>1. ~Overhangs(g, s)
    BY <1>1, <1>4, <1>5
  <2>2. Positions(g, s) = {p \in 0 .. room : p % stride = 0}
    BY <1>1, <1>3, <1>5 DEF Positive
  <2>3. Cardinality(Positions(g, s)) = 1 + room \div stride
    BY <1>1, <1>5, <2>2, MultiplesCount
  <2>4. QED
    BY <1>2, <1>5, <2>1, <2>3 DEF Quotient
<1>6. CASE room < 0
  <2>1. Quotient(room, stride) = -((-room) \div stride)
    BY <1>6, <1>1 DEF Quotient
  <2> DEFINE q == (-room) \div stride
             r == (-room) % stride
  <2>2. q \in Nat /\ r \in 0 .. stride - 1 /\ -room = stride * q + r
    <3>1. -room \in Nat
      BY <1>1, <1>6
    <3>2. QED
      BY <3>1, <1>1, Division
  <2> HIDE DEF q, r
  <2>3. q = 0
    BY <2>1, <2>2, <1>2 DEF q
  <2>4. -room < stride
    BY <2>2, <2>3, <1>1 DEF Positive
  <2>5. Overhangs(g, s)
    BY <1>1, <1>4, <1>6, <2>4 DEF Positive
  <2>6. QED
    BY <1>2, <2>1, <2>3, <2>5 DEF q
<1>7. QED
  BY <1>1, <1>5, <1>6

(* A call that got past the checks has shapes the checks accept, so what it  *)
(* asks MIOpen for is a convolution: in both directions the output has one   *)
(* element for each position of the filter, up to the overhang C's division  *)
(* lets through.                                                             *)
THEOREM AcceptedAreConvolutions == Spec => []AcceptedIsConvolution
<1> DEFINE Inv == TypeOK /\ \A t \in Threads : Faithful(t)
<1>1. Inv => AcceptedIsConvolution
  <2> SUFFICES ASSUME Inv, NEW t \in Threads, pc[t] # "idle", NEW s \in Spatial
               PROVE  req[t].g.y.dims[s + 2] =
                        IF Overhangs(req[t].g, s) THEN 1
                        ELSE Cardinality(Positions(req[t].g, s))
    BY DEF AcceptedIsConvolution
  <2>1. EntryStatus(req[t]) = "GO"
    BY DEF Faithful
  <2>2. bridge_validate_conv_shapes(req[t].g) = "SUCCESS"
    <3>1. bridge_validate_conv_shapes(req[t].g) # "GO"
      BY DEF bridge_validate_conv_shapes
    <3>2. QED
      BY <2>1, <3>1 DEF EntryStatus
  <2>3. req[t].g \in Geometry
    BY RequestType DEF Request
  <2>4. QED
    BY <2>2, <2>3, AcceptedSize
<1>2. Init => Inv
  BY InitType, FaithfulInit
<1>3. Inv /\ [Next]_vars => Inv'
  BY StepType, FaithfulStep
<1>4. QED
  BY <1>1, <1>2, <1>3, PTL DEF Spec
=============================================================================
