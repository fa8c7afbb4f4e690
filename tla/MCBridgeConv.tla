----------------------------- MODULE MCBridgeConv -----------------------------
(***************************************************************************)
(* Instances of BridgeConv for TLC.  The lists hold a record whose listed  *)
(* workspace differs from its queried one, two families that share a       *)
(* backward algorithm, an unusable first record, a family no switch knows, *)
(* and one record more than QueryCap reads.                                *)
(***************************************************************************)
EXTENDS BridgeConv

Sol(id, f, listed, ws, ok) ==
  [id |-> id, family |-> f, listed |-> listed, ws |-> ws, ok |-> ok]

TwoGemms == << Sol(1, "GEMM", 0, 2, TRUE), Sol(2, "IMPLICIT_GEMM", 1, 1, TRUE),
               Sol(3, "DIRECT", 0, 0, TRUE) >>
BrokenFirst == << Sol(4, "GEMM", 0, 1, FALSE), Sol(5, "OTHER", 0, 0, TRUE),
                  Sol(6, "IMPLICIT_GEMM", 2, 1, TRUE), Sol(7, "GEMM", 1, 2, TRUE),
                  Sol(8, "DIRECT", 0, 0, TRUE) >>

MCCatalog == [fwd       |-> {TwoGemms, BrokenFirst},
              bwdData   |-> {BrokenFirst, <<>>},
              bwdFilter |-> {BrokenFirst}]

Dims(n, c, h, w) == [type |-> "FLOAT", dims |-> <<n, c, h, w>>]
Plain == [pad |-> <<0, 0>>, stride |-> <<1, 1>>, dilation |-> <<1, 1>>, groups |-> 1]
Square(in, k, size) ==
  [x |-> Dims(1, 1, in, in), w |-> Dims(1, 1, k, k), c |-> Plain, y |-> Dims(1, 1, size, size)]

Base == [kind |-> "v7", dir |-> "fwd", algo |-> "GEMM", requested |-> 5,
         given |-> 0, ptr |-> TRUE, bad |-> FALSE, plain |-> TRUE, g |-> Square(4, 3, 2)]

Queries ==
  {[Base EXCEPT !.dir = d, !.requested = n] : d \in {"fwd", "bwdData"}, n \in {1, 5}}

Sizes ==
  {[Base EXCEPT !.kind = "size", !.algo = a] : a \in {"IMPLICIT_PRECOMP_GEMM", "FFT_TILING"}}
  \union {[Base EXCEPT !.kind = "size", !.dir = "bwdData", !.algo = "ALGO_1"]}

Executions ==
  {[Base EXCEPT !.kind = "exec", !.given = n] : n \in {1, 2}}
  \union {[Base EXCEPT !.kind = "exec", !.given = 2, !.ptr = FALSE]}
  \union {[Base EXCEPT !.kind = "exec", !.dir = d, !.algo = "ALGO_1", !.given = n] :
             d \in {"bwdData", "bwdFilter"}, n \in {0, 2}}

(* Calls the prologue turns away, and a filter whose strides do not fit. *)
Refused ==
  { [Base EXCEPT !.bad = TRUE], [Base EXCEPT !.requested = -1],
    [Base EXCEPT !.requested = 0],
    [Base EXCEPT !.kind = "exec", !.plain = FALSE],
    [Base EXCEPT !.kind = "exec", !.g = Square(8, 8, 1)] }

(* One row and any column: sizes, padding, stride and dilation at and around *)
(* the edge where the filter just fits; groups and types that differ; a      *)
(* descriptor that was never set, one of another rank.                       *)
Column(in, k, pad, stride, dilation, size) ==
  [x |-> Dims(1, 1, 1, in), w |-> Dims(1, 1, 1, k), y |-> Dims(1, 1, 1, size),
   c |-> [pad |-> <<0, pad>>, stride |-> <<1, stride>>, dilation |-> <<1, dilation>>,
          groups |-> 1]]

(* The output size is the one the bridge asks for, where there is one.       *)
Sized(g) ==
  [g EXCEPT !.y.dims[4] = IF OutputSize(g, 2) > 0 THEN OutputSize(g, 2) ELSE 1]

Columns ==
  {Sized(Column(4, k, 0, stride, dilation, 1)) :
     k \in 2 .. 3, stride \in {1, 3}, dilation \in 1 .. 2}
  \union {Sized(Column(1, 3, pad, stride, 1, 1)) : pad \in 0 .. 1, stride \in 2 .. 3}
  \union {Column(4, 2, 0, 2, 1, 3)}

Grouped(x, w, y, n) ==
  [x |-> Dims(1, x, 4, 4), w |-> Dims(y, w, 3, 3), y |-> Dims(1, y, 2, 2),
   c |-> [Plain EXCEPT !.groups = n]]

Odd ==
  {Grouped(4, 2, 2, 2), Grouped(4, 2, 3, 2),
   [Square(4, 3, 2) EXCEPT !.y.type = "HALF"], [Square(4, 3, 2) EXCEPT !.x.dims = <<>>],
   [Square(4, 3, 2) EXCEPT !.w.dims = <<1, 1, 3>>]}

(* An algorithm no direction maps: the call ends after its descriptors. *)
Shapes == {[Base EXCEPT !.kind = "size", !.algo = "WINOGRAD_NONFUSED", !.g = h] :
             h \in Columns \union Odd}

MCRequests == Queries \union Sizes \union Executions \union Refused \union Shapes
=============================================================================
