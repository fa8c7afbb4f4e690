-------------------------- MODULE LaunchTrace_proofs --------------------------
(***************************************************************************)
(* Proofs about module LaunchTrace, for any number of threads, launches,   *)
(* handles, kernels and lost records, and any file found at the start.     *)
(***************************************************************************)
EXTENDS LaunchTrace, TLAPS, FiniteSetTheorems

-----------------------------------------------------------------------------
(* Induction over the natural numbers, for a set. *)
LEMMA SetInduction ==
  ASSUME NEW S, 0 \in S, \A n \in Nat : n \in S => n + 1 \in S
  PROVE  Nat \subseteq S
<1> SUFFICES ASSUME Nat \ S # {}
             PROVE  FALSE
  OBVIOUS
<1>1. IsWellFoundedOn(OpToRel(<, Nat), Nat)
  BY NatLessThanWellFounded
<1> DEFINE less == OpToRel(<, Nat)
<1>2. \A m, n \in Nat : m < n => <<m, n>> \in less
  BY DEF OpToRel
<1> HIDE DEF less
<1>3. PICK x \in Nat \ S : \A y \in Nat \ S : ~(<<y, x>> \in less)
  <2>1. IsWellFoundedOn(less, Nat)
    BY <1>1 DEF less
  <2>2. Nat \ S \subseteq Nat
    OBVIOUS
  <2>3. QED
    BY <2>1, <2>2, WFMin
<1>4. x # 0 /\ x - 1 \in Nat /\ x - 1 < x
  BY <1>3
<1>5. x - 1 \in S
  BY <1>2, <1>3, <1>4
<1>6. (x - 1) + 1 \in S
  BY <1>4, <1>5
<1>7. QED
  BY <1>3, <1>4, <1>6

LEMMA MaxOfInterval ==
  ASSUME NEW n \in Nat, NEW s \in SUBSET (1 .. n + 1), n + 1 \in s
  PROVE  Max(s) = n + 1
<1>1. n + 1 \in s /\ \A y \in s : n + 1 >= y
  OBVIOUS
<1>2. \A x \in s : (\A y \in s : x >= y) => x = n + 1
  OBVIOUS
<1>3. QED
  BY <1>1, <1>2 DEF Max

(* There is a function that FoldLeft's recursion defines, on the sets of     *)
(* indices up to n, when a step leads from X to X.                           *)
Recursion(g, b, F, n) ==
  \A s \in SUBSET (1 .. n) :
     g[s] = IF s = {} THEN b ELSE F[<<g[s \ {Max(s)}], Max(s)>>]

Recursive(X, b, F, n) == \E g \in [SUBSET (1 .. n) -> X] : Recursion(g, b, F, n)

LEMMA RecursionExists ==
  ASSUME NEW X, NEW b \in X, NEW N \in Nat, NEW F \in [X \X (1 .. N) -> X]
  PROVE  Recursive(X, b, F, N)
<1> DEFINE S == {n \in Nat : n <= N => Recursive(X, b, F, n)}
<1>1. 0 \in S
  <2> DEFINE g == [s \in SUBSET (1 .. 0) |-> b]
  <2>1. g \in [SUBSET (1 .. 0) -> X]
    OBVIOUS
  <2>2. \A s \in SUBSET (1 .. 0) : s = {}
    OBVIOUS
  <2>3. Recursion(g, b, F, 0)
    BY <2>2 DEF Recursion
  <2> HIDE DEF g
  <2>4. Recursive(X, b, F, 0)
    BY <2>1, <2>3 DEF Recursive
  <2>5. QED
    BY <2>4
<1>2. ASSUME NEW n \in Nat, n \in S
      PROVE  n + 1 \in S
  <2> SUFFICES ASSUME n + 1 <= N
               PROVE  Recursive(X, b, F, n + 1)
    OBVIOUS
  <2>1. PICK g \in [SUBSET (1 .. n) -> X] : Recursion(g, b, F, n)
    <3>1. Recursive(X, b, F, n)
      BY <1>2
    <3>2. QED
      BY <3>1 DEF Recursive
  <2> DEFINE k == [s \in SUBSET (1 .. n + 1) |->
                     IF n + 1 \in s THEN F[<<g[s \ {n + 1}], n + 1>>] ELSE g[s]]
  <2>2. ASSUME NEW s \in SUBSET (1 .. n + 1), n + 1 \in s
        PROVE  s \ {n + 1} \in SUBSET (1 .. n) /\ g[s \ {n + 1}] \in X
    <3>1. s \ {n + 1} \in SUBSET (1 .. n)
      OBVIOUS
    <3>2. QED
      BY <3>1
  <2>3. ASSUME NEW s \in SUBSET (1 .. n + 1), n + 1 \notin s
        PROVE  s \in SUBSET (1 .. n)
    BY <2>3
  <2>4. k \in [SUBSET (1 .. n + 1) -> X]
    <3>1. ASSUME NEW s \in SUBSET (1 .. n + 1)
          PROVE  (IF n + 1 \in s THEN F[<<g[s \ {n + 1}], n + 1>>] ELSE g[s]) \in X
      BY <2>2, <2>3
    <3>2. QED
      BY <3>1
  <2>5. ASSUME NEW s \in SUBSET (1 .. n + 1)
        PROVE  k[s] = IF s = {} THEN b ELSE F[<<k[s \ {Max(s)}], Max(s)>>]
    <3>1. CASE n + 1 \in s
      <4>1. Max(s) = n + 1 /\ s # {}
        BY <3>1, MaxOfInterval
      <4>2. k[s \ {n + 1}] = g[s \ {n + 1}]
        BY <2>2, <3>1
      <4>3. QED
        BY <3>1, <4>1, <4>2
    <3>2. CASE n + 1 \notin s
      <4>1. s \in SUBSET (1 .. n) /\ s \ {Max(s)} \in SUBSET (1 .. n)
        BY <2>3, <3>2
      <4>2. k[s] = g[s] /\ k[s \ {Max(s)}] = g[s \ {Max(s)}]
        BY <3>2, <4>1
      <4>3. QED
        BY <2>1, <4>1, <4>2 DEF Recursion
    <3>3. QED
      BY <3>1, <3>2
  <2> HIDE DEF k
  <2>6. Recursion(k, b, F, n + 1)
    BY <2>5 DEF Recursion
  <2>7. QED
    BY <2>4, <2>6 DEF Recursive
<1> HIDE DEF S
<1>3. Nat \subseteq S
  BY <1>1, <1>2, SetInduction
<1>4. QED
  BY <1>3 DEF S

LEMMA MaxExists ==
  ASSUME NEW N \in Nat, NEW t \in SUBSET (1 .. N), t # {}
  PROVE  Max(t) \in t
<1> DEFINE Good(n) == \A s \in SUBSET (1 .. n) : s # {} => Max(s) \in s
           S == {n \in Nat : Good(n)}
<1>1. 0 \in S
  <2>1. \A s \in SUBSET (1 .. 0) : s = {}
    OBVIOUS
  <2>2. QED
    BY <2>1
<1>2. ASSUME NEW n \in Nat, n \in S
      PROVE  n + 1 \in S
  <2>1. ASSUME NEW s \in SUBSET (1 .. n + 1), s # {}
        PROVE  Max(s) \in s
    <3>1. CASE n + 1 \in s
      BY <3>1, MaxOfInterval
    <3>2. CASE n + 1 \notin s
      <4>1. s \in SUBSET (1 .. n)
        BY <3>2
      <4>2. QED
        BY <1>2, <2>1, <4>1
    <3>3. QED
      BY <3>1, <3>2
  <2>2. QED
    BY <2>1
<1> HIDE DEF S
<1>3. Nat \subseteq S
  BY <1>1, <1>2, SetInduction
<1>4. QED
  BY <1>3 DEF S

-----------------------------------------------------------------------------
(* What the readers keep, and the lines and calls they go through.           *)
Line == Seq(Text)
Call == [call : {"function", "launch"}, h : Handles, kernel : Kernels, ok : BOOLEAN]
Names == Kernels \union {"none"}
Summaries ==
  [open : SUBSET Nat, begun : SUBSET Nat, closed : SUBSET Nat, errors : Nat, begins : Nat,
   terminals : Nat, functions : [Handles -> Names],
   launches : Seq([name : Names, kernel : Kernels])]

LEMMA EmptyType == Empty \in Summaries
BY DEF Empty, Summaries, Names

LEMMA BlockingType ==
  ASSUME NEW s \in Summaries, NEW line \in Line
  PROVE  Blocking(s, line) \in Summaries
<1>1. CASE line = <<>>
  BY <1>1 DEF Blocking
<1>2. CASE line # <<>>
  <2>1. line[1] \in Text
    BY <1>2 DEF Line
  <2> DEFINE id == line[1].id
             event == line[1].event
  <2>2. id \in Nat
    BY <2>1 DEF Text
  <2> HIDE DEF id, event
  <2>3. CASE event = "begin"
    <3>1. Blocking(s, line) = [s EXCEPT !.open = s.open \union {id},
                                        !.begun = s.begun \union {id},
                                        !.begins = s.begins + 1]
      BY <1>2, <2>3 DEF Blocking, id, event
    <3>2. /\ s.open \union {id} \in SUBSET Nat /\ s.begun \union {id} \in SUBSET Nat
          /\ s.begins + 1 \in Nat
      BY <2>2 DEF Summaries
    <3>3. QED
      BY <3>1, <3>2 DEF Summaries
  <2>4. CASE event # "begin"
    <3> DEFINE fail == IF event = "done" THEN 0 ELSE 1
    <3>1. Blocking(s, line) = [s EXCEPT !.open = s.open \ {id},
                                        !.closed = s.closed \union {id},
                                        !.terminals = s.terminals + 1,
                                        !.errors = s.errors + fail]
      BY <1>2, <2>4 DEF Blocking, id, event
    <3>2. /\ s.open \ {id} \in SUBSET Nat /\ s.closed \union {id} \in SUBSET Nat
          /\ s.terminals + 1 \in Nat /\ s.errors + fail \in Nat
      BY <2>2 DEF Summaries
    <3> HIDE DEF fail
    <3>3. QED
      BY <3>1, <3>2 DEF Summaries
  <2>5. QED
    BY <2>3, <2>4
<1>3. QED
  BY <1>1, <1>2

LEMMA FunctionsType ==
  ASSUME NEW s \in Summaries, NEW c \in Call
  PROVE  Functions(s, c) \in Summaries
<1>1. c.h \in Handles /\ c.kernel \in Kernels /\ s.functions[c.h] \in Names
  BY DEF Call, Summaries
<1>2. CASE c.call = "launch"
  <2>1. [name |-> s.functions[c.h], kernel |-> c.kernel] \in [name : Names, kernel : Kernels]
    BY <1>1
  <2>2. Append(s.launches, [name |-> s.functions[c.h], kernel |-> c.kernel])
          \in Seq([name : Names, kernel : Kernels])
    BY <2>1 DEF Summaries
  <2>3. QED
    BY <1>2, <2>2 DEF Functions, Summaries
<1>3. CASE c.call # "launch"
  <2>1. [s.functions EXCEPT ![c.h] = c.kernel] \in [Handles -> Names]
    BY <1>1 DEF Summaries, Names
  <2>2. QED
    BY <1>3, <2>1 DEF Functions, Summaries
<1>4. QED
  BY <1>2, <1>3

(* The states a reader goes through, one per line.                           *)
ReadRun(h, base, seq) ==
  /\ h \in [0 .. Len(seq) -> Summaries] /\ h[0] = base
  /\ \A k \in 0 .. Len(seq) - 1 : h[k + 1] = Blocking(h[k], seq[k + 1])

LookUpRun(h, base, seq) ==
  /\ h \in [0 .. Len(seq) -> Summaries] /\ h[0] = base
  /\ \A k \in 0 .. Len(seq) - 1 : h[k + 1] = Functions(h[k], seq[k + 1])

(* FoldLeft's recursion, for each of the two loop bodies.                    *)
Reads(g, base, seq) ==
  g = [s \in SUBSET DOMAIN seq |->
         IF s = {} THEN base ELSE Blocking(g[s \ {Max(s)}], seq[Max(s)])]

LooksUp(g, base, seq) ==
  g = [s \in SUBSET DOMAIN seq |->
         IF s = {} THEN base ELSE Functions(g[s \ {Max(s)}], seq[Max(s)])]

LEMMA ReadFold ==
  ASSUME NEW base, NEW seq, \E g : Reads(g, base, seq)
  PROVE  \E g : Reads(g, base, seq) /\ FoldLeft(Blocking, base, seq) = g[DOMAIN seq]
<1> DEFINE g == CHOOSE g : Reads(g, base, seq)
<1>1. Reads(g, base, seq)
  OBVIOUS
<1>2. FoldLeft(Blocking, base, seq) = g[DOMAIN seq]
  BY Zenon DEF FoldLeft, MapThenFoldSet, Reads
<1>3. QED
  BY <1>1, <1>2

LEMMA LookUpFold ==
  ASSUME NEW base, NEW seq, \E g : LooksUp(g, base, seq)
  PROVE  \E g : LooksUp(g, base, seq) /\ FoldLeft(Functions, base, seq) = g[DOMAIN seq]
<1> DEFINE g == CHOOSE g : LooksUp(g, base, seq)
<1>1. LooksUp(g, base, seq)
  OBVIOUS
<1>2. FoldLeft(Functions, base, seq) = g[DOMAIN seq]
  BY Zenon DEF FoldLeft, MapThenFoldSet, LooksUp
<1>3. QED
  BY <1>1, <1>2

(* The fold is where the run ends. *)
LEMMA ReadRuns ==
  ASSUME NEW base \in Summaries, NEW seq \in Seq(Line)
  PROVE  \E h : ReadRun(h, base, seq) /\ FoldLeft(Blocking, base, seq) = h[Len(seq)]
<1> DEFINE N == Len(seq)
           F == [p \in Summaries \X (1 .. N) |-> Blocking(p[1], seq[p[2]])]
<1>1. N \in Nat /\ DOMAIN seq = 1 .. N /\ \A k \in 1 .. N : seq[k] \in Line
  OBVIOUS
<1>2. F \in [Summaries \X (1 .. N) -> Summaries]
  BY <1>1, BlockingType
<1>3. \A s \in Summaries, k \in 1 .. N : F[<<s, k>>] = Blocking(s, seq[k])
  OBVIOUS
<1> HIDE DEF N, F
<1>4. PICK g \in [SUBSET (1 .. N) -> Summaries] : Recursion(g, base, F, N)
  BY <1>1, <1>2, RecursionExists DEF Recursive
<1>5. ASSUME NEW s \in SUBSET (1 .. N)
      PROVE  g[s] = IF s = {} THEN base ELSE Blocking(g[s \ {Max(s)}], seq[Max(s)])
  <2>1. CASE s # {}
    <3>1. Max(s) \in 1 .. N
      BY <1>1, <2>1, MaxExists
    <3>2. g[s \ {Max(s)}] \in Summaries
      OBVIOUS
    <3>3. QED
      BY <1>3, <1>4, <2>1, <3>1, <3>2 DEF Recursion
  <2>2. QED
    BY <1>4, <2>1 DEF Recursion
<1>6. Reads(g, base, seq)
  BY <1>1, <1>5 DEF Reads
<1>7. PICK f : Reads(f, base, seq) /\ FoldLeft(Blocking, base, seq) = f[DOMAIN seq]
  BY <1>6, ReadFold
<1>8. \A s \in SUBSET (1 .. N) :
         f[s] = IF s = {} THEN base ELSE Blocking(f[s \ {Max(s)}], seq[Max(s)])
  BY <1>1, <1>7 DEF Reads
<1> DEFINE h == [k \in 0 .. N |-> f[1 .. k]]
<1>9. h[0] = base
  <2>1. 1 .. 0 = {} /\ {} \in SUBSET (1 .. N)
    OBVIOUS
  <2>2. f[1 .. 0] = base
    BY <1>8, <2>1
  <2>3. QED
    BY <1>1, <2>2
<1>10. ASSUME NEW k \in 0 .. N - 1
       PROVE  h[k + 1] = Blocking(h[k], seq[k + 1])
  <2>1. /\ 1 .. k + 1 \in SUBSET (1 .. N) /\ 1 .. k + 1 # {}
        /\ (1 .. k + 1) \ {k + 1} = 1 .. k /\ k \in Nat
    BY <1>1
  <2>2. Max(1 .. k + 1) = k + 1
    BY <2>1, MaxOfInterval
  <2>3. f[1 .. k + 1] = Blocking(f[1 .. k], seq[k + 1])
    BY <1>8, <2>1, <2>2
  <2>4. QED
    BY <1>1, <2>3
<1>11. h[N] = FoldLeft(Blocking, base, seq)
  BY <1>1, <1>7
<1>12. h \in [0 .. N -> Summaries]
  <2> DEFINE S == {k \in Nat : k <= N => h[k] \in Summaries}
  <2>1. 0 \in S
    BY <1>9
  <2>2. ASSUME NEW k \in Nat, k \in S
        PROVE  k + 1 \in S
    <3> SUFFICES ASSUME k + 1 <= N PROVE h[k + 1] \in Summaries
      OBVIOUS
    <3>1. k \in 0 .. N - 1 /\ k + 1 \in 1 .. N /\ h[k] \in Summaries
      BY <1>1, <2>2
    <3> HIDE DEF h
    <3>2. QED
      BY <1>1, <1>10, <3>1, BlockingType
  <2> HIDE DEF S
  <2>3. Nat \subseteq S
    BY <2>1, <2>2, SetInduction
  <2>4. ASSUME NEW k \in 0 .. N
        PROVE  h[k] \in Summaries
    <3>1. k \in S /\ k <= N
      BY <1>1, <2>3
    <3> HIDE DEF h
    <3>2. QED
      BY <3>1 DEF S
  <2>5. QED
    BY <2>4
<1> HIDE DEF h
<1>13. QED
  BY <1>1, <1>9, <1>10, <1>11, <1>12 DEF ReadRun, N

LEMMA LookUpRuns ==
  ASSUME NEW base \in Summaries, NEW seq \in Seq(Call)
  PROVE  \E h : LookUpRun(h, base, seq) /\ FoldLeft(Functions, base, seq) = h[Len(seq)]
<1> DEFINE N == Len(seq)
           F == [p \in Summaries \X (1 .. N) |-> Functions(p[1], seq[p[2]])]
<1>1. N \in Nat /\ DOMAIN seq = 1 .. N /\ \A k \in 1 .. N : seq[k] \in Call
  OBVIOUS
<1>2. F \in [Summaries \X (1 .. N) -> Summaries]
  BY <1>1, FunctionsType
<1>3. \A s \in Summaries, k \in 1 .. N : F[<<s, k>>] = Functions(s, seq[k])
  OBVIOUS
<1> HIDE DEF N, F
<1>4. PICK g \in [SUBSET (1 .. N) -> Summaries] : Recursion(g, base, F, N)
  BY <1>1, <1>2, RecursionExists DEF Recursive
<1>5. ASSUME NEW s \in SUBSET (1 .. N)
      PROVE  g[s] = IF s = {} THEN base ELSE Functions(g[s \ {Max(s)}], seq[Max(s)])
  <2>1. CASE s # {}
    <3>1. Max(s) \in 1 .. N
      BY <1>1, <2>1, MaxExists
    <3>2. g[s \ {Max(s)}] \in Summaries
      OBVIOUS
    <3>3. QED
      BY <1>3, <1>4, <2>1, <3>1, <3>2 DEF Recursion
  <2>2. QED
    BY <1>4, <2>1 DEF Recursion
<1>6. LooksUp(g, base, seq)
  BY <1>1, <1>5 DEF LooksUp
<1>7. PICK f : LooksUp(f, base, seq) /\ FoldLeft(Functions, base, seq) = f[DOMAIN seq]
  BY <1>6, LookUpFold
<1>8. \A s \in SUBSET (1 .. N) :
         f[s] = IF s = {} THEN base ELSE Functions(f[s \ {Max(s)}], seq[Max(s)])
  BY <1>1, <1>7 DEF LooksUp
<1> DEFINE h == [k \in 0 .. N |-> f[1 .. k]]
<1>9. h[0] = base
  <2>1. 1 .. 0 = {} /\ {} \in SUBSET (1 .. N)
    OBVIOUS
  <2>2. f[1 .. 0] = base
    BY <1>8, <2>1
  <2>3. QED
    BY <1>1, <2>2
<1>10. ASSUME NEW k \in 0 .. N - 1
       PROVE  h[k + 1] = Functions(h[k], seq[k + 1])
  <2>1. /\ 1 .. k + 1 \in SUBSET (1 .. N) /\ 1 .. k + 1 # {}
        /\ (1 .. k + 1) \ {k + 1} = 1 .. k /\ k \in Nat
    BY <1>1
  <2>2. Max(1 .. k + 1) = k + 1
    BY <2>1, MaxOfInterval
  <2>3. f[1 .. k + 1] = Functions(f[1 .. k], seq[k + 1])
    BY <1>8, <2>1, <2>2
  <2>4. QED
    BY <1>1, <2>3
<1>11. h[N] = FoldLeft(Functions, base, seq)
  BY <1>1, <1>7
<1>12. h \in [0 .. N -> Summaries]
  <2> DEFINE S == {k \in Nat : k <= N => h[k] \in Summaries}
  <2>1. 0 \in S
    BY <1>9
  <2>2. ASSUME NEW k \in Nat, k \in S
        PROVE  k + 1 \in S
    <3> SUFFICES ASSUME k + 1 <= N PROVE h[k + 1] \in Summaries
      OBVIOUS
    <3>1. k \in 0 .. N - 1 /\ k + 1 \in 1 .. N /\ h[k] \in Summaries
      BY <1>1, <2>2
    <3> HIDE DEF h
    <3>2. QED
      BY <1>1, <1>10, <3>1, FunctionsType
  <2> HIDE DEF S
  <2>3. Nat \subseteq S
    BY <2>1, <2>2, SetInduction
  <2>4. ASSUME NEW k \in 0 .. N
        PROVE  h[k] \in Summaries
    <3>1. k \in S /\ k <= N
      BY <1>1, <2>3
    <3> HIDE DEF h
    <3>2. QED
      BY <3>1 DEF S
  <2>5. QED
    BY <2>4
<1> HIDE DEF h
<1>13. QED
  BY <1>1, <1>9, <1>10, <1>11, <1>12 DEF LookUpRun, N

-----------------------------------------------------------------------------
(* What the readers' loops compute, said without a loop.                     *)
BeginsTo(f, k) == {i \in Begins(f) : i <= k}
ClosesTo(f, k) == {i \in Closes(f) : i <= k}
Id(f, i) == f[i][1].id
IdsOf(f, S) == {Id(f, i) : i \in S}
OpenTo(f, k) == {i \in BeginsTo(f, k) : \A l \in ClosesTo(f, k) : l > i => Id(f, l) # Id(f, i)}

Read(s, f, k) ==
  /\ s.begun = IdsOf(f, BeginsTo(f, k))
  /\ s.closed = IdsOf(f, ClosesTo(f, k))
  /\ s.open = IdsOf(f, OpenTo(f, k))
  /\ s.begins = Cardinality(BeginsTo(f, k))
  /\ s.terminals = Cardinality(ClosesTo(f, k))
  /\ s.errors = 0 <=> \A i \in ClosesTo(f, k) : f[i][1].event = "done"
  /\ s.functions = Empty.functions /\ s.launches = <<>>

LEMMA LineTypes ==
  ASSUME NEW f \in Seq(Line), NEW i \in DOMAIN f, f[i] # <<>>
  PROVE  /\ i \in Nat /\ Id(f, i) \in Nat /\ f[i][1].event \in Events
         /\ i \in Begins(f) <=> f[i][1].event = "begin"
         /\ i \in Closes(f) <=> f[i][1].event # "begin"
<1>1. f[i] \in Line
  OBVIOUS
<1>2. f[i][1] \in Text
  BY <1>1 DEF Line
<1>3. QED
  BY <1>2 DEF Text, Id, Begins, Closes, Events, Terminal

LEMMA FiniteIndices ==
  ASSUME NEW f \in Seq(Line), NEW k \in Nat
  PROVE  /\ IsFiniteSet(BeginsTo(f, k)) /\ IsFiniteSet(ClosesTo(f, k))
         /\ Cardinality(BeginsTo(f, k)) \in Nat /\ Cardinality(ClosesTo(f, k)) \in Nat
<1>1. IsFiniteSet(1 .. k)
  BY FS_Interval
<1>2. BeginsTo(f, k) \subseteq 1 .. k /\ ClosesTo(f, k) \subseteq 1 .. k
  BY DEF BeginsTo, ClosesTo, Begins, Closes
<1>3. IsFiniteSet(BeginsTo(f, k)) /\ IsFiniteSet(ClosesTo(f, k))
  BY <1>1, <1>2, FS_Subset
<1>4. QED
  BY <1>3, FS_CardinalityType

LEMMA ReadStep ==
  ASSUME NEW f \in Seq(Line), NEW k \in 0 .. Len(f) - 1, NEW s \in Summaries, Read(s, f, k)
  PROVE  Read(Blocking(s, f[k + 1]), f, k + 1)
<1> DEFINE line == f[k + 1]
           r == Blocking(s, line)
<1>1. k \in Nat /\ k + 1 \in DOMAIN f /\ line \in Line
  OBVIOUS
<1>2. \A i \in Begins(f) \union Closes(f) : i \in Nat /\ (i <= k + 1 <=> i <= k \/ i = k + 1)
  BY <1>1 DEF Begins, Closes
<1>3. CASE line = <<>>
  <2>1. k + 1 \notin Begins(f) /\ k + 1 \notin Closes(f)
    BY <1>3 DEF Begins, Closes
  <2>2. BeginsTo(f, k + 1) = BeginsTo(f, k) /\ ClosesTo(f, k + 1) = ClosesTo(f, k)
    BY <1>2, <2>1 DEF BeginsTo, ClosesTo
  <2>3. r = s
    BY <1>3 DEF Blocking
  <2>4. QED
    BY <2>2, <2>3 DEF Read, OpenTo
<1>4. CASE line # <<>> /\ line[1].event = "begin"
  <2>1. k + 1 \in Begins(f) /\ k + 1 \notin Closes(f)
    BY <1>1, <1>4, LineTypes
  <2>2. /\ BeginsTo(f, k + 1) = BeginsTo(f, k) \union {k + 1}
        /\ ClosesTo(f, k + 1) = ClosesTo(f, k)
        /\ k + 1 \notin BeginsTo(f, k)
    BY <1>1, <1>2, <2>1 DEF BeginsTo, ClosesTo
  <2>3. /\ r.open = s.open \union {Id(f, k + 1)} /\ r.begun = s.begun \union {Id(f, k + 1)}
        /\ r.begins = s.begins + 1 /\ r.closed = s.closed /\ r.terminals = s.terminals
        /\ r.errors = s.errors /\ r.functions = s.functions /\ r.launches = s.launches
    BY <1>4 DEF Blocking, Summaries, Id
  <2>4. Cardinality(BeginsTo(f, k + 1)) = Cardinality(BeginsTo(f, k)) + 1
    BY <1>1, <2>2, FiniteIndices, FS_AddElement
  <2>5. IdsOf(f, BeginsTo(f, k + 1)) = IdsOf(f, BeginsTo(f, k)) \union {Id(f, k + 1)}
    BY <2>2 DEF IdsOf
  <2>6. OpenTo(f, k + 1) = OpenTo(f, k) \union {k + 1}
    <3>1. \A l \in ClosesTo(f, k) : ~(l > k + 1)
      BY <1>1 DEF ClosesTo, Closes
    <3>2. QED
      BY <2>2, <3>1 DEF OpenTo
  <2>7. IdsOf(f, OpenTo(f, k + 1)) = IdsOf(f, OpenTo(f, k)) \union {Id(f, k + 1)}
    BY <2>6 DEF IdsOf
  <2>8. QED
    BY <2>2, <2>3, <2>4, <2>5, <2>7 DEF Read
<1>5. CASE line # <<>> /\ line[1].event # "begin"
  <2>1. k + 1 \notin Begins(f) /\ k + 1 \in Closes(f)
    BY <1>1, <1>5, LineTypes
  <2>2. /\ ClosesTo(f, k + 1) = ClosesTo(f, k) \union {k + 1}
        /\ BeginsTo(f, k + 1) = BeginsTo(f, k)
        /\ k + 1 \notin ClosesTo(f, k)
    BY <1>1, <1>2, <2>1 DEF BeginsTo, ClosesTo
  <2>3. /\ r.open = s.open \ {Id(f, k + 1)} /\ r.closed = s.closed \union {Id(f, k + 1)}
        /\ r.terminals = s.terminals + 1 /\ r.begun = s.begun /\ r.begins = s.begins
        /\ r.errors = s.errors + (IF line[1].event = "done" THEN 0 ELSE 1)
        /\ r.functions = s.functions /\ r.launches = s.launches
    BY <1>5 DEF Blocking, Summaries, Id
  <2>4. Cardinality(ClosesTo(f, k + 1)) = Cardinality(ClosesTo(f, k)) + 1
    BY <1>1, <2>2, FiniteIndices, FS_AddElement
  <2>5. IdsOf(f, ClosesTo(f, k + 1)) = IdsOf(f, ClosesTo(f, k)) \union {Id(f, k + 1)}
    BY <2>2 DEF IdsOf
  <2>6. OpenTo(f, k + 1) = {i \in OpenTo(f, k) : Id(f, i) # Id(f, k + 1)}
    <3>1. \A i \in BeginsTo(f, k) : k + 1 > i
      BY <1>1 DEF BeginsTo, Begins
    <3>2. QED
      BY <2>2, <3>1 DEF OpenTo
  <2>7. IdsOf(f, OpenTo(f, k + 1)) = IdsOf(f, OpenTo(f, k)) \ {Id(f, k + 1)}
    BY <2>6 DEF IdsOf
  <2>8. r.errors = 0 <=> \A i \in ClosesTo(f, k + 1) : f[i][1].event = "done"
    <3>1. s.errors \in Nat
      BY DEF Summaries
    <3>2. r.errors = 0 <=> s.errors = 0 /\ line[1].event = "done"
      BY <2>3, <3>1
    <3>3. QED
      BY <2>2, <3>2 DEF Read
  <2>9. QED
    BY <2>2, <2>3, <2>4, <2>5, <2>7, <2>8 DEF Read
<1>6. QED
  BY <1>3, <1>4, <1>5

LEMMA ReadToEnd ==
  ASSUME NEW f \in Seq(Line)
  PROVE  /\ FoldLeft(Blocking, Empty, f) \in Summaries
         /\ Read(FoldLeft(Blocking, Empty, f), f, Len(f))
<1>1. PICK h : ReadRun(h, Empty, f) /\ FoldLeft(Blocking, Empty, f) = h[Len(f)]
  BY EmptyType, ReadRuns
<1> DEFINE S == {k \in Nat : k <= Len(f) => Read(h[k], f, k)}
<1>2. 0 \in S
  <2>1. h[0] = Empty
    BY <1>1 DEF ReadRun
  <2>2. BeginsTo(f, 0) = {} /\ ClosesTo(f, 0) = {} /\ OpenTo(f, 0) = {}
    BY DEF BeginsTo, ClosesTo, OpenTo, Begins, Closes
  <2>3. Read(Empty, f, 0)
    BY <2>2, FS_EmptySet DEF Read, IdsOf, Empty
  <2>4. QED
    BY <2>1, <2>3
<1>3. ASSUME NEW k \in Nat, k \in S
      PROVE  k + 1 \in S
  <2> SUFFICES ASSUME k + 1 <= Len(f)
               PROVE  Read(h[k + 1], f, k + 1)
    OBVIOUS
  <2>1. k \in 0 .. Len(f) - 1 /\ Read(h[k], f, k)
    BY <1>3
  <2>2. h[k] \in Summaries /\ h[k + 1] = Blocking(h[k], f[k + 1])
    BY <1>1, <2>1 DEF ReadRun
  <2>3. QED
    BY <2>1, <2>2, ReadStep
<1> HIDE DEF S
<1>4. Nat \subseteq S
  BY <1>2, <1>3, SetInduction
<1>5. Read(h[Len(f)], f, Len(f))
  <2>1. Len(f) \in S
    BY <1>4
  <2>2. QED
    BY <2>1 DEF S
<1>6. h[Len(f)] \in Summaries
  BY <1>1 DEF ReadRun
<1>7. QED
  BY <1>1, <1>5, <1>6

(* For every file: the readers' loops, which keep a set of open launches as  *)
(* they go, end with the launches no later line closes; the numbers that     *)
(* begin and that close; how many lines do; and no error just when every     *)
(* closing line says done.                                                   *)
THEOREM ReaderComputes ==
  ASSUME NEW f \in Seq(Line)
  PROVE  LET s == FoldLeft(Blocking, Empty, f) IN
         /\ s.open = Open(f)
         /\ s.begun = IdsOf(f, Begins(f)) /\ s.closed = IdsOf(f, Closes(f))
         /\ s.begins = Cardinality(Begins(f)) /\ s.terminals = Cardinality(Closes(f))
         /\ s.errors = 0 <=> \A i \in Closes(f) : f[i][1].event = "done"
<1>1. BeginsTo(f, Len(f)) = Begins(f) /\ ClosesTo(f, Len(f)) = Closes(f)
  BY DEF BeginsTo, ClosesTo, Begins, Closes
<1>2. IdsOf(f, OpenTo(f, Len(f))) = Open(f)
  BY <1>1 DEF OpenTo, IdsOf, Id, Open
<1>3. QED
  BY <1>1, <1>2, ReadToEnd DEF Read

-----------------------------------------------------------------------------
(* The look-ups: a call more in the log is a step more of the loop, and the  *)
(* names do not depend on the lines read before.                             *)
LEMMA LookUpsAgree ==
  ASSUME NEW b \in Summaries, NEW c \in Summaries, NEW p, NEW h,
         NEW f \in Seq(Call), NEW g \in Seq(Call), LookUpRun(p, b, f), LookUpRun(h, c, g),
         Len(f) <= Len(g), \A k \in DOMAIN f : f[k] = g[k],
         b.functions = c.functions, b.launches = c.launches
  PROVE  /\ h[Len(f)].functions = p[Len(f)].functions
         /\ h[Len(f)].launches = p[Len(f)].launches
<1> DEFINE Same(k) == h[k].functions = p[k].functions /\ h[k].launches = p[k].launches
           S == {k \in Nat : k <= Len(f) => Same(k)}
<1>1. 0 \in S
  BY DEF LookUpRun
<1>2. ASSUME NEW k \in Nat, k \in S
      PROVE  k + 1 \in S
  <2> SUFFICES ASSUME k + 1 <= Len(f)
               PROVE  Same(k + 1)
    OBVIOUS
  <2>1. k \in 0 .. Len(f) - 1 /\ k \in 0 .. Len(g) - 1 /\ k + 1 \in DOMAIN f /\ Same(k)
    BY <1>2
  <2>2. /\ p[k] \in Summaries /\ h[k] \in Summaries
        /\ p[k + 1] = Functions(p[k], f[k + 1]) /\ h[k + 1] = Functions(h[k], f[k + 1])
    BY <2>1 DEF LookUpRun
  <2>3. \A s, t \in Summaries, d \in Call :
           s.functions = t.functions /\ s.launches = t.launches =>
             /\ Functions(s, d).functions = Functions(t, d).functions
             /\ Functions(s, d).launches = Functions(t, d).launches
    <3>1. TAKE s \in Summaries, t \in Summaries, d \in Call
    <3>2. CASE d.call = "launch"
      BY <3>2 DEF Functions, Summaries
    <3>3. CASE d.call # "launch"
      BY <3>3 DEF Functions, Summaries
    <3>4. QED
      BY <3>2, <3>3
  <2>4. f[k + 1] \in Call
    BY <2>1
  <2>5. QED
    BY <2>1, <2>2, <2>3, <2>4
<1> HIDE DEF S
<1>3. Nat \subseteq S
  BY <1>1, <1>2, SetInduction
<1>4. Len(f) \in S
  BY <1>3
<1>5. QED
  BY <1>4 DEF S

LEMMA LookUpsAppend ==
  ASSUME NEW b \in Summaries, NEW f \in Seq(Call), NEW c \in Call
  PROVE  LET s == FoldLeft(Functions, b, f)
             t == FoldLeft(Functions, b, Append(f, c))
         IN  /\ s \in Summaries
             /\ t.functions = Functions(s, c).functions
             /\ t.launches = Functions(s, c).launches
<1> DEFINE g == Append(f, c)
           n == Len(f)
<1>1. g \in Seq(Call) /\ Len(g) = n + 1 /\ n \in Nat /\ g[n + 1] = c
      /\ DOMAIN f = 1 .. n /\ \A k \in 1 .. n : g[k] = f[k]
  OBVIOUS
<1>2. PICK p : LookUpRun(p, b, f) /\ FoldLeft(Functions, b, f) = p[n]
  BY LookUpRuns
<1>3. PICK h : LookUpRun(h, b, g) /\ FoldLeft(Functions, b, g) = h[Len(g)]
  BY <1>1, LookUpRuns
<1>4. h[n].functions = p[n].functions /\ h[n].launches = p[n].launches
  <2>1. Len(f) <= Len(g) /\ \A k \in DOMAIN f : f[k] = g[k]
    BY <1>1
  <2> HIDE DEF g
  <2>2. QED
    BY <1>1, <1>2, <1>3, <2>1, LookUpsAgree
<1> HIDE DEF g, n
<1>5. p[n] \in Summaries /\ h[n] \in Summaries /\ h[n + 1] = Functions(h[n], c)
  BY <1>1, <1>2, <1>3 DEF LookUpRun, n
<1>6. /\ Functions(h[n], c).functions = Functions(p[n], c).functions
      /\ Functions(h[n], c).launches = Functions(p[n], c).launches
  <2>1. CASE c.call = "launch"
    BY <1>4, <1>5, <2>1 DEF Functions, Summaries
  <2>2. CASE c.call # "launch"
    BY <1>4, <1>5, <2>2 DEF Functions, Summaries
  <2>3. QED
    BY <2>1, <2>2
<1>7. QED
  BY <1>1, <1>2, <1>3, <1>5, <1>6 DEF g

LEMMA LookUpsEmpty ==
  ASSUME NEW b \in Summaries
  PROVE  FoldLeft(Functions, b, <<>>) = b
<1>1. <<>> \in Seq(Call) /\ Len(<<>>) = 0
  OBVIOUS
<1>2. PICK p : LookUpRun(p, b, <<>>) /\ FoldLeft(Functions, b, <<>>) = p[0]
  BY <1>1, LookUpRuns
<1>3. QED
  BY <1>2 DEF LookUpRun

-----------------------------------------------------------------------------
(* The invariants.                                                           *)
Doing ==
  [pc : {"idle", "launch", "sync", "return"}, id : 0 .. MaxLaunches,
   h : Handles \union {""}, kernel : Kernels \union {""}, say : Events \union {"", "newline"}]

Fates == {"open", "queued", "ok", "error"}

Typed ==
  /\ setup \in [blocking : BOOLEAN, traced : BOOLEAN]
  /\ phase \in {"running", "exit 0", "crashed"}
  /\ thread \in [Threads -> Doing]
  /\ fate \in Seq(Fates) /\ Len(fate) <= MaxLaunches
  /\ bound \in [Handles -> Kernels \union {"none"}]
  /\ lost \in 0 .. MaxLost
  /\ culprit \in 0 .. Len(fate)

Filed ==
  /\ lines \in Seq(Line) /\ old \in 0 .. Len(lines)
  /\ ragged \in BOOLEAN /\ merged \in BOOLEAN
  /\ ragged => lines # <<>> /\ lines[Len(lines)] # <<>>

(* What a thread that is not idle holds, and what it may have to say.        *)
Holds(t) ==
  IF thread[t].pc = "idle" THEN thread[t] = idle
  ELSE /\ thread[t].id \in DOMAIN fate /\ thread[t].h \in Handles
       /\ thread[t].kernel \in Kernels /\ thread[t].kernel = bound[thread[t].h]

Speaks(t) ==
  /\ thread[t].pc = "launch" => thread[t].say \in {"", "begin", "newline"}
  /\ thread[t].pc = "sync" => thread[t].say = ""
  /\ thread[t].pc = "return" => thread[t].say \in {"", "newline"} \union Terminal
  /\ ~setup.traced => thread[t].say = ""
  /\ setup.blocking /\ thread[t].say = "done" => fate[thread[t].id] = "ok"

Sole(t, u) == thread[t].id = thread[u].id /\ thread[t].pc # "idle" => t = u

Owners ==
  /\ \A t \in Threads : Holds(t) /\ Speaks(t)
  /\ \A t, u \in Threads : Sole(t, u)

(* With launch blocking, somebody waits for every launch that is queued; and *)
(* whoever issued the launch that brought the process down has not come back.*)
Awaited ==
  setup.blocking =>
    \A id \in DOMAIN fate : fate[id] = "queued" =>
      \E t \in Threads : thread[t].id = id /\ thread[t].pc = "sync"

Caught ==
  culprit # 0 =>
    /\ phase = "crashed"
    /\ setup.blocking =>
         \E t \in Threads : /\ thread[t].id = culprit /\ thread[t].say = ""
                            /\ thread[t].pc \in {"launch", "sync"}

(* The heads of this process's lines: the records a reader sees.             *)
Own == {i \in DOMAIN lines : i > old /\ lines[i] # <<>>}
HeadId(i) == lines[i][1].id
HeadEvent(i) == lines[i][1].event

(* The launches whose first record was written or lost.                      *)
StartedOf(F, th) ==
  {id \in F : \A t \in Threads : th[t].id = id => th[t].say # "begin"}
FinishedOf(F, th) ==
  {id \in F : \A t \in Threads :
     th[t].id = id => th[t].pc = "return" /\ th[t].say \notin Terminal}
Started == StartedOf(DOMAIN fate, thread)

Begun(id) == \E i \in Own : HeadId(i) = id /\ HeadEvent(i) = "begin"
Closed(id) == \E i \in Own : HeadId(i) = id /\ HeadEvent(i) \in Terminal
NoBegin == {id \in Started : ~Begun(id)}
NoEnd == {id \in Finished : ~Closed(id)}

HeadsAreTrue ==
  \A i \in Own :
    /\ setup.traced /\ HeadEvent(i) \in Events
    /\ HeadEvent(i) = "begin" => HeadId(i) \in Started
    /\ HeadEvent(i) # "begin" => HeadId(i) \in Finished
    /\ setup.blocking /\ HeadEvent(i) = "done" => fate[HeadId(i)] = "ok"

HeadsAreSole ==
  \A i, j \in Own : HeadId(i) = HeadId(j) =>
    /\ HeadEvent(i) = "begin" /\ HeadEvent(j) = "begin" => i = j
    /\ HeadEvent(i) # "begin" /\ HeadEvent(j) # "begin" => i = j
    /\ HeadEvent(i) = "begin" /\ HeadEvent(j) # "begin" => i < j

(* A record that is not in the file, on a line of its own, was lost.         *)
OnlyLostAreMissing ==
  setup.traced /\ ~merged =>
    /\ lost = 0 => NoBegin = {} /\ NoEnd = {}
    /\ lost = 1 => \E id \in DOMAIN fate : \/ NoBegin = {id} /\ NoEnd = {}
                                           \/ NoBegin = {} /\ NoEnd = {id}

(* The log so far resolves every handle to what the driver has it stand for. *)
SoFar == FoldLeft(Functions, Empty, log)
Named ==
  /\ log \in Seq(Call) /\ SoFar \in Summaries
  /\ SoFar.functions = bound
  /\ \A i \in DOMAIN SoFar.launches : SoFar.launches[i].name = SoFar.launches[i].kernel

(* What was counted stays within its bound.                                  *)
Counted == refused \in 0 .. MaxRefused /\ unended \in 0 .. MaxLost

(* A launch that failed though none was refused is one whose fate is known   *)
(* and which no thread works on any more.                                    *)
Failed(id) ==
  id \in DOMAIN fate /\ fate[id] = "error" /\ \A t \in Threads : thread[t].id # id

Told ==
  refused = 0 =>
    \A i \in DOMAIN log : log[i].call = "launch" /\ ~log[i].ok => \E id : Failed(id)

-----------------------------------------------------------------------------
(* Types.                                                                    *)
LEMMA Init_Typed == Init => Typed /\ Filed
<1> SUFFICES ASSUME Init PROVE Typed /\ Filed
  OBVIOUS
<1>1. idle \in Doing
  BY BoundsAreNatural DEF idle, Doing
<1>2. thread \in [Threads -> Doing]
  BY <1>1 DEF Init
<1>3. Typed
  <2>1. /\ fate = <<>> /\ culprit = 0 /\ lost = 0 /\ phase = "running"
        /\ setup \in [blocking : BOOLEAN, traced : BOOLEAN]
        /\ bound = [h \in Handles |-> "none"]
    BY DEF Init
  <2>2. /\ fate \in Seq(Fates) /\ Len(fate) = 0
        /\ bound \in [Handles -> Kernels \union {"none"}]
    BY <2>1
  <2>3. Len(fate) <= MaxLaunches /\ culprit \in 0 .. Len(fate) /\ lost \in 0 .. MaxLost
    BY <2>1, <2>2, BoundsAreNatural
  <2>4. phase \in {"running", "exit 0", "crashed"}
    BY <2>1
  <2>5. QED
    BY <1>2, <2>1, <2>2, <2>3, <2>4 DEF Typed
<1>4. lines \in Seq(Line) /\ old = Len(lines) /\ Len(lines) \in Nat
  <2>1. lines \in {<<>>} \union Leftovers /\ old = Len(lines)
    BY DEF Init
  <2>2. <<>> \in Seq(Line) /\ Leftovers \subseteq Seq(Line)
    BY LeftoversAreLines DEF Line
  <2>3. lines \in Seq(Line)
    BY <2>1, <2>2
  <2>4. QED
    BY <2>1, <2>3
<1>5. ragged \in BOOLEAN /\ merged \in BOOLEAN /\ (ragged => lines # <<>> /\ Last(lines) # <<>>)
  BY DEF Init
<1>6. QED
  BY <1>3, <1>4, <1>5 DEF Filed, Last

LEMMA FateSet ==
  ASSUME fate \in Seq(Fates), NEW id \in DOMAIN fate, NEW f \in Fates,
         fate' = [fate EXCEPT ![id] = f]
  PROVE  /\ fate' \in Seq(Fates) /\ Len(fate') = Len(fate) /\ DOMAIN fate' = DOMAIN fate
         /\ fate'[id] = f /\ \A i \in DOMAIN fate : i # id => fate'[i] = fate[i]
OBVIOUS

(* Setting one thread leaves the others, and what it is set to must be right.*)
LEMMA Sets ==
  ASSUME Typed, NEW t \in Threads, NEW d \in Doing, Set(t, d)
  PROVE  /\ thread' \in [Threads -> Doing]
         /\ thread'[t] = d /\ \A u \in Threads : u # t => thread'[u] = thread[u]
BY DEF Typed, Set

LEMMA OfProceed ==
  ASSUME Typed, Owners, NEW t \in Threads, thread[t].pc # "idle",
         NEW pc \in {"sync", "return"}, NEW event \in {""} \union Terminal,
         NEW f \in {"queued", "ok", "error"}, Proceed(t, pc, event, f)
  PROVE  /\ thread' \in [Threads -> Doing]
         /\ thread'[t].pc = pc /\ thread'[t].id = thread[t].id
         /\ thread'[t].say = IF setup.traced THEN event ELSE ""
         /\ thread'[t].h = thread[t].h /\ thread'[t].kernel = thread[t].kernel
         /\ \A u \in Threads : u # t => thread'[u] = thread[u]
         /\ fate' \in Seq(Fates)
         /\ Len(fate') = Len(fate) /\ DOMAIN fate' = DOMAIN fate
         /\ thread[t].id \in DOMAIN fate
         /\ fate'[thread[t].id] = f
         /\ \A id \in DOMAIN fate : id # thread[t].id => fate'[id] = fate[id]
<1> DEFINE word == IF setup.traced THEN event ELSE ""
           d == [thread[t] EXCEPT !.pc = pc, !.say = word]
<1>1. thread[t] \in Doing
  BY DEF Typed
<1>2. /\ d \in Doing /\ d.pc = pc /\ d.id = thread[t].id /\ d.say = word
      /\ d.h = thread[t].h /\ d.kernel = thread[t].kernel
  <2>1. word \in Events \union {"", "newline"}
    BY DEF Events
  <2> HIDE DEF word
  <2>2. QED
    BY <1>1, <2>1 DEF Doing
<1>3. Set(t, d)
  BY DEF Proceed
<1> HIDE DEF d, word
<1>4. /\ thread' \in [Threads -> Doing] /\ thread'[t] = d
      /\ \A u \in Threads : u # t => thread'[u] = thread[u]
  BY <1>2, <1>3, Sets
<1>5. thread[t].id \in DOMAIN fate
  BY DEF Owners, Holds
<1>6. fate' = [fate EXCEPT ![thread[t].id] = f]
  BY DEF Proceed
<1>7. fate \in Seq(Fates) /\ f \in Fates
  BY DEF Typed, Fates
<1>8. /\ fate' \in Seq(Fates) /\ Len(fate') = Len(fate) /\ DOMAIN fate' = DOMAIN fate
      /\ fate'[thread[t].id] = f
      /\ \A id \in DOMAIN fate : id # thread[t].id => fate'[id] = fate[id]
  BY <1>5, <1>6, <1>7, FateSet
<1>9. QED
  BY <1>2, <1>4, <1>5, <1>8 DEF word

(* The step of a call that came back: its cases.                             *)
Result(t, pc, event, f) ==
  /\ Proceed(t, pc, event, f)
  /\ thread[t].pc \in {"launch", "sync"} /\ thread[t].say = "" /\ phase = "running"
  /\ setup.blocking /\ f = "queued" => pc = "sync"
  /\ setup.blocking /\ event = "done" => f = "ok"
  /\ pc = "sync" => event = ""
  /\ pc = "return" => event # ""

LEMMA Issued ==
  ASSUME NEW t \in Threads, ModuleLaunchKernel(t) \/ StreamSynchronize(t)
  PROVE  \E pc \in {"sync", "return"}, event \in {""} \union Terminal,
            f \in {"queued", "ok", "error"} : Result(t, pc, event, f)
<1>1. CASE Proceed(t, "return", "launch-error", "error") /\ Ready(t, "launch")
  <2>1. Result(t, "return", "launch-error", "error")
    BY <1>1 DEF Ready, Result
  <2>2. QED
    BY <2>1 DEF Terminal
<1>2. CASE setup.blocking /\ Proceed(t, "sync", "", "queued") /\ Ready(t, "launch")
  <2>1. Result(t, "sync", "", "queued")
    BY <1>2 DEF Ready, Result
  <2>2. QED
    BY <2>1 DEF Terminal
<1>3. CASE ~setup.blocking /\ Proceed(t, "return", "done", "queued") /\ Ready(t, "launch")
  <2>1. Result(t, "return", "done", "queued")
    BY <1>3 DEF Ready, Result
  <2>2. QED
    BY <2>1 DEF Terminal
<1>4. CASE Proceed(t, "return", "sync-error", "error") /\ Ready(t, "sync")
  <2>1. Result(t, "return", "sync-error", "error")
    BY <1>4 DEF Ready, Result
  <2>2. QED
    BY <2>1 DEF Terminal
<1>5. CASE Proceed(t, "return", "done", "ok") /\ Ready(t, "sync")
  <2>1. Result(t, "return", "done", "ok")
    BY <1>5 DEF Ready, Result
  <2>2. QED
    BY <2>1 DEF Terminal
<1>6. QED
  BY <1>1, <1>2, <1>3, <1>4, <1>5 DEF ModuleLaunchKernel, StreamSynchronize

-----------------------------------------------------------------------------
(* Every action keeps the types, the owners of the launches, somebody        *)
(* waiting for every blocking one, and the thread a crash is due to.         *)
Base == Typed /\ Filed /\ Owners /\ Awaited /\ Caught

LEMMA Idles == idle.pc = "idle" /\ idle.id = 0 /\ idle.say = "" /\ idle.h = ""
BY DEF idle

LEMMA Init_Base == Init => Base
<1> SUFFICES ASSUME Init PROVE Base
  OBVIOUS
<1>1. Typed /\ Filed
  BY Init_Typed
<1>2. fate = <<>> /\ culprit = 0 /\ \A t \in Threads : thread[t] = idle
  BY DEF Init
<1>3. Owners
  <2>1. \A t \in Threads : Holds(t)
    BY <1>2, Idles DEF Holds
  <2>2. \A t \in Threads : Speaks(t)
    BY <1>2, Idles DEF Speaks
  <2>3. \A t, u \in Threads : Sole(t, u)
    BY <1>2, Idles DEF Sole
  <2>4. QED
    BY <2>1, <2>2, <2>3 DEF Owners
<1>4. Awaited /\ Caught
  BY <1>2 DEF Awaited, Caught
<1>5. QED
  BY <1>1, <1>3, <1>4 DEF Base

LEMMA GetFunction_Base ==
  ASSUME Base, NEW t \in Threads, GetFunction(t)
  PROVE  Base'
<1>1. UNCHANGED <<setup, phase, thread, fate, culprit, lines, ragged, lost, merged, old>>
  BY DEF GetFunction, history
<1>2. PICK h \in Handles : \E k \in Kernels, ok \in BOOLEAN :
        /\ ok => \A u \in Threads : thread[u].h # h
        /\ bound' = IF ok THEN [bound EXCEPT ![h] = k] ELSE bound
  BY DEF GetFunction
<1>3. PICK k \in Kernels, ok \in BOOLEAN :
        /\ ok => \A u \in Threads : thread[u].h # h
        /\ bound' = IF ok THEN [bound EXCEPT ![h] = k] ELSE bound
  BY <1>2
<1>4. bound \in [Handles -> Kernels \union {"none"}]
  BY DEF Base, Typed
<1>5. bound' \in [Handles -> Kernels \union {"none"}]
  BY <1>3, <1>4
<1>6. \A u \in Threads : thread[u].h \in Handles => bound'[thread[u].h] = bound[thread[u].h]
  BY <1>3, <1>4
<1>7. Typed' /\ Filed'
  BY <1>1, <1>5 DEF Base, Typed, Filed
<1>8. \A u \in Threads : Holds(u)'
  BY <1>1, <1>6 DEF Base, Owners, Holds
<1>9. (\A u \in Threads : Speaks(u)') /\ \A u, v \in Threads : Sole(u, v)'
  BY <1>1 DEF Base, Owners, Speaks, Sole
<1>10. Awaited' /\ Caught'
  BY <1>1 DEF Base, Awaited, Caught
<1>11. QED
  BY <1>7, <1>8, <1>9, <1>10 DEF Base, Owners

LEMMA NextLaunchId_Base ==
  ASSUME Base, NEW t \in Threads, NextLaunchId(t)
  PROVE  /\ Base'
         /\ fate' = Append(fate, "open") /\ Len(fate') = Len(fate) + 1
         /\ thread[t] = idle /\ thread'[t].pc = "launch" /\ thread'[t].id = Len(fate) + 1
         /\ thread'[t].say = IF setup.traced THEN "begin" ELSE ""
         /\ \A u \in Threads : u # t => thread'[u] = thread[u]
<1>1. /\ UNCHANGED <<setup, phase, culprit, bound, lines, ragged, lost, merged, old>>
      /\ fate' = Append(fate, "open") /\ Len(fate) < MaxLaunches /\ phase = "running"
      /\ thread[t].pc = "idle"
  BY DEF NextLaunchId, Ready, file, history
<1>2. fate \in Seq(Fates) /\ thread \in [Threads -> Doing] /\ setup.traced \in BOOLEAN
      /\ bound \in [Handles -> Kernels \union {"none"}]
  BY DEF Base, Typed
<1>3. /\ Len(fate') = Len(fate) + 1 /\ Len(fate) \in Nat
      /\ DOMAIN fate = 1 .. Len(fate) /\ DOMAIN fate' = 1 .. Len(fate) + 1
      /\ \A i \in DOMAIN fate : fate'[i] = fate[i]
      /\ fate' \in Seq(Fates) /\ fate'[Len(fate) + 1] = "open"
  BY <1>1, <1>2 DEF Fates
<1>4. PICK h \in {g \in Handles : bound[g] # "none"} :
        Set(t, [pc |-> "launch", id |-> Len(fate'), h |-> h, kernel |-> bound[h],
                say |-> IF setup.traced THEN "begin" ELSE ""])
  BY DEF NextLaunchId
<1> DEFINE d == [pc |-> "launch", id |-> Len(fate'), h |-> h, kernel |-> bound[h],
                 say |-> IF setup.traced THEN "begin" ELSE ""]
<1>5. bound[h] \in Kernels /\ Len(fate') \in 0 .. MaxLaunches
  BY <1>1, <1>2, <1>3, BoundsAreNatural
<1>6. d \in Doing
  BY <1>2, <1>5 DEF Doing, Events
<1>7. /\ thread' \in [Threads -> Doing] /\ thread'[t] = d
      /\ \A u \in Threads : u # t => thread'[u] = thread[u]
  <2>1. Set(t, d)
    BY <1>4
  <2> HIDE DEF d
  <2>2. QED
    BY <1>6, <2>1, Sets DEF Base
<1>15. /\ thread'[t].pc = "launch" /\ thread'[t].id = Len(fate) + 1 /\ thread'[t].h = h
       /\ thread'[t].kernel = bound[h]
       /\ thread'[t].say = IF setup.traced THEN "begin" ELSE ""
  <2>1. /\ d.pc = "launch" /\ d.id = Len(fate') /\ d.h = h /\ d.kernel = bound[h]
        /\ d.say = IF setup.traced THEN "begin" ELSE ""
    OBVIOUS
  <2>2. Len(fate') = Len(fate) + 1
    BY <1>3
  <2> HIDE DEF d
  <2>3. QED
    BY <1>7, <2>1, <2>2
<1>16. \A u \in Threads : u # t => thread'[u] = thread[u]
  BY <1>7
<1> HIDE DEF d
<1>8. thread[t] = idle /\ \A u \in Threads : thread[u].pc # "idle" => thread[u].id \in DOMAIN fate
  BY <1>1 DEF Base, Owners, Holds
<1>9. Typed'
  <2>1. culprit \in 0 .. Len(fate')
    <3>1. culprit \in 0 .. Len(fate)
      BY DEF Base, Typed
    <3>2. QED
      BY <1>3, <3>1
  <2>2. Len(fate') <= MaxLaunches
    BY <1>5
  <2>3. QED
    BY <1>1, <1>3, <1>7, <2>1, <2>2 DEF Base, Typed
<1>10. Filed' /\ Caught'
  <2>1. Filed'
    BY <1>1 DEF Base, Filed
  <2>2. Caught'
    BY <1>1 DEF Base, Caught
  <2>3. QED
    BY <2>1, <2>2
<1>11. ASSUME NEW u \in Threads
       PROVE  Holds(u)' /\ Speaks(u)'
  <2>1. CASE u = t
    <3>1. Len(fate') \in DOMAIN fate' /\ bound' = bound /\ setup' = setup
      BY <1>1, <1>3
    <3>2. /\ thread'[u].pc = "launch" /\ thread'[u].id = Len(fate') /\ thread'[u].h = h
          /\ thread'[u].kernel = bound[h]
          /\ thread'[u].say = IF setup.traced THEN "begin" ELSE ""
      BY <1>3, <1>15, <2>1
    <3>3. Holds(u)'
      BY <1>5, <3>1, <3>2 DEF Holds
    <3>5. Speaks(u)'
      BY <3>1, <3>2 DEF Speaks
    <3>6. QED
      BY <3>3, <3>5
  <2>2. CASE u # t
    <3>1. thread'[u] = thread[u] /\ Holds(u) /\ Speaks(u)
      BY <1>7, <2>2 DEF Base, Owners
    <3>2. Holds(u)'
      BY <1>1, <1>3, <3>1 DEF Holds
    <3>3. thread[u].say = "done" => thread[u].id \in DOMAIN fate
      BY <3>1, Idles DEF Holds
    <3>4. Speaks(u)'
      BY <1>1, <1>3, <3>1, <3>3 DEF Speaks
    <3>5. QED
      BY <3>2, <3>4
  <2>3. QED
    BY <2>1, <2>2
<1>12. ASSUME NEW u \in Threads, NEW v \in Threads
       PROVE  Sole(u, v)'
  <2>1. Sole(u, v) /\ idle.id = 0
    BY DEF Base, Owners, idle
  <2>2. CASE u # t /\ v # t
    BY <1>7, <2>1, <2>2 DEF Sole
  <2>3. CASE u = t /\ v # t
    <3>1. thread[v].id \in Int /\ thread[v].id <= Len(fate)
      <4>1. Holds(v) /\ Len(fate) \in Nat /\ DOMAIN fate = 1 .. Len(fate)
        BY <1>3 DEF Base, Owners
      <4>2. CASE thread[v].pc = "idle"
        <5>1. thread[v].id = 0
          BY <4>1, <4>2, Idles DEF Holds
        <5>2. QED
          BY <4>1, <5>1
      <4>3. CASE thread[v].pc # "idle"
        <5>1. thread[v].id \in DOMAIN fate
          BY <4>1, <4>3 DEF Holds
        <5>2. QED
          BY <4>1, <5>1
      <4>4. QED
        BY <4>2, <4>3
    <3>2. thread'[v].id # thread'[u].id
      <4>1. thread'[u].id = Len(fate) + 1 /\ thread'[v].id = thread[v].id
        BY <1>15, <1>16, <2>3
      <4>2. Len(fate) \in Nat
        BY <1>3
      <4>3. QED
        BY <3>1, <4>1, <4>2
    <3>3. QED
      BY <3>2 DEF Sole
  <2>4. CASE u # t /\ v = t
    <3>1. thread[u].id \in Int /\ thread[u].id <= Len(fate)
      <4>1. Holds(u) /\ Len(fate) \in Nat /\ DOMAIN fate = 1 .. Len(fate)
        BY <1>3 DEF Base, Owners
      <4>2. CASE thread[u].pc = "idle"
        <5>1. thread[u].id = 0
          BY <4>1, <4>2, Idles DEF Holds
        <5>2. QED
          BY <4>1, <5>1
      <4>3. CASE thread[u].pc # "idle"
        <5>1. thread[u].id \in DOMAIN fate
          BY <4>1, <4>3 DEF Holds
        <5>2. QED
          BY <4>1, <5>1
      <4>4. QED
        BY <4>2, <4>3
    <3>2. thread'[v].id # thread'[u].id
      <4>1. thread'[v].id = Len(fate) + 1 /\ thread'[u].id = thread[u].id
        BY <1>15, <1>16, <2>4
      <4>2. Len(fate) \in Nat
        BY <1>3
      <4>3. QED
        BY <3>1, <4>1, <4>2
    <3>3. QED
      BY <3>2 DEF Sole
  <2>5. QED
    BY <2>2, <2>3, <2>4 DEF Sole
<1>13. Awaited'
  <2>1. ASSUME NEW id \in DOMAIN fate', fate'[id] = "queued", setup.blocking
        PROVE  \E u \in Threads : thread'[u].id = id /\ thread'[u].pc = "sync"
    <3>1. id \in DOMAIN fate /\ fate[id] = "queued"
      BY <1>3, <2>1
    <3>2. PICK u \in Threads : thread[u].id = id /\ thread[u].pc = "sync"
      BY <2>1, <3>1 DEF Base, Awaited
    <3>3. u # t
      BY <1>1, <3>2
    <3>4. QED
      BY <1>7, <3>2, <3>3
  <2>2. QED
    BY <1>1, <2>1 DEF Awaited
<1>14. Base'
  <2>1. Owners'
    BY <1>11, <1>12 DEF Owners
  <2>2. QED
    BY <1>9, <1>10, <1>13, <2>1 DEF Base
<1>17. QED
  BY <1>1, <1>3, <1>8, <1>14, <1>15, <1>16

(* A thread that has said a word of what it had to say.                      *)
LEMMA Said_Base ==
  ASSUME Base, NEW t \in Threads, thread[t].say # "", NEW s \in {"", "newline"},
         Set(t, [thread[t] EXCEPT !.say = s]), phase = "running",
         UNCHANGED <<setup, phase, fate, culprit, bound>>, lost' \in 0 .. MaxLost
  PROVE  /\ Typed' /\ Owners' /\ Awaited' /\ Caught'
         /\ setup.traced /\ thread[t].pc \in {"launch", "return"}
         /\ thread'[t].pc = thread[t].pc /\ thread'[t].id = thread[t].id /\ thread'[t].say = s
         /\ \A u \in Threads : u # t => thread'[u] = thread[u]
<1>1. thread[t] \in Doing
  BY DEF Base, Typed
<1> DEFINE d == [thread[t] EXCEPT !.say = s]
<1>2. /\ d \in Doing /\ d.pc = thread[t].pc /\ d.id = thread[t].id /\ d.say = s
      /\ d.h = thread[t].h /\ d.kernel = thread[t].kernel
  BY <1>1 DEF Doing
<1>3. Set(t, d)
  OBVIOUS
<1> HIDE DEF d
<1>4. /\ thread' \in [Threads -> Doing] /\ thread'[t] = d
      /\ \A u \in Threads : u # t => thread'[u] = thread[u]
  BY <1>2, <1>3, Sets DEF Base
<1>5. Holds(t) /\ Speaks(t)
  BY DEF Base, Owners
<1>6. thread[t].pc \in {"launch", "return"} /\ setup.traced
  <2>1. thread[t].pc \in {"idle", "launch", "sync", "return"} /\ setup.traced \in BOOLEAN
    BY <1>1 DEF Base, Typed, Doing
  <2>2. thread[t].pc # "idle"
    BY <1>5, Idles DEF Holds
  <2>3. thread[t].pc # "sync"
    BY <1>5 DEF Speaks
  <2>4. setup.traced
    BY <1>5 DEF Speaks
  <2>5. QED
    BY <2>1, <2>2, <2>3, <2>4
<1>7. \A u \in Threads : /\ thread'[u].pc = thread[u].pc /\ thread'[u].id = thread[u].id
                         /\ thread'[u].h = thread[u].h /\ thread'[u].kernel = thread[u].kernel
  <2>1. TAKE u \in Threads
  <2>2. CASE u = t
    BY <1>2, <1>4, <2>2
  <2>3. CASE u # t
    BY <1>4, <2>3
  <2>4. QED
    BY <2>2, <2>3
<1>8. Typed'
  BY <1>4 DEF Base, Typed
<1>9. ASSUME NEW u \in Threads
      PROVE  Holds(u)' /\ Speaks(u)'
  <2>1. CASE u = t
    <3>1. thread'[u].pc # "idle" /\ thread[u].pc # "idle"
      BY <1>6, <1>7, <2>1
    <3>2. Holds(u)'
      BY <1>5, <1>7, <2>1, <3>1 DEF Holds
    <3>3. thread'[u].say = s /\ thread'[u].pc \in {"launch", "return"}
      BY <1>2, <1>4, <1>6, <2>1
    <3>4. Speaks(u)'
      BY <1>6, <3>3 DEF Speaks
    <3>5. QED
      BY <3>2, <3>4
  <2>2. CASE u # t
    <3>1. thread'[u] = thread[u] /\ Holds(u) /\ Speaks(u)
      BY <1>4, <2>2 DEF Base, Owners
    <3>2. QED
      BY <3>1 DEF Holds, Speaks
  <2>3. QED
    BY <2>1, <2>2
<1>10. \A u, v \in Threads : Sole(u, v)'
  <2>1. \A u, v \in Threads : Sole(u, v)
    BY DEF Base, Owners
  <2>2. QED
    BY <1>7, <2>1, ZenonT(60) DEF Sole
<1>11. Owners'
  BY <1>9, <1>10 DEF Owners
<1>12. Awaited'
  <2>1. ASSUME NEW id \in DOMAIN fate, fate[id] = "queued", setup.blocking
        PROVE  \E u \in Threads : thread'[u].id = id /\ thread'[u].pc = "sync"
    <3>1. PICK u \in Threads : thread[u].id = id /\ thread[u].pc = "sync"
      BY <2>1 DEF Base, Awaited
    <3>2. QED
      BY <1>7, <3>1
  <2>2. QED
    BY <2>1 DEF Awaited
<1>13. Caught'
  BY DEF Base, Caught
<1>14. QED
  BY <1>2, <1>4, <1>6, <1>8, <1>11, <1>12, <1>13

LEMMA WriteText_Base ==
  ASSUME Base, NEW t \in Threads, WriteText(t)
  PROVE  Base'
<1>1. /\ phase = "running" /\ thread[t].say \in Events
      /\ Set(t, [thread[t] EXCEPT !.say = "newline"])
      /\ UNCHANGED <<setup, phase, fate, culprit, bound, lost, old>>
      /\ ragged' = TRUE /\ merged' = (merged \/ ragged)
  BY DEF WriteText
<1>2. Typed' /\ Owners' /\ Awaited' /\ Caught'
  <2>1. lost' \in 0 .. MaxLost /\ thread[t].say # ""
    BY <1>1 DEF Base, Typed, Events, Terminal
  <2>2. QED
    BY <1>1, <2>1, Said_Base
<1>3. lines \in Seq(Line) /\ old \in 0 .. Len(lines) /\ ragged \in BOOLEAN /\ merged \in BOOLEAN
      /\ (ragged => lines # <<>> /\ lines[Len(lines)] # <<>>)
  BY DEF Base, Filed
<1> DEFINE r == [id |-> thread[t].id, event |-> thread[t].say]
<1>4. r \in Text
  <2>1. thread[t].id \in Nat
    <3>1. thread[t] \in Doing
      BY DEF Base, Typed
    <3>2. thread[t].id \in 0 .. MaxLaunches
      BY <3>1 DEF Doing
    <3>3. QED
      BY <3>2, BoundsAreNatural
  <2>2. QED
    BY <1>1, <2>1 DEF Text
<1>5. IF ragged THEN lines' = [lines EXCEPT ![Len(lines)] = Append(@, r)]
      ELSE lines' = Append(lines, <<r>>)
  BY DEF WriteText
<1> HIDE DEF r
<1>6. CASE ragged
  <2>1. Len(lines) \in DOMAIN lines /\ lines[Len(lines)] \in Line
    BY <1>3, <1>6
  <2>2. Append(lines[Len(lines)], r) \in Line /\ Append(lines[Len(lines)], r) # <<>>
    BY <1>4, <2>1 DEF Line
  <2>3. lines' = [lines EXCEPT ![Len(lines)] = Append(lines[Len(lines)], r)]
    BY <1>5, <1>6
  <2>4. lines' \in Seq(Line) /\ Len(lines') = Len(lines)
        /\ lines'[Len(lines)] = Append(lines[Len(lines)], r)
    BY <1>3, <2>1, <2>2, <2>3
  <2>5. Filed'
    BY <1>1, <1>3, <2>1, <2>2, <2>4 DEF Filed
  <2>6. QED
    BY <1>2, <2>5 DEF Base
<1>7. CASE ~ragged
  <2>1. lines' = Append(lines, <<r>>) /\ <<r>> \in Line /\ <<r>> # <<>>
    BY <1>4, <1>5, <1>7 DEF Line
  <2>2. lines' \in Seq(Line) /\ Len(lines') = Len(lines) + 1 /\ lines'[Len(lines')] = <<r>>
        /\ Len(lines) \in Nat
    BY <1>3, <2>1
  <2>3. Filed'
    BY <1>1, <1>3, <2>1, <2>2 DEF Filed
  <2>4. QED
    BY <1>2, <2>3 DEF Base
<1>8. QED
  BY <1>3, <1>6, <1>7

LEMMA LoseRecord_Base ==
  ASSUME Base, Counted, NEW t \in Threads, LoseRecord(t)
  PROVE  Base'
<1>1. /\ phase = "running" /\ thread[t].say \in Events
      /\ Set(t, [thread[t] EXCEPT !.say = ""])
      /\ UNCHANGED <<setup, phase, fate, culprit, bound, lines, ragged, merged, old>>
      /\ lost + unended < MaxLost /\ lost' = lost + 1
  BY DEF LoseRecord, file
<1>2. lost' \in 0 .. MaxLost /\ thread[t].say # ""
  <2>1. lost \in 0 .. MaxLost
    BY DEF Base, Typed
  <2>2. lost < MaxLost /\ lost' = lost + 1
    <3>1. lost + unended < MaxLost /\ lost' = lost + 1
      BY <1>1
    <3>2. unended \in 0 .. MaxLost
      BY DEF Counted
    <3>3. QED
      BY <2>1, <3>1, <3>2, BoundsAreNatural
  <2>3. lost' \in 0 .. MaxLost
    BY <2>1, <2>2, BoundsAreNatural
  <2>4. thread[t].say # ""
    BY <1>1 DEF Events, Terminal
  <2>5. QED
    BY <2>3, <2>4
<1>3. Typed' /\ Owners' /\ Awaited' /\ Caught'
  BY <1>1, <1>2, Said_Base
<1>4. Filed'
  BY <1>1 DEF Base, Filed
<1>5. QED
  BY <1>3, <1>4 DEF Base

LEMMA EndLine_Base ==
  ASSUME Base, NEW t \in Threads, EndLine(t)
  PROVE  Base'
<1>1. /\ phase = "running" /\ thread[t].say = "newline"
      /\ Set(t, [thread[t] EXCEPT !.say = ""])
      /\ UNCHANGED <<setup, phase, fate, culprit, bound, lost, merged, old>>
      /\ lines' = (IF ragged THEN lines ELSE Append(lines, <<>>)) /\ ragged' = FALSE
  BY DEF EndLine, history
<1>2. Typed' /\ Owners' /\ Awaited' /\ Caught'
  <2>1. lost' \in 0 .. MaxLost
    BY <1>1 DEF Base, Typed
  <2>2. QED
    BY <1>1, <2>1, Said_Base
<1>3. Filed'
  <2>1. lines \in Seq(Line) /\ old \in 0 .. Len(lines) /\ ragged \in BOOLEAN /\ merged \in BOOLEAN
        /\ <<>> \in Line
    BY DEF Base, Filed, Line
  <2>2. lines' \in Seq(Line) /\ Len(lines) <= Len(lines') /\ Len(lines) \in Nat
        /\ Len(lines') \in Nat
    <3>1. CASE ragged
      <4>1. lines' = lines
        BY <1>1, <3>1
      <4>2. QED
        BY <2>1, <4>1
    <3>2. CASE ~ragged
      <4>1. lines' = Append(lines, <<>>)
        BY <1>1, <3>2
      <4>2. QED
        BY <2>1, <4>1
    <3>3. QED
      BY <3>1, <3>2
  <2>3. old \in 0 .. Len(lines')
    BY <2>1, <2>2
  <2>4. QED
    BY <1>1, <2>1, <2>2, <2>3 DEF Filed
<1>4. QED
  BY <1>2, <1>3 DEF Base

LEMMA LoseNewline_Base ==
  ASSUME Base, NEW t \in Threads, LoseNewline(t)
  PROVE  Base'
<1>1. /\ phase = "running" /\ thread[t].say = "newline"
      /\ Set(t, [thread[t] EXCEPT !.say = ""])
      /\ UNCHANGED <<setup, phase, fate, culprit, bound, lines, ragged, lost, merged, old>>
  BY DEF LoseNewline, file
<1>2. Typed' /\ Owners' /\ Awaited' /\ Caught'
  <2>1. lost' \in 0 .. MaxLost
    BY <1>1 DEF Base, Typed
  <2>2. QED
    BY <1>1, <2>1, Said_Base
<1>3. Filed'
  BY <1>1 DEF Base, Filed
<1>4. QED
  BY <1>2, <1>3 DEF Base

LEMMA Result_Base ==
  ASSUME Base, NEW t \in Threads, NEW pc \in {"sync", "return"},
         NEW event \in {""} \union Terminal, NEW f \in {"queued", "ok", "error"},
         Result(t, pc, event, f)
  PROVE  /\ Base'
         /\ thread[t].id \in DOMAIN fate /\ thread[t].pc # "idle"
         /\ thread'[t].pc = pc /\ thread'[t].id = thread[t].id
         /\ thread'[t].say = IF setup.traced THEN event ELSE ""
         /\ \A u \in Threads : u # t => thread'[u] = thread[u]
         /\ DOMAIN fate' = DOMAIN fate
         /\ \A id \in DOMAIN fate : id # thread[t].id => fate'[id] = fate[id]
<1>1. /\ Proceed(t, pc, event, f) /\ phase = "running" /\ thread[t].pc # "idle"
      /\ UNCHANGED <<setup, phase, culprit, bound, lines, ragged, lost, merged, old>>
  BY DEF Result, Proceed, file, history
<1> DEFINE word == IF setup.traced THEN event ELSE ""
<1>2. /\ thread' \in [Threads -> Doing]
      /\ thread'[t].pc = pc /\ thread'[t].id = thread[t].id /\ thread'[t].say = word
      /\ thread'[t].h = thread[t].h /\ thread'[t].kernel = thread[t].kernel
      /\ \A u \in Threads : u # t => thread'[u] = thread[u]
      /\ fate' \in Seq(Fates) /\ Len(fate') = Len(fate) /\ DOMAIN fate' = DOMAIN fate
      /\ thread[t].id \in DOMAIN fate
      /\ fate'[thread[t].id] = f
      /\ \A id \in DOMAIN fate : id # thread[t].id => fate'[id] = fate[id]
  BY <1>1, OfProceed, ZenonT(60) DEF Base
<1> HIDE DEF word
<1>6. /\ thread'[t].pc = pc /\ thread'[t].id = thread[t].id /\ thread'[t].say = word
      /\ thread'[t].h = thread[t].h /\ thread'[t].kernel = thread[t].kernel
  BY <1>2
<1>7. /\ \A u \in Threads : u # t => thread'[u] = thread[u]
      /\ DOMAIN fate' = DOMAIN fate /\ Len(fate') = Len(fate) /\ fate' \in Seq(Fates)
      /\ thread[t].id \in DOMAIN fate /\ fate'[thread[t].id] = f
      /\ \A id \in DOMAIN fate : id # thread[t].id => fate'[id] = fate[id]
  BY <1>2
<1>8. Typed' /\ Filed' /\ Caught'
  <2>1. Typed'
    <3>1. thread' \in [Threads -> Doing]
      BY <1>2
    <3>2. QED
      BY <1>1, <1>7, <3>1 DEF Base, Typed
  <2>2. Filed' /\ Caught'
    BY <1>1 DEF Base, Filed, Caught
  <2>3. QED
    BY <2>1, <2>2
<1>9. Holds(t) /\ \A u \in Threads : Holds(u) /\ Speaks(u) /\ Sole(t, u)
  BY DEF Base, Owners
<1>10. ASSUME NEW u \in Threads
       PROVE  Holds(u)' /\ Speaks(u)'
  <2>1. CASE u = t
    <3>1. thread'[u].pc # "idle"
      BY <1>6, <2>1
    <3>2. Holds(u)'
      BY <1>1, <1>6, <1>7, <1>9, <2>1, <3>1 DEF Holds
    <3>3. /\ thread'[u].pc = pc /\ thread'[u].say = word /\ setup' = setup
          /\ fate'[thread'[u].id] = f
      BY <1>1, <1>6, <1>7, <2>1
    <3>4. /\ setup.blocking /\ event = "done" => f = "ok"
          /\ pc = "sync" => event = ""
      BY DEF Result
    <3>5. Speaks(u)'
      BY <3>3, <3>4 DEF Speaks, word
    <3>6. QED
      BY <3>2, <3>5
  <2>2. CASE u # t
    <3>1. thread'[u] = thread[u] /\ Holds(u) /\ Speaks(u) /\ Sole(t, u)
      BY <1>7, <1>9, <2>2
    <3>2. Holds(u)'
      BY <1>1, <1>7, <3>1 DEF Holds
    <3>3. setup.blocking /\ thread[u].say = "done" => fate'[thread[u].id] = "ok"
      <4>1. SUFFICES ASSUME setup.blocking, thread[u].say = "done"
                     PROVE  fate'[thread[u].id] = "ok"
        OBVIOUS
      <4>2. thread[u].pc # "idle"
        BY <3>1, <4>1, Idles DEF Holds
      <4>3. thread[u].id \in DOMAIN fate /\ thread[u].id # thread[t].id
        BY <1>1, <2>2, <3>1, <4>2 DEF Holds, Sole
      <4>4. fate[thread[u].id] = "ok"
        BY <3>1, <4>1 DEF Speaks
      <4>5. QED
        BY <1>7, <4>3, <4>4
    <3>4. Speaks(u)'
      BY <1>1, <3>1, <3>3 DEF Speaks
    <3>5. QED
      BY <3>2, <3>4
  <2>3. QED
    BY <2>1, <2>2
<1>11. \A u, v \in Threads : Sole(u, v)'
  <2>1. \A u \in Threads : thread'[u].id = thread[u].id /\ (thread'[u].pc # "idle" <=> thread[u].pc # "idle")
    BY <1>1, <1>6, <1>7
  <2>2. \A u, v \in Threads : Sole(u, v)
    BY DEF Base, Owners
  <2>3. QED
    BY <2>1, <2>2 DEF Sole
<1>12. Awaited'
  <2>1. ASSUME NEW id \in DOMAIN fate', fate'[id] = "queued", setup.blocking
        PROVE  \E u \in Threads : thread'[u].id = id /\ thread'[u].pc = "sync"
    <3>1. CASE id = thread[t].id
      <4>1. pc = "sync"
        BY <1>7, <2>1, <3>1 DEF Result
      <4>2. QED
        BY <1>6, <3>1, <4>1
    <3>2. CASE id # thread[t].id
      <4>1. id \in DOMAIN fate /\ fate[id] = "queued"
        BY <1>7, <2>1, <3>2
      <4>2. PICK u \in Threads : thread[u].id = id /\ thread[u].pc = "sync"
        BY <2>1, <4>1 DEF Base, Awaited
      <4>3. QED
        BY <1>7, <3>2, <4>2
    <3>3. QED
      BY <3>1, <3>2
  <2>2. QED
    BY <1>1, <2>1 DEF Awaited
<1>13. Base'
  <2>1. Owners'
    BY <1>10, <1>11 DEF Owners
  <2>2. QED
    BY <1>8, <1>12, <2>1 DEF Base
<1>14. QED
  BY <1>1, <1>6, <1>7, <1>13 DEF word

LEMMA Return_Base ==
  ASSUME Base, NEW t \in Threads, Return(t)
  PROVE  /\ Base'
         /\ thread[t].pc = "return" /\ thread[t].say = "" /\ thread'[t] = idle
         /\ \A u \in Threads : u # t => thread'[u] = thread[u]
<1>1. /\ UNCHANGED <<setup, phase, fate, culprit, bound, lines, ragged, lost, merged, old>>
      /\ thread[t].pc = "return" /\ thread[t].say = "" /\ phase = "running"
  BY DEF Return, Ready, history
<1>2. Set(t, idle) /\ idle \in Doing
  <2>1. Set(t, idle)
    BY DEF Return
  <2>2. idle \in Doing
    BY BoundsAreNatural DEF idle, Doing
  <2>3. QED
    BY <2>1, <2>2
<1>3. /\ thread' \in [Threads -> Doing] /\ thread'[t] = idle
      /\ \A u \in Threads : u # t => thread'[u] = thread[u]
  BY <1>2, Sets DEF Base
<1>4. Typed' /\ Filed' /\ Caught'
  <2>1. Typed'
    BY <1>1, <1>3 DEF Base, Typed
  <2>2. Filed' /\ Caught'
    BY <1>1 DEF Base, Filed, Caught
  <2>3. QED
    BY <2>1, <2>2
<1>5. \A u \in Threads : Holds(u) /\ Speaks(u)
  BY DEF Base, Owners
<1>6. ASSUME NEW u \in Threads
      PROVE  Holds(u)' /\ Speaks(u)'
  <2>1. CASE u = t
    <3>1. thread'[u] = idle
      BY <1>3, <2>1
    <3>2. QED
      BY <3>1, Idles DEF Holds, Speaks
  <2>2. CASE u # t
    BY <1>1, <1>3, <1>5, <2>2 DEF Holds, Speaks
  <2>3. QED
    BY <2>1, <2>2
<1>7. ASSUME NEW u \in Threads, NEW v \in Threads
      PROVE  Sole(u, v)'
  <2>1. Sole(u, v) /\ Sole(v, u) /\ Holds(u) /\ Holds(v)
    BY DEF Base, Owners
  <2>2. CASE u = t
    BY <1>3, <2>2, Idles DEF Sole
  <2>3. CASE u # t /\ v # t
    BY <1>3, <2>1, <2>3 DEF Sole
  <2>4. CASE u # t /\ v = t
    <3>1. thread'[v].id = 0 /\ thread'[u] = thread[u]
      BY <1>3, <2>4, Idles
    <3>2. thread[u].pc # "idle" => thread[u].id # 0
      <4>1. thread[u].pc # "idle" => thread[u].id \in DOMAIN fate
        BY <2>1 DEF Holds
      <4>2. 0 \notin DOMAIN fate
        <5>1. fate \in Seq(Fates)
          BY DEF Base, Typed
        <5>2. QED
          BY <5>1
      <4>3. QED
        BY <4>1, <4>2
    <3>3. QED
      BY <3>1, <3>2 DEF Sole
  <2>5. QED
    BY <2>2, <2>3, <2>4
<1>8. Awaited'
  <2>1. ASSUME NEW id \in DOMAIN fate, fate[id] = "queued", setup.blocking
        PROVE  \E u \in Threads : thread'[u].id = id /\ thread'[u].pc = "sync"
    <3>1. PICK u \in Threads : thread[u].id = id /\ thread[u].pc = "sync"
      BY <2>1 DEF Base, Awaited
    <3>2. QED
      BY <1>1, <1>3, <3>1
  <2>2. QED
    BY <1>1, <2>1 DEF Awaited
<1>9. Owners'
  BY <1>6, <1>7 DEF Owners
<1>10. QED
  BY <1>1, <1>3, <1>4, <1>8, <1>9 DEF Base

LEMMA Crash_Base ==
  ASSUME Base, Crash
  PROVE  Base'
<1>1. /\ UNCHANGED <<setup, thread, fate, bound, lines, ragged, lost, merged, old>>
      /\ phase = "running" /\ phase' = "crashed"
      /\ culprit' \in
           {0} \union {id \in DOMAIN fate : fate[id] = "queued"} \union
           {thread[t].id : t \in {u \in Threads : Ready(u, "launch")}}
  BY DEF Crash, file, history
<1>2. \A t \in Threads : Holds(t)
  BY DEF Base, Owners
<1>3. culprit' \in 0 .. Len(fate)
  <2>1. fate \in Seq(Fates)
    BY DEF Base, Typed
  <2>2. \A t \in Threads : Ready(t, "launch") => thread[t].id \in DOMAIN fate
    BY <1>2 DEF Holds, Ready
  <2>3. culprit' = 0 \/ culprit' \in DOMAIN fate
    BY <1>1, <2>2
  <2>4. QED
    BY <2>1, <2>3
<1>4. Caught'
  <2>1. ASSUME culprit' # 0, setup.blocking
        PROVE  \E t \in Threads : /\ thread[t].id = culprit' /\ thread[t].say = ""
                                  /\ thread[t].pc \in {"launch", "sync"}
    <3>1. CASE culprit' \in {id \in DOMAIN fate : fate[id] = "queued"}
      <4>1. PICK t \in Threads : thread[t].id = culprit' /\ thread[t].pc = "sync"
        BY <2>1, <3>1 DEF Base, Awaited
      <4>2. Speaks(t)
        BY DEF Base, Owners
      <4>3. QED
        BY <4>1, <4>2 DEF Speaks
    <3>2. CASE culprit' \in {thread[t].id : t \in {u \in Threads : Ready(u, "launch")}}
      BY <3>2 DEF Ready
    <3>3. QED
      BY <1>1, <2>1, <3>1, <3>2
  <2>2. QED
    BY <1>1, <2>1 DEF Caught
<1>5. Typed'
  BY <1>1, <1>3 DEF Base, Typed
<1>6. Filed' /\ Awaited'
  BY <1>1 DEF Base, Filed, Awaited
<1>7. Owners'
  BY <1>1 DEF Base, Owners, Holds, Speaks, Sole
<1>8. QED
  BY <1>4, <1>5, <1>6, <1>7 DEF Base

LEMMA Still_Base ==
  ASSUME Base,
         UNCHANGED <<setup, phase, thread, fate, culprit, bound, lines, ragged, lost, merged, old>>
  PROVE  Base'
<1>1. Typed' /\ Filed' /\ Awaited' /\ Caught'
  BY DEF Base, Typed, Filed, Awaited, Caught
<1>2. Owners'
  BY DEF Base, Owners, Holds, Speaks, Sole
<1>3. QED
  BY <1>1, <1>2 DEF Base

LEMMA Next_Base ==
  ASSUME Base, Counted, [Next]_vars
  PROVE  Base'
<1>1. ASSUME NEW t \in Threads, Step(t)
      PROVE  Base'
  <2>1. CASE GetFunction(t)
    BY <2>1, GetFunction_Base
  <2>2. CASE NextLaunchId(t)
    BY <2>2, NextLaunchId_Base
  <2>3. CASE WriteText(t)
    BY <2>3, WriteText_Base
  <2>4. CASE LoseRecord(t)
    BY <2>4, LoseRecord_Base
  <2>5. CASE EndLine(t)
    BY <2>5, EndLine_Base
  <2>6. CASE ModuleLaunchKernel(t) \/ StreamSynchronize(t)
    BY <2>6, Issued, Result_Base
  <2>7. CASE Return(t)
    BY <2>7, Return_Base
  <2>8. CASE Refuse(t)
    BY <2>8, Still_Base DEF Refuse, process
  <2>9. CASE LoseNewline(t)
    BY <2>9, LoseNewline_Base
  <2>10. QED
    BY <1>1, <2>1, <2>2, <2>3, <2>4, <2>5, <2>6, <2>7, <2>8, <2>9 DEF Step
<1>2. CASE Crash
  BY <1>2, Crash_Base
<1>3. CASE Exit
  <2>1. /\ UNCHANGED <<setup, thread, fate, culprit, bound, lines, ragged, lost, merged, old>>
        /\ phase = "running" /\ phase' = "exit 0"
    BY <1>3 DEF Exit, file, history
  <2>2. Typed' /\ Filed' /\ Awaited' /\ Caught'
    BY <2>1, ZenonT(60) DEF Base, Typed, Filed, Awaited, Caught
  <2>3. Owners'
    BY <2>1 DEF Base, Owners, Holds, Speaks, Sole
  <2>4. QED
    BY <2>2, <2>3 DEF Base
<1>4. CASE UNCHANGED vars
  BY <1>4, Still_Base DEF vars, process, file, history
<1>5. QED
  BY <1>1, <1>2, <1>3, <1>4 DEF Next

LEMMA Init_Counted == Init => Counted
BY BoundsAreNatural DEF Init, Counted

LEMMA Next_Counted ==
  ASSUME Base, Counted, [Next]_vars
  PROVE  Counted'
<1>1. CASE UNCHANGED <<refused, unended>>
  BY <1>1 DEF Counted
<1>2. ASSUME NEW t \in Threads, Refuse(t)
      PROVE  Counted'
  BY <1>2, BoundsAreNatural DEF Counted, Refuse
<1>3. ASSUME NEW t \in Threads, LoseNewline(t)
      PROVE  Counted'
  <2>1. lost \in 0 .. MaxLost /\ unended \in 0 .. MaxLost /\ refused \in 0 .. MaxRefused
    BY DEF Base, Typed, Counted
  <2>2. lost + unended < MaxLost /\ unended' = unended + 1 /\ refused' = refused
    BY <1>3 DEF LoseNewline
  <2>3. unended' \in 0 .. MaxLost
    BY <2>1, <2>2, BoundsAreNatural
  <2>4. QED
    BY <2>1, <2>2, <2>3 DEF Counted
<1>4. QED
  BY <1>1, <1>2, <1>3
  DEF Next, Step, GetFunction, NextLaunchId, WriteText, LoseRecord, EndLine,
      ModuleLaunchKernel, StreamSynchronize, Return, Proceed, Crash, Exit, vars, history

(* The state always has its types: what every thread is doing, what became   *)
(* of every launch, and a culprit that is one of them.                       *)
THEOREM TypeCorrect == Spec => []TypeOK
<1>1. Base /\ Counted => TypeOK
  BY DEF Base, Typed, Counted, TypeOK, Doing, Fates
<1>2. QED
  BY <1>1, Init_Base, Next_Base, Init_Counted, Next_Counted, PTL DEF Spec

-----------------------------------------------------------------------------
(* Names.  What the script resolves after n calls of the log is what the     *)
(* driver had the handles stand for then.                                    *)
LEMMA Init_Named == Init => Named
<1> SUFFICES ASSUME Init PROVE Named
  OBVIOUS
<1>1. log = <<>> /\ bound = [h \in Handles |-> "none"]
  BY DEF Init
<1>2. SoFar = Empty
  BY <1>1, EmptyType, LookUpsEmpty DEF SoFar
<1>3. log \in Seq(Call) /\ Empty.functions = bound /\ Empty.launches = <<>>
  BY <1>1 DEF Empty
<1>4. QED
  BY <1>2, <1>3, EmptyType DEF Named

LEMMA Logged ==
  ASSUME Named, NEW c \in Call, log' = Append(log, c)
  PROVE  /\ log' \in Seq(Call) /\ SoFar' \in Summaries /\ SoFar \in Summaries
         /\ SoFar'.functions = Functions(SoFar, c).functions
         /\ SoFar'.launches = Functions(SoFar, c).launches
<1>1. log \in Seq(Call) /\ SoFar \in Summaries
  BY DEF Named
<1>2. log' \in Seq(Call)
  BY <1>1
<1>3. /\ FoldLeft(Functions, Empty, log').functions = Functions(SoFar, c).functions
      /\ FoldLeft(Functions, Empty, log').launches = Functions(SoFar, c).launches
  BY <1>1, EmptyType, LookUpsAppend DEF SoFar
<1>4. FoldLeft(Functions, Empty, log') \in Summaries
  <2>1. PICK p : LookUpRun(p, Empty, log') /\ FoldLeft(Functions, Empty, log') = p[Len(log')]
    BY <1>2, EmptyType, LookUpRuns
  <2>2. Len(log') \in Nat
    BY <1>2
  <2>3. QED
    BY <2>1, <2>2 DEF LookUpRun
<1>5. QED
  BY <1>1, <1>2, <1>3, <1>4 DEF SoFar

(* A launch in the log, under the kernel its handle stands for.              *)
LEMMA Launch_Named ==
  ASSUME Named, NEW h \in Handles, NEW k \in Kernels, k = bound[h], NEW ok \in BOOLEAN,
         log' = Append(log, [call |-> "launch", h |-> h, kernel |-> k, ok |-> ok]),
         bound' = bound
  PROVE  Named'
<1> DEFINE c == [call |-> "launch", h |-> h, kernel |-> k, ok |-> ok]
           l == [name |-> SoFar.functions[h], kernel |-> k]
<1>1. log' = Append(log, c) /\ bound' = bound
  OBVIOUS
<1>2. /\ c \in Call /\ c.call = "launch" /\ c.h = h /\ c.kernel = k
  BY DEF Call
<1> HIDE DEF c
<1>3. /\ log' \in Seq(Call) /\ SoFar' \in Summaries /\ SoFar \in Summaries
      /\ SoFar'.functions = Functions(SoFar, c).functions
      /\ SoFar'.launches = Functions(SoFar, c).launches
  BY <1>1, <1>2, Logged
<1>4. /\ Functions(SoFar, c).functions = SoFar.functions
      /\ Functions(SoFar, c).launches = Append(SoFar.launches, l)
  BY <1>2, <1>3 DEF Functions, Summaries
<1>5. l.name = l.kernel
  BY DEF Named
<1> HIDE DEF l
<1>6. \A i \in DOMAIN SoFar'.launches : SoFar'.launches[i].name = SoFar'.launches[i].kernel
  <2>1. \A i \in DOMAIN SoFar.launches : SoFar.launches[i].name = SoFar.launches[i].kernel
    BY DEF Named
  <2>2. SoFar.launches \in Seq([name : Names, kernel : Kernels])
    BY <1>3 DEF Summaries
  <2> DEFINE was == SoFar.launches
             is == SoFar'.launches
  <2>3. is = Append(was, l)
    BY <1>3, <1>4
  <2> HIDE DEF was, is
  <2>4. was \in Seq([name : Names, kernel : Kernels])
    BY <2>2 DEF was
  <2>5. \A i \in DOMAIN is : (i \in DOMAIN was /\ is[i] = was[i]) \/ is[i] = l
    BY <2>3, <2>4
  <2>6. \A i \in DOMAIN was : was[i].name = was[i].kernel
    BY <2>1 DEF was
  <2>7. \A i \in DOMAIN is : is[i].name = is[i].kernel
    BY <1>5, <2>5, <2>6
  <2>8. QED
    BY <2>7 DEF is
<1>7. QED
  BY <1>1, <1>3, <1>4, <1>6 DEF Named

LEMMA Next_Named ==
  ASSUME Base, Named, [Next]_vars
  PROVE  Named'
<1>1. CASE UNCHANGED <<log, bound>>
  BY <1>1 DEF Named, SoFar
<1>2. ASSUME NEW t \in Threads, GetFunction(t)
      PROVE  Named'
  <2>1. PICK h \in Handles : \E k \in Kernels, ok \in BOOLEAN :
          /\ bound' = IF ok THEN [bound EXCEPT ![h] = k] ELSE bound
          /\ log' = Append(log, [call |-> "function", h |-> h, kernel |-> k, ok |-> ok])
    BY <1>2 DEF GetFunction
  <2>2. PICK k \in Kernels, ok \in BOOLEAN :
          /\ bound' = IF ok THEN [bound EXCEPT ![h] = k] ELSE bound
          /\ log' = Append(log, [call |-> "function", h |-> h, kernel |-> k, ok |-> ok])
    BY <2>1
  <2> DEFINE c == [call |-> "function", h |-> h, kernel |-> k, ok |-> ok]
  <2>3. /\ c \in Call /\ c.call = "function" /\ c.h = h /\ c.kernel = k
        /\ c.ok <=> ok
    BY DEF Call
  <2>4. log' = Append(log, c)
    BY <2>2
  <2> HIDE DEF c
  <2>5. /\ log' \in Seq(Call) /\ SoFar' \in Summaries /\ SoFar \in Summaries
        /\ SoFar'.functions = Functions(SoFar, c).functions
        /\ SoFar'.launches = Functions(SoFar, c).launches
    BY <2>3, <2>4, Logged
  <2>6. /\ Functions(SoFar, c).functions =
             IF ok THEN [SoFar.functions EXCEPT ![h] = k] ELSE SoFar.functions
        /\ Functions(SoFar, c).launches = SoFar.launches
    <3>1. CASE ok
      BY <2>3, <2>5, <3>1 DEF Functions, Summaries
    <3>2. CASE ~ok
      BY <2>3, <2>5, <3>2 DEF Functions, Summaries
    <3>3. QED
      BY <3>1, <3>2
  <2>7. SoFar'.functions = bound'
    BY <2>2, <2>5, <2>6 DEF Named
  <2>8. QED
    BY <2>5, <2>6, <2>7 DEF Named
<1>3. ASSUME NEW t \in Threads, Return(t)
      PROVE  Named'
  <2>1. /\ thread[t].h \in Handles /\ thread[t].kernel \in Kernels
        /\ thread[t].kernel = bound[thread[t].h]
    BY <1>3 DEF Base, Owners, Holds, Return, Ready
  <2> DEFINE ok == fate[thread[t].id] # "error"
  <2>2. /\ log' = Append(log, [call |-> "launch", h |-> thread[t].h,
                               kernel |-> thread[t].kernel, ok |-> ok])
        /\ bound' = bound /\ ok \in BOOLEAN
    BY <1>3 DEF Return
  <2> HIDE DEF ok
  <2>3. QED
    BY <2>1, <2>2, Launch_Named
<1>4. ASSUME NEW t \in Threads, Refuse(t)
      PROVE  Named'
  <2>1. PICK h \in {g \in Handles : bound[g] # "none"} :
          log' = Append(log, [call |-> "launch", h |-> h, kernel |-> bound[h], ok |-> FALSE])
    BY <1>4 DEF Refuse
  <2>2. h \in Handles /\ bound[h] \in Kernels /\ bound' = bound
    BY <1>4 DEF Base, Typed, Refuse, process
  <2>3. QED
    BY <2>1, <2>2, Launch_Named
<1>5. QED
  BY <1>1, <1>2, <1>3, <1>4
  DEF Next, Step, NextLaunchId, WriteText, LoseRecord, EndLine, LoseNewline,
      ModuleLaunchKernel, StreamSynchronize, Proceed, Crash, Exit, vars, process, file

(* The look-ups go on from the lines' summary: the names are the same.       *)
LEMMA SumOf ==
  ASSUME Base, Named
  PROVE  /\ sum \in Summaries
         /\ sum.launches = SoFar.launches
<1> DEFINE b == FoldLeft(Blocking, Empty, lines)
<1>1. lines \in Seq(Line) /\ log \in Seq(Call)
  BY DEF Base, Filed, Named
<1>2. b \in Summaries /\ b.functions = Empty.functions /\ b.launches = Empty.launches
  BY <1>1, ReadToEnd DEF Read, Empty
<1> HIDE DEF b
<1>3. PICK p : LookUpRun(p, Empty, log) /\ FoldLeft(Functions, Empty, log) = p[Len(log)]
  BY <1>1, EmptyType, LookUpRuns
<1>4. PICK h : LookUpRun(h, b, log) /\ FoldLeft(Functions, b, log) = h[Len(log)]
  BY <1>1, <1>2, LookUpRuns
<1>5. h[Len(log)].launches = p[Len(log)].launches
  <2>1. Len(log) <= Len(log) /\ \A k \in DOMAIN log : log[k] = log[k]
    BY <1>1
  <2>2. QED
    BY <1>1, <1>2, <1>3, <1>4, <2>1, EmptyType, LookUpsAgree
<1>6. Len(log) \in 0 .. Len(log)
  BY <1>1
<1>7. QED
  BY <1>3, <1>4, <1>5, <1>6 DEF LookUpRun, sum, b, SoFar

(* The kernel a launch is reported under is the one it launched, though      *)
(* handles are given to other kernels and look-ups fail.                     *)
THEOREM NamesAreResolved == Spec => []NamesResolve
<1>1. Base /\ Named => NamesResolve
  BY SumOf DEF Named, NamesResolve
<1>2. QED
  BY <1>1, Init_Base, Next_Base, Init_Counted, Next_Counted, Init_Named, Next_Named, PTL DEF Spec

-----------------------------------------------------------------------------
(* Records.  The thread that owns a launch decides whether it has started    *)
(* and finished, and a step of another thread leaves that alone.             *)
LEMMA OwnerDecides ==
  ASSUME NEW F, NEW th, NEW t \in Threads, th[t].id \in F,
         \A u \in Threads : th[u].id = th[t].id => u = t
  PROVE  /\ th[t].id \in StartedOf(F, th) <=> th[t].say # "begin"
         /\ th[t].id \in FinishedOf(F, th) <=> th[t].pc = "return" /\ th[t].say \notin Terminal
BY DEF StartedOf, FinishedOf

LEMMA OthersDecide ==
  ASSUME NEW F, NEW G, NEW a, NEW b, NEW t \in Threads, NEW id,
         \A u \in Threads : u # t => b[u] = a[u],
         id \in F <=> id \in G, id # a[t].id, id # b[t].id
  PROVE  /\ id \in StartedOf(G, b) <=> id \in StartedOf(F, a)
         /\ id \in FinishedOf(G, b) <=> id \in FinishedOf(F, a)
<1>1. \A u \in Threads : b[u].id = id => b[u] = a[u] /\ u # t
  OBVIOUS
<1>2. \A u \in Threads : a[u].id = id => b[u] = a[u] /\ u # t
  OBVIOUS
<1>3. QED
  BY <1>1, <1>2 DEF StartedOf, FinishedOf

LEMMA FinishedIs == Finished = FinishedOf(DOMAIN fate, thread)
BY DEF Finished, FinishedOf

LEMMA SoleOwner ==
  ASSUME Base, NEW t \in Threads, thread[t].pc # "idle"
  PROVE  /\ thread[t].id \in DOMAIN fate
         /\ \A u \in Threads : thread[u].id = thread[t].id => u = t
BY DEF Base, Owners, Holds, Sole

LEMMA NoZero ==
  ASSUME Base
  PROVE  0 \notin DOMAIN fate /\ DOMAIN fate = 1 .. Len(fate) /\ Len(fate) \in Nat
<1>1. fate \in Seq(Fates)
  BY DEF Base, Typed
<1>2. QED
  BY <1>1

(* A step either leaves the records a reader sees and the launches that have *)
(* started and finished alone ...                                            *)
SameHeads ==
  /\ Own' = Own
  /\ \A i \in Own : HeadId(i)' = HeadId(i) /\ HeadEvent(i)' = HeadEvent(i)

Quiet ==
  /\ setup' = setup /\ lost' = lost /\ merged' = merged
  /\ SameHeads
  /\ \A id \in Finished : fate'[id] = fate[id]
  /\ setup.traced => Started' = Started /\ Finished' = Finished
  /\ \A id \in DOMAIN fate : id \in DOMAIN fate'

(* ... or it is a thread's record: lost, on somebody's line, or a new head.  *)
Spoken(id, event) ==
  /\ setup' = setup /\ fate' = fate /\ setup.traced
  /\ event \in Events /\ id \in DOMAIN fate
  /\ setup.blocking /\ event = "done" => fate[id] = "ok"
  /\ id \notin Finished
  /\ IF event = "begin"
     THEN id \notin Started /\ Started' = Started \union {id} /\ Finished' = Finished
     ELSE Started' = Started /\ Finished' = Finished \union {id}

NewHead(id, event) ==
  \E n : /\ Own' = Own \union {n} /\ \A i \in Own : i < n
         /\ HeadId(n)' = id /\ HeadEvent(n)' = event
         /\ \A i \in Own : HeadId(i)' = HeadId(i) /\ HeadEvent(i)' = HeadEvent(i)

LEMMA SameLines ==
  ASSUME lines' = lines, old' = old
  PROVE  SameHeads
BY DEF SameHeads, Own, HeadId, HeadEvent

LEMMA Still_Quiet ==
  ASSUME UNCHANGED <<setup, thread, fate, lines, lost, merged, old>>
  PROVE  Quiet
<1>1. SameHeads
  BY SameLines
<1>2. Started' = Started /\ Finished' = Finished
  BY DEF Started, StartedOf, Finished
<1>3. QED
  BY <1>1, <1>2 DEF Quiet

LEMMA NextLaunchId_Quiet ==
  ASSUME Base, NEW t \in Threads, NextLaunchId(t)
  PROVE  Quiet
<1>1. /\ Base' /\ fate' = Append(fate, "open") /\ Len(fate') = Len(fate) + 1
      /\ thread[t] = idle /\ thread'[t].pc = "launch" /\ thread'[t].id = Len(fate) + 1
      /\ thread'[t].say = IF setup.traced THEN "begin" ELSE ""
      /\ \A u \in Threads : u # t => thread'[u] = thread[u]
  BY NextLaunchId_Base
<1>2. UNCHANGED <<setup, lines, lost, merged, old>>
  BY DEF NextLaunchId, file, history
<1> DEFINE n == Len(fate) + 1
<1>3. /\ DOMAIN fate = 1 .. Len(fate) /\ DOMAIN fate' = DOMAIN fate \union {n}
      /\ n \notin DOMAIN fate /\ \A id \in DOMAIN fate : fate'[id] = fate[id]
  <2>1. fate \in Seq(Fates) /\ fate' = Append(fate, "open")
    BY <1>1 DEF Base, Typed
  <2>2. DOMAIN fate = 1 .. Len(fate) /\ Len(fate) \in Nat
    BY NoZero
  <2>3. DOMAIN fate' = 1 .. Len(fate) + 1 /\ \A id \in 1 .. Len(fate) : fate'[id] = fate[id]
    BY <2>1
  <2>4. 1 .. Len(fate) + 1 = (1 .. Len(fate)) \union {n} /\ n \notin 1 .. Len(fate)
    BY <2>2
  <2>5. QED
    BY <2>2, <2>3, <2>4
<1>4. SameHeads
  BY <1>2, SameLines
<1>5. \A u \in Threads : thread'[u].id = n => u = t
  <2>1. \A u \in Threads : u # t => thread[u].id # n
    <3>1. TAKE u \in Threads
    <3>2. Holds(u)
      BY DEF Base, Owners
    <3>3. thread[u].id \in DOMAIN fate \/ thread[u].id = 0
      BY <3>2, Idles DEF Holds
    <3>4. n # 0
      BY NoZero
    <3>5. QED
      BY <1>3, <3>3, <3>4
  <2> HIDE DEF n
  <2>2. QED
    BY <1>1, <2>1
<1>6. ASSUME setup.traced
      PROVE  Started' = Started /\ Finished' = Finished
  <2>1. n \notin StartedOf(DOMAIN fate', thread') /\ n \notin FinishedOf(DOMAIN fate', thread')
    <3>1. thread'[t].id = n /\ thread'[t].say = "begin" /\ thread'[t].pc = "launch"
      BY <1>1, <1>6
    <3>2. n \in DOMAIN fate'
      BY <1>3
    <3> HIDE DEF n
    <3>3. QED
      BY <1>5, <3>1, <3>2, OwnerDecides
  <2>2. ASSUME NEW id \in DOMAIN fate
        PROVE  /\ id \in StartedOf(DOMAIN fate', thread') <=> id \in StartedOf(DOMAIN fate, thread)
               /\ id \in FinishedOf(DOMAIN fate', thread') <=> id \in FinishedOf(DOMAIN fate, thread)
    <3>1. id # thread[t].id /\ id # thread'[t].id
      BY <1>1, <1>3, Idles, NoZero
    <3>2. id \in DOMAIN fate <=> id \in DOMAIN fate'
      BY <1>3
    <3>3. \A u \in Threads : u # t => thread'[u] = thread[u]
      BY <1>1
    <3>4. QED
      BY <3>1, <3>2, <3>3, OthersDecide
  <2> HIDE DEF n
  <2>3. /\ StartedOf(DOMAIN fate', thread') = StartedOf(DOMAIN fate, thread)
        /\ FinishedOf(DOMAIN fate', thread') = FinishedOf(DOMAIN fate, thread)
    <3>1. /\ StartedOf(DOMAIN fate', thread') \subseteq DOMAIN fate \union {n}
          /\ FinishedOf(DOMAIN fate', thread') \subseteq DOMAIN fate \union {n}
      BY <1>3 DEF StartedOf, FinishedOf
    <3>2. /\ StartedOf(DOMAIN fate, thread) \subseteq DOMAIN fate
          /\ FinishedOf(DOMAIN fate, thread) \subseteq DOMAIN fate
      BY DEF StartedOf, FinishedOf
    <3>3. QED
      BY <2>1, <2>2, <3>1, <3>2
  <2>4. QED
    BY <2>3 DEF Started, Finished, FinishedOf
<1> HIDE DEF n
<1>7. \A id \in Finished : fate'[id] = fate[id]
  BY <1>3 DEF Finished
<1>8. QED
  BY <1>2, <1>3, <1>4, <1>6, <1>7 DEF Quiet

(* A step of the owner of a launch decides that launch only.                 *)
LEMMA OneDecides ==
  ASSUME Base, NEW t \in Threads, thread[t].pc # "idle",
         thread'[t].id = thread[t].id, DOMAIN fate' = DOMAIN fate,
         \A u \in Threads : u # t => thread'[u] = thread[u]
  PROVE  LET id == thread[t].id IN
         /\ id \in DOMAIN fate
         /\ id \in Started <=> thread[t].say # "begin"
         /\ id \in Finished <=> thread[t].pc = "return" /\ thread[t].say \notin Terminal
         /\ id \in Started' <=> thread'[t].say # "begin"
         /\ id \in Finished' <=> thread'[t].pc = "return" /\ thread'[t].say \notin Terminal
         /\ \A i : i # id => (i \in Started' <=> i \in Started) /\ (i \in Finished' <=> i \in Finished)
<1> DEFINE id == thread[t].id
<1>1. id \in DOMAIN fate /\ \A u \in Threads : thread[u].id = id => u = t
  BY SoleOwner
<1>2. \A u \in Threads : thread'[u].id = thread'[t].id => u = t
  BY <1>1
<1>3. Finished = FinishedOf(DOMAIN fate, thread) /\ Finished' = FinishedOf(DOMAIN fate', thread')
  BY DEF Finished, FinishedOf
<1>4. Started = StartedOf(DOMAIN fate, thread) /\ Started' = StartedOf(DOMAIN fate', thread')
  BY DEF Started
<1>5. /\ id \in Started <=> thread[t].say # "begin"
      /\ id \in Finished <=> thread[t].pc = "return" /\ thread[t].say \notin Terminal
  BY <1>1, <1>3, <1>4, OwnerDecides
<1>6. /\ thread'[t].id \in StartedOf(DOMAIN fate', thread') <=> thread'[t].say # "begin"
      /\ thread'[t].id \in FinishedOf(DOMAIN fate', thread') <=>
           thread'[t].pc = "return" /\ thread'[t].say \notin Terminal
  <2>1. thread'[t].id \in DOMAIN fate'
    BY <1>1
  <2>2. QED
    BY <1>2, <2>1, OwnerDecides
<1>7. ASSUME NEW i, i # id
      PROVE  (i \in Started' <=> i \in Started) /\ (i \in Finished' <=> i \in Finished)
  <2>1. i \in DOMAIN fate <=> i \in DOMAIN fate'
    OBVIOUS
  <2>2. i # thread[t].id /\ i # thread'[t].id
    BY <1>7
  <2>3. QED
    BY <1>3, <1>4, <2>1, <2>2, OthersDecide
<1>8. QED
  BY <1>1, <1>3, <1>4, <1>5, <1>6, <1>7

LEMMA Result_Quiet ==
  ASSUME Base, NEW t \in Threads, NEW pc \in {"sync", "return"},
         NEW event \in {""} \union Terminal, NEW f \in {"queued", "ok", "error"},
         Result(t, pc, event, f)
  PROVE  Quiet
<1>1. /\ thread[t].id \in DOMAIN fate /\ thread[t].pc # "idle"
      /\ thread'[t].pc = pc /\ thread'[t].id = thread[t].id
      /\ thread'[t].say = IF setup.traced THEN event ELSE ""
      /\ \A u \in Threads : u # t => thread'[u] = thread[u]
      /\ DOMAIN fate' = DOMAIN fate
      /\ \A id \in DOMAIN fate : id # thread[t].id => fate'[id] = fate[id]
  BY Result_Base
<1>2. /\ UNCHANGED <<setup, lines, lost, merged, old>>
      /\ thread[t].pc \in {"launch", "sync"} /\ thread[t].say = ""
      /\ pc = "sync" => event = ""
      /\ pc = "return" => event # ""
  BY DEF Result, Proceed, file, history
<1>3. SameHeads
  BY <1>2, SameLines
<1> DEFINE id == thread[t].id
<1>4. /\ id \in Started <=> thread[t].say # "begin"
      /\ id \in Finished <=> thread[t].pc = "return" /\ thread[t].say \notin Terminal
      /\ id \in Started' <=> thread'[t].say # "begin"
      /\ id \in Finished' <=> thread'[t].pc = "return" /\ thread'[t].say \notin Terminal
      /\ \A i : i # id => (i \in Started' <=> i \in Started) /\ (i \in Finished' <=> i \in Finished)
  BY <1>1, OneDecides
<1> HIDE DEF id
<1>5. id \in Started /\ id \notin Finished
  BY <1>2, <1>4
<1>6. ASSUME setup.traced
      PROVE  Started' = Started /\ Finished' = Finished
  <2>1. thread'[t].say = event
    BY <1>1, <1>6
  <2>2. id \in Started'
    BY <1>4, <2>1 DEF Terminal
  <2>3. id \notin Finished'
    <3>1. CASE pc = "sync"
      BY <1>1, <1>4, <3>1
    <3>2. CASE pc = "return"
      <4>1. event \in Terminal
        BY <1>2, <3>2
      <4>2. QED
        BY <1>4, <2>1, <4>1
    <3>3. QED
      BY <3>1, <3>2
  <2>4. \A i : i # id => (i \in Started' <=> i \in Started) /\ (i \in Finished' <=> i \in Finished)
    BY <1>4
  <2>5. \A i : (i \in Started' <=> i \in Started) /\ (i \in Finished' <=> i \in Finished)
    BY <1>5, <2>2, <2>3, <2>4
  <2>6. QED
    BY <2>5
<1>7. \A i \in Finished : fate'[i] = fate[i]
  <2>1. \A i \in Finished : i \in DOMAIN fate /\ i # id
    BY <1>5 DEF Finished
  <2>2. QED
    BY <1>1, <2>1 DEF id
<1>8. QED
  BY <1>1, <1>2, <1>3, <1>6, <1>7 DEF Quiet

LEMMA Return_Quiet ==
  ASSUME Base, NEW t \in Threads, Return(t)
  PROVE  Quiet
<1>1. /\ thread[t].pc = "return" /\ thread[t].say = "" /\ thread'[t] = idle
      /\ \A u \in Threads : u # t => thread'[u] = thread[u]
  BY Return_Base
<1>2. UNCHANGED <<setup, fate, lines, lost, merged, old>>
  BY DEF Return, history
<1>3. SameHeads
  BY <1>2, SameLines
<1> DEFINE id == thread[t].id
<1>4. id \in DOMAIN fate /\ \A u \in Threads : thread[u].id = id => u = t
  BY <1>1, SoleOwner
<1>5. \A u \in Threads : thread'[u].id # id
  BY <1>1, <1>4, Idles, NoZero
<1>6. id \in Started /\ id \in Finished
  <2>1. "" \notin Terminal
    BY DEF Terminal
  <2>2. QED
    BY <1>1, <1>4, <2>1 DEF Started, StartedOf, Finished
<1>7. id \in Started' /\ id \in Finished'
  BY <1>2, <1>4, <1>5 DEF Started, StartedOf, Finished
<1>8. ASSUME NEW i, i # id
      PROVE  (i \in Started' <=> i \in Started) /\ (i \in Finished' <=> i \in Finished)
  <2>1. CASE i \in DOMAIN fate
    <3>1. i # thread[t].id /\ i # thread'[t].id /\ (i \in DOMAIN fate <=> i \in DOMAIN fate')
      BY <1>1, <1>2, <1>8, <2>1, Idles, NoZero
    <3>2. /\ i \in StartedOf(DOMAIN fate', thread') <=> i \in StartedOf(DOMAIN fate, thread)
          /\ i \in FinishedOf(DOMAIN fate', thread') <=> i \in FinishedOf(DOMAIN fate, thread)
      <4>1. \A u \in Threads : u # t => thread'[u] = thread[u]
        BY <1>1
      <4>2. QED
        BY <3>1, <4>1, OthersDecide
    <3>3. QED
      BY <3>2 DEF Started, Finished, FinishedOf
  <2>2. CASE i \notin DOMAIN fate
    BY <1>2, <2>2 DEF Started, StartedOf, Finished
  <2>3. QED
    BY <2>1, <2>2
<1> HIDE DEF id
<1>9. Started' = Started /\ Finished' = Finished
  BY <1>6, <1>7, <1>8
<1>10. QED
  BY <1>2, <1>3, <1>9 DEF Quiet

(* A thread that is done with a record, whether its newline was written or not. *)
LEMMA Ended_Quiet ==
  ASSUME Base, NEW t \in Threads, phase = "running", thread[t].say = "newline",
         Set(t, [thread[t] EXCEPT !.say = ""]), SameHeads,
         UNCHANGED <<setup, phase, fate, culprit, bound, lost, merged, old>>
  PROVE  Quiet
<1>2. /\ thread[t].pc \in {"launch", "return"}
      /\ thread'[t].pc = thread[t].pc /\ thread'[t].id = thread[t].id /\ thread'[t].say = ""
      /\ \A u \in Threads : u # t => thread'[u] = thread[u]
  <2>1. lost' \in 0 .. MaxLost
    BY DEF Base, Typed
  <2>2. QED
    BY <2>1, Said_Base
<1> DEFINE id == thread[t].id
<1>4. /\ id \in Started <=> thread[t].say # "begin"
      /\ id \in Finished <=> thread[t].pc = "return" /\ thread[t].say \notin Terminal
      /\ id \in Started' <=> thread'[t].say # "begin"
      /\ id \in Finished' <=> thread'[t].pc = "return" /\ thread'[t].say \notin Terminal
      /\ \A i : i # id => (i \in Started' <=> i \in Started) /\ (i \in Finished' <=> i \in Finished)
  <2>1. thread[t].pc # "idle" /\ DOMAIN fate' = DOMAIN fate
    BY <1>2
  <2>2. QED
    BY <1>2, <2>1, OneDecides
<1> HIDE DEF id
<1>5. (id \in Started' <=> id \in Started) /\ (id \in Finished' <=> id \in Finished)
  BY <1>2, <1>4 DEF Terminal
<1>6. Started' = Started /\ Finished' = Finished
  <2>1. \A i : (i \in Started' <=> i \in Started) /\ (i \in Finished' <=> i \in Finished)
    BY <1>4, <1>5
  <2>2. QED
    BY <2>1
<1>7. QED
  BY <1>6 DEF Quiet

LEMMA EndLine_Quiet ==
  ASSUME Base, NEW t \in Threads, EndLine(t)
  PROVE  Quiet
<1>1. /\ phase = "running" /\ thread[t].say = "newline"
      /\ Set(t, [thread[t] EXCEPT !.say = ""])
      /\ UNCHANGED <<setup, phase, fate, culprit, bound, lost, merged, old>>
      /\ lines' = IF ragged THEN lines ELSE Append(lines, <<>>)
  BY DEF EndLine, history
<1>2. SameHeads
  <2>1. lines \in Seq(Line) /\ old \in 0 .. Len(lines) /\ ragged \in BOOLEAN
    BY DEF Base, Filed
  <2>2. CASE ragged
    <3>1. lines' = lines
      BY <1>1, <2>2
    <3>2. QED
      BY <1>1, <3>1, SameLines
  <2>3. CASE ~ragged
    <3>1. lines' = Append(lines, <<>>)
      BY <1>1, <2>3
    <3>2. /\ DOMAIN lines' = DOMAIN lines \union {Len(lines) + 1}
          /\ lines'[Len(lines) + 1] = <<>> /\ \A i \in DOMAIN lines : lines'[i] = lines[i]
      BY <2>1, <3>1
    <3>3. Own' = Own /\ \A i \in Own : lines'[i] = lines[i]
      BY <1>1, <3>2 DEF Own
    <3>4. QED
      BY <3>3 DEF SameHeads, HeadId, HeadEvent
  <2>4. QED
    BY <2>1, <2>2, <2>3
<1>3. QED
  BY <1>1, <1>2, Ended_Quiet

LEMMA LoseNewline_Quiet ==
  ASSUME Base, NEW t \in Threads, LoseNewline(t)
  PROVE  Quiet
<1>1. /\ phase = "running" /\ thread[t].say = "newline"
      /\ Set(t, [thread[t] EXCEPT !.say = ""])
      /\ UNCHANGED <<setup, phase, fate, culprit, bound, lines, lost, merged, old>>
  BY DEF LoseNewline, file
<1>2. SameHeads
  BY <1>1, SameLines
<1>3. QED
  BY <1>1, <1>2, Ended_Quiet

(* A thread that wrote or lost its record has started, or finished, with it. *)
LEMMA Said_Spoken ==
  ASSUME Base, NEW t \in Threads, thread[t].say \in Events, NEW s \in {"", "newline"},
         Set(t, [thread[t] EXCEPT !.say = s]), phase = "running",
         UNCHANGED <<setup, phase, fate, culprit, bound>>, lost' \in 0 .. MaxLost
  PROVE  Spoken(thread[t].id, thread[t].say)
<1> DEFINE id == thread[t].id
           event == thread[t].say
<1>1. event # "" /\ event \in {"begin"} \union Terminal /\ "begin" \notin Terminal
      /\ s \notin Terminal /\ s # "begin" /\ "newline" \notin Terminal /\ "" \notin Terminal
  BY DEF Events, Terminal
<1>2. /\ setup.traced /\ thread[t].pc \in {"launch", "return"}
      /\ thread'[t].pc = thread[t].pc /\ thread'[t].id = thread[t].id /\ thread'[t].say = s
      /\ \A u \in Threads : u # t => thread'[u] = thread[u]
  BY <1>1, Said_Base
<1>3. Speaks(t)
  BY DEF Base, Owners
<1>4. /\ id \in DOMAIN fate
      /\ id \in Started <=> thread[t].say # "begin"
      /\ id \in Finished <=> thread[t].pc = "return" /\ thread[t].say \notin Terminal
      /\ id \in Started' <=> thread'[t].say # "begin"
      /\ id \in Finished' <=> thread'[t].pc = "return" /\ thread'[t].say \notin Terminal
      /\ \A i : i # id => (i \in Started' <=> i \in Started) /\ (i \in Finished' <=> i \in Finished)
  <2>1. thread[t].pc # "idle" /\ DOMAIN fate' = DOMAIN fate
    BY <1>2
  <2>2. QED
    BY <1>2, <2>1, OneDecides
<1>5. (event = "begin" <=> thread[t].pc = "launch") /\ (thread[t].pc = "return" <=> event # "begin")
  BY <1>1, <1>2, <1>3 DEF Speaks
<1>6. setup.blocking /\ event = "done" => fate[id] = "ok"
  BY <1>3 DEF Speaks
<1> HIDE DEF id
<1>7. id \notin Finished
  BY <1>1, <1>4, <1>5
<1>8. id \in Started' /\ (id \in Finished' <=> event # "begin")
  BY <1>1, <1>2, <1>4, <1>5
<1>9. \A i : i # id => (i \in Started' <=> i \in Started) /\ (i \in Finished' <=> i \in Finished)
  BY <1>4
<1>10. CASE event = "begin"
  <2>1. id \notin Started /\ id \notin Finished'
    BY <1>4, <1>8, <1>10
  <2>2. \A i : (i \in Started' <=> i \in Started \union {id}) /\ (i \in Finished' <=> i \in Finished)
    BY <1>7, <1>8, <1>9, <2>1
  <2>3. Started' = Started \union {id} /\ Finished' = Finished
    BY <2>2
  <2>4. QED
    BY <1>2, <1>4, <1>6, <1>7, <1>10, <2>1, <2>3 DEF Spoken, id
<1>11. CASE event # "begin"
  <2>1. id \in Started /\ id \in Finished'
    BY <1>4, <1>8, <1>11
  <2>2. \A i : (i \in Started' <=> i \in Started) /\ (i \in Finished' <=> i \in Finished \union {id})
    BY <1>8, <1>9, <2>1
  <2>3. Started' = Started /\ Finished' = Finished \union {id}
    BY <2>2
  <2>4. QED
    BY <1>2, <1>4, <1>6, <1>7, <1>11, <2>3 DEF Spoken, id
<1>12. QED
  BY <1>10, <1>11

Effect(id, event) ==
  \/ SameHeads /\ lost' = lost + 1 /\ merged' = merged
  \/ SameHeads /\ lost' = lost /\ merged'
  \/ NewHead(id, event) /\ lost' = lost /\ merged' = merged

LEMMA LoseRecord_Spoken ==
  ASSUME Base, Counted, NEW t \in Threads, LoseRecord(t)
  PROVE  Spoken(thread[t].id, thread[t].say) /\ Effect(thread[t].id, thread[t].say)
<1>1. /\ phase = "running" /\ thread[t].say \in Events
      /\ UNCHANGED <<setup, phase, fate, culprit, bound, lines, merged, old>>
      /\ lost' = lost + 1
  BY DEF LoseRecord, file
<1>2. Set(t, [thread[t] EXCEPT !.say = ""])
  BY DEF LoseRecord
<1>3. lost' \in 0 .. MaxLost
  BY LoseRecord_Base DEF Base, Typed
<1>4. SameHeads
  BY <1>1, SameLines
<1>5. Spoken(thread[t].id, thread[t].say)
  BY <1>1, <1>2, <1>3, Said_Spoken
<1>6. QED
  BY <1>1, <1>4, <1>5 DEF Effect

LEMMA WriteText_Spoken ==
  ASSUME Base, NEW t \in Threads, WriteText(t)
  PROVE  Spoken(thread[t].id, thread[t].say) /\ Effect(thread[t].id, thread[t].say)
<1>1. /\ phase = "running" /\ thread[t].say \in Events
      /\ UNCHANGED <<setup, phase, fate, culprit, bound, lost, old>>
      /\ merged' = (merged \/ ragged)
  BY DEF WriteText
<1>2. Set(t, [thread[t] EXCEPT !.say = "newline"])
  BY DEF WriteText
<1>3. lost' \in 0 .. MaxLost
  BY <1>1 DEF Base, Typed
<1>4. Spoken(thread[t].id, thread[t].say)
  BY <1>1, <1>2, <1>3, Said_Spoken
<1>5. /\ lines \in Seq(Line) /\ old \in 0 .. Len(lines) /\ ragged \in BOOLEAN /\ merged \in BOOLEAN
      /\ (ragged => lines # <<>> /\ lines[Len(lines)] # <<>>)
  BY DEF Base, Filed
<1> DEFINE r == [id |-> thread[t].id, event |-> thread[t].say]
<1>6. r.id = thread[t].id /\ r.event = thread[t].say
  OBVIOUS
<1>7. IF ragged THEN lines' = [lines EXCEPT ![Len(lines)] = Append(@, r)]
      ELSE lines' = Append(lines, <<r>>)
  BY DEF WriteText
<1> HIDE DEF r
<1> DEFINE n == Len(lines)
<1>8. CASE ragged
  <2>1. n \in DOMAIN lines /\ lines[n] \in Line /\ lines[n] # <<>>
    BY <1>5, <1>8
  <2>2. lines' = [lines EXCEPT ![n] = Append(lines[n], r)]
    BY <1>7, <1>8
  <2> DEFINE longer == Append(lines[n], r)
  <2>3. longer # <<>> /\ longer[1] = lines[n][1]
    BY <2>1 DEF Line
  <2> HIDE DEF n, longer
  <2>4. /\ DOMAIN lines' = DOMAIN lines /\ lines'[n] = longer
        /\ \A i \in DOMAIN lines : i # n => lines'[i] = lines[i]
    BY <1>5, <2>1, <2>2 DEF longer
  <2>5. \A i \in DOMAIN lines : /\ lines'[i] # <<>> <=> lines[i] # <<>>
                                /\ lines[i] # <<>> => lines'[i][1] = lines[i][1]
    BY <2>1, <2>3, <2>4
  <2>6. Own' = Own
    BY <1>1, <2>4, <2>5 DEF Own
  <2>7. SameHeads
    BY <2>5, <2>6 DEF SameHeads, Own, HeadId, HeadEvent
  <2>8. QED
    BY <1>1, <1>4, <1>8, <2>7 DEF Effect
<1>9. CASE ~ragged
  <2>1. lines' = Append(lines, <<r>>)
    BY <1>7, <1>9
  <2>2. /\ DOMAIN lines' = DOMAIN lines \union {n + 1} /\ lines'[n + 1] = <<r>>
        /\ \A i \in DOMAIN lines : lines'[i] = lines[i] /\ i < n + 1
    <3>1. lines \in Seq(Line) /\ n \in Nat /\ DOMAIN lines = 1 .. n
      BY <1>5
    <3>2. /\ DOMAIN lines' = 1 .. n + 1 /\ lines'[n + 1] = <<r>>
          /\ \A i \in 1 .. n : lines'[i] = lines[i]
      BY <2>1, <3>1
    <3> HIDE DEF n
    <3>3. 1 .. n + 1 = (1 .. n) \union {n + 1} /\ \A i \in 1 .. n : i < n + 1
      BY <3>1
    <3>4. QED
      BY <3>1, <3>2, <3>3
  <2>3. n + 1 > old
    <3>1. Len(lines) \in Nat /\ old \in 0 .. Len(lines)
      BY <1>5
    <3>2. QED
      BY <3>1
  <2>4. <<r>> # <<>> /\ <<r>>[1] = r
    OBVIOUS
  <2>5. PICK k : k = n + 1
    OBVIOUS
  <2>6. /\ DOMAIN lines' = DOMAIN lines \union {k} /\ lines'[k] = <<r>> /\ k > old
        /\ \A i \in DOMAIN lines : lines'[i] = lines[i] /\ i < k
    BY <2>2, <2>3, <2>5
  <2> HIDE DEF n
  <2>7. Own' = Own \union {k}
    BY <1>1, <2>4, <2>6 DEF Own
  <2>8. /\ \A i \in Own : /\ i < k
                          /\ HeadId(i)' = HeadId(i) /\ HeadEvent(i)' = HeadEvent(i)
        /\ HeadId(k)' = thread[t].id /\ HeadEvent(k)' = thread[t].say
    BY <1>6, <2>4, <2>6 DEF Own, HeadId, HeadEvent
  <2>9. NewHead(thread[t].id, thread[t].say)
    BY <2>7, <2>8 DEF NewHead
  <2>10. merged' = merged
    BY <1>1, <1>5, <1>9
  <2>11. QED
    BY <1>1, <1>4, <2>9, <2>10 DEF Effect
<1>10. QED
  BY <1>5, <1>8, <1>9

LEMMA Effects ==
  ASSUME Base, Counted, [Next]_vars
  PROVE  Quiet \/ \E id, event : Spoken(id, event) /\ Effect(id, event)
<1>1. ASSUME NEW t \in Threads, Step(t)
      PROVE  Quiet \/ \E id, event : Spoken(id, event) /\ Effect(id, event)
  <2>1. CASE GetFunction(t)
    BY <2>1, Still_Quiet DEF GetFunction, history
  <2>2. CASE NextLaunchId(t)
    BY <2>2, NextLaunchId_Quiet
  <2>3. CASE WriteText(t)
    BY <2>3, WriteText_Spoken
  <2>4. CASE LoseRecord(t)
    BY <2>4, LoseRecord_Spoken
  <2>5. CASE EndLine(t)
    BY <2>5, EndLine_Quiet
  <2>6. CASE ModuleLaunchKernel(t) \/ StreamSynchronize(t)
    BY <2>6, Issued, Result_Quiet
  <2>7. CASE Return(t)
    BY <2>7, Return_Quiet
  <2>8. CASE Refuse(t)
    BY <2>8, Still_Quiet DEF Refuse, process
  <2>9. CASE LoseNewline(t)
    BY <2>9, LoseNewline_Quiet
  <2>10. QED
    BY <1>1, <2>1, <2>2, <2>3, <2>4, <2>5, <2>6, <2>7, <2>8, <2>9 DEF Step
<1>2. CASE Crash \/ Exit
  BY <1>2, Still_Quiet DEF Crash, Exit, file, history
<1>3. CASE UNCHANGED vars
  BY <1>3, Still_Quiet DEF vars, process, file, history
<1>4. QED
  BY <1>1, <1>2, <1>3 DEF Next

(* What the file says of the launches of this process is true, is said once, *)
(* and is all there is to say unless it was lost.                            *)
Records == HeadsAreTrue /\ HeadsAreSole /\ OnlyLostAreMissing

LEMMA Init_Records == Init => Records
<1> SUFFICES ASSUME Init PROVE Records
  OBVIOUS
<1>1. fate = <<>> /\ lost = 0 /\ lines \in Seq(Line) /\ old = Len(lines)
  <2>1. fate = <<>> /\ lost = 0 /\ old = Len(lines)
    BY DEF Init
  <2>2. QED
    BY <2>1, Init_Typed DEF Filed
<1>2. Own = {}
  BY <1>1 DEF Own
<1>3. Started = {} /\ Finished = {}
  BY <1>1 DEF Started, StartedOf, Finished
<1>4. NoBegin = {} /\ NoEnd = {}
  BY <1>3 DEF NoBegin, NoEnd
<1>5. HeadsAreTrue /\ HeadsAreSole
  BY <1>2 DEF HeadsAreTrue, HeadsAreSole
<1>6. OnlyLostAreMissing
  BY <1>1, <1>4 DEF OnlyLostAreMissing
<1>7. QED
  BY <1>5, <1>6 DEF Records

LEMMA SameWords ==
  ASSUME SameHeads
  PROVE  \A id : (Begun(id)' <=> Begun(id)) /\ (Closed(id)' <=> Closed(id))
BY DEF SameHeads, Begun, Closed

LEMMA Quiet_Records ==
  ASSUME Records, Quiet
  PROVE  Records'
<1>1. /\ setup' = setup /\ lost' = lost /\ merged' = merged
      /\ Own' = Own /\ \A i \in Own : HeadId(i)' = HeadId(i) /\ HeadEvent(i)' = HeadEvent(i)
      /\ \A id \in Finished : fate'[id] = fate[id]
      /\ setup.traced => Started' = Started /\ Finished' = Finished
      /\ \A id \in DOMAIN fate : id \in DOMAIN fate'
  BY DEF Quiet, SameHeads
<1>2. HeadsAreTrue'
  <2>1. ASSUME NEW i \in Own
        PROVE  /\ setup'.traced /\ HeadEvent(i)' \in Events
               /\ HeadEvent(i)' = "begin" => HeadId(i)' \in Started'
               /\ HeadEvent(i)' # "begin" => HeadId(i)' \in Finished'
               /\ setup'.blocking /\ HeadEvent(i)' = "done" => fate'[HeadId(i)'] = "ok"
    <3>1. /\ setup.traced /\ HeadEvent(i) \in Events
          /\ HeadEvent(i) = "begin" => HeadId(i) \in Started
          /\ HeadEvent(i) # "begin" => HeadId(i) \in Finished
          /\ setup.blocking /\ HeadEvent(i) = "done" => fate[HeadId(i)] = "ok"
      BY DEF Records, HeadsAreTrue
    <3>2. Started' = Started /\ Finished' = Finished
      BY <1>1, <3>1
    <3>3. HeadId(i)' = HeadId(i) /\ HeadEvent(i)' = HeadEvent(i)
      BY <1>1
    <3>4. setup.blocking /\ HeadEvent(i) = "done" => fate'[HeadId(i)] = "ok"
      BY <1>1, <3>1
    <3>5. QED
      BY <1>1, <3>1, <3>2, <3>3, <3>4
  <2>2. QED
    BY <1>1, <2>1 DEF HeadsAreTrue
<1>3. HeadsAreSole'
  BY <1>1 DEF Records, HeadsAreSole
<1>4. OnlyLostAreMissing'
  <2>1. ASSUME setup.traced
        PROVE  NoBegin' = NoBegin /\ NoEnd' = NoEnd
    <3>1. \A id : (Begun(id)' <=> Begun(id)) /\ (Closed(id)' <=> Closed(id))
      BY SameWords DEF Quiet
    <3>2. QED
      BY <1>1, <2>1, <3>1 DEF NoBegin, NoEnd
  <2>2. QED
    BY <1>1, <2>1 DEF Records, OnlyLostAreMissing
<1>5. QED
  BY <1>2, <1>3, <1>4 DEF Records

(* What a head says stays true when another record is written or lost.       *)
LEMMA Spoken_True ==
  ASSUME HeadsAreTrue, NEW id, NEW event, Spoken(id, event), NEW i \in Own
  PROVE  /\ setup'.traced /\ HeadEvent(i) \in Events
         /\ HeadEvent(i) = "begin" => HeadId(i) \in Started'
         /\ HeadEvent(i) # "begin" => HeadId(i) \in Finished'
         /\ setup'.blocking /\ HeadEvent(i) = "done" => fate'[HeadId(i)] = "ok"
<1>1. /\ setup.traced /\ HeadEvent(i) \in Events
      /\ HeadEvent(i) = "begin" => HeadId(i) \in Started
      /\ HeadEvent(i) # "begin" => HeadId(i) \in Finished
      /\ setup.blocking /\ HeadEvent(i) = "done" => fate[HeadId(i)] = "ok"
  BY DEF HeadsAreTrue
<1>2. setup' = setup /\ fate' = fate /\ Started \subseteq Started' /\ Finished \subseteq Finished'
  BY DEF Spoken
<1>3. QED
  BY <1>1, <1>2

(* Nobody has said it before.                                                *)
LEMMA Spoken_New ==
  ASSUME HeadsAreTrue, NEW id, NEW event, Spoken(id, event)
  PROVE  /\ event = "begin" => ~Begun(id) /\ ~Closed(id)
         /\ event # "begin" => ~Closed(id)
<1>1. "begin" \notin Terminal
  BY DEF Terminal
<1>2. \A i \in Own : HeadEvent(i) = "begin" => HeadId(i) \in Started
  BY DEF HeadsAreTrue
<1>3. \A i \in Own : HeadEvent(i) # "begin" => HeadId(i) \in Finished
  BY DEF HeadsAreTrue
<1>4. id \notin Finished /\ (event = "begin" => id \notin Started)
  BY DEF Spoken
<1>5. QED
  BY <1>1, <1>2, <1>3, <1>4 DEF Begun, Closed

LEMMA Lost_Records ==
  ASSUME Base, Records, NEW id, NEW event, Spoken(id, event), SameHeads,
         \/ lost' = lost + 1 /\ merged' = merged
         \/ lost' = lost /\ merged'
  PROVE  Records'
<1>1. Own' = Own /\ \A i \in Own : HeadId(i)' = HeadId(i) /\ HeadEvent(i)' = HeadEvent(i)
  BY DEF SameHeads
<1>2. HeadsAreTrue'
  <2>1. ASSUME NEW i \in Own
        PROVE  /\ setup'.traced /\ HeadEvent(i)' \in Events
               /\ HeadEvent(i)' = "begin" => HeadId(i)' \in Started'
               /\ HeadEvent(i)' # "begin" => HeadId(i)' \in Finished'
               /\ setup'.blocking /\ HeadEvent(i)' = "done" => fate'[HeadId(i)'] = "ok"
    <3>1. HeadId(i)' = HeadId(i) /\ HeadEvent(i)' = HeadEvent(i)
      BY <1>1
    <3>2. /\ setup'.traced /\ HeadEvent(i) \in Events
          /\ HeadEvent(i) = "begin" => HeadId(i) \in Started'
          /\ HeadEvent(i) # "begin" => HeadId(i) \in Finished'
          /\ setup'.blocking /\ HeadEvent(i) = "done" => fate'[HeadId(i)] = "ok"
      BY Spoken_True DEF Records
    <3>3. QED
      BY <3>1, <3>2
  <2>2. QED
    BY <1>1, <2>1 DEF HeadsAreTrue
<1>3. HeadsAreSole'
  BY <1>1 DEF Records, HeadsAreSole
<1>4. OnlyLostAreMissing'
  <2>1. CASE merged'
    BY <2>1 DEF OnlyLostAreMissing
  <2>2. CASE ~merged'
    <3>1. lost' = lost + 1 /\ ~merged /\ lost \in Nat
      <4>1. lost \in 0 .. MaxLost
        BY DEF Base, Typed
      <4>2. lost \in Nat
        BY <4>1, BoundsAreNatural
      <4>3. lost' = lost + 1 /\ ~merged
        BY <2>2
      <4>4. QED
        BY <4>2, <4>3
    <3>2. ASSUME lost' = 1
          PROVE  \E i \in DOMAIN fate' : \/ NoBegin' = {i} /\ NoEnd' = {}
                                         \/ NoBegin' = {} /\ NoEnd' = {i}
      <4>1. setup.traced /\ id \in DOMAIN fate' /\ id \notin Finished
        BY DEF Spoken
      <4>2. NoBegin = {} /\ NoEnd = {}
        BY <3>1, <3>2, <4>1 DEF Records, OnlyLostAreMissing
      <4>3. \A i : (Begun(i)' <=> Begun(i)) /\ (Closed(i)' <=> Closed(i))
        BY SameWords
      <4>4. CASE event = "begin"
        <5>1. ~Begun(id) /\ Started' = Started \union {id} /\ Finished' = Finished
          BY <4>4, Spoken_New DEF Records, Spoken
        <5>2. NoBegin' = {id} /\ NoEnd' = {}
          BY <4>2, <4>3, <5>1 DEF NoBegin, NoEnd
        <5>3. QED
          BY <4>1, <5>2
      <4>5. CASE event # "begin"
        <5>1. ~Closed(id) /\ Started' = Started /\ Finished' = Finished \union {id}
          BY <4>5, Spoken_New DEF Records, Spoken
        <5>2. NoBegin' = {} /\ NoEnd' = {id}
          BY <4>2, <4>3, <5>1 DEF NoBegin, NoEnd
        <5>3. QED
          BY <4>1, <5>2
      <4>6. QED
        BY <4>4, <4>5
    <3>3. lost' # 0
      BY <3>1
    <3>4. QED
      BY <3>2, <3>3 DEF OnlyLostAreMissing
  <2>3. QED
    BY <2>1, <2>2
<1>5. QED
  BY <1>2, <1>3, <1>4 DEF Records

LEMMA Written_Records ==
  ASSUME Records, NEW id, NEW event, Spoken(id, event), NewHead(id, event),
         lost' = lost, merged' = merged
  PROVE  Records'
<1>1. PICK n : /\ Own' = Own \union {n} /\ \A i \in Own : i < n
               /\ HeadId(n)' = id /\ HeadEvent(n)' = event
               /\ \A i \in Own : HeadId(i)' = HeadId(i) /\ HeadEvent(i)' = HeadEvent(i)
  BY DEF NewHead
<1>2. /\ setup' = setup /\ fate' = fate /\ setup.traced
      /\ event \in Events /\ id \in DOMAIN fate
      /\ setup.blocking /\ event = "done" => fate[id] = "ok"
      /\ id \notin Finished
  BY DEF Spoken
<1>3. /\ event = "begin" => ~Begun(id) /\ ~Closed(id)
      /\ event # "begin" => ~Closed(id)
  BY Spoken_New DEF Records
<1>4. HeadsAreTrue'
  <2>1. ASSUME NEW i \in Own'
        PROVE  /\ setup'.traced /\ HeadEvent(i)' \in Events
               /\ HeadEvent(i)' = "begin" => HeadId(i)' \in Started'
               /\ HeadEvent(i)' # "begin" => HeadId(i)' \in Finished'
               /\ setup'.blocking /\ HeadEvent(i)' = "done" => fate'[HeadId(i)'] = "ok"
    <3>1. CASE i \in Own
      <4>1. HeadId(i)' = HeadId(i) /\ HeadEvent(i)' = HeadEvent(i)
        BY <1>1, <3>1
      <4>2. /\ setup'.traced /\ HeadEvent(i) \in Events
            /\ HeadEvent(i) = "begin" => HeadId(i) \in Started'
            /\ HeadEvent(i) # "begin" => HeadId(i) \in Finished'
            /\ setup'.blocking /\ HeadEvent(i) = "done" => fate'[HeadId(i)] = "ok"
        BY <3>1, Spoken_True DEF Records
      <4>3. QED
        BY <4>1, <4>2
    <3>2. CASE i = n
      <4>1. HeadId(i)' = id /\ HeadEvent(i)' = event
        BY <1>1, <3>2
      <4>2. (event = "begin" => id \in Started') /\ (event # "begin" => id \in Finished')
        BY DEF Spoken
      <4>3. QED
        BY <1>2, <4>1, <4>2
    <3>3. QED
      BY <1>1, <2>1, <3>1, <3>2
  <2>2. QED
    BY <2>1 DEF HeadsAreTrue
<1>5. \A i \in Own : HeadEvent(i) \in Events
  BY DEF Records, HeadsAreTrue
<1>6. \A i \in Own : HeadId(i) = id => HeadEvent(i) = "begin" /\ event # "begin"
  BY <1>3, <1>5 DEF Begun, Closed, Events
<1>7. HeadsAreSole'
  <2>1. ASSUME NEW i \in Own', NEW j \in Own', HeadId(i)' = HeadId(j)'
        PROVE  /\ HeadEvent(i)' = "begin" /\ HeadEvent(j)' = "begin" => i = j
               /\ HeadEvent(i)' # "begin" /\ HeadEvent(j)' # "begin" => i = j
               /\ HeadEvent(i)' = "begin" /\ HeadEvent(j)' # "begin" => i < j
    <3>1. CASE i \in Own /\ j \in Own
      <4>1. /\ HeadId(i)' = HeadId(i) /\ HeadEvent(i)' = HeadEvent(i)
            /\ HeadId(j)' = HeadId(j) /\ HeadEvent(j)' = HeadEvent(j)
        BY <1>1, <3>1
      <4>2. QED
        BY <2>1, <3>1, <4>1 DEF Records, HeadsAreSole
    <3>2. CASE i = n /\ j \in Own
      <4>1. HeadEvent(i)' = event /\ HeadId(j) = id /\ HeadEvent(j)' = HeadEvent(j)
        BY <1>1, <2>1, <3>2
      <4>2. HeadEvent(j) = "begin" /\ event # "begin"
        BY <1>6, <3>2, <4>1
      <4>3. QED
        BY <4>1, <4>2
    <3>3. CASE i \in Own /\ j = n
      <4>1. HeadEvent(j)' = event /\ HeadId(i) = id /\ HeadEvent(i)' = HeadEvent(i) /\ i < j
        BY <1>1, <2>1, <3>3
      <4>2. HeadEvent(i) = "begin" /\ event # "begin"
        BY <1>6, <3>3, <4>1
      <4>3. QED
        BY <4>1, <4>2
    <3>4. CASE i = n /\ j = n
      BY <3>4
    <3>5. QED
      BY <1>1, <2>1, <3>1, <3>2, <3>3, <3>4
  <2>2. QED
    BY <2>1 DEF HeadsAreSole
<1>8. NoBegin' = NoBegin /\ NoEnd' = NoEnd
  <2>1. "begin" \notin Terminal
    BY DEF Terminal
  <2>2. \A i : /\ Begun(i)' <=> Begun(i) \/ (i = id /\ event = "begin")
               /\ Closed(i)' <=> Closed(i) \/ (i = id /\ event \in Terminal)
    BY <1>1 DEF Begun, Closed
  <2>3. CASE event = "begin"
    <3>1. id \notin Started /\ Started' = Started \union {id} /\ Finished' = Finished
      BY <2>3 DEF Spoken
    <3>2. QED
      BY <2>1, <2>2, <2>3, <3>1 DEF NoBegin, NoEnd
  <2>4. CASE event # "begin"
    <3>1. Started' = Started /\ Finished' = Finished \union {id} /\ event \in Terminal
      BY <1>2, <2>4 DEF Spoken, Events
    <3>2. QED
      BY <1>2, <2>2, <2>4, <3>1 DEF NoBegin, NoEnd
  <2>5. QED
    BY <2>3, <2>4
<1>9. OnlyLostAreMissing'
  BY <1>2, <1>8 DEF Records, OnlyLostAreMissing
<1>10. QED
  BY <1>4, <1>7, <1>9 DEF Records

LEMMA Next_Records ==
  ASSUME Base, Counted, Records, [Next]_vars
  PROVE  Records'
<1>1. CASE Quiet
  BY <1>1, Quiet_Records
<1>2. ASSUME NEW id, NEW event, Spoken(id, event), Effect(id, event)
      PROVE  Records'
  BY <1>2, Lost_Records, Written_Records DEF Effect
<1>3. QED
  BY <1>1, <1>2, Effects

-----------------------------------------------------------------------------
(* Failures.  A launch that failed is not touched again.                     *)
LEMMA SameFailed ==
  ASSUME fate' = fate, \A t \in Threads : thread'[t].id = thread[t].id, NEW id, Failed(id)
  PROVE  Failed(id)'
BY DEF Failed

LEMMA Said_Failed ==
  ASSUME Base, NEW t \in Threads, NEW s, Set(t, [thread[t] EXCEPT !.say = s]), fate' = fate,
         NEW id, Failed(id)
  PROVE  Failed(id)'
<1>1. thread \in [Threads -> Doing]
  BY DEF Base, Typed
<1>2. \A u \in Threads : thread'[u].id = thread[u].id
  BY <1>1 DEF Set, Doing
<1>3. QED
  BY <1>2, SameFailed

LEMMA Failed_Stays ==
  ASSUME Base, [Next]_vars, NEW id, Failed(id)
  PROVE  Failed(id)'
<1>1. CASE UNCHANGED <<thread, fate>>
  BY <1>1, SameFailed
<1>2. ASSUME NEW t \in Threads, NextLaunchId(t)
      PROVE  Failed(id)'
  <2>1. /\ fate' = Append(fate, "open") /\ thread'[t].id = Len(fate) + 1
        /\ \A u \in Threads : u # t => thread'[u] = thread[u]
    BY <1>2, NextLaunchId_Base
  <2>2. fate \in Seq(Fates) /\ id \in 1 .. Len(fate) /\ Len(fate) \in Nat
    BY NoZero DEF Base, Typed, Failed
  <2>3. id \in DOMAIN fate' /\ fate'[id] = fate[id] /\ id # Len(fate) + 1
    BY <2>1, <2>2
  <2>4. QED
    BY <2>1, <2>3 DEF Failed
<1>3. ASSUME NEW t \in Threads, WriteText(t) \/ LoseRecord(t) \/ EndLine(t) \/ LoseNewline(t)
      PROVE  Failed(id)'
  <2>1. CASE WriteText(t)
    BY <2>1, Said_Failed DEF WriteText
  <2>2. CASE LoseRecord(t)
    BY <2>2, Said_Failed DEF LoseRecord
  <2>3. CASE EndLine(t)
    BY <2>3, Said_Failed DEF EndLine
  <2>4. CASE LoseNewline(t)
    BY <2>4, Said_Failed DEF LoseNewline
  <2>5. QED
    BY <1>3, <2>1, <2>2, <2>3, <2>4
<1>4. ASSUME NEW t \in Threads, ModuleLaunchKernel(t) \/ StreamSynchronize(t)
      PROVE  Failed(id)'
  <2>1. PICK pc \in {"sync", "return"}, event \in {""} \union Terminal,
             f \in {"queued", "ok", "error"} : Result(t, pc, event, f)
    BY <1>4, Issued
  <2>2. /\ thread'[t].id = thread[t].id
        /\ \A u \in Threads : u # t => thread'[u] = thread[u]
        /\ DOMAIN fate' = DOMAIN fate
        /\ \A i \in DOMAIN fate : i # thread[t].id => fate'[i] = fate[i]
    BY <2>1, Result_Base
  <2>3. QED
    BY <2>2 DEF Failed
<1>5. ASSUME NEW t \in Threads, Return(t)
      PROVE  Failed(id)'
  <2>1. /\ thread'[t] = idle /\ \A u \in Threads : u # t => thread'[u] = thread[u]
    BY <1>5, Return_Base
  <2>2. fate' = fate /\ id # 0
    BY <1>5, NoZero DEF Return, Failed
  <2>3. QED
    BY <2>1, <2>2, Idles DEF Failed
<1>6. QED
  BY <1>1, <1>2, <1>3, <1>4, <1>5
  DEF Next, Step, GetFunction, Refuse, Crash, Exit, vars, process

LEMMA Init_Told == Init => Told
BY DEF Init, Told

LEMMA Next_Told ==
  ASSUME Base, Counted, Named, Told, [Next]_vars
  PROVE  Told'
<1> SUFFICES ASSUME refused' = 0
             PROVE  \A i \in DOMAIN log' :
                      log'[i].call = "launch" /\ ~log'[i].ok => \E id : Failed(id)'
  BY DEF Told
<1>1. refused = 0 /\ \A t \in Threads : ~Refuse(t)
  <2>1. \A t \in Threads : ~Refuse(t)
    BY DEF Refuse, Counted
  <2>2. refused' = refused
    BY <2>1
    DEF Next, Step, GetFunction, NextLaunchId, WriteText, LoseRecord, EndLine, LoseNewline,
        ModuleLaunchKernel, StreamSynchronize, Return, Proceed, Crash, Exit, vars, history
  <2>3. QED
    BY <2>1, <2>2
<1>2. log \in Seq(Call)
  BY DEF Named
<1>3. ASSUME NEW i \in DOMAIN log, log[i].call = "launch", ~log[i].ok
      PROVE  \E id : Failed(id)'
  <2>1. PICK id : Failed(id)
    BY <1>1, <1>3 DEF Told
  <2>2. QED
    BY <2>1, Failed_Stays
<1>4. CASE log' = log
  BY <1>3, <1>4
<1>5. ASSUME NEW c, log' = Append(log, c),
             c.call = "launch" /\ ~c.ok => \E id : Failed(id)'
      PROVE  \A i \in DOMAIN log' :
               log'[i].call = "launch" /\ ~log'[i].ok => \E id : Failed(id)'
  <2>1. \A i \in DOMAIN log' : (i \in DOMAIN log /\ log'[i] = log[i]) \/ log'[i] = c
    BY <1>2, <1>5
  <2>2. QED
    BY <1>3, <1>5, <2>1
<1>6. ASSUME NEW t \in Threads, GetFunction(t)
      PROVE  \E c : log' = Append(log, c) /\ c.call = "function"
  BY <1>6 DEF GetFunction
<1>7. ASSUME NEW t \in Threads, Return(t)
      PROVE  \E c : log' = Append(log, c) /\ (~c.ok => \E id : Failed(id)')
  <2> DEFINE c == [call |-> "launch", h |-> thread[t].h, kernel |-> thread[t].kernel,
                   ok |-> fate[thread[t].id] # "error"]
  <2>1. log' = Append(log, c) /\ fate' = fate
    BY <1>7 DEF Return
  <2>2. ASSUME fate[thread[t].id] = "error"
        PROVE  \E id : Failed(id)'
    <3>1. /\ thread[t].pc = "return" /\ thread'[t] = idle
          /\ \A u \in Threads : u # t => thread'[u] = thread[u]
      BY <1>7, Return_Base
    <3>2. /\ thread[t].id \in DOMAIN fate /\ thread[t].id # 0
          /\ \A u \in Threads : thread[u].id = thread[t].id => u = t
      BY <3>1, SoleOwner, NoZero
    <3>3. PICK id : id = thread[t].id
      OBVIOUS
    <3>4. \A u \in Threads : thread'[u].id # id
      BY <3>1, <3>2, <3>3, Idles
    <3>5. Failed(id)'
      BY <2>1, <2>2, <3>2, <3>3, <3>4 DEF Failed
    <3>6. QED
      BY <3>5
  <2>3. ~c.ok => \E id : Failed(id)'
    BY <2>2
  <2>4. QED
    BY <2>1, <2>3
<1>8. log' = log \/ \E t \in Threads : GetFunction(t) \/ Return(t)
  BY <1>1
  DEF Next, Step, NextLaunchId, WriteText, LoseRecord, EndLine, LoseNewline,
      ModuleLaunchKernel, StreamSynchronize, Proceed, Crash, Exit, vars, file
<1>9. QED
  BY <1>4, <1>5, <1>6, <1>7, <1>8

-----------------------------------------------------------------------------
(* The summary of the lines, which the look-ups leave alone.                 *)
LEMMA LookUpsKeep ==
  ASSUME NEW b \in Summaries, NEW f \in Seq(Call)
  PROVE  LET s == FoldLeft(Functions, b, f) IN
         /\ s.open = b.open /\ s.begun = b.begun /\ s.closed = b.closed
         /\ s.begins = b.begins /\ s.terminals = b.terminals /\ s.errors = b.errors
<1> DEFINE Same(s) == /\ s.open = b.open /\ s.begun = b.begun /\ s.closed = b.closed
                      /\ s.begins = b.begins /\ s.terminals = b.terminals
                      /\ s.errors = b.errors
<1>1. PICK h : LookUpRun(h, b, f) /\ FoldLeft(Functions, b, f) = h[Len(f)]
  BY LookUpRuns
<1> DEFINE S == {k \in Nat : k <= Len(f) => Same(h[k])}
<1>2. 0 \in S
  BY <1>1 DEF LookUpRun
<1>3. ASSUME NEW k \in Nat, k \in S
      PROVE  k + 1 \in S
  <2> SUFFICES ASSUME k + 1 <= Len(f)
               PROVE  Same(h[k + 1])
    OBVIOUS
  <2>1. k \in 0 .. Len(f) - 1 /\ f[k + 1] \in Call /\ Same(h[k])
    BY <1>3
  <2>2. h[k] \in Summaries /\ h[k + 1] = Functions(h[k], f[k + 1])
    BY <1>1, <2>1 DEF LookUpRun
  <2>3. CASE f[k + 1].call = "launch"
    BY <2>1, <2>2, <2>3 DEF Functions, Summaries
  <2>4. CASE f[k + 1].call # "launch"
    BY <2>1, <2>2, <2>4 DEF Functions, Summaries
  <2>5. QED
    BY <2>3, <2>4
<1> HIDE DEF S
<1>4. Nat \subseteq S
  BY <1>2, <1>3, SetInduction
<1>5. Len(f) \in S
  BY <1>4
<1>6. QED
  BY <1>1, <1>5 DEF S

LEMMA SumIs ==
  ASSUME Base, Named
  PROVE  /\ sum.open = Open(lines)
         /\ sum.begun = IdsOf(lines, Begins(lines)) /\ sum.closed = IdsOf(lines, Closes(lines))
         /\ sum.begins = Cardinality(Begins(lines))
         /\ sum.terminals = Cardinality(Closes(lines))
         /\ sum.errors = 0 <=> \A i \in Closes(lines) : lines[i][1].event = "done"
<1> DEFINE b == FoldLeft(Blocking, Empty, lines)
<1>1. lines \in Seq(Line) /\ log \in Seq(Call)
  BY DEF Base, Filed, Named
<1>2. b \in Summaries
  BY <1>1, ReadToEnd
<1>3. /\ b.open = Open(lines)
      /\ b.begun = IdsOf(lines, Begins(lines)) /\ b.closed = IdsOf(lines, Closes(lines))
      /\ b.begins = Cardinality(Begins(lines)) /\ b.terminals = Cardinality(Closes(lines))
      /\ b.errors = 0 <=> \A i \in Closes(lines) : lines[i][1].event = "done"
  BY <1>1, ReaderComputes
<1>4. sum = FoldLeft(Functions, b, log)
  BY DEF sum
<1> HIDE DEF b
<1>5. /\ sum.open = b.open /\ sum.begun = b.begun /\ sum.closed = b.closed
      /\ sum.begins = b.begins /\ sum.terminals = b.terminals /\ sum.errors = b.errors
  BY <1>1, <1>2, <1>4, LookUpsKeep
<1>6. QED
  BY <1>3, <1>5

(* The heads of this process among the lines that begin and close launches.  *)
LEMMA OwnHeads ==
  ASSUME Base, NEW i \in DOMAIN lines, i > old
  PROVE  /\ i \in Begins(lines) <=> i \in Own /\ HeadEvent(i) = "begin"
         /\ i \in Closes(lines) <=> i \in Own /\ HeadEvent(i) \in Terminal
BY DEF Begins, Closes, Own, HeadEvent

LEMMA IsInFlight ==
  ASSUME Base
  PROVE  InFlight = Started \ Finished
<1>1. \A t \in Threads : Holds(t) /\ Speaks(t)
  BY DEF Base, Owners
<1>2. ASSUME NEW id \in InFlight
      PROVE  id \in Started \ Finished
  <2>1. PICK t \in Threads :
          /\ thread[t].id = id
          /\ \/ thread[t].pc \in {"launch", "sync"} /\ thread[t].say # "begin"
             \/ thread[t].pc = "return" /\ thread[t].say \in Terminal
    BY DEF InFlight
  <2>2. thread[t].pc # "idle" /\ thread[t].say # "begin"
    BY <2>1 DEF Terminal
  <2>3. id \in DOMAIN fate /\ \A u \in Threads : thread[u].id = id => u = t
    BY <2>1, <2>2, SoleOwner
  <2>4. id \in Started
    BY <2>2, <2>3 DEF Started, StartedOf
  <2>5. id \notin Finished
    BY <2>1 DEF Finished
  <2>6. QED
    BY <2>4, <2>5
<1>3. ASSUME NEW id \in Started, id \notin Finished
      PROVE  id \in InFlight
  <2>1. id \in DOMAIN fate
    BY DEF Started, StartedOf
  <2>2. PICK t \in Threads :
          thread[t].id = id /\ ~(thread[t].pc = "return" /\ thread[t].say \notin Terminal)
    BY <1>3, <2>1 DEF Finished
  <2>3. thread[t].say # "begin"
    BY <2>2 DEF Started, StartedOf
  <2>4. thread[t].pc # "idle"
    BY <1>1, <2>1, <2>2, Idles, NoZero DEF Holds
  <2>5. thread[t].pc \in {"idle", "launch", "sync", "return"}
    <3>1. thread[t] \in Doing
      BY DEF Base, Typed
    <3>2. QED
      BY <3>1 DEF Doing
  <2>6. QED
    BY <2>2, <2>3, <2>4, <2>5 DEF InFlight
<1>4. QED
  BY <1>2, <1>3

LEMMA UnmatchedHolds ==
  ASSUME Base, Named, Records, Intact
  PROVE  sum.open = InFlight \union (Open(SubSeq(lines, 1, old)) \ Finished)
<1> DEFINE f == SubSeq(lines, 1, old)
<1>1. /\ lines \in Seq(Line) /\ old \in 0 .. Len(lines) /\ DOMAIN lines = 1 .. Len(lines)
      /\ Len(lines) \in Nat
  BY DEF Base, Filed
<1>2. /\ DOMAIN f = {i \in DOMAIN lines : i <= old} /\ \A i \in DOMAIN f : f[i] = lines[i]
      /\ \A i, j \in DOMAIN lines : i > j \/ i <= j
      /\ \A i \in DOMAIN lines : i \in Int
  BY <1>1
<1> HIDE DEF f
<1>3. NoBegin = {} /\ NoEnd = {}
  BY DEF Records, OnlyLostAreMissing, Intact
<1>4. /\ \A i \in DOMAIN f : i \in Begins(f) <=> i \in Begins(lines)
      /\ \A i \in DOMAIN f : i \in Closes(f) <=> i \in Closes(lines)
      /\ Begins(f) \subseteq DOMAIN f /\ Closes(f) \subseteq DOMAIN f
      /\ Begins(lines) \subseteq DOMAIN lines /\ Closes(lines) \subseteq DOMAIN lines
  BY <1>2 DEF Begins, Closes
<1>5. \A i \in DOMAIN lines : i > old \/ i \in DOMAIN f
  BY <1>1, <1>2
<1>6. \A i \in Closes(lines) : i > old => lines[i][1].id \in Finished
  <2>1. ASSUME NEW i \in Closes(lines), i > old
        PROVE  HeadId(i) \in Finished
    <3>1. i \in Own /\ HeadEvent(i) \in Terminal
      BY <1>4, <2>1, OwnHeads
    <3>2. HeadEvent(i) # "begin"
      BY <3>1 DEF Terminal
    <3>3. QED
      BY <3>1, <3>2 DEF Records, HeadsAreTrue
  <2>2. QED
    BY <2>1 DEF HeadId
<1>7. \A id \in Finished : \E i \in Closes(lines) : i > old /\ lines[i][1].id = id
  <2>1. TAKE id \in Finished
  <2>2. PICK i \in Own : HeadId(i) = id /\ HeadEvent(i) \in Terminal
    BY <1>3 DEF NoEnd, Closed
  <2>3. i \in DOMAIN lines /\ i > old
    BY DEF Own
  <2>4. QED
    BY <2>2, <2>3, OwnHeads DEF HeadId
<1>8. ASSUME NEW i \in Begins(lines), i > old,
             \A l \in Closes(lines) : l > i => lines[l][1].id # lines[i][1].id
      PROVE  lines[i][1].id \in Started \ Finished
  <2>1. i \in Own /\ HeadEvent(i) = "begin"
    BY <1>4, <1>8, OwnHeads
  <2>2. HeadId(i) \in Started
    BY <2>1 DEF Records, HeadsAreTrue
  <2>3. ASSUME HeadId(i) \in Finished
        PROVE  FALSE
    <3>1. PICK l \in Closes(lines) : l > old /\ lines[l][1].id = HeadId(i)
      BY <1>7, <2>3
    <3>2. l \in Own /\ HeadEvent(l) # "begin" /\ HeadId(l) = HeadId(i)
      BY <1>4, <3>1, OwnHeads DEF HeadId, Terminal
    <3>3. i < l
      BY <2>1, <3>2 DEF Records, HeadsAreSole
    <3>4. QED
      BY <1>8, <3>1, <3>3 DEF HeadId
  <2>4. QED
    BY <2>2, <2>3 DEF HeadId
<1>9. ASSUME NEW id \in Started \ Finished
      PROVE  id \in Open(lines)
  <2>1. PICK i \in Own : HeadId(i) = id /\ HeadEvent(i) = "begin"
    BY <1>3 DEF NoBegin, Begun
  <2>2. i \in DOMAIN lines /\ i > old
    BY DEF Own
  <2>3. i \in Begins(lines)
    BY <2>1, <2>2, OwnHeads
  <2>4. \A l \in Closes(lines) : l > i => lines[l][1].id # id
    <3>1. TAKE l \in Closes(lines)
    <3>2. l > i => l > old
      BY <1>1, <1>2, <1>4, <2>2
    <3>3. QED
      BY <1>6, <3>2
  <2>5. QED
    BY <2>1, <2>3, <2>4 DEF Open, HeadId
<1>10. ASSUME NEW id \in Open(f), id \notin Finished
       PROVE  id \in Open(lines)
  <2>1. PICK i \in Begins(f) : f[i][1].id = id /\ \A l \in Closes(f) : l > i => f[l][1].id # id
    BY DEF Open
  <2>2. i \in Begins(lines) /\ lines[i][1].id = id
    BY <1>2, <1>4, <2>1
  <2>3. ASSUME NEW l \in Closes(lines), l > i
        PROVE  lines[l][1].id # id
    <3>1. CASE l > old
      BY <1>6, <1>10, <3>1
    <3>2. CASE l \in DOMAIN f
      BY <1>2, <1>4, <2>1, <2>3, <3>2
    <3>3. QED
      BY <1>4, <1>5, <3>1, <3>2
  <2>4. QED
    BY <2>2, <2>3 DEF Open
<1>11. ASSUME NEW id \in Open(lines)
       PROVE  id \in (Started \ Finished) \union (Open(f) \ Finished)
  <2>1. PICK i \in Begins(lines) :
          /\ lines[i][1].id = id
          /\ \A l \in Closes(lines) : l > i => lines[l][1].id # id
    BY DEF Open
  <2>2. CASE i > old
    BY <1>8, <2>1, <2>2
  <2>3. CASE i \in DOMAIN f
    <3>1. i \in Begins(f) /\ f[i][1].id = id
      BY <1>2, <1>4, <2>1, <2>3
    <3>2. \A l \in Closes(f) : l > i => f[l][1].id # id
      BY <1>2, <1>4, <2>1
    <3>3. id \in Open(f)
      BY <3>1, <3>2 DEF Open
    <3>4. id \notin Finished
      <4>1. ASSUME id \in Finished
            PROVE  FALSE
        <5>1. PICK l \in Closes(lines) : l > old /\ lines[l][1].id = id
          BY <1>7, <4>1
        <5>2. l > i
          <6>1. i \in Int /\ l \in Int /\ old \in Int /\ i <= old
            BY <1>1, <1>2, <1>4, <2>3
          <6>2. QED
            BY <5>1, <6>1
        <5>3. QED
          BY <2>1, <5>1, <5>2
      <4>2. QED
        BY <4>1
    <3>5. QED
      BY <3>3, <3>4
  <2>4. QED
    BY <1>4, <1>5, <2>2, <2>3
<1>12. Open(lines) = (Started \ Finished) \union (Open(f) \ Finished)
  BY <1>9, <1>10, <1>11
<1>13. QED
  BY <1>12, IsInFlight, SumIs DEF f

Inv == Base /\ Counted /\ Named /\ Records /\ Told

LEMMA Invariance == Spec => []Inv
<1>1. Init => Inv
  BY Init_Base, Init_Counted, Init_Named, Init_Records, Init_Told DEF Inv
<1>2. Inv /\ [Next]_vars => Inv'
  BY Next_Base, Next_Counted, Next_Named, Next_Records, Next_Told DEF Inv
<1>3. QED
  BY <1>1, <1>2, PTL DEF Spec

(* The launches the report leaves open are those that were in flight when    *)
(* the process ended, and those an earlier process left open whose number    *)
(* this one did not finish.                                                  *)
THEOREM UnmatchedWereInFlight == Spec => []UnmatchedIsInFlight
<1>1. Inv => UnmatchedIsInFlight
  BY UnmatchedHolds DEF Inv, UnmatchedIsInFlight
<1>2. QED
  BY <1>1, Invariance, PTL

(* With launch blocking, the launch that brought the process down was in     *)
(* flight, and alone so when no other thread was launching.                  *)
LEMMA CulpritHolds ==
  ASSUME Inv, Intact, setup.blocking, culprit # 0
  PROVE  /\ culprit \in sum.open
         /\ old = 0 /\ Cardinality({t \in Threads : thread[t].pc # "idle"}) = 1 =>
              sum.open = {culprit}
<1>1. PICK t \in Threads : /\ thread[t].id = culprit /\ thread[t].say = ""
                           /\ thread[t].pc \in {"launch", "sync"}
  BY DEF Inv, Base, Caught
<1>2. culprit \in InFlight
  BY <1>1 DEF InFlight
<1>3. sum.open = InFlight \union (Open(SubSeq(lines, 1, old)) \ Finished)
  BY UnmatchedHolds DEF Inv
<1>4. ASSUME old = 0, Cardinality({u \in Threads : thread[u].pc # "idle"}) = 1
      PROVE  sum.open = {culprit}
  <2>1. Open(SubSeq(lines, 1, 0)) = {}
    <3>1. lines \in Seq(Line)
      BY DEF Inv, Base, Filed
    <3>2. DOMAIN SubSeq(lines, 1, 0) = {}
      BY <3>1
    <3>3. QED
      BY <3>2 DEF Open, Begins
  <2> DEFINE Busy == {u \in Threads : thread[u].pc # "idle"}
  <2>2. IsFiniteSet(Busy)
    BY FinitelyManyThreads, FS_Subset
  <2>3. PICK x : Busy = {x}
    BY <1>4, <2>2, FS_Singleton
  <2>4. t \in Busy /\ \A u \in Threads : thread[u].pc # "idle" => u \in Busy
    BY <1>1
  <2> HIDE DEF Busy
  <2>5. \A u \in Threads : thread[u].pc # "idle" => u = t
    BY <2>3, <2>4
  <2>6. InFlight \subseteq {culprit}
    BY <1>1, <2>5 DEF InFlight
  <2>7. QED
    BY <1>2, <1>3, <1>4, <2>1, <2>6
<1>5. QED
  BY <1>2, <1>3, <1>4

(* The launch that brought a blocking process down is among the unmatched    *)
(* ones, and the crash suspect when its thread alone was launching and the   *)
(* file was new.                                                             *)
THEOREM CulpritsAreSuspected == Spec => []CulpritIsSuspected
<1>1. Inv => CulpritIsSuspected
  <2> SUFFICES ASSUME Inv, Intact, setup.blocking, culprit # 0
               PROVE  /\ culprit \in sum.open
                      /\ old = 0 /\ Cardinality({t \in Threads : thread[t].pc # "idle"}) = 1 =>
                           last_unmatched = culprit
    BY DEF CulpritIsSuspected
  <2>1. ASSUME sum.open = {culprit}
        PROVE  last_unmatched = culprit
    <3>1. culprit \in Nat
      <4>1. culprit \in 0 .. Len(fate) /\ fate \in Seq(Fates)
        BY DEF Inv, Base, Typed
      <4>2. QED
        BY <4>1
    <3>2. last_unmatched = CHOOSE i \in {culprit} : \A j \in {culprit} : j <= i
      BY <2>1 DEF last_unmatched
    <3>3. QED
      BY <3>1, <3>2
  <2>2. QED
    BY <2>1, CulpritHolds
<1>2. QED
  BY <1>1, Invariance, PTL

(* Lines that bear different numbers are as many as their numbers.           *)
LEMMA AsManyIds ==
  ASSUME NEW f, NEW S, IsFiniteSet(S),
         \A i, j \in S : Id(f, i) = Id(f, j) => i = j
  PROVE  Cardinality(IdsOf(f, S)) = Cardinality(S)
<1> DEFINE T == IdsOf(f, S)
           g == [i \in S |-> Id(f, i)]
<1>1. g \in [S -> T] /\ IsInjective(g) /\ \A id \in T : \E i \in S : g[i] = id
  BY DEF IdsOf, IsInjective
<1>2. g \in Bijection(S, T)
  BY <1>1 DEF Bijection, Injection, Surjection
<1>3. ExistsBijection(S, T)
  BY <1>2 DEF ExistsBijection
<1> HIDE DEF T
<1>4. Cardinality(T) = Cardinality(S)
  BY <1>3, FS_Bijection
<1>5. QED
  BY <1>4 DEF T

(* In a file of one process every line that begins or closes a launch is its *)
(* own, and the only one of its kind for that launch.                        *)
LEMMA OfOneProcess ==
  ASSUME Inv, old = 0
  PROVE  /\ IsFiniteSet(Begins(lines)) /\ IsFiniteSet(Closes(lines))
         /\ \A i \in Begins(lines) : i \in Own /\ HeadEvent(i) = "begin"
         /\ \A i \in Closes(lines) : i \in Own /\ HeadEvent(i) \in Terminal
         /\ \A i \in Own : HeadEvent(i) = "begin" => i \in Begins(lines)
         /\ \A i \in Own : HeadEvent(i) \in Terminal => i \in Closes(lines)
         /\ \A i, j \in Begins(lines) : Id(lines, i) = Id(lines, j) => i = j
         /\ \A i, j \in Closes(lines) : Id(lines, i) = Id(lines, j) => i = j
<1>1. lines \in Seq(Line)
  BY DEF Inv, Base, Filed
<1>2. \A i \in DOMAIN lines : i > old
  BY <1>1
<1>3. Begins(lines) \subseteq DOMAIN lines /\ Closes(lines) \subseteq DOMAIN lines
      /\ Own \subseteq DOMAIN lines
  BY DEF Begins, Closes, Own
<1>4. /\ \A i \in Begins(lines) : i \in Own /\ HeadEvent(i) = "begin"
      /\ \A i \in Closes(lines) : i \in Own /\ HeadEvent(i) \in Terminal
      /\ \A i \in Own : HeadEvent(i) = "begin" => i \in Begins(lines)
      /\ \A i \in Own : HeadEvent(i) \in Terminal => i \in Closes(lines)
  BY <1>2, <1>3, OwnHeads DEF Inv
<1>5. IsFiniteSet(Begins(lines)) /\ IsFiniteSet(Closes(lines))
  <2>1. Len(lines) \in Nat
    BY <1>1
  <2>2. IsFiniteSet(BeginsTo(lines, Len(lines))) /\ IsFiniteSet(ClosesTo(lines, Len(lines)))
    BY <1>1, <2>1, FiniteIndices
  <2>3. BeginsTo(lines, Len(lines)) = Begins(lines) /\ ClosesTo(lines, Len(lines)) = Closes(lines)
    BY <1>1 DEF BeginsTo, ClosesTo, Begins, Closes
  <2>4. QED
    BY <2>2, <2>3
<1>6. \A i, j \in Begins(lines) : Id(lines, i) = Id(lines, j) => i = j
  BY <1>4 DEF Inv, Records, HeadsAreSole, HeadId, Id
<1>7. \A i, j \in Closes(lines) : Id(lines, i) = Id(lines, j) => i = j
  <2>1. "begin" \notin Terminal
    BY DEF Terminal
  <2>2. QED
    BY <1>4, <2>1 DEF Inv, Records, HeadsAreSole, HeadId, Id
<1>8. QED
  BY <1>4, <1>5, <1>6, <1>7

(* The script, which counts records, and the summary, which counts numbers,  *)
(* agree on a file of one process, even when records were lost or merged.    *)
THEOREM ReadersDoAgree == Spec => []ReadersAgree
<1>1. Inv => ReadersAgree
  <2> SUFFICES ASSUME Inv, old = 0
               PROVE  /\ sum.begins = Cardinality(sum.begun)
                      /\ sum.terminals = Cardinality(sum.closed)
    BY DEF ReadersAgree
  <2>1. /\ Cardinality(IdsOf(lines, Begins(lines))) = Cardinality(Begins(lines))
        /\ Cardinality(IdsOf(lines, Closes(lines))) = Cardinality(Closes(lines))
    BY OfOneProcess, AsManyIds
  <2>2. QED
    BY <2>1, SumIs DEF Inv
<1>2. QED
  BY <1>1, Invariance, PTL

(* The launcher refuses when one record is missing: a begin too few, or a    *)
(* launch left open.                                                         *)
LEMMA OneMissingIsRefused ==
  ASSUME Inv, Accepted, old = 0, ~merged, lost \in {0, 1}, setup.traced,
         Started = DOMAIN fate, Finished = DOMAIN fate
  PROVE  lost = 0
<1> SUFFICES ASSUME lost = 1 PROVE FALSE
  OBVIOUS
<1>1. PICK id \in DOMAIN fate : \/ NoBegin = {id} /\ NoEnd = {}
                                \/ NoBegin = {} /\ NoEnd = {id}
  BY DEF Inv, Records, OnlyLostAreMissing
<1>2. /\ IsFiniteSet(Begins(lines)) /\ IsFiniteSet(Closes(lines))
      /\ \A i \in Begins(lines) : i \in Own /\ HeadEvent(i) = "begin"
      /\ \A i \in Closes(lines) : i \in Own /\ HeadEvent(i) \in Terminal
      /\ \A i \in Own : HeadEvent(i) = "begin" => i \in Begins(lines)
      /\ \A i \in Own : HeadEvent(i) \in Terminal => i \in Closes(lines)
      /\ \A i, j \in Begins(lines) : Id(lines, i) = Id(lines, j) => i = j
      /\ \A i, j \in Closes(lines) : Id(lines, i) = Id(lines, j) => i = j
  BY OfOneProcess
<1>3. /\ \A i \in DOMAIN fate : Begun(i) <=> i \notin NoBegin
      /\ \A i \in DOMAIN fate : Closed(i) <=> i \notin NoEnd
  BY DEF NoBegin, NoEnd
<1>4. "begin" \notin Terminal
  BY DEF Terminal
<1>5. CASE NoBegin = {id} /\ NoEnd = {}
  <2>1. IdsOf(lines, Begins(lines)) = (DOMAIN fate) \ {id}
    <3>1. ASSUME NEW i \in Begins(lines)
          PROVE  HeadId(i) \in DOMAIN fate /\ HeadId(i) # id
      <4>1. i \in Own /\ HeadEvent(i) = "begin"
        BY <1>2
      <4>2. HeadId(i) \in DOMAIN fate /\ Begun(HeadId(i))
        BY <4>1 DEF Inv, Records, HeadsAreTrue, Begun
      <4>3. QED
        BY <1>3, <1>5, <4>2
    <3>2. ASSUME NEW k \in DOMAIN fate, k # id
          PROVE  \E i \in Begins(lines) : HeadId(i) = k
      BY <1>2, <1>3, <1>5, <3>2 DEF Begun
    <3>3. QED
      BY <3>1, <3>2 DEF IdsOf, Id, HeadId
  <2>2. IdsOf(lines, Closes(lines)) = DOMAIN fate
    <3>1. ASSUME NEW i \in Closes(lines)
          PROVE  HeadId(i) \in DOMAIN fate
      BY <1>2, <1>4 DEF Inv, Records, HeadsAreTrue
    <3>2. ASSUME NEW k \in DOMAIN fate
          PROVE  \E i \in Closes(lines) : HeadId(i) = k
      BY <1>2, <1>3, <1>5 DEF Closed
    <3>3. QED
      BY <3>1, <3>2, ZenonT(60) DEF IdsOf, Id, HeadId
  <2>3. /\ Cardinality(Begins(lines)) = Cardinality((DOMAIN fate) \ {id})
        /\ Cardinality(Closes(lines)) = Cardinality(DOMAIN fate)
    BY <1>2, <2>1, <2>2, AsManyIds
  <2>4. /\ IsFiniteSet(DOMAIN fate) /\ Cardinality(DOMAIN fate) \in Nat
        /\ Cardinality((DOMAIN fate) \ {id}) = Cardinality(DOMAIN fate) - 1
    <3>1. DOMAIN fate = 1 .. Len(fate) /\ Len(fate) \in Nat
      BY NoZero DEF Inv
    <3>2. IsFiniteSet(DOMAIN fate)
      BY <3>1, FS_Interval
    <3>3. QED
      BY <1>1, <3>2, FS_RemoveElement, FS_CardinalityType
  <2>5. Cardinality(Begins(lines)) = Cardinality(Closes(lines))
    BY SumIs DEF Accepted, Inv
  <2>6. QED
    BY <2>3, <2>4, <2>5
<1>6. CASE NoBegin = {} /\ NoEnd = {id}
  <2>1. PICK i \in Own : HeadId(i) = id /\ HeadEvent(i) = "begin"
    BY <1>1, <1>3, <1>6 DEF Begun
  <2>2. \A l \in Closes(lines) : HeadId(l) # id
    BY <1>2, <1>3, <1>6 DEF Closed
  <2>3. id \in Open(lines)
    BY <1>2, <2>1, <2>2 DEF Open, HeadId
  <2>4. Open(lines) = {}
    BY SumIs DEF Accepted, Inv
  <2>5. QED
    BY <2>3, <2>4
<1>7. QED
  BY <1>1, <1>5, <1>6

LEMMA AcceptedHolds ==
  ASSUME Inv, Accepted, old = 0, ~merged, lost <= 1, \A t \in Threads : thread[t].pc = "idle"
  PROVE  /\ fate # <<>> /\ lost = 0 /\ \A id \in DOMAIN fate : fate[id] = "ok"
         /\ refused = 0 => \A i \in DOMAIN log : log[i].call = "launch" => log[i].ok
<1>1. /\ IsFiniteSet(Begins(lines))
      /\ \A i \in Begins(lines) : i \in Own /\ HeadEvent(i) = "begin"
      /\ \A i \in Own : HeadEvent(i) \in Terminal => i \in Closes(lines)
  BY OfOneProcess
<1>2. Started = DOMAIN fate /\ Finished = DOMAIN fate
  <2>1. \A t \in Threads : thread[t].id \notin DOMAIN fate
    <3>1. TAKE t \in Threads
    <3>2. Holds(t)
      BY DEF Inv, Base, Owners
    <3>3. thread[t].id = 0
      BY <3>2, Idles DEF Holds
    <3>4. QED
      BY <3>3, NoZero DEF Inv
  <2>2. QED
    BY <2>1 DEF Started, StartedOf, Finished
<1>3. PICK i : i \in Begins(lines)
  <2>1. Cardinality(Begins(lines)) >= 1
    BY SumIs DEF Accepted, Inv
  <2>2. Begins(lines) # {}
    BY <2>1, FS_EmptySet
  <2>3. QED
    BY <2>2
<1>4. setup.traced /\ HeadId(i) \in DOMAIN fate
  BY <1>1, <1>2, <1>3 DEF Inv, Records, HeadsAreTrue
<1>5. fate # <<>>
  BY <1>4
<1>6. lost \in {0, 1}
  <2>1. lost \in 0 .. MaxLost
    BY DEF Inv, Base, Typed
  <2>2. QED
    BY <2>1, BoundsAreNatural
<1>7. lost = 0
  BY <1>2, <1>4, <1>6, OneMissingIsRefused
<1>8. ASSUME NEW id \in DOMAIN fate
      PROVE  fate[id] = "ok"
  <2>1. Closed(id)
    BY <1>2, <1>4, <1>7 DEF Inv, Records, OnlyLostAreMissing, NoEnd
  <2>2. PICK l \in Own : HeadId(l) = id /\ HeadEvent(l) \in Terminal
    BY <2>1 DEF Closed
  <2>3. l \in Closes(lines)
    BY <1>1, <2>2
  <2>4. HeadEvent(l) = "done"
    BY <2>3, SumIs DEF Accepted, Inv, HeadEvent
  <2>5. setup.blocking
    BY DEF Accepted
  <2>6. QED
    BY <2>2, <2>4, <2>5 DEF Inv, Records, HeadsAreTrue
<1>9. ~ \E id : Failed(id)
  BY <1>8 DEF Failed
<1>10. QED
  BY <1>5, <1>7, <1>8, <1>9 DEF Inv, Told

(* The launcher accepts only a run that launched something and all of whose  *)
(* numbered launches completed; the loss of any one record makes it refuse.  *)
(* Every launch the application asked for succeeded, unless launch_kernel    *)
(* refused one before it had a number: no reader of the trace sees that.     *)
THEOREM AcceptanceIsEarned == Spec => []AcceptedIsComplete
<1>1. Inv => AcceptedIsComplete
  BY AcceptedHolds DEF AcceptedIsComplete
<1>2. QED
  BY <1>1, Invariance, PTL
================================================================================
