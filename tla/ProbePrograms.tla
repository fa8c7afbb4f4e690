----------------------------- MODULE ProbePrograms ----------------------------
(***************************************************************************)
(* The programs that the probe processes run, whatever they are, and the   *)
(* discipline they are written in: conditions on the text of a program,    *)
(* which mention no state.  DriverProbes, TorchProbes and                  *)
(* CudnnQualification hold the programs of the repository.                 *)
(***************************************************************************)
EXTENDS Integers, Sequences, FiniteSets

CONSTANTS
  Probes,      \* the tests a process can be started for
  Code,        \* Code[p]: the programs of p, one per device and configuration
  Names,       \* the objects and values the programs name
  Unguarded    \* Unguarded[p]: objects of p made outside the try that frees them

(* How the value that a call or a kernel leaves can be bad.                *)
Miscomputed == {"dropped", "uncopied", "wrong", "nan", "imag", "factors"}

(* A program is made of steps, a finally block of calls only.              *)
StepsOf(t) == {t[i] : i \in DOMAIN t}
Written == UNION {StepsOf(t) : t \in UNION {Code[p] : p \in Probes}}
Cleanups == {s.cleanup : s \in {t \in Written : t.op = "try"}}
Steps == Written \union UNION {StepsOf(c) : c \in Cleanups}
Calls == {s \in Steps : s.op = "call"}

ASSUME ProgramsAreWellFormed ==
  /\ "ctx" \in Names
  /\ \A p \in Probes : Code[p] \subseteq Seq(Steps)
  /\ Cleanups \subseteq Seq(Calls)
  /\ \A s \in Steps : s.op = "raise" => s.as \in {"unsupported", "error"}
  /\ \A s \in Calls :
       /\ s.skip \in Nat /\ s.want \subseteq {"ok", "fail", "refused"}
       /\ s.effect.do \in {"gain", "adopt"} => s.effect.r \in Names
       /\ s.effect.do = "store" => s.effect.bad \subseteq Miscomputed
       /\ s.effect.do = "push" => s.effect.kernel.bad \subseteq Miscomputed

(* The cleanups of the try statements entered, before each step and after  *)
(* the last one: what the last try or leave made of them.                  *)
Enter(s, open) ==
  IF s.op = "try" THEN <<s.cleanup>> \o open
  ELSE IF s.op = "leave" /\ open # <<>> THEN Tail(open) ELSE open
Turns(t, n) == {i \in 1..n : t[i].op \in {"try", "leave"}}
Latest(M) == CHOOSE m \in M : \A i \in M : i <= m
Opened(t) ==
  LET f[n \in 0..Len(t)] ==
        IF Turns(t, n) = {} THEN <<>>
        ELSE LET m == Latest(Turns(t, n)) IN Enter(t[m], f[m - 1])
  IN  f

Recorded(s) == s.mode = "ask"
Unowned(s) == s.own = ""   \* made for no object in particular
Does(s, do, r) == s.op = "call" /\ s.effect.do = do /\ s.effect.r = r

-------------------------------------------------------------------------------
(* What is made is given back.  These steps come to the release of r, if   *)
(* no release or wait fails.                                               *)
Harmless(s) ==
  /\ s.op = "call" /\ s.want = {"ok"}
  /\ s.mode = "hush" \/ (s.mode = "ck" /\ s.effect.do = "lose")
Releases(s, r) == Harmless(s) /\ ~s.chained /\ s.own = r /\ Does(s, "lose", r)
GivesBack(t, r) ==
  \E j \in DOMAIN t : Releases(t[j], r) /\ \A i \in 1..(j - 1) : Harmless(t[i])

(* An object is made inside a try whose cleanup gives it back, or right    *)
(* before one.  What is adopted is not made as well.                       *)
Sheltered(t, open, exempt) ==
  \A i \in DOMAIN t :
    /\ t[i].op = "call" /\ t[i].effect.do = "gain" /\ t[i].effect.r \notin exempt =>
         \/ \E n \in DOMAIN open[i] : GivesBack(open[i][n], t[i].effect.r)
         \/ i < Len(t) /\ t[i + 1].op = "try" /\ GivesBack(t[i + 1].cleanup, t[i].effect.r)
    /\ t[i].op = "call" /\ t[i].effect.do = "adopt" =>
         \A j \in DOMAIN t : ~Does(t[j], "gain", t[i].effect.r)

ASSUME ProgramsGiveBack ==
  /\ \A s \in Calls : s.mode = "hush" => s.want = {"ok"}
  /\ \A s \in Calls : s.mode = "must" => s.effect.do # "gain"
  /\ \A c \in Cleanups : \A s \in StepsOf(c) : s.effect.do \notin {"gain", "adopt"}
  /\ \A p \in Probes : \A t \in Code[p] : Sheltered(t, Opened(t), Unguarded[p])

-------------------------------------------------------------------------------
(* What is used exists.  A step of a cleanup is made for an object that    *)
(* was made, and one that throws leaves out only others of its cleanup.    *)
Optional(s) ==
  /\ s.op = "call" /\ ~Unowned(s) /\ s.mode \in {"hush", "ck"}
  /\ s.effect.do \in {"lose", "drain"}
SkipsInside(t) ==
  \A i \in DOMAIN t : t[i].op = "call" =>
    \A k \in (i + 1)..(i + t[i].skip) : k \in DOMAIN t /\ Optional(t[k])

(* The calls of t at any depth.                                            *)
CallsIn(t) ==
  {s \in StepsOf(t) : s.op = "call"}
    \union UNION {StepsOf(s.cleanup) : s \in {x \in StepsOf(t) : x.op = "try"}}

(* A call made for an object uses that and what it was made with.          *)
MadeFor(C) ==
  \A s, g \in C :
    ~Unowned(s) /\ Does(g, "gain", s.own) => s.uses \subseteq g.uses \union {s.own}

(* When the code recorded last, up to and including step g, is not 0, step *)
(* i is not made.                                                          *)
Hangs(t, g, i) ==
  \E e \in (g + 1)..i :
    /\ (e = i /\ t[e].op = "call" /\ t[e].chained) \/ t[e].op = "return"
    /\ \A k \in (g + 1)..(e - 1) : t[k].op = "call" /\ Recorded(t[k]) => t[k].chained

(* Step g makes r, or step i is not made.                                  *)
Makes(t, g, i, r) ==
  /\ Does(t[g], "gain", r) \/ Does(t[g], "adopt", r)
  /\ Unowned(t[g])
  /\ \/ t[g].mode \in {"ck", "torch"} /\ ~t[g].chained
     \/ Recorded(t[g]) /\ Hangs(t, g, i)
Equipped(t) ==
  \A i \in DOMAIN t : t[i].op = "call" /\ Unowned(t[i]) =>
    \A r \in t[i].uses : \E g \in 1..(i - 1) : Makes(t, g, i, r)

(* What is released is not used later, in whatever order the steps and the *)
(* cleanups can follow each other.                                         *)
Ends(s) == IF s.op = "call" /\ s.effect.do = "lose" THEN {s.effect.r} ELSE {}
Touched(s) ==
  IF s.op = "call" THEN s.uses
  ELSE IF s.op = "try" THEN UNION {c.uses : c \in StepsOf(s.cleanup)} ELSE {}
Apart(s, t) == \A x \in StepsOf(t) : Ends(s) \intersect Touched(x) = {}
Tidy(t) == \A i, j \in DOMAIN t : i < j => Ends(t[i]) \intersect Touched(t[j]) = {}
TidyCleanups(open) ==
  /\ \A n \in DOMAIN open : Tidy(open[n])
  /\ \A n, m \in DOMAIN open : n < m => \A s \in StepsOf(open[n]) : Apart(s, open[m])
InOrder(t, open) ==
  /\ Tidy(t) /\ \A i \in 0..Len(t) : TidyCleanups(open[i])
  /\ \A i \in DOMAIN t :
       /\ \A n \in DOMAIN open[i] : Apart(t[i], open[i][n])
       /\ t[i].op = "leave" /\ open[i - 1] # <<>> =>
            \A j \in (i + 1)..Len(t) : \A s \in StepsOf(Head(open[i - 1])) :
              Ends(s) \intersect Touched(t[j]) = {}

ASSUME ProgramsUseWhatExists ==
  /\ \A s \in Calls :
       /\ s.effect.do = "adopt" => s.effect.r = "ctx"
       /\ s.effect.do = "gain" => Unowned(s)
  /\ \A c \in Cleanups :
       SkipsInside(c) /\ \A s \in StepsOf(c) : Optional(s)
  /\ \A p \in Probes : \A t \in Code[p] :
       /\ SkipsInside(t) /\ MadeFor(CallsIn(t)) /\ Equipped(t)
       /\ InOrder(t, Opened(t))

-------------------------------------------------------------------------------
(* What a queued kernel uses is waited for.                                *)
DrainsOn(s, stream) ==
  s.op = "call" /\ s.effect.do = "drain" /\ s.effect.stream = stream
Waits(s, stream) == DrainsOn(s, stream) /\ Unowned(s) /\ ~s.chained

(* From step i on nothing is entered, left or released before the wait.    *)
WaitAhead(t, i, stream) ==
  \E w \in i..Len(t) :
    /\ Waits(t[w], stream)
    /\ \A k \in i..(w - 1) : t[k].op \notin {"try", "leave"} /\ Ends(t[k]) = {}

(* The wait comes next; or it comes before any release, and first in the   *)
(* cleanup when an exception comes before it.                              *)
Awaited(t, open) ==
  \A i \in DOMAIN t : t[i].op = "call" /\ t[i].effect.do = "push" =>
    LET k == t[i].effect.kernel IN
    /\ k.uses \subseteq t[i].uses
    /\ k.uses # {} => t[i].mode # "must"
    /\ k.uses # {} =>
         \/ /\ i < Len(t) /\ DrainsOn(t[i + 1], k.stream) /\ Unowned(t[i + 1])
            /\ t[i + 1].chained => Recorded(t[i])
         \/ /\ open[i] # <<>> /\ Head(open[i]) # <<>>
            /\ LET d == Head(Head(open[i])) IN
                 DrainsOn(d, k.stream) /\ ~d.chained /\ d.own \in t[i].uses \ {"ctx"}
            /\ WaitAhead(t, i + 1, k.stream)

ASSUME ProgramsWait ==
  \A p \in Probes : \A t \in Code[p] : Awaited(t, Opened(t))

-------------------------------------------------------------------------------
(* What is checked was put there.  Between two steps it is known, if the   *)
(* backend did nothing wrong so far, which codes may have been recorded    *)
(* last (going), which kernels may be queued (queue), and what names hold  *)
(* once those have run (known).                                            *)
Unstarted == [going |-> {TRUE}, queue |-> {}, known |-> {}]
Implies(a, b) ==
  a.going \subseteq b.going /\ a.queue \subseteq b.queue /\ b.known \subseteq a.known

Codes(s) == {x \in BOOLEAN : IF x THEN "ok" \in s.want ELSE s.want # {"ok"}}
LeftOut(s, go) == s.chained /\ TRUE \notin go
Never(s, go) == LeftOut(s, go) \/ "ok" \notin s.want
Sure(s, go) ==
  /\ "ok" \in s.want /\ Unowned(s) /\ s.mode # "hush"
  /\ Recorded(s) => s.want = {"ok"}
  /\ s.chained => go = {TRUE}

Reads(k) == {n[1] : n \in k.needs}
Writes(k) == {w[1] : w \in k.writes}
Conflict(k, l) ==
  \/ Writes(k) \intersect (Reads(l) \union Writes(l)) # {}
  \/ Reads(k) \intersect Writes(l) # {}
Overwritten(K) == UNION {Writes(k) : k \in K}

(* What an effect changes, needs and brings.                               *)
Changes(e) ==
  IF e.do = "gain" THEN {e.r} ELSE IF e.do = "store" THEN {e.b}
  ELSE IF e.do = "push" THEN Writes(e.kernel) ELSE {}
NeedsOf(e) ==
  IF e.do = "store" THEN e.needs ELSE IF e.do = "push" THEN e.kernel.needs ELSE {}
Brings(e) ==
  IF e.do = "store" THEN {<<e.b, e.label>>}
  ELSE IF e.do = "push" THEN e.kernel.writes ELSE {}

(* What is known after step s.  A wait that may fail, and a cleanup, may   *)
(* lose what is queued.                                                    *)
Recording(s, go) ==
  IF s.op # "call" \/ ~Recorded(s) THEN go
  ELSE {x \in go : (s.chained /\ ~x) \/ ~Unowned(s) \/ Does(s, "gain", "ctx")}
         \union (IF LeftOut(s, go) THEN {} ELSE Codes(s))
Queued(s, a) ==
  IF s.op # "call" THEN a.queue
  ELSE IF s.effect.do = "push" /\ ~Never(s, a.going) THEN a.queue \union {s.effect.kernel}
  ELSE IF s.effect.do = "drain" /\ Sure(s, a.going)
  THEN {k \in a.queue : k.stream # s.effect.stream} ELSE a.queue
MayLose(s, go) ==
  \/ s.op = "leave"
  \/ s.op = "call" /\ s.effect.do = "drain" /\ ~Sure(s, go) /\ ~LeftOut(s, go)
Upset(s, a) ==
  IF MayLose(s, a.going) THEN Overwritten(a.queue)
  ELSE IF s.op = "call" /\ ~Never(s, a.going) THEN Changes(s.effect) ELSE {}
Given(s, go) == IF s.op = "call" /\ Sure(s, go) THEN Brings(s.effect) ELSE {}
After(s, a) ==
  [going |-> Recording(s, a.going), queue |-> Queued(s, a),
   known |-> {p \in a.known : p[1] \notin Upset(s, a)} \union
             (IF s.op = "call" /\ NeedsOf(s.effect) \subseteq a.known
              THEN Given(s, a.going) ELSE {})]

(* What step s relies on: a call changes nothing a queued kernel uses, and *)
(* a kernel is queued behind those it has to come after.                   *)
Apposite(s, a) ==
  LET e == s.effect IN
  /\ Changes(e) \subseteq Names
  /\ e.do \in {"gain", "store"} =>
       \A k \in a.queue : Changes(e) \intersect (Reads(k) \union Writes(k)) = {}
  /\ e.do = "store" => \A n \in e.needs : n[1] \notin Overwritten(a.queue)
  /\ e.do = "push" =>
       /\ e.kernel.needs \subseteq a.known
       /\ \A v, w \in e.kernel.writes : v[1] = w[1] => v = w
       /\ \A k \in a.queue :
            Conflict(e.kernel, k) => k.stream \in e.kernel.waits \union {e.kernel.stream}
Justified(s, a) ==
  /\ s.op = "check" =>
       /\ s.b \notin Overwritten(a.queue)
       /\ \E p \in a.known : p[1] = s.b /\ p[2] \in {s.label} \union s.also
  /\ s.op = "return" => FALSE \notin a.going
  /\ s.op = "call" =>
       /\ s.mode = "must" => "ok" \notin s.want
       /\ Never(s, a.going) \/ Apposite(s, a)

(* A is what is known along t.                                             *)
Follows(t, A) ==
  \A i \in DOMAIN t : Justified(t[i], A[i - 1]) /\ Implies(After(t[i], A[i - 1]), A[i])

(* What can be read off the text of t: a value is known from the step that *)
(* brings it to the next that may change it.                               *)
Outline(t) ==
  LET calls(n) == {c \in 1..n : t[c].op = "call"}
      asks(n) == {g \in calls(n) : Recorded(t[g])}
      sole(n) == {g \in asks(n) : ~t[g].chained}
      going(n) ==
        (IF sole(n) = {} THEN {TRUE} ELSE Codes(t[Latest(sole(n))]))
          \union {x \in {FALSE} : \E g \in asks(n) : t[g].want # {"ok"} /\ \A h \in sole(n) : h < g}
      drained(k, m, n) ==
        \E d \in calls(n) : /\ d > m /\ t[d].effect.do = "drain"
                            /\ t[d].effect.stream = k.stream /\ Sure(t[d], going(d - 1))
      queue(n) ==
        {t[m].effect.kernel : m \in {c \in calls(n) :
           /\ t[c].effect.do = "push" /\ ~Never(t[c], going(c - 1))
           /\ ~drained(t[c].effect.kernel, c, n)}}
      upset(n) == Upset(t[n], [going |-> going(n - 1), queue |-> queue(n - 1)])
      known(n) ==
        UNION {{p \in Given(t[m], going(m - 1)) : \A c \in (m + 1)..n : p[1] \notin upset(c)}
                 : m \in 1..n}
  IN  [n \in 0..Len(t) |-> [going |-> going(n), queue |-> queue(n), known |-> known(n)]]

ASSUME ProgramsCheckWhatTheyMade ==
  \A p \in Probes : \A t \in Code[p] :
    Implies(Unstarted, Outline(t)[0]) /\ Follows(t, Outline(t))
===============================================================================
