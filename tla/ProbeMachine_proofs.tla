-------------------------- MODULE ProbeMachine_proofs --------------------------
(***************************************************************************)
(* For every set of well formed probe programs and any number of faults:   *)
(* the states are well typed, no probe passes in which a call failed, was  *)
(* answered wrongly or threw, what is made under a try is given back,      *)
(* every call is made on objects that exist, nothing that a queued kernel  *)
(* uses is released, and no verdict is given against a correct backend.    *)
(***************************************************************************)
EXTENDS ProbeMachine, TLAPS, SequenceTheorems, WellFoundedInduction

Kernels == {s.effect.kernel : s \in {c \in Calls : c.effect.do = "push"}}

(* What is still to run is made of steps, of calls alone while unwinding.  *)
Shape ==
  /\ todo \in Seq(Steps)
  /\ exc # "none" => todo \in Seq(Calls)
  /\ frames \in Seq(Seq(Calls))
  /\ queue \in Seq(Kernels)

(* A failure leaves a trace: a check that failed or an exception.          *)
Traced ==
  seen \intersect Failures # {} => ~good \/ exc \in {"unsupported", "error"}

Inv == TypeOK /\ Shape /\ Traced /\ NoCallFailsUnnoticed

LEMMA CallsAreSteps == Calls \subseteq Steps /\ Seq(Calls) \subseteq Seq(Steps)
<1>1. Calls \subseteq Steps
  BY DEF Calls
<1>2. QED
  BY <1>1, SeqMonotonic

(* The first step still to run, and what remains after it.                 *)
LEMMA HeadIsStep ==
  ASSUME Shape, NEW op, Runs(op)
  PROVE  /\ Head(todo) \in Steps /\ Head(todo).op = op
         /\ Tail(todo) \in Seq(Steps)
         /\ exc # "none" => op = "call" /\ Tail(todo) \in Seq(Calls)
         /\ op = "call" => Head(todo) \in Calls
<1>1. todo # <<>> /\ Head(todo).op = op /\ todo \in Seq(Steps)
  BY DEF Shape, Runs
<1>2. Head(todo) \in Steps /\ Tail(todo) \in Seq(Steps)
  BY <1>1, HeadTailProperties
<1>3. ASSUME exc # "none"
      PROVE  op = "call" /\ Tail(todo) \in Seq(Calls)
  <2>1. todo \in Seq(Calls) /\ todo # <<>>
    BY <1>1, <1>3 DEF Shape
  <2>2. Head(todo) \in Calls /\ Tail(todo) \in Seq(Calls)
    BY <2>1, HeadTailProperties
  <2>3. QED
    BY <1>1, <2>2 DEF Calls
<1>4. QED
  BY <1>1, <1>2, <1>3 DEF Calls

LEMMA EmptyIsShaped == <<>> \in Seq(Steps) /\ <<>> \in Seq(Calls) /\ <<>> \in Seq(Kernels)
                       /\ <<>> \in Seq(Seq(Calls))
  BY EmptySeq

(* A kernel can only go wrong in the ways it names.                        *)
LEMMA KernelsMiscompute ==
  ASSUME NEW k \in Kernels
  PROVE  k.bad \subseteq Miscomputed
  BY ProgramsAreWellFormed DEF ProgramsAreWellFormed, Kernels

LEMMA Bounds == MaxFaults \in Nat /\ "ctx" \in Names
  BY FaultsAreBounded, ProgramsAreWellFormed DEF FaultsAreBounded, ProgramsAreWellFormed

LEMMA CleanupsAreCalls ==
  ASSUME NEW c \in Cleanups
  PROVE  c \in Seq(Calls) /\ c \in Seq(Steps) /\ StepsOf(c) \subseteq Calls
<1>1. c \in Seq(Calls)
  BY ProgramsAreWellFormed DEF ProgramsAreWellFormed
<1>2. \A i \in DOMAIN c : c[i] \in Calls
  BY <1>1, ElementOfSeq, LenProperties
<1>3. QED
  BY <1>1, <1>2, CallsAreSteps DEF StepsOf

(* A cleanup has no try of its own.                                        *)
LEMMA TryCleanups ==
  ASSUME NEW s \in Steps, s.op = "try"
  PROVE  s.cleanup \in Cleanups
<1>1. ASSUME NEW c \in Cleanups PROVE s \notin StepsOf(c)
  BY CleanupsAreCalls DEF Calls
<1>2. s \in Written
  BY <1>1 DEF Steps
<1>3. QED
  BY <1>2 DEF Cleanups

LEMMA InitInv == Init => Inv
<1> SUFFICES ASSUME Init PROVE Inv
  OBVIOUS
<1>1. TypeOK
  <2>1. live \subseteq Names /\ held \subseteq Names /\ faults \in 0..MaxFaults
    BY Bounds DEF Init
  <2>2. DOMAIN mem = Names
    BY DEF Init
  <2>3. probe \in Probes /\ exc = "none" /\ status = "idle" /\ seen = {}
    BY DEF Init
  <2>4. going \in BOOLEAN /\ good \in BOOLEAN /\ missed \in BOOLEAN
    BY DEF Init
  <2>5. QED
    BY <2>1, <2>2, <2>3, <2>4 DEF TypeOK
<1>2. Shape
  BY ProgramsAreWellFormed, EmptyIsShaped DEF ProgramsAreWellFormed, Init, Shape
<1>3. Traced /\ NoCallFailsUnnoticed
  BY DEF Init, Traced, NoCallFailsUnnoticed
<1>4. QED
  BY <1>1, <1>2, <1>3 DEF Inv

-------------------------------------------------------------------------------
(* While a probe runs no verdict is out, so the last conjunct is for       *)
(* Finish alone.                                                           *)
LEMMA RunningHasNoVerdict ==
  ASSUME status' = "running"
  PROVE  NoCallFailsUnnoticed'
  BY DEF NoCallFailsUnnoticed

LEMMA StartKeepsInv == Inv /\ Start => Inv'
<1> SUFFICES ASSUME Inv, Start PROVE Inv'
  OBVIOUS
<1> USE DEF Inv, Start, host, device
<1>1. TypeOK'
  BY DEF TypeOK, Outcomes, Deviations
<1>2. Shape'
  BY DEF Shape
<1>3. Traced' /\ NoCallFailsUnnoticed'
  BY DEF Traced, NoCallFailsUnnoticed, Failures
<1>4. QED
  BY <1>1, <1>2, <1>3

LEMMA SkipKeepsInv == Inv /\ Skip => Inv'
<1> SUFFICES ASSUME Inv, Skip PROVE Inv'
  OBVIOUS
<1> USE DEF Inv, Skip, device
<1>1. TypeOK'
  BY DEF TypeOK
<1>2. Shape'
  BY HeadIsStep DEF Shape
<1>3. Traced' /\ NoCallFailsUnnoticed'
  BY RunningHasNoVerdict DEF Traced, Runs
<1>4. QED
  BY <1>1, <1>2, <1>3

(* What a fault adds to the history.                                       *)
LEMMA FaultsAreCounted ==
  ASSUME TypeOK, NEW tags, Badly(tags) \/ Well, tags \subseteq Deviations
  PROVE  /\ faults' \in 0..MaxFaults
         /\ seen' \subseteq Deviations \union {"refused", "declined", "unavailable"}
  BY Bounds DEF TypeOK, Badly, Well

(* The driver's state after a successful call.                             *)
LEMMA EffectIsTyped ==
  ASSUME TypeOK, Shape, NEW s \in Calls, NEW d, Effect(s.effect, d)
  PROVE  live' \subseteq Names /\ held' \subseteq Names /\ DOMAIN mem' = Names
         /\ queue' \in Seq(Kernels)
<1>1. s.effect.do \in {"gain", "adopt"} => s.effect.r \in Names
  BY ProgramsAreWellFormed DEF ProgramsAreWellFormed
<1>2. live' \subseteq Names /\ held' \subseteq Names
  BY <1>1 DEF Effect, TypeOK
<1>3. DOMAIN mem' = Names
  BY DEF Effect, TypeOK
<1>4. s.effect.do = "push" => s.effect.kernel \in Kernels
  BY DEF Kernels
<1>5. queue' \in Seq(Kernels)
  BY <1>4, AppendProperties DEF Effect, Shape
<1>6. QED
  BY <1>2, <1>3, <1>5

LEMMA SucceedKeepsInv == Inv /\ Succeed => Inv'
<1> SUFFICES ASSUME Inv, Succeed PROVE Inv'
  OBVIOUS
<1> DEFINE s == Head(todo)
<1>1. Runs("call") /\ s \in Calls /\ status' = status /\ status = "running"
  BY HeadIsStep DEF Succeed, Inv, Runs
<1>2. \/ "ok" \in s.want /\ Well /\ Effect(s.effect, "none")
      \/ "ok" \notin s.want /\ Badly({"answer"}) /\ Effect(s.effect, "none")
      \/ /\ s.effect.do = "store"
         /\ \E d \in s.effect.bad : Badly({d}) /\ Effect(s.effect, d)
  BY DEF Succeed
<1>3. IF s.mode = "must" THEN todo' = <<>> /\ exc' = "error" /\ good' = good
      ELSE todo' = Tail(todo) /\ exc' = exc /\ good' = (good /\ "ok" \in s.want)
  BY DEF Succeed
<1>4. s.effect.do = "store" => s.effect.bad \subseteq Miscomputed
  BY <1>1, ProgramsAreWellFormed DEF ProgramsAreWellFormed
<1>5. TypeOK'
  <2>1. faults' \in 0..MaxFaults
        /\ seen' \subseteq Deviations \union {"refused", "declined", "unavailable"}
    BY <1>2, <1>4, FaultsAreCounted DEF Inv, Deviations, Failures
  <2>2. live' \subseteq Names /\ held' \subseteq Names /\ DOMAIN mem' = Names
    BY <1>1, <1>2, EffectIsTyped DEF Inv
  <2>3. good' \in BOOLEAN /\ going' \in BOOLEAN
    BY <1>3 DEF Succeed, Inv, TypeOK
  <2>4. exc' \in {"none", "return", "unsupported", "error"}
    BY <1>3 DEF Inv, TypeOK
  <2>5. probe' \in Probes /\ missed' \in BOOLEAN
        /\ status' \in Outcomes \union {"idle", "running"}
    BY DEF Succeed, Inv, TypeOK
  <2>6. QED
    BY <2>1, <2>2, <2>3, <2>4, <2>5 DEF TypeOK
<1>6. Shape'
  <2>1. queue' \in Seq(Kernels)
    BY <1>1, <1>2, EffectIsTyped DEF Inv
  <2>2. frames' \in Seq(Seq(Calls))
    BY DEF Succeed, Inv, Shape
  <2>3. todo' \in Seq(Steps) /\ (exc' # "none" => todo' \in Seq(Calls))
    BY <1>1, <1>3, HeadIsStep, EmptyIsShaped DEF Inv
  <2>4. QED
    BY <2>1, <2>2, <2>3 DEF Shape
<1>7. Traced'
  <2>1. CASE seen' \intersect Failures = seen \intersect Failures
    BY <1>3, <2>1 DEF Traced, Inv
  <2>2. CASE "ok" \notin s.want
    BY <1>3, <2>2 DEF Traced
  <2>3. CASE "ok" \in s.want /\ Well
    BY <2>1, <2>3 DEF Well
  <2>4. ASSUME NEW d \in s.effect.bad, Badly({d}), s.effect.do = "store"
        PROVE  seen' \intersect Failures = seen \intersect Failures
    BY <1>4, <2>4 DEF Badly, Miscomputed, Failures
  <2>5. QED
    BY <1>2, <2>1, <2>2, <2>3, <2>4
<1>8. QED
  BY <1>1, <1>5, <1>6, <1>7, RunningHasNoVerdict DEF Inv

(* What is left of the program after a failing call.                       *)
LEMMA TakesKeepsShape ==
  ASSUME Shape, Runs("call"), NEW how, Takes(Head(todo), how),
         exc \in {"none", "return", "unsupported", "error"}, good \in BOOLEAN,
         going \in BOOLEAN
  PROVE  /\ todo' \in Seq(Steps)
         /\ exc' # "none" => todo' \in Seq(Calls)
         /\ exc' \in {"none", "return", "unsupported", "error"}
         /\ good' \in BOOLEAN /\ going' \in BOOLEAN
<1> DEFINE s == Head(todo)
<1>1. Tail(todo) \in Seq(Steps) /\ (exc # "none" => Tail(todo) \in Seq(Calls))
  BY HeadIsStep
<1>2. CASE s.mode = "hush"
  <2>1. todo \in Seq(Steps) /\ (exc # "none" => todo \in Seq(Calls))
    BY DEF Shape
  <2>2. s.skip \in Nat
    BY HeadIsStep, ProgramsAreWellFormed DEF ProgramsAreWellFormed
  <2> DEFINE m == 2 + (IF how = "raise" THEN s.skip ELSE 0)
  <2>3. todo' = SubSeq(todo, m, Len(todo)) /\ exc' = exc /\ good' = good /\ going' = going
    BY <1>2 DEF Takes
  <2>4. ASSUME NEW S, todo \in Seq(S)
        PROVE  SubSeq(todo, m, Len(todo)) \in Seq(S)
    <3>1. m \in Nat /\ m >= 1 /\ Len(todo) \in Nat
      BY <2>2, <2>4, LenProperties
    <3> HIDE DEF m
    <3>2. \A i \in m..Len(todo) : todo[i] \in S
      BY <2>4, <3>1, ElementOfSeq
    <3>3. QED
      BY <3>1, <3>2, SubSeqProperties
  <2>5. QED
    BY <2>1, <2>3, <2>4
<1>3. CASE s.mode # "hush"
  BY <1>1, <1>3, EmptyIsShaped DEF Takes, Recorded
<1>4. QED
  BY <1>2, <1>3

LEMMA FailKeepsInv == Inv /\ Fail => Inv'
<1> SUFFICES ASSUME Inv, Fail PROVE Inv'
  OBVIOUS
<1> DEFINE s == Head(todo)
<1>1. Runs("call") /\ s \in Calls /\ status' = status /\ status = "running"
  BY HeadIsStep DEF Fail, Inv, Runs
<1>2. PICK how \in {"fail", "refused", "raise"} :
        /\ Takes(s, how)
        /\ IF how \notin s.want THEN Badly(Tags(s, how))
           ELSE /\ seen' = seen \union (IF Judged(s) THEN {} ELSE {"refused"})
                /\ faults' = faults
        /\ queue' = IF s.effect.do = "drain" /\ how # "raise" THEN <<>> ELSE queue
        /\ how = "refused" => how \in s.want
  BY DEF Fail
<1>3. /\ todo' \in Seq(Steps)
      /\ exc' # "none" => todo' \in Seq(Calls)
      /\ exc' \in {"none", "return", "unsupported", "error"}
      /\ good' \in BOOLEAN /\ going' \in BOOLEAN
  BY <1>1, <1>2, TakesKeepsShape DEF Inv, TypeOK
<1>4. UNCHANGED <<probe, frames, live, held, mem, missed>>
  BY DEF Fail
<1>5. TypeOK'
  <2>1. Tags(s, how) \subseteq Deviations
    BY DEF Tags, Deviations, Failures
  <2>2. faults' \in 0..MaxFaults
        /\ seen' \subseteq Deviations \union {"refused", "declined", "unavailable"}
    BY <1>2, <2>1, FaultsAreCounted DEF Inv, TypeOK
  <2>3. QED
    BY <1>1, <1>3, <1>4, <2>2 DEF Inv, TypeOK
<1>6. Shape'
  BY <1>2, <1>3, <1>4, EmptyIsShaped DEF Inv, Shape
<1>7. Traced'
  <2>1. ~good \/ exc \in {"unsupported", "error"} => ~good' \/ exc' \in {"unsupported", "error"}
    BY <1>2 DEF Takes, Inv, TypeOK
  <2>2. CASE s.mode = "hush" \/ how \in s.want
    <3>1. seen' \intersect Failures = seen \intersect Failures
      BY <1>2, <2>2 DEF Badly, Tags, Failures
    <3>2. QED
      BY <2>1, <3>1 DEF Inv, Traced
  <2>3. CASE s.mode # "hush" /\ how \notin s.want
    BY <1>2, <2>3 DEF Takes, Recorded, Traced
  <2>4. QED
    BY <2>2, <2>3
<1>8. QED
  BY <1>1, <1>5, <1>6, <1>7, RunningHasNoVerdict DEF Inv

LEMMA CompareKeepsInv == Inv /\ Compare => Inv'
<1> SUFFICES ASSUME Inv, Compare PROVE Inv'
  OBVIOUS
<1>1. Runs("check") /\ status' = status /\ status = "running" /\ exc = "none"
      /\ Tail(todo) \in Seq(Steps)
  BY HeadIsStep DEF Compare, Inv, Runs
<1>2. PICK accepted \in BOOLEAN :
        IF Head(todo).loud /\ ~accepted
        THEN todo' = <<>> /\ exc' = "error" /\ good' = good
        ELSE todo' = Tail(todo) /\ exc' = exc /\ good' = (good /\ accepted)
  BY DEF Compare
<1>3. missed' \in BOOLEAN
  BY DEF Compare, Inv, TypeOK
<1>4. UNCHANGED <<probe, frames, going, live, held, mem, queue, seen, faults>>
  BY DEF Compare, device
<1>5. TypeOK'
  BY <1>1, <1>2, <1>3, <1>4 DEF Inv, TypeOK
<1>6. Shape'
  BY <1>1, <1>2, <1>4, EmptyIsShaped DEF Inv, Shape
<1>7. Traced'
  BY <1>1, <1>2, <1>4 DEF Inv, Traced
<1>8. QED
  BY <1>1, <1>5, <1>6, <1>7, RunningHasNoVerdict DEF Inv

(* A probe stops only outside its cleanups, where nothing is unwinding.    *)
LEMMA StopKeepsInv == Inv /\ Stop => Inv'
<1> SUFFICES ASSUME Inv, Stop PROVE Inv'
  OBVIOUS
<1>1. /\ exc = "none" /\ status = "running" /\ status' = status
      /\ Tail(todo) \in Seq(Steps)
      /\ UNCHANGED <<probe, frames, going, live, held, mem, queue, missed, faults>>
  BY HeadIsStep DEF Stop, Inv, Runs, device
<1>2. CASE Runs("raise") /\ exc' = Head(todo).as /\ todo' = <<>> /\ good' = good
           /\ seen' = seen \union {"declined"}
  <2>1. exc' \in {"unsupported", "error"}
    BY <1>2, HeadIsStep, ProgramsAreWellFormed DEF ProgramsAreWellFormed, Inv
  <2>2. TypeOK' /\ Traced'
    BY <1>1, <1>2, <2>1 DEF Inv, TypeOK, Traced
  <2>3. Shape'
    BY <1>1, <1>2, EmptyIsShaped DEF Inv, Shape
  <2>4. QED
    BY <1>1, <2>2, <2>3, RunningHasNoVerdict DEF Inv
<1>3. CASE Runs("decline") /\ exc' = "return" /\ todo' = <<>> /\ good' = FALSE
           /\ seen' = seen \union {"declined"}
  <2>1. TypeOK' /\ Traced'
    BY <1>1, <1>3 DEF Inv, TypeOK, Traced
  <2>2. Shape'
    BY <1>1, <1>3, EmptyIsShaped DEF Inv, Shape
  <2>3. QED
    BY <1>1, <2>1, <2>2, RunningHasNoVerdict DEF Inv
<1>4. CASE /\ exc' \in {exc, "return"} /\ UNCHANGED <<good, seen>>
           /\ \/ todo' = <<>>
              \/ exc' = exc /\ todo' = Tail(todo)
  <2>1. TypeOK' /\ Traced'
    BY <1>1, <1>4 DEF Inv, TypeOK, Traced
  <2>2. Shape'
    BY <1>1, <1>4, EmptyIsShaped DEF Inv, Shape
  <2>3. QED
    BY <1>1, <2>1, <2>2, RunningHasNoVerdict DEF Inv
<1>5. QED
  BY <1>2, <1>3, <1>4 DEF Stop

LEMMA FrameKeepsInv == Inv /\ Frame => Inv'
<1> SUFFICES ASSUME Inv, Frame PROVE Inv'
  OBVIOUS
<1>1. /\ status = "running" /\ status' = status
      /\ UNCHANGED <<probe, exc, going, good, live, held, mem, queue, missed, seen, faults>>
  BY DEF Frame, Runs, device
<1>2. TypeOK' /\ Traced'
  BY <1>1 DEF Inv, TypeOK, Traced
<1>3. frames # <<>> => Head(frames) \in Seq(Calls) /\ Tail(frames) \in Seq(Seq(Calls))
  BY HeadTailProperties DEF Inv, Shape
<1>4. CASE Runs("try") /\ frames' = <<Head(todo).cleanup>> \o frames /\ todo' = Tail(todo)
  <2>1. Head(todo).cleanup \in Seq(Calls) /\ exc = "none" /\ Tail(todo) \in Seq(Steps)
    BY <1>4, HeadIsStep, TryCleanups, CleanupsAreCalls DEF Inv
  <2>2. <<Head(todo).cleanup>> \in Seq(Seq(Calls))
    BY <2>1
  <2>3. frames' \in Seq(Seq(Calls))
    BY <1>4, <2>2, ConcatProperties DEF Inv, Shape
  <2>4. QED
    BY <1>1, <1>2, <1>4, <2>1, <2>3, RunningHasNoVerdict DEF Inv, Shape
<1>5. CASE Runs("leave") /\ frames # <<>>
           /\ todo' = Head(frames) \o Tail(todo) /\ frames' = Tail(frames)
  <2>1. exc = "none" /\ Tail(todo) \in Seq(Steps)
    BY <1>5, HeadIsStep DEF Inv
  <2>2. Head(frames) \in Seq(Steps)
    BY <1>3, <1>5, CallsAreSteps
  <2>3. todo' \in Seq(Steps)
    BY <1>5, <2>1, <2>2, ConcatProperties
  <2>4. QED
    BY <1>1, <1>2, <1>3, <1>5, <2>1, <2>3, RunningHasNoVerdict DEF Inv, Shape
<1>6. CASE frames # <<>> /\ todo' = Head(frames) /\ frames' = Tail(frames)
  BY <1>1, <1>2, <1>3, <1>6, CallsAreSteps, RunningHasNoVerdict DEF Inv, Shape
<1>7. QED
  BY <1>4, <1>5, <1>6 DEF Frame

(* The verdict: pass only if nothing unwinds and every record is good.     *)
LEMMA FinishKeepsInv == Inv /\ Finish => Inv'
<1> SUFFICES ASSUME Inv, Finish PROVE Inv'
  OBVIOUS
<1>1. UNCHANGED <<probe, todo, frames, exc, going, good, live, held, mem, queue,
                  missed, seen, faults>>
  BY DEF Finish, host, device
<1>2. status' \in Outcomes /\ (status' = "pass" => good /\ exc \in {"none", "return"})
  BY DEF Finish, Verdict, Outcomes
<1>3. TypeOK'
  BY <1>1, <1>2 DEF Inv, TypeOK
<1>4. Shape' /\ Traced'
  BY <1>1 DEF Inv, Shape, Traced
<1>5. NoCallFailsUnnoticed'
  BY <1>1, <1>2 DEF Inv, Traced, NoCallFailsUnnoticed
<1>6. QED
  BY <1>3, <1>4, <1>5 DEF Inv

LEMMA RunKernelKeepsInv == Inv /\ RunKernel => Inv'
<1> SUFFICES ASSUME Inv, RunKernel PROVE Inv'
  OBVIOUS
<1>1. PICK i \in DOMAIN queue :
        LET k == queue[i] IN
        /\ queue' = SubSeq(queue, 1, i - 1) \o SubSeq(queue, i + 1, Len(queue))
        /\ \/ Before(i) = {} /\ Well /\ mem' = Result(k, "none")
           \/ Matters(i) /\ Badly({"reordered"}) /\ mem' = Result(k, "none")
           \/ /\ Before(i) = {}
              /\ \E d \in k.bad : Badly({d}) /\ mem' = Result(k, d)
  BY DEF RunKernel
<1>2. /\ status = "running" /\ status' = status
      /\ UNCHANGED <<probe, todo, frames, exc, going, good, live, held, missed>>
  BY DEF RunKernel, host
<1>3. i \in 1..Len(queue) /\ Len(queue) \in Nat /\ queue \in Seq(Kernels)
      /\ queue[i] \in Kernels
  BY LenProperties, ElementOfSeq DEF Inv, Shape
<1>4. queue[i].bad \subseteq Miscomputed
  BY <1>3, KernelsMiscompute
<1>5. DOMAIN mem' = Names
  BY <1>1 DEF Result
<1>6. \/ Well
      \/ \E d \in Miscomputed \union {"reordered"} : Badly({d})
  BY <1>1, <1>4
<1>7. TypeOK'
  <2>1. faults' \in 0..MaxFaults
        /\ seen' \subseteq Deviations \union {"refused", "declined", "unavailable"}
    BY <1>6, FaultsAreCounted DEF Inv, Deviations
  <2>2. QED
    BY <1>2, <1>5, <2>1 DEF Inv, TypeOK
<1>8. queue' \in Seq(Kernels)
  <2>1. \A j \in 1..Len(queue) : queue[j] \in Kernels
    BY <1>3, ElementOfSeq
  <2>2. SubSeq(queue, 1, i - 1) \in Seq(Kernels)
    BY <1>3, <2>1, SubSeqProperties
  <2>3. SubSeq(queue, i + 1, Len(queue)) \in Seq(Kernels)
    BY <1>3, <2>1, SubSeqProperties
  <2>4. QED
    BY <1>1, <2>2, <2>3, ConcatProperties
<1>9. Shape'
  BY <1>2, <1>8 DEF Inv, Shape
<1>10. Traced'
  <2>1. seen' \intersect Failures = seen \intersect Failures
    BY <1>6 DEF Well, Badly, Miscomputed, Failures
  <2>2. QED
    BY <1>2, <2>1 DEF Inv, Traced
<1>11. QED
  BY <1>2, <1>7, <1>9, <1>10, RunningHasNoVerdict DEF Inv

LEMMA NextKeepsInv == Inv /\ [Next]_vars => Inv'
<1> SUFFICES ASSUME Inv, [Next]_vars PROVE Inv'
  OBVIOUS
<1>1. CASE UNCHANGED vars
  BY <1>1 DEF vars, host, device, Inv, TypeOK, Shape, Traced, NoCallFailsUnnoticed
<1>2. CASE Host
  BY <1>2, StartKeepsInv, SkipKeepsInv, SucceedKeepsInv, FailKeepsInv, CompareKeepsInv,
     StopKeepsInv, FrameKeepsInv, FinishKeepsInv DEF Host
<1>3. CASE RunKernel
  BY <1>3, RunKernelKeepsInv
<1>4. QED
  BY <1>1, <1>2, <1>3 DEF Next, Done

LEMMA InvAlways == Spec => []Inv
  BY InitInv, NextKeepsInv, PTL DEF Spec

-------------------------------------------------------------------------------
(* Every reachable state of every probe process is well typed.             *)
THEOREM TypeCorrect == Spec => []TypeOK
  BY InvAlways, PTL DEF Inv

(* Whatever the programs, their checks and their nesting, and however many *)
(* faults the backend makes: a process that reports a pass made no call    *)
(* that failed, was answered wrongly or threw, its cleanups aside.         *)
THEOREM FailuresAreNoticed == Spec => []NoCallFailsUnnoticed
  BY InvAlways, PTL DEF Inv
-------------------------------------------------------------------------------
(* What a process gives back.                                              *)

(* Induction over the natural numbers, for a set. *)
LEMMA SetInduction ==
  ASSUME NEW S, 0 \in S, \A n \in Nat : n \in S => n + 1 \in S
  PROVE  Nat \subseteq S
<1> SUFFICES ASSUME Nat \ S # {}
             PROVE  FALSE
  OBVIOUS
<1> DEFINE less == OpToRel(<, Nat)
<1>1. IsWellFoundedOn(less, Nat)
  BY NatLessThanWellFounded
<1>2. \A m, n \in Nat : m < n => <<m, n>> \in less
  BY DEF OpToRel
<1> HIDE DEF less
<1>3. PICK x \in Nat \ S : \A y \in Nat \ S : ~(<<y, x>> \in less)
  BY <1>1, WFMin
<1>4. x # 0 /\ x - 1 \in Nat /\ x - 1 < x
  BY <1>3
<1>5. x - 1 \in S
  BY <1>2, <1>3, <1>4
<1>6. (x - 1) + 1 \in S
  BY <1>4, <1>5
<1>7. QED
  BY <1>3, <1>4, <1>6

Stacks == Seq(Seq(Calls))

LEMMA EnterType ==
  ASSUME NEW s \in Steps, NEW open \in Stacks
  PROVE  Enter(s, open) \in Stacks
<1>1. CASE s.op = "try"
  <2>1. <<s.cleanup>> \in Stacks
    BY <1>1, TryCleanups, CleanupsAreCalls DEF Stacks
  <2>2. QED
    BY <1>1, <2>1, ConcatProperties DEF Enter, Stacks
<1>2. CASE s.op # "try"
  BY <1>2, HeadTailProperties DEF Enter, Stacks
<1>3. QED
  BY <1>1, <1>2

(* S lists the cleanups entered along t. *)
Nested(t, S) ==
  /\ S \in [0..Len(t) -> Stacks]
  /\ \A i \in 1..Len(t) : S[i] = Enter(t[i], S[i - 1])

LEMMA LatestTurn ==
  ASSUME NEW t, NEW n \in Nat \ {0}
  PROVE  IF t[n].op \in {"try", "leave"}
         THEN Turns(t, n) # {} /\ Latest(Turns(t, n)) = n
         ELSE Turns(t, n) = Turns(t, n - 1)
<1>1. CASE t[n].op \in {"try", "leave"}
  <2> DEFINE M == Turns(t, n)
  <2>1. n \in M /\ M \subseteq Nat /\ \A i \in M : i <= n
    BY <1>1 DEF Turns
  <2> HIDE DEF M
  <2>2. \A m \in M : (\A i \in M : i <= m) => m = n
    BY <2>1
  <2>3. Latest(M) = n
    BY <2>1, <2>2 DEF Latest
  <2>4. QED
    BY <1>1, <2>1, <2>3 DEF M
<1>2. CASE t[n].op \notin {"try", "leave"}
  <2>1. n - 1 \in Nat /\ \A i \in 1..n : i = n \/ i \in 1..(n - 1)
    OBVIOUS
  <2>2. \A i \in 1..(n - 1) : i \in 1..n
    OBVIOUS
  <2>3. Turns(t, n) = Turns(t, n - 1)
    BY <1>2, <2>1, <2>2 DEF Turns
  <2>4. QED
    BY <1>2, <2>3
<1>3. QED
  BY <1>1, <1>2

(* The recursion of Opened has a solution. *)
LEMMA OpenedIsNested ==
  ASSUME NEW t \in Seq(Steps)
  PROVE  Nested(t, Opened(t)) /\ Opened(t)[0] = <<>>
<1> DEFINE Rec(g, n) == \A k \in 0..n : g[k] = IF k = 0 THEN <<>> ELSE Enter(t[k], g[k - 1])
           Some(n) == \E g \in [0..n -> Stacks] : Rec(g, n)
           N == {n \in Nat : n <= Len(t) => Some(n)}
<1>0. Len(t) \in Nat /\ \A i \in 1..Len(t) : t[i] \in Steps
  BY LenProperties, ElementOfSeq
<1>1. 0 \in N
  <2>1. [k \in 0..0 |-> <<>>] \in [0..0 -> Stacks] /\ Rec([k \in 0..0 |-> <<>>], 0)
    BY EmptySeq DEF Stacks
  <2>2. QED
    BY <2>1
<1>2. ASSUME NEW n \in Nat, n \in N
      PROVE  n + 1 \in N
  <2> SUFFICES ASSUME n + 1 <= Len(t)
               PROVE  Some(n + 1)
    OBVIOUS
  <2>1. PICK g \in [0..n -> Stacks] : Rec(g, n)
    BY <1>0, <1>2
  <2> DEFINE h == [k \in 0..(n + 1) |-> IF k = n + 1 THEN Enter(t[n + 1], g[n]) ELSE g[k]]
  <2>2. Enter(t[n + 1], g[n]) \in Stacks
    BY <1>0, EnterType
  <2>3. h \in [0..(n + 1) -> Stacks]
    BY <2>2
  <2>4. ASSUME NEW k \in 0..(n + 1)
        PROVE  h[k] = IF k = 0 THEN <<>> ELSE Enter(t[k], h[k - 1])
    <3>1. CASE k = n + 1
      BY <3>1
    <3>2. CASE k \in 0..n
      BY <2>1, <3>2
    <3>3. QED
      BY <3>1, <3>2
  <2>5. QED
    BY <2>3, <2>4
<1> HIDE DEF N, Some
<1>3. Len(t) \in N
  BY <1>0, <1>1, <1>2, SetInduction
<1>4. PICK g \in [0..Len(t) -> Stacks] : Rec(g, Len(t))
  BY <1>0, <1>3 DEF N, Some
<1> DEFINE Body(f, n) == IF Turns(t, n) = {} THEN <<>>
                        ELSE LET m == Latest(Turns(t, n)) IN Enter(t[m], f[m - 1])
<1>5. ASSUME NEW f, NEW n \in 1..Len(t)
      PROVE  Body(f, n) = IF t[n].op \in {"try", "leave"} THEN Enter(t[n], f[n - 1])
                          ELSE Body(f, n - 1)
  <2>1. n \in Nat \ {0}
    BY <1>0
  <2>2. CASE t[n].op \in {"try", "leave"}
    <3>1. Turns(t, n) # {} /\ Latest(Turns(t, n)) = n
      BY <2>1, <2>2, LatestTurn
    <3>2. QED
      BY <2>2, <3>1
  <2>3. CASE t[n].op \notin {"try", "leave"}
    <3>1. Turns(t, n) = Turns(t, n - 1)
      BY <2>1, <2>3, LatestTurn
    <3>2. QED
      BY <2>3, <3>1
  <2>4. QED
    BY <2>2, <2>3
<1>6. \A f : Body(f, 0) = <<>>
  BY DEF Turns
<1> HIDE DEF Body
<1>7. \A i \in 1..Len(t) : g[i] = Enter(t[i], g[i - 1])
  BY <1>0, <1>4
<1>8. \A n \in 0..Len(t) : g[n] = Body(g, n)
  <2> DEFINE M == {n \in Nat : n <= Len(t) => g[n] = Body(g, n)}
  <2>1. 0 \in M
    BY <1>0, <1>4, <1>6
  <2>2. ASSUME NEW n \in Nat, n \in M
        PROVE  n + 1 \in M
    <3> SUFFICES ASSUME n + 1 <= Len(t)
                 PROVE  g[n + 1] = Body(g, n + 1)
      OBVIOUS
    <3>1. n + 1 \in 1..Len(t) /\ (n + 1) - 1 = n /\ g[n] = Body(g, n)
      BY <1>0, <2>2
    <3>2. g[n + 1] = Enter(t[n + 1], g[n])
      BY <1>7, <3>1
    <3>3. QED
      BY <1>5, <3>1, <3>2 DEF Enter
  <2> HIDE DEF M
  <2>3. Nat \subseteq M
    BY <2>1, <2>2, SetInduction
  <2>4. QED
    BY <1>0, <2>3 DEF M
<1>9. g = [n \in 0..Len(t) |-> Body(g, n)]
  BY <1>0, <1>4, <1>8
<1> DEFINE O == Opened(t)
<1>10. O = [n \in 0..Len(t) |-> Body(O, n)]
  BY <1>9, Zenon DEF Opened, Body
<1>11. \A n \in 1..Len(t) : O[n] = Enter(t[n], O[n - 1])
  <2> SUFFICES ASSUME NEW n \in 1..Len(t)
               PROVE  O[n] = Enter(t[n], O[n - 1])
    OBVIOUS
  <2>1. O[n] = Body(O, n) /\ O[n - 1] = Body(O, n - 1)
    <3>1. n \in 0..Len(t) /\ n - 1 \in 0..Len(t)
      BY <1>0
    <3> HIDE DEF O
    <3>2. QED
      BY <1>10, <3>1
  <2> HIDE DEF O
  <2>2. QED
    BY <1>5, <2>1 DEF Enter
<1>12. O[0] = <<>>
  <2>1. 0 \in 0..Len(t)
    BY <1>0
  <2> HIDE DEF O
  <2>2. QED
    BY <1>10, <1>6, <2>1
<1>13. O \in [0..Len(t) -> Stacks]
  <2> HIDE DEF O
  <2> DEFINE M == {n \in Nat : n <= Len(t) => O[n] \in Stacks}
  <2>1. 0 \in M
    BY <1>12, EmptySeq DEF Stacks
  <2>2. ASSUME NEW n \in Nat, n \in M
        PROVE  n + 1 \in M
    <3> SUFFICES ASSUME n + 1 <= Len(t)
                 PROVE  O[n + 1] \in Stacks
      OBVIOUS
    <3>1. n + 1 \in 1..Len(t) /\ (n + 1) - 1 = n
      BY <1>0
    <3>2. O[n + 1] = Enter(t[n + 1], O[n]) /\ O[n] \in Stacks /\ t[n + 1] \in Steps
      BY <1>0, <1>11, <2>2, <3>1
    <3>3. QED
      BY <3>2, EnterType
  <2> HIDE DEF M
  <2>3. Nat \subseteq M
    BY <2>1, <2>2, SetInduction
  <2>4. \A n \in 0..Len(t) : O[n] \in Stacks
    BY <1>0, <2>3 DEF M
  <2>5. QED
    BY <1>10, <2>4
<1>14. QED
  BY <1>13, <1>11, <1>12 DEF Nested

(* t can be run with the cleanups open entered: each object it makes, but    *)
(* those exempt, is given back by one of them or by the next one.            *)
Ahead(t, open, exempt) ==
  \E S : Nested(t, S) /\ S[0] = open /\ Sheltered(t, S, exempt)

LEMMA NothingAhead ==
  ASSUME NEW open \in Stacks, NEW exempt
  PROVE  Ahead(<<>>, open, exempt)
<1> DEFINE S == [i \in 0..0 |-> open]
<1>1. Len(<<>>) = 0 /\ DOMAIN <<>> = {}
  OBVIOUS
<1>2. Nested(<<>>, S) /\ S[0] = open
  BY <1>1 DEF Nested
<1>3. Sheltered(<<>>, S, exempt)
  BY <1>1 DEF Sheltered
<1>4. QED
  BY <1>2, <1>3, Zenon DEF Ahead

(* A step that has been run leaves the rest as it was. *)
LEMMA AheadOfRest ==
  ASSUME NEW t \in Seq(Steps), t # <<>>, NEW open, NEW exempt, Ahead(t, open, exempt)
  PROVE  Ahead(Tail(t), Enter(Head(t), open), exempt)
<1>1. PICK S : Nested(t, S) /\ S[0] = open /\ Sheltered(t, S, exempt)
  BY DEF Ahead
<1>2. /\ Len(t) \in Nat \ {0} /\ Head(t) = t[1] /\ Tail(t) \in Seq(Steps)
      /\ Len(Tail(t)) = Len(t) - 1 /\ DOMAIN t = 1..Len(t)
      /\ DOMAIN Tail(t) = 1..(Len(t) - 1)
      /\ \A i \in 1..(Len(t) - 1) : Tail(t)[i] = t[i + 1]
  BY HeadTailProperties, LenProperties
<1> DEFINE R == [i \in 0..(Len(t) - 1) |-> S[i + 1]]
<1>3. Nested(Tail(t), R)
  <2>1. R \in [0..Len(Tail(t)) -> Stacks]
    BY <1>1, <1>2 DEF Nested
  <2>2. ASSUME NEW i \in 1..Len(Tail(t))
        PROVE  R[i] = Enter(Tail(t)[i], R[i - 1])
    <3>1. i + 1 \in 1..Len(t) /\ (i + 1) - 1 = i /\ (i - 1) + 1 = i
      BY <1>2
    <3>2. S[i + 1] = Enter(t[i + 1], S[i])
      BY <1>1, <3>1 DEF Nested
    <3>3. R[i] = S[i + 1] /\ R[i - 1] = S[i] /\ Tail(t)[i] = t[i + 1]
      BY <1>2, <3>1
    <3>4. QED
      BY <3>2, <3>3
  <2>3. QED
    BY <2>1, <2>2 DEF Nested
<1>4. R[0] = Enter(Head(t), open)
  BY <1>1, <1>2 DEF Nested
<1>5. Sheltered(Tail(t), R, exempt)
  <2> SUFFICES ASSUME NEW i \in 1..(Len(t) - 1)
               PROVE  LET s == t[i + 1] IN
                      /\ s.op = "call" /\ s.effect.do = "gain" /\ s.effect.r \notin exempt =>
                           \/ \E n \in DOMAIN R[i] : GivesBack(R[i][n], s.effect.r)
                           \/ /\ i < Len(t) - 1 /\ Tail(t)[i + 1].op = "try"
                              /\ GivesBack(Tail(t)[i + 1].cleanup, s.effect.r)
                      /\ s.op = "call" /\ s.effect.do = "adopt" =>
                           \A j \in DOMAIN Tail(t) : ~Does(Tail(t)[j], "gain", s.effect.r)
    BY <1>2 DEF Sheltered
  <2>1. i + 1 \in DOMAIN t /\ R[i] = S[i + 1]
    BY <1>2
  <2>2. i < Len(t) - 1 => i + 1 < Len(t) /\ Tail(t)[i + 1] = t[(i + 1) + 1]
    BY <1>2
  <2>3. i + 1 < Len(t) => i < Len(t) - 1
    BY <1>2
  <2>4. \A j \in DOMAIN Tail(t) : j + 1 \in DOMAIN t /\ Tail(t)[j] = t[j + 1]
    BY <1>2
  <2>5. QED
    BY <1>1, <2>1, <2>2, <2>3, <2>4 DEF Sheltered
<1>6. QED
  BY <1>3, <1>4, <1>5, Zenon DEF Ahead

(* A cleanup makes nothing and adopts nothing.                               *)
Plain(c) == \A i \in DOMAIN c : c[i].effect.do \notin {"gain", "adopt"}

LEMMA AheadOfCleanup ==
  ASSUME NEW c \in Seq(Calls), Plain(c), NEW t \in Seq(Steps), NEW open, NEW exempt,
         Ahead(t, open, exempt)
  PROVE  Ahead(c \o t, open, exempt)
<1>1. PICK S : Nested(t, S) /\ S[0] = open /\ Sheltered(t, S, exempt)
  BY DEF Ahead
<1> DEFINE m == Len(c)
           R == [i \in 0..(m + Len(t)) |-> IF i <= m THEN open ELSE S[i - m]]
           u == c \o t
<1>2. /\ m \in Nat /\ Len(t) \in Nat /\ DOMAIN c = 1..m /\ DOMAIN t = 1..Len(t)
      /\ \A i \in 1..m : c[i] \in Calls
  BY LenProperties, ElementOfSeq
<1>3. c \in Seq(Steps)
  BY CallsAreSteps
<1>4. /\ Len(u) = m + Len(t) /\ DOMAIN u = 1..(m + Len(t))
      /\ \A i \in 1..m : u[i] = c[i]
      /\ \A i \in (m + 1)..(m + Len(t)) : u[i] = t[i - m]
  BY <1>2, <1>3, ConcatProperties, LenProperties
<1> HIDE DEF u, m
<1>5. open \in Stacks
  BY <1>1, <1>2 DEF Nested
<1>6. Nested(u, R)
  <2>1. R \in [0..Len(u) -> Stacks]
    BY <1>1, <1>2, <1>4, <1>5 DEF Nested
  <2>2. ASSUME NEW i \in 1..Len(u)
        PROVE  R[i] = Enter(u[i], R[i - 1])
    <3>1. CASE i <= m
      <4>1. u[i].op = "call"
        BY <1>2, <1>4, <3>1 DEF Calls
      <4>2. R[i] = open /\ R[i - 1] = open
        BY <1>2, <1>4, <3>1
      <4>3. QED
        BY <4>1, <4>2 DEF Enter
    <3>2. CASE i > m
      <4>1. i - m \in 1..Len(t) /\ u[i] = t[i - m] /\ R[i] = S[i - m]
        BY <1>2, <1>4, <3>2
      <4>2. R[i - 1] = S[(i - m) - 1]
        <5>1. i - 1 \in 0..(m + Len(t)) /\ (i - 1) - m = (i - m) - 1
          BY <1>2, <1>4, <3>2
        <5>2. CASE i - 1 <= m
          <6>1. (i - m) - 1 = 0
            BY <1>2, <1>4, <3>2, <5>2
          <6>2. QED
            BY <1>1, <5>1, <5>2, <6>1
        <5>3. CASE ~(i - 1 <= m)
          BY <5>1, <5>3
        <5>4. QED
          BY <5>2, <5>3
      <4>3. QED
        BY <1>1, <4>1, <4>2 DEF Nested
    <3>3. QED
      BY <1>2, <1>4, <3>1, <3>2
  <2>3. QED
    BY <2>1, <2>2 DEF Nested
<1>7. R[0] = open
  BY <1>2
<1>8. Sheltered(u, R, exempt)
  <2>1. ASSUME NEW i \in DOMAIN u, u[i].op = "call", u[i].effect.do \in {"gain", "adopt"}
        PROVE  /\ i - m \in DOMAIN t /\ u[i] = t[i - m] /\ R[i] = S[i - m]
               /\ i < Len(u) <=> i - m < Len(t)
               /\ i < Len(u) => u[i + 1] = t[(i - m) + 1]
    <3>1. i > m
      BY <1>2, <1>4, <2>1 DEF Plain
    <3>2. QED
      BY <1>2, <1>4, <3>1
  <2>2. ASSUME NEW i \in DOMAIN u, u[i].op = "call", u[i].effect.do = "gain",
               u[i].effect.r \notin exempt
        PROVE  \/ \E n \in DOMAIN R[i] : GivesBack(R[i][n], u[i].effect.r)
               \/ /\ i < Len(u) /\ u[i + 1].op = "try"
                  /\ GivesBack(u[i + 1].cleanup, u[i].effect.r)
    BY <1>1, <2>1, <2>2 DEF Sheltered
  <2>3. ASSUME NEW i \in DOMAIN u, u[i].op = "call", u[i].effect.do = "adopt",
               NEW j \in DOMAIN u
        PROVE  ~Does(u[j], "gain", u[i].effect.r)
    <3>1. CASE u[j].op = "call" /\ u[j].effect.do = "gain"
      BY <1>1, <2>1, <2>3, <3>1 DEF Sheltered
    <3>2. QED
      BY <3>1 DEF Does
  <2>4. QED
    BY <2>2, <2>3 DEF Sheltered
<1>9. QED
  BY <1>6, <1>7, <1>8, Zenon DEF Ahead, u

(* What r is still to be given back by.                                      *)
Covered(r) ==
  \/ \E n \in DOMAIN frames : GivesBack(frames[n], r)
  \/ GivesBack(todo, r)
  \/ todo # <<>> /\ todo[1].op = "try" /\ GivesBack(todo[1].cleanup, r)

Adopts(t, r) == \E i \in DOMAIN t : Does(t[i], "adopt", r)

(* Until a release fails or a wait throws: what was made and still exists is *)
(* on its way to be given back.                                              *)
Calm == seen \intersect {"unreleased", "escaped"} = {}
Kept ==
  Calm =>
    /\ Ahead(todo, frames, Unguarded[probe])
    /\ \A r \in held : ~Adopts(todo, r)
    /\ \A r \in (live \intersect held) \ Unguarded[probe] : Covered(r)

(* Cleanups are plain; before the start and after the end nothing is under   *)
(* way.                                                                      *)
Quiet ==
  /\ \A n \in DOMAIN frames : Plain(frames[n])
  /\ status = "idle" => held = {} /\ seen = {}
  /\ Reported => held = {} \/ (todo = <<>> /\ frames = <<>>)

Returning == Inv /\ Quiet /\ Kept

(* What is run next is not the release of r: r stays covered.               *)
LEMMA StillGivenBack ==
  ASSUME NEW t \in Seq(Steps), t # <<>>, NEW r, GivesBack(t, r), ~Releases(Head(t), r)
  PROVE  Harmless(Head(t)) /\ GivesBack(Tail(t), r)
<1>1. PICK j \in DOMAIN t : Releases(t[j], r) /\ \A i \in 1..(j - 1) : Harmless(t[i])
  BY DEF GivesBack
<1>2. /\ Len(t) \in Nat \ {0} /\ Head(t) = t[1]
      /\ DOMAIN t = 1..Len(t) /\ DOMAIN Tail(t) = 1..(Len(t) - 1)
      /\ \A i \in 1..(Len(t) - 1) : Tail(t)[i] = t[i + 1]
  BY HeadTailProperties, LenProperties
<1>3. j # 1
  BY <1>1, <1>2
<1>4. Harmless(Head(t)) /\ j - 1 \in DOMAIN Tail(t) /\ Tail(t)[j - 1] = t[j]
  BY <1>1, <1>2, <1>3
<1>5. ASSUME NEW i \in 1..((j - 1) - 1)
      PROVE  Harmless(Tail(t)[i])
  BY <1>1, <1>2
<1>6. QED
  BY <1>1, <1>4, <1>5 DEF GivesBack

LEMMA GivenBackFirst ==
  ASSUME NEW c \in Seq(Steps), NEW t \in Seq(Steps), NEW r, GivesBack(c, r)
  PROVE  GivesBack(c \o t, r)
<1>1. PICK j \in DOMAIN c : Releases(c[j], r) /\ \A i \in 1..(j - 1) : Harmless(c[i])
  BY DEF GivesBack
<1>2. /\ DOMAIN c = 1..Len(c) /\ Len(c) \in Nat
      /\ DOMAIN c \subseteq DOMAIN (c \o t)
      /\ \A i \in DOMAIN c : (c \o t)[i] = c[i]
  BY ConcatProperties, LenProperties
<1>3. QED
  BY <1>1, <1>2 DEF GivesBack

LEMMA NothingGivesBack == \A r : ~GivesBack(<<>>, r) /\ ~Adopts(<<>>, r)
  BY DEF GivesBack, Adopts

LEMMA AdoptsLess ==
  ASSUME NEW t \in Seq(Steps), t # <<>>, NEW r, ~Adopts(t, r)
  PROVE  ~Adopts(Tail(t), r)
<1>1. /\ DOMAIN t = 1..Len(t) /\ DOMAIN Tail(t) = 1..(Len(t) - 1) /\ Len(t) \in Nat
      /\ \A i \in 1..(Len(t) - 1) : Tail(t)[i] = t[i + 1]
  BY HeadTailProperties, LenProperties
<1>2. QED
  BY <1>1 DEF Adopts

LEMMA PlainAdoptsNothing ==
  ASSUME NEW c \in Seq(Calls), Plain(c), NEW t \in Seq(Steps), NEW r, ~Adopts(t, r)
  PROVE  ~Adopts(c \o t, r)
<1>1. /\ DOMAIN c = 1..Len(c) /\ DOMAIN t = 1..Len(t) /\ Len(c) \in Nat /\ Len(t) \in Nat
      /\ DOMAIN (c \o t) = 1..(Len(c) + Len(t))
      /\ \A i \in 1..Len(c) : (c \o t)[i] = c[i]
      /\ \A i \in (Len(c) + 1)..(Len(c) + Len(t)) : (c \o t)[i] = t[i - Len(c)]
  BY CallsAreSteps, ConcatProperties, LenProperties
<1>2. QED
  BY <1>1 DEF Adopts, Does, Plain

-------------------------------------------------------------------------------
LEMMA InitReturning == Init => Returning
<1> SUFFICES ASSUME Init PROVE Returning
  OBVIOUS
<1>1. Quiet
  BY DEF Init, Quiet, Reported, Outcomes
<1>2. todo \in Seq(Steps) /\ frames = <<>> /\ probe \in Probes /\ todo \in Code[probe]
  BY InitInv DEF Init, Inv, Shape
<1>3. Ahead(todo, frames, Unguarded[probe])
  <2>1. Nested(todo, Opened(todo)) /\ Opened(todo)[0] = frames
    BY <1>2, OpenedIsNested
  <2>2. Sheltered(todo, Opened(todo), Unguarded[probe])
    BY <1>2, ProgramsGiveBack DEF ProgramsGiveBack
  <2>3. QED
    BY <2>1, <2>2, Zenon DEF Ahead
<1>4. Kept
  BY <1>3 DEF Init, Kept
<1>5. QED
  BY <1>1, <1>4, InitInv DEF Returning

(* After a step of a call or of a check that goes on.                        *)
LEMMA AheadAfter ==
  ASSUME Inv, todo # <<>>, Head(todo).op \notin {"try", "leave"},
         UNCHANGED <<frames, probe>>, todo' = Tail(todo) \/ todo' = <<>>,
         Ahead(todo, frames, Unguarded[probe])
  PROVE  Ahead(todo', frames', Unguarded[probe'])
<1>1. Enter(Head(todo), frames) = frames
  BY DEF Enter
<1>2. CASE todo' = Tail(todo)
  <2>1. todo \in Seq(Steps)
    BY DEF Inv, Shape
  <2>2. Ahead(Tail(todo), Enter(Head(todo), frames), Unguarded[probe])
    BY <2>1, AheadOfRest
  <2>3. QED
    BY <1>1, <1>2, <2>2
<1>3. CASE todo' = <<>>
  BY <1>3, NothingAhead DEF Inv, Shape, Stacks
<1>4. QED
  BY <1>2, <1>3

LEMMA CoveredAfter ==
  ASSUME Inv, todo # <<>>, Head(todo).op \notin {"try", "leave"}, UNCHANGED frames,
         todo' = Tail(todo) \/ (todo' = <<>> /\ ~Harmless(Head(todo))),
         NEW r, Covered(r), ~Releases(Head(todo), r)
  PROVE  Covered(r)'
<1>1. todo \in Seq(Steps) /\ Head(todo) = todo[1]
  BY DEF Inv, Shape
<1>2. CASE \E n \in DOMAIN frames : GivesBack(frames[n], r)
  BY <1>2 DEF Covered
<1>3. CASE GivesBack(todo, r)
  <2>1. Harmless(Head(todo)) /\ GivesBack(Tail(todo), r)
    BY <1>1, <1>3, StillGivenBack
  <2>2. QED
    BY <2>1 DEF Covered
<1>4. QED
  BY <1>1, <1>2, <1>3 DEF Covered

(* A step that makes and releases nothing.                                   *)
LEMMA ReturningAfter ==
  ASSUME Returning, Inv', todo # <<>>, Head(todo).op \notin {"try", "leave"},
         status = "running", status' = "running", seen \subseteq seen',
         UNCHANGED <<frames, probe, live, held>>,
         Calm' => \/ /\ todo' = Tail(todo)
                     /\ \A r \in live \intersect held : ~Releases(Head(todo), r)
                  \/ todo' = <<>> /\ ~Harmless(Head(todo))
  PROVE  Returning'
<1>1. Quiet'
  BY DEF Returning, Quiet, Reported, Outcomes
<1>2. Kept'
  <2> SUFFICES ASSUME Calm'
               PROVE  /\ Ahead(todo', frames', Unguarded[probe'])
                      /\ \A r \in held : ~Adopts(todo', r)
                      /\ \A r \in (live \intersect held) \ Unguarded[probe] : Covered(r)'
    BY DEF Kept
  <2>1. /\ Inv /\ Ahead(todo, frames, Unguarded[probe])
        /\ \A r \in held : ~Adopts(todo, r)
        /\ \A r \in (live \intersect held) \ Unguarded[probe] : Covered(r)
    BY DEF Returning, Kept, Calm
  <2>2. /\ todo' = Tail(todo) \/ (todo' = <<>> /\ ~Harmless(Head(todo)))
        /\ \A r \in live \intersect held : ~Releases(Head(todo), r)
    BY DEF Releases
  <2>3. Ahead(todo', frames', Unguarded[probe'])
    BY <2>1, <2>2, AheadAfter
  <2>4. \A r \in held : ~Adopts(todo', r)
    BY <2>1, <2>2, AdoptsLess, NothingGivesBack DEF Inv, Shape
  <2>5. ASSUME NEW r \in (live \intersect held) \ Unguarded[probe]
        PROVE  Covered(r)'
    BY <2>1, <2>2, CoveredAfter
  <2>6. QED
    BY <2>3, <2>4, <2>5
<1>3. QED
  BY <1>1, <1>2 DEF Returning

LEMMA SkipReturns == Returning /\ Skip => Returning'
<1> SUFFICES ASSUME Returning, Skip PROVE Returning'
  OBVIOUS
<1>1. Inv'
  BY SkipKeepsInv DEF Returning
<1>2. /\ todo # <<>> /\ Head(todo).op = "call" /\ status = "running"
      /\ todo' = Tail(todo) /\ Skipped(Head(todo))
      /\ UNCHANGED <<frames, probe, live, held, status, seen>>
  BY DEF Skip, Runs, device
<1>3. \A r \in live \intersect held : ~Releases(Head(todo), r)
  BY <1>2 DEF Skipped, Releases, Does
<1>4. QED
  BY <1>1, <1>2, <1>3, ReturningAfter

(* A release that fails says so; so do a wait that throws and a cleanup call *)
(* that fails.                                                               *)
LEMMA FailReturns == Returning /\ Fail => Returning'
<1> SUFFICES ASSUME Returning, Fail PROVE Returning'
  OBVIOUS
<1> DEFINE s == Head(todo)
<1>1. Inv /\ Inv'
  BY FailKeepsInv DEF Returning
<1>2. /\ todo # <<>> /\ s.op = "call" /\ s \in Calls
      /\ status = "running" /\ status' = "running"
      /\ UNCHANGED <<frames, probe, live, held>>
  BY <1>1, HeadIsStep DEF Fail, Runs, Inv
<1>3. PICK how \in {"fail", "refused", "raise"} :
        /\ Takes(s, how)
        /\ IF how \notin s.want THEN Badly(Tags(s, how))
           ELSE seen' = seen \union (IF Judged(s) THEN {} ELSE {"refused"})
  BY DEF Fail
<1>4. seen \subseteq seen'
  BY <1>3 DEF Badly
<1>5. Harmless(s) => ~Calm'
  BY <1>3 DEF Harmless, Badly, Tags, Calm
<1>6. s.mode = "hush" => Harmless(s)
  BY <1>2, ProgramsGiveBack DEF ProgramsGiveBack, Harmless
<1>7. s.mode # "hush" => todo' = Tail(todo) \/ todo' = <<>>
  BY <1>3 DEF Takes
<1>8. QED
  BY <1>1, <1>2, <1>4, <1>5, <1>6, <1>7, ReturningAfter DEF Releases

LEMMA CompareReturns == Returning /\ Compare => Returning'
<1> SUFFICES ASSUME Returning, Compare PROVE Returning'
  OBVIOUS
<1>1. Inv'
  BY CompareKeepsInv DEF Returning
<1>2. /\ todo # <<>> /\ Head(todo).op = "check"
      /\ status = "running" /\ status' = "running"
      /\ UNCHANGED <<frames, probe, live, held, seen>>
      /\ todo' = Tail(todo) \/ todo' = <<>>
  BY DEF Compare, Runs, device
<1>3. QED
  BY <1>1, <1>2, ReturningAfter DEF Harmless, Releases, Does

LEMMA StopReturns == Returning /\ Stop => Returning'
<1> SUFFICES ASSUME Returning, Stop PROVE Returning'
  OBVIOUS
<1>1. Inv'
  BY StopKeepsInv DEF Returning
<1>2. /\ todo # <<>> /\ Head(todo).op \in {"raise", "decline", "return"}
      /\ status = "running" /\ status' = "running" /\ seen \subseteq seen'
      /\ UNCHANGED <<frames, probe, live, held>>
      /\ todo' = Tail(todo) \/ todo' = <<>>
  BY DEF Stop, Runs, device
<1>3. QED
  BY <1>1, <1>2, ReturningAfter DEF Harmless, Releases, Does

(* The one step that makes objects, and releases them.                       *)
LEMMA SucceedReturns == Returning /\ Succeed => Returning'
<1> SUFFICES ASSUME Returning, Succeed PROVE Returning'
  OBVIOUS
<1> DEFINE s == Head(todo)
           e == Head(todo).effect
<1>1. Inv /\ Inv'
  BY SucceedKeepsInv DEF Returning
<1>2. /\ todo # <<>> /\ s.op = "call" /\ s \in Calls /\ s = todo[1]
      /\ todo \in Seq(Steps) /\ status = "running" /\ status' = "running"
      /\ UNCHANGED <<frames, probe>>
  BY <1>1, HeadIsStep DEF Succeed, Runs, Inv, Shape
<1>3. todo' = Tail(todo) \/ (todo' = <<>> /\ s.mode = "must")
  BY DEF Succeed
<1>4. PICK d : Effect(e, d)
  BY DEF Succeed
<1>5. /\ live' = IF e.do \in {"gain", "adopt"} THEN live \union {e.r}
                 ELSE IF e.do = "lose" THEN live \ {e.r} ELSE live
      /\ held' = IF e.do = "gain" THEN held \union {e.r} ELSE held
  BY <1>4 DEF Effect
<1>6. seen \subseteq seen'
  BY DEF Succeed, Badly, Well
<1>7. Quiet'
  BY <1>2 DEF Returning, Quiet, Reported, Outcomes
<1>8. Kept'
  <2> SUFFICES ASSUME Calm'
               PROVE  /\ Ahead(todo', frames', Unguarded[probe'])
                      /\ \A r \in held' : ~Adopts(todo', r)
                      /\ \A r \in (live' \intersect held') \ Unguarded[probe] : Covered(r)'
    BY <1>2 DEF Kept
  <2>1. /\ Ahead(todo, frames, Unguarded[probe])
        /\ \A r \in held : ~Adopts(todo, r)
        /\ \A r \in (live \intersect held) \ Unguarded[probe] : Covered(r)
    BY <1>6 DEF Returning, Kept, Calm
  <2>2. Ahead(todo', frames', Unguarded[probe'])
    BY <1>1, <1>2, <1>3, <2>1, AheadAfter
  <2>3. PICK S : /\ Nested(todo, S) /\ S[0] = frames
                 /\ Sheltered(todo, S, Unguarded[probe])
    BY <2>1 DEF Ahead
  <2>4. 1 \in DOMAIN todo /\ S[1] = frames
    <3>1. Len(todo) \in Nat \ {0} /\ DOMAIN todo = 1..Len(todo)
      BY <1>2, LenProperties
    <3>2. 1 \in 1..Len(todo) /\ 1 - 1 = 0
      BY <3>1
    <3>3. S[1] = Enter(todo[1], S[0])
      BY <2>3, <3>2 DEF Nested
    <3>4. QED
      BY <1>2, <2>3, <3>1, <3>2, <3>3 DEF Enter
  <2>5. ASSUME NEW r \in held'
        PROVE  ~Adopts(todo', r)
    <3>1. ~Adopts(todo, r)
      <4>1. CASE r \in held
        BY <2>1, <4>1
      <4>2. CASE e.do = "gain" /\ e.r = r
        BY <1>2, <2>3, <2>4, <4>2 DEF Sheltered, Adopts, Does
      <4>3. QED
        BY <1>5, <2>5, <4>1, <4>2
    <3>2. QED
      BY <1>2, <1>3, <3>1, AdoptsLess, NothingGivesBack
  <2>6. ASSUME NEW r \in (live' \intersect held') \ Unguarded[probe]
        PROVE  Covered(r)'
    <3>1. CASE e.do = "gain" /\ e.r = r
      <4>1. s.mode # "must" /\ todo' = Tail(todo)
        BY <1>2, <1>3, <3>1, ProgramsGiveBack DEF ProgramsGiveBack
      <4>2. \/ \E n \in DOMAIN frames : GivesBack(frames[n], r)
            \/ /\ 1 < Len(todo) /\ todo[2].op = "try"
               /\ GivesBack(todo[2].cleanup, r)
        <5>1. 1 + 1 = 2
          OBVIOUS
        <5>2. \/ \E n \in DOMAIN S[1] : GivesBack(S[1][n], todo[1].effect.r)
              \/ /\ 1 < Len(todo) /\ todo[1 + 1].op = "try"
                 /\ GivesBack(todo[1 + 1].cleanup, todo[1].effect.r)
          BY <1>2, <2>3, <2>4, <2>6, <3>1, Zenon DEF Sheltered
        <5>3. todo[1].effect.r = r
          BY <1>2, <3>1
        <5>4. QED
          BY <2>4, <5>1, <5>2, <5>3, Zenon
      <4>3. 1 < Len(todo) => Tail(todo) # <<>> /\ Tail(todo)[1] = todo[2]
        <5> SUFFICES ASSUME 1 < Len(todo)
                     PROVE  Tail(todo) # <<>> /\ Tail(todo)[1] = todo[2]
          OBVIOUS
        <5>1. /\ Tail(todo) \in Seq(Steps) /\ Len(Tail(todo)) = Len(todo) - 1
              /\ Len(todo) \in Nat
              /\ \A i \in 1..(Len(todo) - 1) : Tail(todo)[i] = todo[i + 1]
          BY <1>2, HeadTailProperties, LenProperties
        <5>2. 1 \in 1..(Len(todo) - 1) /\ 1 + 1 = 2
          BY <5>1
        <5>3. Tail(todo)[1] = todo[2]
          BY <5>1, <5>2
        <5>4. Len(Tail(todo)) # 0
          BY <5>1
        <5>5. Len(<<>>) = 0
          OBVIOUS
        <5>6. QED
          BY <5>3, <5>4, <5>5
      <4>4. QED
        BY <1>2, <4>1, <4>2, <4>3 DEF Covered
    <3>2. CASE ~(e.do = "gain" /\ e.r = r)
      <4>1. r \in held
        BY <1>5, <2>6, <3>2
      <4>2. r \in live /\ ~(e.do = "lose" /\ e.r = r)
        <5>1. ~(e.do = "adopt" /\ e.r = r)
          BY <1>2, <2>1, <2>4, <4>1 DEF Adopts, Does
        <5>2. QED
          BY <1>5, <2>6, <3>2, <5>1
      <4>3. Covered(r) /\ ~Releases(s, r)
        BY <2>1, <2>6, <4>1, <4>2 DEF Releases, Does
      <4>4. s.mode = "must" => ~Harmless(s)
        BY DEF Harmless
      <4>5. QED
        BY <1>1, <1>2, <1>3, <4>3, <4>4, CoveredAfter
    <3>3. QED
      BY <3>1, <3>2
  <2>7. QED
    BY <2>2, <2>5, <2>6
<1>9. QED
  BY <1>1, <1>7, <1>8 DEF Returning

LEMMA StartReturns == Returning /\ Start => Returning'
<1> SUFFICES ASSUME Returning, Start PROVE Returning'
  OBVIOUS
<1>1. Inv'
  BY StartKeepsInv DEF Returning
<1>2. held = {} /\ UNCHANGED <<probe, todo, frames, live, held>>
  BY DEF Start, Returning, Quiet, host, device
<1>3. Quiet'
  BY <1>2 DEF Start, Returning, Quiet
<1>4. Calm
  BY DEF Start, Returning, Quiet, Calm
<1>5. Kept'
  BY <1>2, <1>4 DEF Returning, Kept, Covered
<1>6. QED
  BY <1>1, <1>3, <1>5 DEF Returning

(* Entering, leaving and unwinding a try.                                    *)
LEMMA FrameReturns == Returning /\ Frame => Returning'
<1> SUFFICES ASSUME Returning, Frame PROVE Returning'
  OBVIOUS
<1> DEFINE c == Head(frames)
           Rest == UNCHANGED <<probe, live, held, status, seen>>
<1>1. /\ Inv /\ Inv' /\ Quiet
      /\ todo \in Seq(Steps) /\ frames \in Seq(Seq(Calls))
      /\ status = "running" /\ Rest
  BY FrameKeepsInv DEF Returning, Inv, Shape, Frame, Runs, device
<1>2. frames # <<>> => /\ c \in Seq(Calls) /\ c \in Seq(Steps) /\ Plain(c)
                       /\ Tail(frames) \in Seq(Seq(Calls)) /\ c = frames[1]
                       /\ \A n \in DOMAIN frames :
                            n = 1 \/ (n - 1 \in DOMAIN Tail(frames)
                                      /\ Tail(frames)[n - 1] = frames[n])
                       /\ \A n \in DOMAIN Tail(frames) :
                            n + 1 \in DOMAIN frames /\ Tail(frames)[n] = frames[n + 1]
  <2> SUFFICES ASSUME frames # <<>>
               PROVE  /\ c \in Seq(Calls) /\ c \in Seq(Steps) /\ Plain(c)
                      /\ Tail(frames) \in Seq(Seq(Calls)) /\ c = frames[1]
                      /\ \A n \in DOMAIN frames :
                           n = 1 \/ (n - 1 \in DOMAIN Tail(frames)
                                     /\ Tail(frames)[n - 1] = frames[n])
                      /\ \A n \in DOMAIN Tail(frames) :
                           n + 1 \in DOMAIN frames /\ Tail(frames)[n] = frames[n + 1]
    OBVIOUS
  <2>1. /\ c \in Seq(Calls) /\ Tail(frames) \in Seq(Seq(Calls)) /\ c = frames[1]
        /\ DOMAIN frames = 1..Len(frames) /\ Len(frames) \in Nat \ {0}
        /\ DOMAIN Tail(frames) = 1..(Len(frames) - 1)
        /\ \A n \in 1..(Len(frames) - 1) : Tail(frames)[n] = frames[n + 1]
    BY <1>1, HeadTailProperties, LenProperties
  <2>2. 1 \in DOMAIN frames /\ c \in Seq(Steps) /\ Plain(c)
    BY <1>1, <2>1, CallsAreSteps DEF Quiet
  <2>3. QED
    BY <2>1, <2>2
<1>3. Calm' => /\ Ahead(todo, frames, Unguarded[probe])
               /\ \A r \in held : ~Adopts(todo, r)
               /\ \A r \in (live \intersect held) \ Unguarded[probe] : Covered(r)
  BY <1>1 DEF Returning, Kept, Calm
<1>4. SUFFICES /\ \A n \in DOMAIN frames' : Plain(frames'[n])
               /\ Calm' =>
                    /\ Ahead(todo', frames', Unguarded[probe])
                    /\ \A r \in held : ~Adopts(todo', r)
                    /\ \A r \in (live \intersect held) \ Unguarded[probe] : Covered(r)'
  <2>1. status' # "idle" /\ ~Reported'
    BY <1>1 DEF Reported, Outcomes
  <2>2. QED
    BY <1>1, <2>1 DEF Returning, Quiet, Kept
<1>5. CASE /\ Runs("try") /\ todo' = Tail(todo)
           /\ frames' = <<Head(todo).cleanup>> \o frames
  <2> DEFINE k == Head(todo).cleanup
  <2>1. /\ todo # <<>> /\ Head(todo) \in Steps /\ Head(todo).op = "try"
        /\ Head(todo) = todo[1]
    BY <1>1, <1>5, HeadIsStep DEF Runs, Inv
  <2>2. k \in Seq(Calls) /\ Plain(k)
    <3>1. k \in Seq(Calls)
      BY <2>1, TryCleanups, CleanupsAreCalls
    <3>2. \A i \in DOMAIN k : k[i] \in StepsOf(k)
      BY DEF StepsOf
    <3>3. \A x \in StepsOf(k) : x.effect.do \notin {"gain", "adopt"}
      BY <2>1, TryCleanups, ProgramsGiveBack DEF ProgramsGiveBack
    <3>4. QED
      BY <3>1, <3>2, <3>3 DEF Plain
  <2>3. /\ frames'[1] = k /\ DOMAIN frames' = 1..(Len(frames) + 1)
        /\ DOMAIN frames = 1..Len(frames) /\ Len(frames) \in Nat
        /\ \A n \in 2..(Len(frames) + 1) : frames'[n] = frames[n - 1]
    <3> HIDE DEF k
    <3>1. /\ <<k>> \in Seq(Seq(Calls)) /\ Len(<<k>>) = 1 /\ <<k>>[1] = k
          /\ DOMAIN frames = 1..Len(frames) /\ Len(frames) \in Nat
      BY <1>1, <2>2, LenProperties
    <3>2. frames' = <<k>> \o frames
      BY <1>5 DEF k
    <3>3. /\ frames' \in Seq(Seq(Calls)) /\ Len(frames') = 1 + Len(frames)
          /\ \A n \in 1..(1 + Len(frames)) :
               frames'[n] = IF n <= 1 THEN <<k>>[n] ELSE frames[n - 1]
      BY <1>1, <3>1, <3>2, ConcatProperties
    <3>4. QED
      BY <3>1, <3>3, LenProperties
  <2>4. \A n \in DOMAIN frames' : Plain(frames'[n])
    <3>1. \A n \in 2..(Len(frames) + 1) : n - 1 \in DOMAIN frames
      BY <2>3
    <3>2. \A n \in 2..(Len(frames) + 1) : Plain(frames'[n])
      BY <1>1, <2>3, <3>1 DEF Quiet
    <3>3. Plain(frames'[1])
      BY <2>2, <2>3
    <3>4. \A n \in DOMAIN frames' : n = 1 \/ n \in 2..(Len(frames) + 1)
      BY <2>3
    <3>5. QED
      BY <3>2, <3>3, <3>4
  <2>5. ASSUME Calm'
        PROVE  /\ Ahead(todo', frames', Unguarded[probe])
               /\ \A r \in held : ~Adopts(todo', r)
    <3>1. frames' = Enter(Head(todo), frames)
      BY <1>5, <2>1 DEF Enter
    <3>2. Ahead(todo', frames', Unguarded[probe])
      BY <1>1, <1>3, <1>5, <2>1, <2>5, <3>1, AheadOfRest
    <3>3. QED
      BY <1>1, <1>3, <1>5, <2>1, <2>5, <3>2, AdoptsLess
  <2>6. ASSUME Calm', NEW r \in (live \intersect held) \ Unguarded[probe]
        PROVE  Covered(r)'
    <3>1. CASE \E n \in DOMAIN frames : GivesBack(frames[n], r)
      <4>1. PICK n \in DOMAIN frames : GivesBack(frames[n], r)
        BY <3>1
      <4>2. n + 1 \in DOMAIN frames' /\ frames'[n + 1] = frames[n]
        BY <2>3
      <4>3. QED
        BY <4>1, <4>2 DEF Covered
    <3>2. CASE GivesBack(todo, r)
      <4>1. ~Harmless(Head(todo)) /\ ~Releases(Head(todo), r)
        BY <2>1 DEF Harmless, Releases, Does
      <4>2. QED
        BY <1>1, <2>1, <3>2, <4>1, StillGivenBack
    <3>3. CASE GivesBack(todo[1].cleanup, r)
      <4>1. 1 \in DOMAIN frames' /\ GivesBack(frames'[1], r)
        BY <2>1, <2>3, <3>3
      <4>2. QED
        BY <4>1 DEF Covered
    <3>4. QED
      BY <1>3, <2>6, <3>1, <3>2, <3>3 DEF Covered
  <2>7. QED
    BY <2>4, <2>5, <2>6
<1>6. ASSUME NEW t \in Seq(Steps), frames # <<>>, todo' = c \o t, frames' = Tail(frames),
             Calm' => /\ Ahead(t, Tail(frames), Unguarded[probe])
                      /\ \A r \in held : ~Adopts(t, r)
                      /\ todo = <<>> \/ (todo # <<>> /\ Head(todo).op = "leave")
      PROVE  /\ \A n \in DOMAIN frames' : Plain(frames'[n])
             /\ Calm' =>
                  /\ Ahead(todo', frames', Unguarded[probe])
                  /\ \A r \in held : ~Adopts(todo', r)
                  /\ \A r \in (live \intersect held) \ Unguarded[probe] : Covered(r)'
  <2>1. \A n \in DOMAIN frames' : Plain(frames'[n])
    BY <1>1, <1>2, <1>6 DEF Quiet
  <2>2. ASSUME Calm'
        PROVE  /\ Ahead(todo', frames', Unguarded[probe])
               /\ \A r \in held : ~Adopts(todo', r)
    BY <1>2, <1>6, <2>2, AheadOfCleanup, PlainAdoptsNothing
  <2>3. ASSUME Calm', NEW r \in (live \intersect held) \ Unguarded[probe]
        PROVE  Covered(r)'
    <3>1. ~GivesBack(todo, r)
      <4>1. CASE todo = <<>>
        BY <4>1, NothingGivesBack
      <4>2. CASE todo # <<>> /\ Head(todo).op = "leave"
        <5>1. ~Harmless(Head(todo)) /\ ~Releases(Head(todo), r)
          BY <4>2 DEF Harmless, Releases, Does
        <5>2. QED
          BY <1>1, <4>2, <5>1, StillGivenBack
      <4>3. QED
        BY <1>6, <2>3, <4>1, <4>2
    <3>2. ~(todo # <<>> /\ todo[1].op = "try")
      BY <1>1, <1>6, <2>3
    <3>3. PICK n \in DOMAIN frames : GivesBack(frames[n], r)
      BY <1>3, <2>3, <3>1, <3>2 DEF Covered
    <3>4. CASE n = 1
      <4>1. GivesBack(todo', r)
        BY <1>2, <1>6, <3>3, <3>4, GivenBackFirst
      <4>2. QED
        BY <4>1 DEF Covered
    <3>5. CASE n # 1
      <4>1. n - 1 \in DOMAIN frames' /\ frames'[n - 1] = frames[n]
        BY <1>2, <1>6, <3>3, <3>5
      <4>2. QED
        BY <3>3, <4>1 DEF Covered
    <3>6. QED
      BY <3>4, <3>5
  <2>4. QED
    BY <2>1, <2>2, <2>3
<1>7. CASE /\ Runs("leave") /\ frames # <<>>
           /\ todo' = Head(frames) \o Tail(todo) /\ frames' = Tail(frames)
  <2>1. todo # <<>> /\ Head(todo).op = "leave" /\ Tail(todo) \in Seq(Steps)
    BY <1>1, <1>7, HeadIsStep DEF Runs, Inv
  <2>2. Enter(Head(todo), frames) = Tail(frames)
    BY <1>7, <2>1 DEF Enter
  <2>3. Calm' => /\ Ahead(Tail(todo), Tail(frames), Unguarded[probe])
                 /\ \A r \in held : ~Adopts(Tail(todo), r)
    BY <1>1, <1>3, <2>1, <2>2, AheadOfRest, AdoptsLess
  <2>4. QED
    BY <1>6, <1>7, <2>1, <2>3
<1>8. CASE todo = <<>> /\ frames # <<>> /\ todo' = Head(frames) /\ frames' = Tail(frames)
  <2>1. <<>> \in Seq(Steps) /\ c \o <<>> = c
    BY <1>2, <1>8, EmptySeq, ConcatEmptySeq
  <2>2. Ahead(<<>>, Tail(frames), Unguarded[probe]) /\ \A r \in held : ~Adopts(<<>>, r)
    BY <1>2, <1>8, NothingAhead, NothingGivesBack DEF Stacks
  <2>3. QED
    BY <1>6, <1>8, <2>1, <2>2
<1>9. QED
  BY <1>5, <1>7, <1>8 DEF Frame

LEMMA FinishReturns == Returning /\ Finish => Returning'
<1> SUFFICES ASSUME Returning, Finish PROVE Returning'
  OBVIOUS
<1>1. Inv'
  BY FinishKeepsInv DEF Returning
<1>2. /\ todo = <<>> /\ frames = <<>> /\ status' = Verdict
      /\ UNCHANGED <<probe, todo, frames, exc, live, held, seen>>
  BY DEF Finish, host, device
<1>3. status' # "idle"
  BY <1>2 DEF Verdict, Returning, Inv, TypeOK
<1>4. Quiet'
  BY <1>2, <1>3 DEF Returning, Quiet
<1>5. Kept'
  BY <1>2 DEF Returning, Kept, Calm, Covered
<1>6. QED
  BY <1>1, <1>4, <1>5 DEF Returning

(* What the device does leaves the host and the objects alone.               *)
LEMMA RunKernelReturns == Returning /\ RunKernel => Returning'
<1> SUFFICES ASSUME Returning, RunKernel PROVE Returning'
  OBVIOUS
<1>1. Inv'
  BY RunKernelKeepsInv DEF Returning
<1>2. status = "running" /\ UNCHANGED <<probe, todo, frames, live, held, status>>
  BY DEF RunKernel, host
<1>3. seen \subseteq seen'
  BY DEF RunKernel, Badly, Well
<1>4. Quiet'
  BY <1>2 DEF Returning, Quiet, Reported
<1>5. Kept'
  BY <1>2, <1>3 DEF Returning, Kept, Calm, Covered
<1>6. QED
  BY <1>1, <1>4, <1>5 DEF Returning

LEMMA NextReturns == Returning /\ [Next]_vars => Returning'
<1> SUFFICES ASSUME Returning, [Next]_vars PROVE Returning'
  OBVIOUS
<1>1. CASE Host
  BY <1>1, StartReturns, SkipReturns, SucceedReturns, FailReturns, CompareReturns,
     StopReturns, FrameReturns, FinishReturns DEF Host
<1>2. CASE RunKernel
  BY <1>2, RunKernelReturns
<1>3. CASE UNCHANGED vars
  <2>1. Inv'
    BY <1>3, NextKeepsInv DEF Returning
  <2>2. UNCHANGED <<probe, todo, frames, live, held, status, seen>>
    BY <1>3 DEF vars, host, device
  <2>3. QED
    BY <2>1, <2>2 DEF Returning, Quiet, Reported, Kept, Calm, Covered
<1>4. QED
  BY <1>1, <1>2, <1>3 DEF Next, Done

(* Whatever the programs and however many calls fail: a probe that reports   *)
(* has given back all it made under a try, unless a release failed.          *)
THEOREM MadeIsGivenBack == Spec => []ReleasedAtExit
<1>1. Init => Returning
  BY InitReturning
<1>2. Returning /\ [Next]_vars => Returning'
  BY NextReturns
<1>3. Returning => ReleasedAtExit
  <2> SUFFICES ASSUME Returning, Reported, Calm,
                      NEW r \in (live \intersect held) \ Unguarded[probe]
               PROVE  FALSE
    BY DEF ReleasedAtExit, Calm
  <2>1. todo = <<>> /\ frames = <<>>
    BY DEF Returning, Quiet
  <2>2. Covered(r)
    BY DEF Returning, Kept
  <2>3. QED
    BY <2>1, <2>2, NothingGivesBack DEF Covered
<1>4. QED
  BY <1>1, <1>2, <1>3, PTL DEF Spec

-------------------------------------------------------------------------------
(* u is what remains of t after n steps; u is c and then t.                  *)
Rest(t, n, u) ==
  /\ n \in 0..Len(t) /\ u \in Seq(Steps) /\ Len(u) = Len(t) - n
  /\ \A i \in 1..Len(u) : u[i] = t[i + n]
Joins(c, t, u) ==
  /\ u \in Seq(Steps) /\ Len(u) = Len(c) + Len(t)
  /\ \A i \in 1..Len(c) : u[i] = c[i]
  /\ \A i \in 1..Len(t) : u[i + Len(c)] = t[i]

LEMMA TailRests ==
  ASSUME NEW t \in Seq(Steps), t # <<>>
  PROVE  Rest(t, 1, Tail(t)) /\ Head(t) = t[1] /\ 1 \in DOMAIN t /\ DOMAIN t = 1..Len(t)
<1>1. /\ Len(t) \in Nat \ {0} /\ Head(t) = t[1] /\ Tail(t) \in Seq(Steps)
      /\ Len(Tail(t)) = Len(t) - 1 /\ DOMAIN t = 1..Len(t)
      /\ \A i \in 1..(Len(t) - 1) : Tail(t)[i] = t[i + 1]
  BY HeadTailProperties, LenProperties
<1>2. QED
  BY <1>1 DEF Rest

LEMMA SubSeqRests ==
  ASSUME NEW t \in Seq(Steps), NEW n \in Nat, n <= Len(t)
  PROVE  Rest(t, n, SubSeq(t, n + 1, Len(t)))
<1>1. Len(t) \in Nat /\ DOMAIN t = 1..Len(t) /\ \A i \in 1..Len(t) : t[i] \in Steps
  BY LenProperties, ElementOfSeq
<1> DEFINE m == Len(t)
           u == SubSeq(t, n + 1, m)
<1>2. \A i \in (n + 1)..m : t[i] \in Steps
  BY <1>1
<1> HIDE DEF m
<1>3. m \in Nat
  BY <1>1 DEF m
<1>4. /\ u \in Seq(Steps) /\ Len(u) = IF n + 1 <= m THEN m - (n + 1) + 1 ELSE 0
      /\ \A i \in 1..(m - (n + 1) + 1) : u[i] = t[(n + 1) + i - 1]
  BY <1>2, <1>3, SubSeqProperties
<1> HIDE DEF u
<1>5. Len(u) = m - n
  BY <1>3, <1>4 DEF m
<1>6. \A i \in 1..(m - n) : i \in 1..(m - (n + 1) + 1) /\ (n + 1) + i - 1 = i + n
  BY <1>3
<1>7. Rest(t, n, u)
  BY <1>3, <1>4, <1>5, <1>6 DEF Rest, m
<1>8. QED
  BY <1>7 DEF u, m

LEMMA ConcatJoins ==
  ASSUME NEW c \in Seq(Calls), NEW t \in Seq(Steps)
  PROVE  Joins(c, t, c \o t)
<1>1. c \in Seq(Steps) /\ Len(c) \in Nat /\ Len(t) \in Nat
  BY CallsAreSteps, LenProperties
<1>2. /\ c \o t \in Seq(Steps) /\ Len(c \o t) = Len(c) + Len(t)
      /\ \A i \in 1..(Len(c) + Len(t)) :
           (c \o t)[i] = IF i <= Len(c) THEN c[i] ELSE t[i - Len(c)]
  BY <1>1, ConcatProperties
<1>3. \A i \in 1..Len(t) : i + Len(c) \in 1..(Len(c) + Len(t)) /\ ~(i + Len(c) <= Len(c))
                           /\ (i + Len(c)) - Len(c) = i
  BY <1>1
<1>4. QED
  BY <1>1, <1>2, <1>3 DEF Joins

(* Steps that are calls leave the cleanups entered as they are. *)
LEMMA CallsOpenNothing ==
  ASSUME NEW t \in Seq(Steps), NEW S, Nested(t, S), NEW n \in 0..Len(t),
         \A i \in 1..n : t[i].op \notin {"try", "leave"}
  PROVE  S[n] = S[0]
<1>0. Len(t) \in Nat
  BY LenProperties
<1> DEFINE M == {k \in Nat : k <= n => S[k] = S[0]}
<1>1. 0 \in M
  OBVIOUS
<1>2. ASSUME NEW k \in Nat, k \in M
      PROVE  k + 1 \in M
  <2> SUFFICES ASSUME k + 1 <= n
               PROVE  S[k + 1] = S[0]
    OBVIOUS
  <2>1. k + 1 \in 1..Len(t) /\ k + 1 \in 1..n /\ (k + 1) - 1 = k
    BY <1>0
  <2>2. S[k + 1] = Enter(t[k + 1], S[k])
    BY <2>1 DEF Nested
  <2>3. QED
    BY <1>2, <2>1, <2>2 DEF Enter
<1> HIDE DEF M
<1>3. Nat \subseteq M
  BY <1>1, <1>2, SetInduction
<1>4. QED
  BY <1>0, <1>3 DEF M

-------------------------------------------------------------------------------
(* The order of what is still to run. *)
Planned(t, open) ==
  \E S : Nested(t, S) /\ S[0] = open /\ InOrder(t, S) /\ Awaited(t, S)

LEMMA NothingPlanned ==
  ASSUME NEW open \in Stacks, TidyCleanups(open)
  PROVE  Planned(<<>>, open)
<1> DEFINE S == [i \in 0..0 |-> open]
<1>1. Len(<<>>) = 0 /\ DOMAIN <<>> = {}
  OBVIOUS
<1>2. Nested(<<>>, S) /\ S[0] = open
  BY <1>1 DEF Nested
<1>3. InOrder(<<>>, S) /\ Awaited(<<>>, S)
  BY <1>1 DEF InOrder, Awaited, Tidy
<1>4. QED
  BY <1>2, <1>3, Zenon DEF Planned

LEMMA WaitAheadOfRest ==
  ASSUME NEW t \in Seq(Steps), NEW n, NEW u, Rest(t, n, u), NEW i \in 1..(Len(u) + 1), NEW st,
         WaitAhead(t, i + n, st)
  PROVE  WaitAhead(u, i, st)
<1>1. Len(t) \in Nat /\ n \in Nat /\ Len(u) \in Nat
  BY LenProperties DEF Rest
<1>2. PICK w \in (i + n)..Len(t) :
        /\ Waits(t[w], st)
        /\ \A k \in (i + n)..(w - 1) : t[k].op \notin {"try", "leave"} /\ Ends(t[k]) = {}
  BY DEF WaitAhead
<1>3. w - n \in i..Len(u) /\ u[w - n] = t[w]
  <2>1. w - n \in i..Len(u) /\ (w - n) + n = w
    BY <1>1 DEF Rest
  <2>2. QED
    BY <1>1, <2>1 DEF Rest
<1>4. ASSUME NEW k \in i..((w - n) - 1)
      PROVE  u[k] = t[k + n] /\ k + n \in (i + n)..(w - 1)
  BY <1>1, <1>3 DEF Rest
<1>5. QED
  BY <1>2, <1>3, <1>4 DEF WaitAhead

LEMMA PlannedRest ==
  ASSUME NEW t \in Seq(Steps), NEW S, Nested(t, S), InOrder(t, S), Awaited(t, S),
         NEW n, NEW u, Rest(t, n, u)
  PROVE  Planned(u, S[n])
<1>1. /\ Len(t) \in Nat /\ n \in Nat /\ Len(u) = Len(t) - n /\ Len(u) \in Nat
      /\ DOMAIN t = 1..Len(t) /\ DOMAIN u = 1..Len(u) /\ u \in Seq(Steps)
  BY LenProperties DEF Rest
<1>2. \A i \in DOMAIN u : i + n \in DOMAIN t /\ u[i] = t[i + n]
  BY <1>1 DEF Rest
<1> DEFINE R == [i \in 0..Len(u) |-> S[i + n]]
<1>3. Nested(u, R)
  <2>1. R \in [0..Len(u) -> Stacks]
    BY <1>1 DEF Nested
  <2>2. ASSUME NEW i \in 1..Len(u)
        PROVE  R[i] = Enter(u[i], R[i - 1])
    <3>1. i + n \in 1..Len(t) /\ (i + n) - 1 = (i - 1) + n /\ i - 1 \in 0..Len(u)
      BY <1>1
    <3>2. S[i + n] = Enter(t[i + n], S[(i + n) - 1])
      BY <3>1 DEF Nested
    <3>3. R[i] = S[i + n] /\ R[i - 1] = S[(i - 1) + n] /\ u[i] = t[i + n]
      BY <1>1, <1>2, <3>1
    <3>4. QED
      BY <3>1, <3>2, <3>3
  <2>3. QED
    BY <2>1, <2>2 DEF Nested
<1>4. R[0] = S[n]
  <2>1. 0 \in 0..Len(u) /\ 0 + n = n
    BY <1>1
  <2>2. QED
    BY <2>1
<1>5. InOrder(u, R)
  <2>1. Tidy(u)
    <3>1. ASSUME NEW i \in DOMAIN u, NEW j \in DOMAIN u, i < j
          PROVE  Ends(u[i]) \intersect Touched(u[j]) = {}
      <4>1. i + n < j + n
        BY <1>1, <3>1
      <4>2. QED
        BY <1>2, <4>1 DEF InOrder, Tidy
    <3>2. QED
      BY <3>1 DEF Tidy
  <2>2. \A i \in 0..Len(u) : TidyCleanups(R[i])
    BY <1>1 DEF InOrder
  <2>3. ASSUME NEW i \in DOMAIN u, NEW m \in DOMAIN R[i]
        PROVE  Apart(u[i], R[i][m])
    BY <1>1, <1>2 DEF InOrder
  <2>4. ASSUME NEW i \in DOMAIN u, u[i].op = "leave", R[i - 1] # <<>>,
               NEW j \in (i + 1)..Len(u), NEW s \in StepsOf(Head(R[i - 1]))
        PROVE  Ends(s) \intersect Touched(u[j]) = {}
    <3>1. /\ R[i - 1] = S[(i + n) - 1] /\ u[i] = t[i + n] /\ i + n \in DOMAIN t
          /\ j + n \in ((i + n) + 1)..Len(t) /\ u[j] = t[j + n]
      BY <1>1, <1>2
    <3>2. QED
      BY <2>4, <3>1 DEF InOrder
  <2>5. QED
    BY <2>1, <2>2, <2>3, <2>4 DEF InOrder
<1>6. Awaited(u, R)
  <2> SUFFICES ASSUME NEW i \in DOMAIN u, u[i].op = "call", u[i].effect.do = "push"
               PROVE  LET k == u[i].effect.kernel IN
                      /\ k.uses \subseteq u[i].uses
                      /\ k.uses # {} => u[i].mode # "must"
                      /\ k.uses # {} =>
                           \/ /\ i < Len(u) /\ DrainsOn(u[i + 1], k.stream)
                              /\ Unowned(u[i + 1])
                              /\ u[i + 1].chained => Recorded(u[i])
                           \/ /\ R[i] # <<>> /\ Head(R[i]) # <<>>
                              /\ LET d == Head(Head(R[i])) IN
                                   DrainsOn(d, k.stream) /\ ~d.chained
                                   /\ d.own \in u[i].uses \ {"ctx"}
                              /\ WaitAhead(u, i + 1, k.stream)
    BY DEF Awaited
  <2> DEFINE k == u[i].effect.kernel
  <2>1. u[i] = t[i + n] /\ i + n \in DOMAIN t /\ R[i] = S[i + n]
    BY <1>1, <1>2
  <2>2. /\ k.uses \subseteq t[i + n].uses
        /\ k.uses # {} => t[i + n].mode # "must"
        /\ k.uses # {} =>
             \/ /\ i + n < Len(t) /\ DrainsOn(t[(i + n) + 1], k.stream)
                /\ Unowned(t[(i + n) + 1])
                /\ t[(i + n) + 1].chained => Recorded(t[i + n])
             \/ /\ S[i + n] # <<>> /\ Head(S[i + n]) # <<>>
                /\ LET d == Head(Head(S[i + n])) IN
                     DrainsOn(d, k.stream) /\ ~d.chained
                     /\ d.own \in t[i + n].uses \ {"ctx"}
                /\ WaitAhead(t, (i + n) + 1, k.stream)
    BY <2>1, Zenon DEF Awaited
  <2>3. i + n < Len(t) => i < Len(u) /\ u[i + 1] = t[(i + n) + 1]
    BY <1>1, <1>2
  <2>4. WaitAhead(t, (i + n) + 1, k.stream) => WaitAhead(u, i + 1, k.stream)
    <3>1. (i + n) + 1 = (i + 1) + n /\ i + 1 \in 1..(Len(u) + 1)
      BY <1>1
    <3>2. QED
      BY <3>1, WaitAheadOfRest
  <2> HIDE DEF k
  <2>5. QED
    BY <2>1, <2>2, <2>3, <2>4 DEF k
<1>7. QED
  BY <1>3, <1>4, <1>5, <1>6, Zenon DEF Planned

(* A cleanup that is entered next, with what follows it. *)
LEMMA PlannedCleanup ==
  ASSUME NEW c \in Seq(Calls), \A s \in StepsOf(c) : Optional(s), Tidy(c),
         NEW t \in Seq(Steps), NEW open, Planned(t, open),
         \A s \in StepsOf(c) : Apart(s, t),
         \A s \in StepsOf(c) : \A n \in DOMAIN open : Apart(s, open[n]),
         NEW u, Joins(c, t, u)
  PROVE  Planned(u, open)
<1>1. PICK S : Nested(t, S) /\ S[0] = open /\ InOrder(t, S) /\ Awaited(t, S)
  BY DEF Planned
<1> DEFINE m == Len(c)
           R == [i \in 0..Len(u) |-> IF i <= m THEN open ELSE S[i - m]]
<1>2. /\ m \in Nat /\ Len(t) \in Nat /\ DOMAIN c = 1..m /\ DOMAIN t = 1..Len(t)
      /\ u \in Seq(Steps) /\ Len(u) = m + Len(t) /\ DOMAIN u = 1..(m + Len(t))
  BY LenProperties DEF Joins
<1>3. \A i \in DOMAIN u : i <= m =>
         /\ i \in DOMAIN c /\ u[i] = c[i] /\ u[i] \in StepsOf(c)
         /\ u[i].op = "call" /\ u[i].effect.do \in {"lose", "drain"}
  <2> SUFFICES ASSUME NEW i \in DOMAIN u, i <= m
               PROVE  /\ i \in DOMAIN c /\ u[i] = c[i] /\ u[i] \in StepsOf(c)
                      /\ u[i].op = "call" /\ u[i].effect.do \in {"lose", "drain"}
    OBVIOUS
  <2>1. i \in 1..m
    BY <1>2
  <2>2. i \in DOMAIN c /\ u[i] = c[i] /\ u[i] \in StepsOf(c)
    BY <1>2, <2>1 DEF Joins, StepsOf
  <2>3. Optional(u[i])
    BY <2>2
  <2>4. QED
    BY <2>2, <2>3 DEF Optional
<1>4. \A i \in DOMAIN u : i > m => i - m \in DOMAIN t /\ u[i] = t[i - m] /\ R[i] = S[i - m]
  <2> SUFFICES ASSUME NEW i \in DOMAIN u, i > m
               PROVE  i - m \in DOMAIN t /\ u[i] = t[i - m] /\ R[i] = S[i - m]
    OBVIOUS
  <2>1. i - m \in 1..Len(t) /\ (i - m) + m = i /\ ~(i <= m) /\ i \in 0..Len(u)
    BY <1>2
  <2>2. QED
    BY <1>2, <2>1 DEF Joins
<1> HIDE DEF m
<1>5. open \in Stacks /\ TidyCleanups(open)
  BY <1>1, <1>2 DEF Nested, InOrder
<1>6. \A i \in 1..Len(u) : i > m => R[i - 1] = S[(i - m) - 1]
  <2> SUFFICES ASSUME NEW i \in 1..Len(u), i > m
               PROVE  R[i - 1] = S[(i - m) - 1]
    OBVIOUS
  <2>1. i - 1 \in 0..Len(u) /\ (i - 1) - m = (i - m) - 1
    BY <1>2
  <2>2. CASE i - 1 <= m
    <3>1. (i - m) - 1 = 0
      BY <1>2, <2>2
    <3>2. QED
      BY <1>1, <2>1, <2>2, <3>1
  <2>3. CASE ~(i - 1 <= m)
    BY <2>1, <2>3
  <2>4. QED
    BY <2>2, <2>3
<1>7. Nested(u, R)
  <2>1. R \in [0..Len(u) -> Stacks]
    BY <1>1, <1>2, <1>5 DEF Nested
  <2>2. ASSUME NEW i \in 1..Len(u)
        PROVE  R[i] = Enter(u[i], R[i - 1])
    <3>1. CASE i <= m
      <4>1. u[i].op = "call"
        BY <1>2, <1>3, <3>1
      <4>2. R[i] = open /\ R[i - 1] = open
        BY <1>2, <3>1
      <4>3. QED
        BY <4>1, <4>2 DEF Enter
    <3>2. CASE i > m
      <4>1. i - m \in 1..Len(t) /\ u[i] = t[i - m] /\ R[i] = S[i - m]
        BY <1>2, <1>4, <3>2
      <4>2. QED
        BY <1>1, <1>6, <3>2, <4>1 DEF Nested
    <3>3. QED
      BY <1>2, <3>1, <3>2
  <2>3. QED
    BY <2>1, <2>2 DEF Nested
<1>8. R[0] = open
  BY <1>2
<1>9. InOrder(u, R)
  <2>1. Tidy(u)
    <3> SUFFICES ASSUME NEW i \in DOMAIN u, NEW j \in DOMAIN u, i < j
                 PROVE  Ends(u[i]) \intersect Touched(u[j]) = {}
      BY DEF Tidy
    <3>1. CASE j <= m
      <4>1. i \in DOMAIN c /\ j \in DOMAIN c /\ u[i] = c[i] /\ u[j] = c[j]
        BY <1>2, <1>3, <3>1
      <4>2. QED
        BY <4>1 DEF Tidy
    <3>2. CASE i <= m /\ j > m
      <4>1. u[i] \in StepsOf(c) /\ u[j] \in StepsOf(t)
        BY <1>4, <1>3, <3>2 DEF StepsOf
      <4>2. QED
        BY <4>1 DEF Apart
    <3>3. CASE i > m
      <4>1. j > m /\ i - m < j - m
        BY <1>2, <3>3
      <4>2. QED
        BY <1>1, <1>4, <3>3, <4>1 DEF InOrder, Tidy
    <3>4. QED
      BY <1>2, <3>1, <3>2, <3>3
  <2>2. ASSUME NEW i \in 0..Len(u)
        PROVE  TidyCleanups(R[i])
    <3>1. CASE i <= m
      BY <1>5, <3>1
    <3>2. CASE i > m
      <4>1. i - m \in 0..Len(t) /\ R[i] = S[i - m]
        BY <1>2, <3>2
      <4>2. QED
        BY <1>1, <4>1 DEF InOrder
    <3>3. QED
      BY <1>2, <3>1, <3>2
  <2>3. ASSUME NEW i \in DOMAIN u, NEW n \in DOMAIN R[i]
        PROVE  Apart(u[i], R[i][n])
    <3>1. CASE i <= m
      <4>1. R[i] = open /\ u[i] \in StepsOf(c)
        BY <1>2, <1>3, <3>1
      <4>2. QED
        BY <2>3, <4>1
    <3>2. CASE i > m
      BY <1>1, <1>4, <2>3, <3>2 DEF InOrder
    <3>3. QED
      BY <1>2, <3>1, <3>2
  <2>4. ASSUME NEW i \in DOMAIN u, u[i].op = "leave", R[i - 1] # <<>>,
               NEW j \in (i + 1)..Len(u), NEW s \in StepsOf(Head(R[i - 1]))
        PROVE  Ends(s) \intersect Touched(u[j]) = {}
    <3>1. i > m
      BY <1>2, <1>3, <2>4
    <3>2. /\ R[i - 1] = S[(i - m) - 1] /\ u[i] = t[i - m] /\ i - m \in DOMAIN t
          /\ j - m \in ((i - m) + 1)..Len(t) /\ u[j] = t[j - m]
      <4>1. j \in DOMAIN u /\ j > m /\ j - m \in ((i - m) + 1)..Len(t)
        BY <1>2, <3>1
      <4>2. QED
        BY <1>2, <1>4, <1>6, <3>1, <4>1
    <3>3. QED
      BY <1>1, <2>4, <3>2 DEF InOrder
  <2>5. QED
    BY <2>1, <2>2, <2>3, <2>4 DEF InOrder
<1>10. Awaited(u, R)
  <2> SUFFICES ASSUME NEW i \in DOMAIN u, u[i].op = "call", u[i].effect.do = "push"
               PROVE  LET k == u[i].effect.kernel IN
                      /\ k.uses \subseteq u[i].uses
                      /\ k.uses # {} => u[i].mode # "must"
                      /\ k.uses # {} =>
                           \/ /\ i < Len(u) /\ DrainsOn(u[i + 1], k.stream)
                              /\ Unowned(u[i + 1])
                              /\ u[i + 1].chained => Recorded(u[i])
                           \/ /\ R[i] # <<>> /\ Head(R[i]) # <<>>
                              /\ LET d == Head(Head(R[i])) IN
                                   DrainsOn(d, k.stream) /\ ~d.chained
                                   /\ d.own \in u[i].uses \ {"ctx"}
                              /\ WaitAhead(u, i + 1, k.stream)
    BY DEF Awaited
  <2> DEFINE k == u[i].effect.kernel
  <2>0. i > m
    BY <1>2, <1>3
  <2>1. u[i] = t[i - m] /\ i - m \in DOMAIN t /\ R[i] = S[i - m]
    BY <1>4, <2>0
  <2>2. /\ k.uses \subseteq t[i - m].uses
        /\ k.uses # {} => t[i - m].mode # "must"
        /\ k.uses # {} =>
             \/ /\ i - m < Len(t) /\ DrainsOn(t[(i - m) + 1], k.stream)
                /\ Unowned(t[(i - m) + 1])
                /\ t[(i - m) + 1].chained => Recorded(t[i - m])
             \/ /\ S[i - m] # <<>> /\ Head(S[i - m]) # <<>>
                /\ LET d == Head(Head(S[i - m])) IN
                     DrainsOn(d, k.stream) /\ ~d.chained
                     /\ d.own \in t[i - m].uses \ {"ctx"}
                /\ WaitAhead(t, (i - m) + 1, k.stream)
    BY <1>1, <2>1, Zenon DEF Awaited
  <2>3. i - m < Len(t) => i < Len(u) /\ u[i + 1] = t[(i - m) + 1]
    <3> SUFFICES ASSUME i - m < Len(t)
                 PROVE  i < Len(u) /\ u[i + 1] = t[(i - m) + 1]
      OBVIOUS
    <3>1. i + 1 \in DOMAIN u /\ i + 1 > m /\ (i + 1) - m = (i - m) + 1 /\ i < Len(u)
      BY <1>2, <2>0
    <3>2. QED
      BY <1>4, <3>1
  <2>4. WaitAhead(t, (i - m) + 1, k.stream) => WaitAhead(u, i + 1, k.stream)
    <3> SUFFICES ASSUME NEW st, WaitAhead(t, (i - m) + 1, st)
                 PROVE  WaitAhead(u, i + 1, st)
      OBVIOUS
    <3>1. PICK w \in ((i - m) + 1)..Len(t) :
            /\ Waits(t[w], st)
            /\ \A x \in ((i - m) + 1)..(w - 1) :
                 t[x].op \notin {"try", "leave"} /\ Ends(t[x]) = {}
      BY DEF WaitAhead
    <3>2. w + m \in (i + 1)..Len(u) /\ u[w + m] = t[w]
      <4>1. w + m \in (i + 1)..Len(u) /\ w + m \in DOMAIN u /\ w + m > m /\ (w + m) - m = w
        BY <1>2, <2>0
      <4>2. QED
        BY <1>4, <4>1
    <3>3. ASSUME NEW x \in (i + 1)..((w + m) - 1)
          PROVE  u[x] = t[x - m] /\ x - m \in ((i - m) + 1)..(w - 1)
      <4>1. x \in DOMAIN u /\ x > m /\ x - m \in ((i - m) + 1)..(w - 1)
        BY <1>2, <2>0
      <4>2. QED
        BY <1>4, <4>1
    <3>4. QED
      BY <3>1, <3>2, <3>3 DEF WaitAhead
  <2> HIDE DEF k
  <2>5. QED
    BY <2>1, <2>2, <2>3, <2>4 DEF k
<1>11. QED
  BY <1>7, <1>8, <1>9, <1>10, Zenon DEF Planned

-------------------------------------------------------------------------------
(* The calls still to come, and the discipline as it holds of what is to run *)
(* with the cleanups open entered.                                           *)
ComingOf(t, open) == CallsIn(t) \union UNION {StepsOf(open[n]) : n \in DOMAIN open}
Fit(t, open) ==
  /\ \A n \in DOMAIN open : open[n] \in Cleanups
  /\ SkipsInside(t) /\ MadeFor(ComingOf(t, open)) /\ Planned(t, open)

LEMMA FitTidy ==
  ASSUME NEW t \in Seq(Steps), NEW open, Fit(t, open)
  PROVE  open \in Stacks /\ TidyCleanups(open) /\ Tidy(t)
<1>1. PICK S : Nested(t, S) /\ S[0] = open /\ InOrder(t, S)
  BY DEF Fit, Planned
<1>2. 0 \in 0..Len(t)
  BY LenProperties
<1>3. QED
  BY <1>1, <1>2 DEF Nested, InOrder

LEMMA MadeForFewer ==
  ASSUME NEW C, NEW D, D \subseteq C, MadeFor(C)
  PROVE  MadeFor(D)
  BY DEF MadeFor

LEMMA RestIn ==
  ASSUME NEW t \in Seq(Steps), NEW n, NEW u, Rest(t, n, u)
  PROVE  /\ n \in Nat /\ Len(t) \in Nat /\ Len(u) = Len(t) - n /\ Len(u) \in Nat
         /\ DOMAIN t = 1..Len(t) /\ DOMAIN u = 1..Len(u) /\ u \in Seq(Steps)
         /\ \A i \in DOMAIN u : i + n \in DOMAIN t /\ u[i] = t[i + n]
         /\ StepsOf(u) \subseteq StepsOf(t) /\ CallsIn(u) \subseteq CallsIn(t)
<1>1. /\ n \in Nat /\ Len(t) \in Nat /\ Len(u) = Len(t) - n /\ Len(u) \in Nat
      /\ DOMAIN t = 1..Len(t) /\ DOMAIN u = 1..Len(u) /\ u \in Seq(Steps)
  BY LenProperties DEF Rest
<1>2. \A i \in DOMAIN u : i + n \in DOMAIN t /\ u[i] = t[i + n]
  BY <1>1 DEF Rest
<1>3. StepsOf(u) \subseteq StepsOf(t)
  BY <1>2 DEF StepsOf
<1>4. CallsIn(u) \subseteq CallsIn(t)
  BY <1>3 DEF CallsIn
<1>5. QED
  BY <1>1, <1>2, <1>3, <1>4

LEMMA SkipsOfRest ==
  ASSUME NEW t \in Seq(Steps), SkipsInside(t), NEW n, NEW u, Rest(t, n, u)
  PROVE  SkipsInside(u)
<1> SUFFICES ASSUME NEW i \in DOMAIN u, u[i].op = "call",
                    NEW k \in (i + 1)..(i + u[i].skip)
             PROVE  k \in DOMAIN u /\ Optional(u[k])
  BY DEF SkipsInside
<1>1. /\ n \in Nat /\ Len(t) \in Nat /\ Len(u) = Len(t) - n
      /\ DOMAIN t = 1..Len(t) /\ DOMAIN u = 1..Len(u)
      /\ \A j \in DOMAIN u : j + n \in DOMAIN t /\ u[j] = t[j + n]
  BY RestIn
<1>2. u[i] = t[i + n] /\ i + n \in DOMAIN t /\ t[i + n] \in Steps
  BY <1>1, ElementOfSeq
<1>3. t[i + n].skip \in Nat
  BY <1>2, ProgramsAreWellFormed DEF ProgramsAreWellFormed, Calls
<1>4. k + n \in ((i + n) + 1)..((i + n) + t[i + n].skip)
  BY <1>1, <1>2, <1>3
<1>5. k + n \in DOMAIN t /\ Optional(t[k + n])
  BY <1>2, <1>4 DEF SkipsInside
<1>6. k \in DOMAIN u
  BY <1>1, <1>2, <1>3, <1>5
<1>7. QED
  BY <1>1, <1>5, <1>6

LEMMA FitRest ==
  ASSUME NEW t \in Seq(Steps), NEW open, Fit(t, open), NEW n, NEW u, Rest(t, n, u),
         \A i \in 1..n : t[i].op \notin {"try", "leave"}
  PROVE  Fit(u, open) /\ ComingOf(u, open) \subseteq ComingOf(t, open)
<1>1. CallsIn(u) \subseteq CallsIn(t) /\ n \in 0..Len(t)
  BY RestIn DEF Rest
<1>2. ComingOf(u, open) \subseteq ComingOf(t, open)
  BY <1>1 DEF ComingOf
<1>3. Planned(u, open)
  <2>1. PICK S : Nested(t, S) /\ S[0] = open /\ InOrder(t, S) /\ Awaited(t, S)
    BY DEF Fit, Planned
  <2>2. S[n] = open
    BY <1>1, <2>1, CallsOpenNothing
  <2>3. QED
    BY <2>1, <2>2, PlannedRest
<1>4. QED
  BY <1>2, <1>3, SkipsOfRest, MadeForFewer DEF Fit

LEMMA NothingComes == CallsIn(<<>>) = {} /\ SkipsInside(<<>>)
  BY DEF CallsIn, StepsOf, SkipsInside

LEMMA FitNothing ==
  ASSUME NEW t \in Seq(Steps), NEW open, Fit(t, open)
  PROVE  Fit(<<>>, open) /\ ComingOf(<<>>, open) \subseteq ComingOf(t, open)
<1>1. ComingOf(<<>>, open) \subseteq ComingOf(t, open)
  BY NothingComes DEF ComingOf
<1>2. Planned(<<>>, open)
  BY FitTidy, NothingPlanned
<1>3. QED
  BY <1>1, <1>2, NothingComes, MadeForFewer DEF Fit

(* The stack grows and shrinks at its head. *)
LEMMA Pushed ==
  ASSUME NEW c \in Seq(Calls), NEW open \in Stacks
  PROVE  /\ DOMAIN (<<c>> \o open) = 1..(Len(open) + 1) /\ Len(open) \in Nat
         /\ (<<c>> \o open)[1] = c
         /\ \A n \in 2..(Len(open) + 1) : n - 1 \in DOMAIN open
                                          /\ (<<c>> \o open)[n] = open[n - 1]
<1>1. <<c>> \in Seq(Seq(Calls)) /\ Len(<<c>>) = 1 /\ <<c>>[1] = c
  OBVIOUS
<1>2. /\ Len(open) \in Nat /\ DOMAIN open = 1..Len(open)
      /\ (<<c>> \o open) \in Seq(Seq(Calls)) /\ Len(<<c>> \o open) = 1 + Len(open)
      /\ \A i \in 1..(1 + Len(open)) :
           (<<c>> \o open)[i] = IF i <= 1 THEN <<c>>[i] ELSE open[i - 1]
  BY <1>1, ConcatProperties, LenProperties DEF Stacks
<1>3. DOMAIN (<<c>> \o open) = 1..(Len(open) + 1)
  BY <1>2, LenProperties
<1>4. QED
  BY <1>1, <1>2, <1>3

LEMMA Popped ==
  ASSUME NEW open \in Stacks, open # <<>>
  PROVE  /\ Head(open) = open[1] /\ 1 \in DOMAIN open /\ Head(open) \in Seq(Calls)
         /\ Tail(open) \in Stacks /\ Len(open) \in Nat \ {0} /\ DOMAIN open = 1..Len(open)
         /\ \A n \in DOMAIN Tail(open) : n + 1 \in DOMAIN open /\ Tail(open)[n] = open[n + 1]
<1>1. /\ Len(open) \in Nat \ {0} /\ Head(open) = open[1] /\ Tail(open) \in Stacks
      /\ Len(Tail(open)) = Len(open) - 1 /\ DOMAIN open = 1..Len(open)
      /\ DOMAIN Tail(open) = 1..(Len(open) - 1) /\ Head(open) \in Seq(Calls)
      /\ \A i \in 1..(Len(open) - 1) : Tail(open)[i] = open[i + 1]
  BY HeadTailProperties, LenProperties DEF Stacks
<1>2. QED
  BY <1>1

LEMMA FitTry ==
  ASSUME NEW t \in Seq(Steps), NEW open, Fit(t, open), t # <<>>, Head(t).op = "try"
  PROVE  /\ Fit(Tail(t), <<Head(t).cleanup>> \o open)
         /\ ComingOf(Tail(t), <<Head(t).cleanup>> \o open) \subseteq ComingOf(t, open)
<1> DEFINE c == Head(t).cleanup
           v == <<c>> \o open
<1>1. Rest(t, 1, Tail(t)) /\ Head(t) = t[1] /\ 1 \in DOMAIN t /\ DOMAIN t = 1..Len(t)
  BY TailRests
<1>2. open \in Stacks /\ Head(t) \in Steps
  BY <1>1, FitTidy, ElementOfSeq
<1>3. c \in Cleanups /\ c \in Seq(Calls) /\ StepsOf(c) \subseteq Calls
  BY <1>2, TryCleanups, CleanupsAreCalls
<1>4. \A n \in DOMAIN v : v[n] = c \/ \E k \in DOMAIN open : v[n] = open[k]
  <2> HIDE DEF c
  <2>1. QED
    BY <1>2, <1>3, Pushed
<1>5. StepsOf(c) \subseteq CallsIn(t)
  BY <1>1 DEF CallsIn, StepsOf
<1> HIDE DEF c
<1>6. ComingOf(Tail(t), v) \subseteq ComingOf(t, open)
  <2>1. CallsIn(Tail(t)) \subseteq CallsIn(t)
    BY <1>1, RestIn
  <2> HIDE DEF v
  <2>2. QED
    BY <1>4, <1>5, <2>1 DEF ComingOf
<1>7. Planned(Tail(t), v)
  <2>1. PICK S : Nested(t, S) /\ S[0] = open /\ InOrder(t, S) /\ Awaited(t, S)
    BY DEF Fit, Planned
  <2>2. S[1] = v
    <3>1. 1 \in 1..Len(t) /\ 1 - 1 = 0
      BY <1>1
    <3>2. S[1] = Enter(t[1], S[0])
      BY <2>1, <3>1 DEF Nested
    <3>3. QED
      BY <1>1, <2>1, <3>2 DEF Enter, c
  <2>3. QED
    BY <1>1, <2>1, <2>2, PlannedRest
<1>8. \A n \in DOMAIN v : v[n] \in Cleanups
  BY <1>3, <1>4 DEF Fit
<1>9. Fit(Tail(t), v)
  <2>1. SkipsInside(Tail(t))
    BY <1>1, SkipsOfRest DEF Fit
  <2>2. MadeFor(ComingOf(Tail(t), v))
    BY <1>6, MadeForFewer DEF Fit
  <2> HIDE DEF v
  <2>3. QED
    BY <1>7, <1>8, <2>1, <2>2 DEF Fit
<1>10. QED
  BY <1>6, <1>9 DEF c

LEMMA JoinsIn ==
  ASSUME NEW c \in Seq(Calls), NEW t \in Seq(Steps), NEW u, Joins(c, t, u)
  PROVE  /\ Len(c) \in Nat /\ Len(t) \in Nat /\ DOMAIN c = 1..Len(c) /\ DOMAIN t = 1..Len(t)
         /\ DOMAIN u = 1..(Len(c) + Len(t)) /\ u \in Seq(Steps)
         /\ \A i \in DOMAIN u : \/ i \in DOMAIN c /\ u[i] = c[i] /\ c[i] \in Calls
                                \/ i - Len(c) \in DOMAIN t /\ u[i] = t[i - Len(c)]
         /\ StepsOf(u) \subseteq StepsOf(c) \union StepsOf(t)
         /\ CallsIn(u) \subseteq StepsOf(c) \union CallsIn(t)
<1>1. /\ Len(c) \in Nat /\ Len(t) \in Nat /\ DOMAIN c = 1..Len(c) /\ DOMAIN t = 1..Len(t)
      /\ DOMAIN u = 1..(Len(c) + Len(t)) /\ u \in Seq(Steps)
      /\ \A i \in DOMAIN c : c[i] \in Calls
  BY LenProperties, ElementOfSeq DEF Joins
<1>2. ASSUME NEW i \in DOMAIN u
      PROVE  \/ i \in DOMAIN c /\ u[i] = c[i] /\ c[i] \in Calls
             \/ i - Len(c) \in DOMAIN t /\ u[i] = t[i - Len(c)]
  <2>1. CASE i <= Len(c)
    <3>1. i \in DOMAIN c
      BY <1>1, <2>1
    <3>2. QED
      BY <1>1, <3>1 DEF Joins
  <2>2. CASE ~(i <= Len(c))
    <3>1. i - Len(c) \in 1..Len(t) /\ (i - Len(c)) + Len(c) = i
      BY <1>1, <2>2
    <3>2. QED
      BY <1>1, <3>1 DEF Joins
  <2>3. QED
    BY <2>1, <2>2
<1>3. StepsOf(u) \subseteq StepsOf(c) \union StepsOf(t)
  BY <1>2 DEF StepsOf
<1>4. CallsIn(u) \subseteq StepsOf(c) \union CallsIn(t)
  <2>1. \A s \in StepsOf(c) : s.op = "call"
    BY <1>1 DEF StepsOf, Calls
  <2>2. QED
    BY <1>3, <2>1 DEF CallsIn
<1>5. QED
  BY <1>1, <1>2, <1>3, <1>4

LEMMA CleanupsFit ==
  ASSUME NEW c \in Cleanups
  PROVE  SkipsInside(c) /\ \A s \in StepsOf(c) : Optional(s)
  BY ProgramsUseWhatExists DEF ProgramsUseWhatExists

LEMMA SkipsOfCleanup ==
  ASSUME NEW c \in Cleanups, NEW t \in Seq(Steps), SkipsInside(t), NEW u, Joins(c, t, u)
  PROVE  SkipsInside(u)
<1> SUFFICES ASSUME NEW i \in DOMAIN u, u[i].op = "call",
                    NEW k \in (i + 1)..(i + u[i].skip)
             PROVE  k \in DOMAIN u /\ Optional(u[k])
  BY DEF SkipsInside
<1>0. c \in Seq(Calls)
  BY CleanupsAreCalls
<1>1. /\ Len(c) \in Nat /\ Len(t) \in Nat /\ DOMAIN c = 1..Len(c) /\ DOMAIN t = 1..Len(t)
      /\ DOMAIN u = 1..(Len(c) + Len(t)) /\ u \in Seq(Steps)
  BY <1>0, JoinsIn
<1>2. u[i].skip \in Nat
  BY <1>1, ElementOfSeq, ProgramsAreWellFormed DEF ProgramsAreWellFormed, Calls
<1>3. CASE i \in DOMAIN c /\ u[i] = c[i]
  <2>1. SkipsInside(c)
    BY CleanupsFit
  <2>2. k \in DOMAIN c /\ Optional(c[k])
    BY <1>3, <2>1, Zenon DEF SkipsInside
  <2>3. k \in DOMAIN u /\ u[k] = c[k]
    BY <1>1, <2>2 DEF Joins
  <2>4. QED
    BY <2>2, <2>3
<1>4. CASE i - Len(c) \in DOMAIN t /\ u[i] = t[i - Len(c)]
  <2>1. k - Len(c) \in ((i - Len(c)) + 1)..((i - Len(c)) + t[i - Len(c)].skip)
    BY <1>1, <1>2, <1>4
  <2>2. k - Len(c) \in DOMAIN t /\ Optional(t[k - Len(c)])
    BY <1>4, <2>1 DEF SkipsInside
  <2>3. k \in DOMAIN u /\ (k - Len(c)) + Len(c) = k
    BY <1>1, <1>2, <1>4, <2>2
  <2>4. u[k] = t[k - Len(c)]
    BY <1>1, <2>2, <2>3 DEF Joins
  <2>5. QED
    BY <2>2, <2>3, <2>4
<1>5. QED
  BY <1>0, <1>3, <1>4, JoinsIn

(* A cleanup is entered: when its block is left, and while unwinding.        *)
LEMMA FitEntered ==
  ASSUME NEW open \in Stacks, open # <<>>, NEW t \in Seq(Steps), NEW past, Fit(past, open),
         past \in Seq(Steps), SkipsInside(t), CallsIn(t) \subseteq CallsIn(past),
         Planned(t, Tail(open)), \A s \in StepsOf(Head(open)) : Apart(s, t),
         NEW u, Joins(Head(open), t, u)
  PROVE  Fit(u, Tail(open)) /\ ComingOf(u, Tail(open)) \subseteq ComingOf(past, open)
<1> DEFINE c == Head(open)
           rest == Tail(open)
<1>1. /\ c = open[1] /\ 1 \in DOMAIN open /\ c \in Seq(Calls) /\ DOMAIN open = 1..Len(open)
      /\ Len(open) \in Nat
      /\ \A n \in DOMAIN rest : n + 1 \in DOMAIN open /\ rest[n] = open[n + 1]
  BY Popped
<1> HIDE DEF c, rest
<1>2. c \in Cleanups /\ TidyCleanups(open)
  BY <1>1, FitTidy DEF Fit
<1>3. SkipsInside(u)
  BY <1>2, SkipsOfCleanup DEF c
<1>4. ComingOf(u, rest) \subseteq ComingOf(past, open)
  <2>1. CallsIn(u) \subseteq StepsOf(c) \union CallsIn(t)
    BY <1>1, JoinsIn DEF c
  <2>2. QED
    BY <1>1, <2>1 DEF ComingOf
<1>5. Planned(u, rest)
  <2>1. \A s \in StepsOf(c) : Optional(s)
    BY <1>2, CleanupsFit
  <2>2. Tidy(c)
    BY <1>1, <1>2 DEF TidyCleanups
  <2>3. ASSUME NEW s \in StepsOf(c), NEW n \in DOMAIN rest
        PROVE  Apart(s, rest[n])
    <3>1. n + 1 \in DOMAIN open /\ 1 < n + 1 /\ rest[n] = open[n + 1]
      BY <1>1
    <3>2. QED
      BY <1>1, <1>2, <3>1 DEF TidyCleanups
  <2>4. QED
    BY <1>1, <2>1, <2>2, <2>3, PlannedCleanup DEF c, rest
<1>6. \A n \in DOMAIN rest : rest[n] \in Cleanups
  BY <1>1 DEF Fit
<1>7. MadeFor(ComingOf(u, rest))
  BY <1>4, MadeForFewer DEF Fit
<1>8. Fit(u, rest)
  BY <1>3, <1>5, <1>6, <1>7 DEF Fit
<1>9. QED
  BY <1>4, <1>8 DEF rest

LEMMA FitLeave ==
  ASSUME NEW t \in Seq(Steps), NEW open, Fit(t, open), t # <<>>, Head(t).op = "leave",
         open # <<>>
  PROVE  LET u == Head(open) \o Tail(t)
         IN  Fit(u, Tail(open)) /\ ComingOf(u, Tail(open)) \subseteq ComingOf(t, open)
<1>1. Rest(t, 1, Tail(t)) /\ Head(t) = t[1] /\ 1 \in DOMAIN t /\ DOMAIN t = 1..Len(t)
  BY TailRests
<1>2. /\ open \in Stacks /\ Len(t) \in Nat /\ Tail(t) \in Seq(Steps)
      /\ \A i \in DOMAIN Tail(t) : i + 1 \in DOMAIN t /\ Tail(t)[i] = t[i + 1]
      /\ DOMAIN Tail(t) = 1..Len(Tail(t)) /\ Len(Tail(t)) = Len(t) - 1
      /\ CallsIn(Tail(t)) \subseteq CallsIn(t)
  BY <1>1, FitTidy, RestIn
<1>3. Head(open) \in Seq(Calls)
  BY <1>2, Popped
<1>4. PICK S : Nested(t, S) /\ S[0] = open /\ InOrder(t, S) /\ Awaited(t, S)
  BY DEF Fit, Planned
<1>5. S[1] = Tail(open)
  <2>1. 1 \in 1..Len(t) /\ 1 - 1 = 0
    BY <1>1
  <2>2. S[1] = Enter(t[1], S[0])
    BY <1>4, <2>1 DEF Nested
  <2>3. QED
    BY <1>1, <1>4, <2>2 DEF Enter
<1>6. Planned(Tail(t), Tail(open))
  BY <1>1, <1>4, <1>5, PlannedRest
<1>7. ASSUME NEW s \in StepsOf(Head(open))
      PROVE  Apart(s, Tail(t))
  <2> SUFFICES ASSUME NEW i \in DOMAIN Tail(t)
               PROVE  Ends(s) \intersect Touched(Tail(t)[i]) = {}
    BY DEF Apart, StepsOf
  <2>1. i + 1 \in (1 + 1)..Len(t) /\ Tail(t)[i] = t[i + 1] /\ 1 - 1 = 0
    BY <1>2
  <2>2. QED
    BY <1>1, <1>4, <2>1 DEF InOrder
<1>8. Joins(Head(open), Tail(t), Head(open) \o Tail(t))
  BY <1>2, <1>3, ConcatJoins
<1>9. SkipsInside(Tail(t))
  BY <1>1, SkipsOfRest DEF Fit
<1>10. QED
  BY <1>2, <1>6, <1>7, <1>8, <1>9, FitEntered

LEMMA FitUnwound ==
  ASSUME NEW open, Fit(<<>>, open), open # <<>>
  PROVE  /\ Fit(Head(open), Tail(open))
         /\ ComingOf(Head(open), Tail(open)) \subseteq ComingOf(<<>>, open)
<1>1. <<>> \in Seq(Steps)
  BY EmptyIsShaped
<1>2. open \in Stacks /\ TidyCleanups(open)
  BY <1>1, FitTidy
<1>3. /\ Head(open) \in Seq(Calls) /\ Tail(open) \in Stacks
      /\ Len(open) \in Nat \ {0} /\ DOMAIN open = 1..Len(open)
      /\ \A n \in DOMAIN Tail(open) : n + 1 \in DOMAIN open /\ Tail(open)[n] = open[n + 1]
  BY <1>2, Popped
<1>4. TidyCleanups(Tail(open))
  <2> DEFINE rest == Tail(open)
  <2>1. /\ DOMAIN rest \subseteq Nat
        /\ \A n \in DOMAIN rest : n + 1 \in DOMAIN open /\ rest[n] = open[n + 1]
    BY <1>3, LenProperties DEF Stacks
  <2> HIDE DEF rest
  <2>2. \A n \in DOMAIN rest : Tidy(rest[n])
    BY <1>2, <2>1 DEF TidyCleanups
  <2>3. ASSUME NEW n \in DOMAIN rest, NEW m \in DOMAIN rest, n < m, NEW s \in StepsOf(rest[n])
        PROVE  Apart(s, rest[m])
    <3>1. n + 1 < m + 1
      BY <2>1, <2>3
    <3>2. QED
      BY <1>2, <2>1, <2>3, <3>1 DEF TidyCleanups
  <2>4. TidyCleanups(rest)
    BY <2>2, <2>3 DEF TidyCleanups
  <2>5. QED
    BY <2>4 DEF rest
<1>5. Planned(<<>>, Tail(open))
  BY <1>3, <1>4, NothingPlanned
<1>6. \A s \in StepsOf(Head(open)) : Apart(s, <<>>)
  BY DEF Apart, StepsOf
<1>7. Joins(Head(open), <<>>, Head(open))
  BY <1>3, CallsAreSteps DEF Joins
<1>8. QED
  BY <1>1, <1>2, <1>5, <1>6, <1>7, NothingComes, FitEntered

(* What the next call releases is not used by any call that comes after it.  *)
LEMMA EndsForGood ==
  ASSUME NEW t \in Seq(Steps), NEW open, Fit(t, open), t # <<>>, Head(t).op = "call",
         NEW s \in ComingOf(Tail(t), open)
  PROVE  Ends(Head(t)) \intersect s.uses = {}
<1>1. Rest(t, 1, Tail(t)) /\ Head(t) = t[1] /\ 1 \in DOMAIN t /\ DOMAIN t = 1..Len(t)
  BY TailRests
<1>2. /\ \A i \in DOMAIN Tail(t) : i + 1 \in DOMAIN t /\ Tail(t)[i] = t[i + 1]
      /\ DOMAIN Tail(t) = 1..Len(Tail(t)) /\ Len(Tail(t)) \in Nat
  BY <1>1, RestIn
<1>3. PICK S : Nested(t, S) /\ S[0] = open /\ InOrder(t, S)
  BY DEF Fit, Planned
<1>4. CASE \E i \in DOMAIN Tail(t) : s.uses \subseteq Touched(Tail(t)[i])
  <2>1. PICK i \in DOMAIN Tail(t) : s.uses \subseteq Touched(Tail(t)[i])
    BY <1>4
  <2>2. 1 < i + 1 /\ i + 1 \in DOMAIN t
    BY <1>2
  <2>3. Ends(t[1]) \intersect Touched(t[i + 1]) = {}
    BY <1>1, <1>3, <2>2 DEF InOrder, Tidy
  <2>4. QED
    BY <1>1, <1>2, <2>1, <2>3
<1>5. CASE \E n \in DOMAIN open : s \in StepsOf(open[n])
  <2>1. PICK n \in DOMAIN open : s \in StepsOf(open[n])
    BY <1>5
  <2>2. S[1] = open
    <3>1. 1 \in 1..Len(t) /\ 1 - 1 = 0
      BY <1>1
    <3>2. S[1] = Enter(t[1], S[0])
      BY <1>3, <3>1 DEF Nested
    <3>3. QED
      BY <1>1, <1>3, <3>2 DEF Enter
  <2>3. Apart(t[1], open[n])
    BY <1>1, <1>3, <2>2 DEF InOrder
  <2>4. Touched(s) = s.uses
    <3>1. StepsOf(open[n]) \subseteq Calls
      BY CleanupsAreCalls DEF Fit
    <3>2. QED
      BY <2>1, <3>1 DEF Touched, Calls
  <2>5. QED
    BY <1>1, <2>1, <2>3, <2>4 DEF Apart
<1>6. CASE s \in CallsIn(Tail(t))
  <2>1. CASE s \in StepsOf(Tail(t)) /\ s.op = "call"
    BY <1>4, <2>1 DEF StepsOf, Touched
  <2>2. ASSUME NEW x \in StepsOf(Tail(t)), x.op = "try", s \in StepsOf(x.cleanup)
        PROVE  Ends(Head(t)) \intersect s.uses = {}
    <3>1. s.uses \subseteq Touched(x)
      BY <2>2 DEF Touched
    <3>2. QED
      BY <1>4, <3>1 DEF StepsOf
  <2>3. QED
    BY <1>6, <2>1, <2>2 DEF CallsIn
<1>7. QED
  BY <1>5, <1>6 DEF ComingOf

-------------------------------------------------------------------------------
(* Whatever a call of t uses exists already or is made before it, unless the *)
(* call is not made.                                                         *)
StockedFor(t, L, go) ==
  \A i \in DOMAIN t : t[i].op = "call" /\ Unowned(t[i]) =>
    \A r \in t[i].uses :
      \/ r \in L
      \/ \E g \in 1..(i - 1) : Makes(t, g, i, r)
      \/ go = FALSE /\ Hangs(t, 0, i)

LEMMA NothingToStock == \A L, go : StockedFor(<<>>, L, go)
<1>1. DOMAIN <<>> = {}
  OBVIOUS
<1>2. QED
  BY <1>1 DEF StockedFor

(* The steps up to n are behind; those from 2 to n were left out.            *)
LEMMA HangsOfRest ==
  ASSUME NEW t \in Seq(Steps), NEW n, NEW u, Rest(t, n, u), NEW i \in DOMAIN u,
         NEW g \in Nat, g <= n, Hangs(t, g, i + n),
         \A k \in (g + 1)..n : t[k].op # "return"
  PROVE  Hangs(u, 0, i)
<1>1. /\ n \in Nat /\ Len(t) \in Nat /\ Len(u) = Len(t) - n
      /\ DOMAIN t = 1..Len(t) /\ DOMAIN u = 1..Len(u)
      /\ \A j \in DOMAIN u : j + n \in DOMAIN t /\ u[j] = t[j + n]
  BY RestIn
<1>2. PICK e \in (g + 1)..(i + n) :
        /\ (e = i + n /\ t[e].op = "call" /\ t[e].chained) \/ t[e].op = "return"
        /\ \A k \in (g + 1)..(e - 1) : t[k].op = "call" /\ Recorded(t[k]) => t[k].chained
  BY DEF Hangs
<1>3. e > n
  BY <1>1, <1>2
<1>4. /\ e - n \in (0 + 1)..i /\ e - n \in DOMAIN u /\ (e - n) + n = e
      /\ (e = i + n => e - n = i)
  BY <1>1, <1>2, <1>3
<1>5. u[e - n] = t[e]
  BY <1>1, <1>4
<1>6. ASSUME NEW k \in (0 + 1)..((e - n) - 1), u[k].op = "call", Recorded(u[k])
      PROVE  u[k].chained
  <2>1. k \in DOMAIN u /\ k + n \in (g + 1)..(e - 1)
    BY <1>1, <1>2, <1>4
  <2>2. u[k] = t[k + n]
    BY <1>1, <2>1
  <2>3. QED
    BY <1>2, <1>6, <2>1, <2>2
<1>7. (e - n = i /\ u[e - n].op = "call" /\ u[e - n].chained) \/ u[e - n].op = "return"
  BY <1>2, <1>4, <1>5
<1>8. QED
  BY <1>4, <1>6, <1>7 DEF Hangs

LEMMA HangsShift ==
  ASSUME NEW t \in Seq(Steps), NEW n, NEW u, Rest(t, n, u), NEW i \in DOMAIN u,
         NEW g \in Nat, g > n, Hangs(t, g, i + n)
  PROVE  Hangs(u, g - n, i)
<1>1. /\ n \in Nat /\ Len(t) \in Nat /\ Len(u) = Len(t) - n
      /\ DOMAIN t = 1..Len(t) /\ DOMAIN u = 1..Len(u)
      /\ \A j \in DOMAIN u : j + n \in DOMAIN t /\ u[j] = t[j + n]
  BY RestIn
<1>2. PICK e \in (g + 1)..(i + n) :
        /\ (e = i + n /\ t[e].op = "call" /\ t[e].chained) \/ t[e].op = "return"
        /\ \A k \in (g + 1)..(e - 1) : t[k].op = "call" /\ Recorded(t[k]) => t[k].chained
  BY DEF Hangs
<1>3. /\ e - n \in ((g - n) + 1)..i /\ e - n \in DOMAIN u /\ (e - n) + n = e
      /\ (e = i + n => e - n = i)
  BY <1>1, <1>2
<1>4. u[e - n] = t[e]
  BY <1>1, <1>3
<1>5. ASSUME NEW k \in ((g - n) + 1)..((e - n) - 1), u[k].op = "call", Recorded(u[k])
      PROVE  u[k].chained
  <2>1. k \in DOMAIN u /\ k + n \in (g + 1)..(e - 1)
    BY <1>1, <1>2, <1>3
  <2>2. u[k] = t[k + n]
    BY <1>1, <2>1
  <2>3. QED
    BY <1>2, <1>5, <2>1, <2>2
<1>6. (e - n = i /\ u[e - n].op = "call" /\ u[e - n].chained) \/ u[e - n].op = "return"
  BY <1>2, <1>3, <1>4
<1>7. QED
  BY <1>3, <1>5, <1>6 DEF Hangs

(* What the first step of t must have done so that the rest can go on: L and *)
(* go are before it, M and on after it.                                      *)
Served(s, L, go, M, on) ==
  /\ L \ Ends(s) \subseteq M
  /\ \A r : (Does(s, "gain", r) \/ Does(s, "adopt", r)) /\ Unowned(s) =>
       /\ s.mode \in {"ck", "torch"} /\ ~s.chained => r \in M
       /\ Recorded(s) => r \in M \/ on = FALSE
  /\ go = FALSE /\ on # FALSE => s.op = "call" /\ Recorded(s) /\ ~s.chained
  /\ s.op = "return" => go # FALSE

LEMMA StockedAfter ==
  ASSUME NEW t \in Seq(Steps), t # <<>>, Tidy(t), NEW n \in Nat \ {0}, NEW u, Rest(t, n, u),
         \A k \in 2..n : Optional(t[k]),
         NEW L, NEW go, NEW M, NEW on, StockedFor(t, L, go), Served(Head(t), L, go, M, on)
  PROVE  StockedFor(u, M, on)
<1>1. /\ Len(t) \in Nat /\ Len(u) = Len(t) - n /\ Head(t) = t[1]
      /\ DOMAIN t = 1..Len(t) /\ DOMAIN u = 1..Len(u) /\ 1 \in DOMAIN t
      /\ \A j \in DOMAIN u : j + n \in DOMAIN t /\ u[j] = t[j + n]
  BY RestIn, TailRests
<1>2. \A k \in 2..n : ~Unowned(t[k]) /\ t[k].op = "call"
  BY DEF Optional
<1> SUFFICES ASSUME NEW i \in DOMAIN u, u[i].op = "call", Unowned(u[i]), NEW r, r \in u[i].uses
             PROVE  \/ r \in M
                    \/ \E g \in 1..(i - 1) : Makes(u, g, i, r)
                    \/ on = FALSE /\ Hangs(u, 0, i)
  BY DEF StockedFor
<1>3. n \in Nat /\ n >= 1 /\ i \in Nat /\ i >= 1 /\ i \in 1..Len(u) /\ Len(u) \in Int
  BY <1>1
<1>4. i + n \in DOMAIN t /\ u[i] = t[i + n] /\ 1 < i + n
  <2>1. 1 < i + n
    BY <1>3
  <2>2. QED
    BY <1>1, <2>1
<1>5. \/ r \in L
      \/ \E g \in 1..((i + n) - 1) : Makes(t, g, i + n, r)
      \/ go = FALSE /\ Hangs(t, 0, i + n)
  BY <1>4 DEF StockedFor
<1>6. CASE r \in L
  <2>1. Ends(t[1]) \intersect Touched(t[i + n]) = {}
    BY <1>1, <1>4 DEF Tidy
  <2>2. r \in Touched(t[i + n])
    BY <1>4 DEF Touched
  <2>3. QED
    BY <1>1, <1>6, <2>1, <2>2 DEF Served
<1>7. ASSUME NEW g \in 1..((i + n) - 1), Makes(t, g, i + n, r)
      PROVE  \/ r \in M
             \/ \E h \in 1..(i - 1) : Makes(u, h, i, r)
             \/ on = FALSE /\ Hangs(u, 0, i)
  <2>1. CASE g = 1
    <3>1. /\ (Does(t[1], "gain", r) \/ Does(t[1], "adopt", r)) /\ Unowned(t[1])
          /\ \/ t[1].mode \in {"ck", "torch"} /\ ~t[1].chained
             \/ Recorded(t[1]) /\ Hangs(t, 1, i + n)
      BY <1>7, <2>1 DEF Makes
    <3>2. CASE t[1].mode \in {"ck", "torch"} /\ ~t[1].chained
      BY <1>1, <3>1, <3>2 DEF Served
    <3>3. CASE Recorded(t[1]) /\ Hangs(t, 1, i + n)
      <4>1. r \in M \/ on = FALSE
        BY <1>1, <3>1, <3>3 DEF Served
      <4>2. \A k \in (1 + 1)..n : t[k].op # "return"
        <5>1. 1 + 1 = 2
          OBVIOUS
        <5>2. QED
          BY <1>2, <5>1
      <4>3. Hangs(u, 0, i)
        <5>1. 1 \in Nat /\ 1 <= n
          BY <1>3
        <5>2. QED
          BY <3>3, <4>2, <5>1, HangsOfRest
      <4>4. QED
        BY <4>1, <4>3
    <3>4. QED
      BY <3>1, <3>2, <3>3
  <2>2. CASE g \in 2..n
    BY <1>2, <1>7, <2>2 DEF Makes
  <2>3. CASE g > n
    <3>1. g - n \in 1..(i - 1) /\ g - n \in DOMAIN u /\ (g - n) + n = g /\ g \in Nat
      <4>1. g - n \in 1..(i - 1) /\ (g - n) + n = g /\ g \in Nat
        BY <1>3, <2>3
      <4>2. g - n \in 1..Len(u)
        BY <1>3, <4>1
      <4>3. QED
        BY <1>1, <4>1, <4>2
    <3>2. u[g - n] = t[g]
      BY <1>1, <3>1
    <3>3. Hangs(t, g, i + n) => Hangs(u, g - n, i)
      BY <2>3, <3>1, HangsShift
    <3>4. Makes(u, g - n, i, r)
      BY <1>7, <3>2, <3>3 DEF Makes
    <3>5. QED
      BY <3>1, <3>4
  <2>4. g = 1 \/ g \in 2..n \/ g > n
    BY <1>3
  <2>5. QED
    BY <2>1, <2>2, <2>3, <2>4
<1>8. ASSUME go = FALSE, Hangs(t, 0, i + n)
      PROVE  on = FALSE /\ Hangs(u, 0, i)
  <2>1. \A k \in (0 + 1)..n : t[k].op # "return"
    <3>1. t[1].op # "return"
      BY <1>1, <1>8 DEF Served
    <3>2. \A k \in (0 + 1)..n : k = 1 \/ k \in 2..n
      BY <1>3
    <3>3. QED
      BY <1>2, <3>1, <3>2
  <2>2. Hangs(u, 0, i)
    <3>1. 0 \in Nat /\ 0 <= n
      BY <1>3
    <3>2. QED
      BY <1>8, <2>1, <3>1, HangsOfRest
  <2>3. PICK e \in (0 + 1)..(i + n) :
          /\ (e = i + n /\ t[e].op = "call" /\ t[e].chained) \/ t[e].op = "return"
          /\ \A k \in (0 + 1)..(e - 1) : t[k].op = "call" /\ Recorded(t[k]) => t[k].chained
    BY <1>8 DEF Hangs
  <2>4. 1 \in (0 + 1)..(e - 1)
    <3>1. t[1].op # "return"
      BY <1>1, <1>8 DEF Served
    <3>2. e # 1
      BY <1>4, <2>3, <3>1
    <3>3. e \in Int /\ e >= 1
      BY <1>3
    <3>4. QED
      BY <3>2, <3>3
  <2>5. on = FALSE
    BY <1>1, <1>8, <2>3, <2>4 DEF Served
  <2>6. QED
    BY <2>2, <2>5
<1>9. QED
  BY <1>5, <1>6, <1>7, <1>8

(* A cleanup in front changes nothing: its steps are not recorded.           *)
LEMMA HangsBehind ==
  ASSUME NEW c \in Cleanups, NEW t \in Seq(Steps), NEW u, Joins(c, t, u),
         NEW i \in DOMAIN t, NEW g \in Nat, Hangs(t, g, i),
         NEW h \in Nat, h = g + Len(c) \/ (h = 0 /\ g = 0)
  PROVE  Hangs(u, h, i + Len(c))
<1>0. c \in Seq(Calls) /\ \A s \in StepsOf(c) : Optional(s)
  BY CleanupsAreCalls, CleanupsFit
<1>1. /\ Len(c) \in Nat /\ Len(t) \in Nat /\ DOMAIN c = 1..Len(c) /\ DOMAIN t = 1..Len(t)
      /\ \A j \in DOMAIN t : u[j + Len(c)] = t[j]
      /\ \A j \in DOMAIN c : u[j] = c[j]
  BY <1>0, JoinsIn DEF Joins
<1>2. PICK e \in (g + 1)..i :
        /\ (e = i /\ t[e].op = "call" /\ t[e].chained) \/ t[e].op = "return"
        /\ \A k \in (g + 1)..(e - 1) : t[k].op = "call" /\ Recorded(t[k]) => t[k].chained
  BY DEF Hangs
<1> DEFINE m == Len(c)
<1>3. e + m \in (h + 1)..(i + m) /\ e \in DOMAIN t /\ u[e + m] = t[e]
  BY <1>1, <1>2
<1>4. ASSUME NEW k \in (h + 1)..((e + m) - 1), u[k].op = "call", Recorded(u[k])
      PROVE  u[k].chained
  <2>1. CASE k <= m
    <3>1. k \in DOMAIN c /\ u[k] = c[k] /\ c[k] \in StepsOf(c)
      BY <1>1, <2>1 DEF StepsOf
    <3>2. Optional(u[k])
      BY <1>0, <3>1
    <3>3. QED
      BY <1>4, <3>2 DEF Optional, Recorded
  <2>2. CASE k > m
    <3>1. k - m \in (g + 1)..(e - 1) /\ k - m \in DOMAIN t /\ (k - m) + m = k
      BY <1>1, <1>2, <2>2
    <3>2. u[k] = t[k - m]
      BY <1>1, <3>1
    <3>3. QED
      BY <1>2, <1>4, <3>1, <3>2
  <2>3. QED
    BY <1>1, <2>1, <2>2
<1>5. (e + m = i + m /\ u[e + m].op = "call" /\ u[e + m].chained) \/ u[e + m].op = "return"
  BY <1>2, <1>3
<1>6. QED
  BY <1>3, <1>4, <1>5 DEF Hangs

LEMMA StockedBehind ==
  ASSUME NEW c \in Cleanups, NEW t \in Seq(Steps), NEW u, Joins(c, t, u),
         NEW L, NEW go, StockedFor(t, L, go)
  PROVE  StockedFor(u, L, go)
<1>0. c \in Seq(Calls) /\ \A s \in StepsOf(c) : Optional(s)
  BY CleanupsAreCalls, CleanupsFit
<1>1. /\ Len(c) \in Nat /\ DOMAIN t = 1..Len(t) /\ Len(t) \in Nat
      /\ \A j \in DOMAIN t : u[j + Len(c)] = t[j]
      /\ \A i \in DOMAIN u : \/ i \in DOMAIN c /\ u[i] = c[i]
                             \/ i - Len(c) \in DOMAIN t /\ u[i] = t[i - Len(c)]
      /\ DOMAIN u = 1..(Len(c) + Len(t))
  <2>1. ASSUME NEW i \in DOMAIN u
        PROVE  \/ i \in DOMAIN c /\ u[i] = c[i] /\ c[i] \in Calls
               \/ i - Len(c) \in DOMAIN t /\ u[i] = t[i - Len(c)]
    BY <1>0, JoinsIn
  <2>2. /\ Len(c) \in Nat /\ DOMAIN t = 1..Len(t) /\ Len(t) \in Nat
        /\ DOMAIN u = 1..(Len(c) + Len(t))
    BY <1>0, JoinsIn
  <2>3. \A j \in DOMAIN t : u[j + Len(c)] = t[j]
    BY <2>2 DEF Joins
  <2>4. QED
    BY <2>1, <2>2, <2>3
<1> SUFFICES ASSUME NEW i \in DOMAIN u, u[i].op = "call", Unowned(u[i]), NEW r, r \in u[i].uses
             PROVE  \/ r \in L
                    \/ \E g \in 1..(i - 1) : Makes(u, g, i, r)
                    \/ go = FALSE /\ Hangs(u, 0, i)
  BY DEF StockedFor
<1> DEFINE m == Len(c)
           j == i - m
<1>2. j \in DOMAIN t /\ u[i] = t[j] /\ i = j + m
  <2>1. ~(i \in DOMAIN c /\ u[i] = c[i])
    BY <1>0 DEF StepsOf, Optional
  <2>2. j \in DOMAIN t /\ u[i] = t[j]
    BY <1>1, <2>1
  <2>3. i \in Int /\ m \in Int
    BY <1>1
  <2>4. QED
    BY <2>2, <2>3
<1>3. \/ r \in L
      \/ \E g \in 1..(j - 1) : Makes(t, g, j, r)
      \/ go = FALSE /\ Hangs(t, 0, j)
  BY <1>2 DEF StockedFor
<1>4. ASSUME NEW g \in 1..(j - 1), Makes(t, g, j, r)
      PROVE  \E h \in 1..(i - 1) : Makes(u, h, i, r)
  <2>1. g \in DOMAIN t /\ g \in Nat /\ g + m \in Nat /\ g + m \in 1..(i - 1)
    <3>1. m \in Nat /\ Len(t) \in Nat /\ j \in 1..Len(t) /\ i = j + m
      BY <1>1, <1>2
    <3> HIDE DEF m, j
    <3>2. g \in 1..Len(t) /\ g \in Nat /\ g + m \in Nat /\ g + m \in 1..(i - 1)
      BY <3>1
    <3>3. QED
      BY <1>1, <3>2
  <2>2. u[g + m] = t[g]
    BY <1>1, <2>1
  <2>3. Hangs(t, g, j) => Hangs(u, g + m, i)
    BY <1>2, <2>1, HangsBehind
  <2>4. Makes(u, g + m, i, r)
    BY <1>4, <2>2, <2>3 DEF Makes
  <2>5. QED
    BY <2>1, <2>4
<1>5. Hangs(t, 0, j) => Hangs(u, 0, i)
  <2>1. ASSUME Hangs(t, 0, j) PROVE Hangs(u, 0, j + m)
    BY <1>2, <2>1, HangsBehind
  <2>2. QED
    BY <1>2, <2>1
<1>6. QED
  BY <1>3, <1>4, <1>5

-------------------------------------------------------------------------------
(* What a process uses.                                                      *)
Fits == Fit(todo, frames)
Stocked == StockedFor(todo, live, going)

(* A call made for an object that this probe made can be made whenever it    *)
(* comes.                                                                    *)
Ready ==
  \A s \in ComingOf(todo, frames) : ~Unowned(s) /\ s.own \in held => s.uses \subseteq live

Usable == Inv /\ Fits /\ Stocked /\ Ready

LEMMA UsableIsUse == Usable => CallsUseLiveObjects
<1> SUFFICES ASSUME Usable, Runs("call"), ~Skipped(Head(todo)), NEW r, r \in Head(todo).uses
             PROVE  r \in live
  BY DEF CallsUseLiveObjects
<1> DEFINE s == Head(todo)
<1>1. todo \in Seq(Steps) /\ todo # <<>> /\ s.op = "call" /\ going \in BOOLEAN
  BY DEF Usable, Inv, Shape, TypeOK, Runs
<1>2. s = todo[1] /\ 1 \in DOMAIN todo
  BY <1>1, TailRests
<1>3. CASE Unowned(s)
  <2>1. \/ r \in live
        \/ \E g \in 1..(1 - 1) : Makes(todo, g, 1, r)
        \/ going = FALSE /\ Hangs(todo, 0, 1)
    BY <1>1, <1>2, <1>3 DEF Usable, Stocked, StockedFor
  <2>2. ~\E g \in 1..(1 - 1) : Makes(todo, g, 1, r)
    OBVIOUS
  <2>3. Hangs(todo, 0, 1) => s.chained
    <3>1. \A e \in (0 + 1)..1 : e = 1
      OBVIOUS
    <3>2. QED
      BY <1>1, <1>2, <3>1 DEF Hangs
  <2>4. ~(going = FALSE /\ s.chained)
    BY <1>1 DEF Skipped
  <2>5. QED
    BY <2>1, <2>2, <2>3, <2>4
<1>4. CASE ~Unowned(s)
  <2>1. s \in ComingOf(todo, frames)
    BY <1>1, <1>2 DEF ComingOf, CallsIn, StepsOf
  <2>2. s.own \in held
    BY <1>4 DEF Skipped
  <2>3. QED
    BY <1>4, <2>1, <2>2 DEF Usable, Ready
<1>5. QED
  BY <1>3, <1>4

LEMMA InitUsable == Init => Usable
<1> SUFFICES ASSUME Init PROVE Usable
  OBVIOUS
<1>1. Inv
  BY InitInv
<1>2. /\ todo \in Seq(Steps) /\ frames = <<>> /\ held = {} /\ DOMAIN frames = {}
      /\ probe \in Probes /\ todo \in Code[probe]
  BY <1>1 DEF Inv, Shape, Init
<1>3. /\ SkipsInside(todo) /\ MadeFor(CallsIn(todo)) /\ Equipped(todo)
      /\ InOrder(todo, Opened(todo)) /\ Awaited(todo, Opened(todo))
  BY <1>2, ProgramsUseWhatExists, ProgramsWait DEF ProgramsUseWhatExists, ProgramsWait
<1>4. Planned(todo, frames)
  <2>1. Nested(todo, Opened(todo)) /\ Opened(todo)[0] = frames
    BY <1>2, OpenedIsNested
  <2>2. QED
    BY <1>3, <2>1, Zenon DEF Planned
<1>5. ComingOf(todo, frames) = CallsIn(todo)
  BY <1>2 DEF ComingOf
<1>6. Fits
  BY <1>2, <1>3, <1>4, <1>5 DEF Fits, Fit
<1>7. Stocked
  BY <1>3 DEF Equipped, Stocked, StockedFor
<1>8. Ready
  BY <1>2 DEF Ready
<1>9. QED
  BY <1>1, <1>6, <1>7, <1>8 DEF Usable

(* What the call that was made did to the objects.                           *)
Handled(s) ==
  /\ live \ Ends(s) \subseteq live'
  /\ \/ held' = held
     \/ /\ s.op = "call" /\ s.effect.do = "gain" /\ held' = held \union {s.effect.r}
        /\ s.uses \union {s.effect.r} \subseteq live'

LEMMA ReadyAfter ==
  ASSUME Usable, todo # <<>>, UNCHANGED frames, Handled(Head(todo)),
         ComingOf(todo', frames) \subseteq ComingOf(Tail(todo), frames)
  PROVE  Ready'
<1> DEFINE s == Head(todo)
<1>1. todo \in Seq(Steps) /\ Fit(todo, frames)
  BY DEF Usable, Inv, Shape, Fits
<1>2. Rest(todo, 1, Tail(todo)) /\ s = todo[1] /\ 1 \in DOMAIN todo
  BY <1>1, TailRests
<1>3. ComingOf(Tail(todo), frames) \subseteq ComingOf(todo, frames)
  BY <1>1, <1>2, RestIn DEF ComingOf
<1> SUFFICES ASSUME NEW x \in ComingOf(todo', frames), ~Unowned(x), x.own \in held'
             PROVE  x.uses \subseteq live'
  BY DEF Ready
<1>4. x \in ComingOf(Tail(todo), frames) /\ x \in ComingOf(todo, frames)
  BY <1>3
<1>5. CASE x.own \in held
  <2>1. x.uses \subseteq live
    BY <1>4, <1>5 DEF Usable, Ready
  <2>2. Ends(s) \intersect x.uses = {}
    <3>1. CASE s.op = "call"
      BY <1>1, <1>4, <3>1, EndsForGood
    <3>2. CASE s.op # "call"
      BY <3>2 DEF Ends
    <3>3. QED
      BY <3>1, <3>2
  <2>3. QED
    BY <2>1, <2>2 DEF Handled
<1>6. CASE x.own \notin held
  <2>1. /\ s.op = "call" /\ s.effect.do = "gain" /\ s.effect.r = x.own
        /\ s.uses \union {x.own} \subseteq live'
    BY <1>6 DEF Handled
  <2>2. Does(s, "gain", x.own) /\ s \in ComingOf(todo, frames)
    BY <1>2, <2>1 DEF Does, ComingOf, CallsIn, StepsOf
  <2>3. MadeFor(ComingOf(todo, frames))
    BY <1>1 DEF Fit
  <2>4. x.uses \subseteq s.uses \union {x.own}
    BY <1>4, <2>2, <2>3 DEF MadeFor
  <2>5. QED
    BY <2>1, <2>4
<1>7. QED
  BY <1>5, <1>6

LEMMA RestOfTail ==
  ASSUME NEW t \in Seq(Steps), t # <<>>, NEW n \in Nat \ {0}, NEW u, Rest(t, n, u)
  PROVE  Rest(Tail(t), n - 1, u)
<1>1. /\ Len(t) \in Nat /\ u \in Seq(Steps) /\ Len(u) = Len(t) - n /\ n <= Len(t)
      /\ \A i \in 1..Len(u) : u[i] = t[i + n]
  BY LenProperties DEF Rest
<1>2. /\ Tail(t) \in Seq(Steps) /\ Len(Tail(t)) = Len(t) - 1
      /\ \A i \in 1..Len(Tail(t)) : Tail(t)[i] = t[i + 1]
  BY TailRests DEF Rest
<1>3. ASSUME NEW i \in 1..Len(u)
      PROVE  u[i] = Tail(t)[i + (n - 1)]
  <2>1. i + (n - 1) \in 1..Len(Tail(t)) /\ (i + (n - 1)) + 1 = i + n
    BY <1>1, <1>2
  <2>2. QED
    BY <1>1, <1>2, <2>1
<1>4. QED
  BY <1>1, <1>2, <1>3 DEF Rest

(* A step goes on with what comes after it, but for calls of its cleanup.    *)
LEMMA UsableAfter ==
  ASSUME Usable, Inv', todo # <<>>, Head(todo).op \notin {"try", "leave"}, UNCHANGED frames,
         NEW n \in Nat \ {0}, Rest(todo, n, todo'), \A k \in 2..n : Optional(todo[k]),
         Handled(Head(todo)), Served(Head(todo), live, going, live', going')
  PROVE  Usable'
<1>1. todo \in Seq(Steps) /\ Fit(todo, frames) /\ StockedFor(todo, live, going)
  BY DEF Usable, Inv, Shape, Fits, Stocked
<1>2. Tidy(todo) /\ Head(todo) = todo[1] /\ Tail(todo) \in Seq(Steps)
  BY <1>1, FitTidy, TailRests DEF Rest
<1>3. \A i \in 1..n : todo[i].op \notin {"try", "leave"}
  <2>1. \A i \in 1..n : i = 1 \/ i \in 2..n
    OBVIOUS
  <2>2. QED
    BY <1>2, <2>1 DEF Optional
<1>4. Fits'
  BY <1>1, <1>3, FitRest DEF Fits
<1>5. Stocked'
  BY <1>1, <1>2, StockedAfter DEF Stocked
<1>6. Ready'
  <2>1. CallsIn(todo') \subseteq CallsIn(Tail(todo))
    BY <1>1, <1>2, RestOfTail, RestIn
  <2>2. QED
    BY <2>1, ReadyAfter DEF ComingOf
<1>7. QED
  BY <1>4, <1>5, <1>6 DEF Usable

(* An exception leaves out the rest of the block.                            *)
LEMMA UsableThrown ==
  ASSUME Usable, Inv', todo # <<>>, UNCHANGED frames, todo' = <<>>, Handled(Head(todo))
  PROVE  Usable'
<1>1. todo \in Seq(Steps) /\ Fit(todo, frames)
  BY DEF Usable, Inv, Shape, Fits
<1>2. Fits'
  BY <1>1, FitNothing DEF Fits
<1>3. Stocked'
  BY NothingToStock DEF Stocked
<1>4. Ready'
  BY NothingComes, ReadyAfter DEF ComingOf
<1>5. QED
  BY <1>2, <1>3, <1>4 DEF Usable

LEMMA UsableStays ==
  ASSUME Usable, Inv', UNCHANGED <<todo, frames, going, live, held>>
  PROVE  Usable'
  BY DEF Usable, Fits, Stocked, Ready

LEMMA SkipUses == Usable /\ Skip => Usable'
<1> SUFFICES ASSUME Usable, Skip PROVE Usable'
  OBVIOUS
<1> DEFINE s == Head(todo)
<1>1. Inv' /\ todo \in Seq(Steps) /\ going \in BOOLEAN
  BY SkipKeepsInv DEF Usable, Inv, Shape, TypeOK
<1>2. /\ todo # <<>> /\ s.op = "call" /\ todo' = Tail(todo)
      /\ UNCHANGED <<frames, going, live, held>>
  BY DEF Skip, Runs, device
<1>3. \/ s.chained /\ going = FALSE
      \/ ~Unowned(s)
      \/ s.effect.do = "gain" /\ s.effect.r = "ctx" /\ "ctx" \in live
  BY <1>1 DEF Skip, Skipped
<1>4. Served(s, live, going, live', going')
  <2>1. live \ Ends(s) \subseteq live'
    BY <1>2
  <2>2. ASSUME NEW r, Does(s, "gain", r) \/ Does(s, "adopt", r), Unowned(s)
        PROVE  /\ s.mode \in {"ck", "torch"} /\ ~s.chained => r \in live'
               /\ Recorded(s) => r \in live' \/ going' = FALSE
    <3>1. CASE s.chained /\ going = FALSE
      BY <1>2, <3>1
    <3>2. CASE s.effect.do = "gain" /\ s.effect.r = "ctx" /\ "ctx" \in live
      BY <1>2, <2>2, <3>2 DEF Does
    <3>3. QED
      BY <1>3, <2>2, <3>1, <3>2
  <2>3. QED
    BY <1>2, <2>1, <2>2 DEF Served
<1>5. Handled(s)
  BY <1>2 DEF Handled
<1>6. Rest(todo, 1, todo') /\ \A k \in 2..1 : Optional(todo[k])
  BY <1>1, <1>2, TailRests
<1>7. QED
  BY <1>1, <1>2, <1>4, <1>5, <1>6, UsableAfter

LEMMA SucceedUses == Usable /\ Succeed => Usable'
<1> SUFFICES ASSUME Usable, Succeed PROVE Usable'
  OBVIOUS
<1> DEFINE s == Head(todo)
<1>1. Inv' /\ todo \in Seq(Steps) /\ going \in BOOLEAN /\ Inv
  BY SucceedKeepsInv DEF Usable, Inv, Shape, TypeOK
<1>2. /\ todo # <<>> /\ s.op = "call" /\ Runs("call") /\ ~Skipped(s)
      /\ UNCHANGED frames /\ going' = (going \/ Recorded(s))
      /\ todo' = <<>> \/ todo' = Tail(todo)
  BY DEF Succeed, Runs
<1>3. PICK d : Effect(s.effect, d)
  BY DEF Succeed
<1>4. /\ live' = IF s.effect.do \in {"gain", "adopt"} THEN live \union {s.effect.r}
                 ELSE IF s.effect.do = "lose" THEN live \ {s.effect.r} ELSE live
      /\ held' = IF s.effect.do = "gain" THEN held \union {s.effect.r} ELSE held
  BY <1>3 DEF Effect
<1>5. s.uses \subseteq live
  BY <1>2, UsableIsUse DEF CallsUseLiveObjects
<1>6. Handled(s)
  BY <1>2, <1>4, <1>5 DEF Handled, Ends
<1>7. CASE todo' = <<>>
  BY <1>1, <1>2, <1>6, <1>7, UsableThrown
<1>8. CASE todo' = Tail(todo)
  <2>1. live \ Ends(s) \subseteq live'
    BY <1>6 DEF Handled
  <2>2. \A r : Does(s, "gain", r) \/ Does(s, "adopt", r) => r \in live'
    BY <1>4 DEF Does
  <2>3. going = FALSE /\ going' # FALSE => Recorded(s) /\ ~s.chained
    BY <1>1, <1>2 DEF Skipped
  <2>4. Served(s, live, going, live', going')
    BY <1>2, <2>1, <2>2, <2>3 DEF Served
  <2>5. Rest(todo, 1, todo') /\ \A k \in 2..1 : Optional(todo[k])
    BY <1>1, <1>2, <1>8, TailRests
  <2>6. QED
    BY <1>1, <1>2, <1>6, <2>4, <2>5, UsableAfter
<1>9. QED
  BY <1>2, <1>7, <1>8

(* What a call that throws in a cleanup leaves out is there to leave out.    *)
LEMMA SkipsRest ==
  ASSUME NEW t \in Seq(Steps), t # <<>>, SkipsInside(t), Head(t).op = "call",
         NEW m, m \in {0, Head(t).skip}
  PROVE  /\ m \in Nat /\ Rest(t, m + 1, SubSeq(t, 2 + m, Len(t)))
         /\ \A k \in 2..(m + 1) : Optional(t[k])
<1>1. Head(t) = t[1] /\ 1 \in DOMAIN t /\ DOMAIN t = 1..Len(t) /\ t[1] \in Steps
  BY TailRests, ElementOfSeq
<1>2. Head(t).skip \in Nat /\ Len(t) \in Nat
  BY <1>1, ProgramsAreWellFormed, LenProperties DEF ProgramsAreWellFormed, Calls
<1>3. m \in Nat
  BY <1>2
<1>4. ASSUME NEW k \in 2..(m + 1)
      PROVE  k \in DOMAIN t /\ Optional(t[k])
  <2>1. k \in (1 + 1)..(1 + t[1].skip)
    BY <1>1, <1>2, <1>4
  <2>2. QED
    BY <1>1, <2>1 DEF SkipsInside
<1>5. m + 1 \in Nat /\ m + 1 <= Len(t)
  <2>1. CASE m = 0
    BY <1>1, <1>2, <2>1
  <2>2. CASE m # 0
    <3>1. m + 1 \in 2..(m + 1)
      BY <1>3, <2>2
    <3>2. m + 1 \in DOMAIN t
      BY <1>4, <3>1
    <3>3. QED
      BY <1>1, <1>3, <3>2
  <2>3. QED
    BY <2>1, <2>2
<1>6. Rest(t, m + 1, SubSeq(t, (m + 1) + 1, Len(t)))
  BY <1>5, SubSeqRests
<1>7. (m + 1) + 1 = 2 + m
  BY <1>3
<1>8. QED
  BY <1>3, <1>4, <1>6, <1>7

LEMMA FailUses == Usable /\ Fail => Usable'
<1> SUFFICES ASSUME Usable, Fail PROVE Usable'
  OBVIOUS
<1> DEFINE s == Head(todo)
<1>1. Inv' /\ todo \in Seq(Steps) /\ going \in BOOLEAN /\ SkipsInside(todo)
  BY FailKeepsInv DEF Usable, Inv, Shape, TypeOK, Fits, Fit
<1>2. /\ todo # <<>> /\ s.op = "call" /\ UNCHANGED <<frames, live, held>>
  BY DEF Fail, Runs
<1>3. PICK how : Takes(s, how)
  BY DEF Fail
<1>4. Handled(s)
  BY <1>2 DEF Handled
<1>5. CASE s.mode = "hush"
  <2> DEFINE m == IF how = "raise" THEN s.skip ELSE 0
  <2>1. todo' = SubSeq(todo, 2 + m, Len(todo)) /\ going' = going
    BY <1>3, <1>5 DEF Takes
  <2>2. /\ m \in Nat /\ Rest(todo, m + 1, todo')
        /\ \A k \in 2..(m + 1) : Optional(todo[k])
    BY <1>1, <1>2, <2>1, SkipsRest
  <2>3. m + 1 \in Nat \ {0}
    BY <2>2
  <2>4. Served(s, live, going, live', going')
    BY <1>2, <1>5, <2>1 DEF Served, Recorded
  <2> HIDE DEF m
  <2>5. QED
    BY <1>1, <1>2, <1>4, <2>2, <2>3, <2>4, UsableAfter
<1>6. CASE s.mode # "hush" /\ todo' = Tail(todo)
  <2>1. \/ s.mode = "must" /\ going' = going
        \/ Recorded(s) /\ going' = FALSE
        \/ todo' = <<>>
    BY <1>3, <1>6 DEF Takes
  <2>2. CASE todo' = <<>>
    BY <1>1, <1>2, <1>4, <2>2, UsableThrown
  <2>3. CASE s.mode = "must" /\ going' = going
    <3>1. Served(s, live, going, live', going')
      BY <1>2, <2>3 DEF Served, Recorded
    <3>2. Rest(todo, 1, todo') /\ \A k \in 2..1 : Optional(todo[k])
      BY <1>1, <1>2, <1>6, TailRests
    <3>3. QED
      BY <1>1, <1>2, <1>4, <3>1, <3>2, UsableAfter
  <2>4. CASE Recorded(s) /\ going' = FALSE
    <3>1. Served(s, live, going, live', going')
      BY <1>2, <2>4 DEF Served, Recorded
    <3>2. Rest(todo, 1, todo') /\ \A k \in 2..1 : Optional(todo[k])
      BY <1>1, <1>2, <1>6, TailRests
    <3>3. QED
      BY <1>1, <1>2, <1>4, <3>1, <3>2, UsableAfter
  <2>5. QED
    BY <2>1, <2>2, <2>3, <2>4
<1>7. CASE todo' = <<>>
  BY <1>1, <1>2, <1>4, <1>7, UsableThrown
<1>8. s.mode # "hush" => todo' = Tail(todo) \/ todo' = <<>>
  BY <1>3 DEF Takes
<1>9. QED
  BY <1>5, <1>6, <1>7, <1>8

(* A check, a refusal or a return that goes on or ends the block.            *)
LEMMA UsableBeside ==
  ASSUME Usable, Inv', todo # <<>>, Head(todo).op \notin {"call", "try", "leave"},
         UNCHANGED <<frames, going, live, held>>,
         todo' = <<>> \/ (todo' = Tail(todo) /\ (Head(todo).op = "return" => going))
  PROVE  Usable'
<1> DEFINE s == Head(todo)
<1>1. todo \in Seq(Steps) /\ going \in BOOLEAN /\ Handled(s)
  BY DEF Usable, Inv, Shape, TypeOK, Handled
<1>2. CASE todo' = <<>>
  BY <1>1, <1>2, UsableThrown
<1>3. CASE todo' = Tail(todo) /\ (s.op = "return" => going)
  <2>1. Served(s, live, going, live', going')
    BY <1>1, <1>3 DEF Served, Does
  <2>2. Rest(todo, 1, todo') /\ \A k \in 2..1 : Optional(todo[k])
    BY <1>1, <1>3, TailRests
  <2>3. QED
    BY <1>1, <2>1, <2>2, UsableAfter
<1>4. QED
  BY <1>2, <1>3

LEMMA CompareUses == Usable /\ Compare => Usable'
<1> SUFFICES ASSUME Usable, Compare PROVE Usable'
  OBVIOUS
<1>1. Inv'
  BY CompareKeepsInv DEF Usable
<1>2. /\ todo # <<>> /\ Head(todo).op = "check"
      /\ UNCHANGED <<frames, going, live, held>>
      /\ todo' = Tail(todo) \/ todo' = <<>>
  BY DEF Compare, Runs, device
<1>3. QED
  BY <1>1, <1>2, UsableBeside

LEMMA StopUses == Usable /\ Stop => Usable'
<1> SUFFICES ASSUME Usable, Stop PROVE Usable'
  OBVIOUS
<1>1. Inv'
  BY StopKeepsInv DEF Usable
<1>2. /\ todo # <<>> /\ Head(todo).op \in {"raise", "decline", "return"}
      /\ UNCHANGED <<frames, going, live, held>>
      /\ todo' = <<>> \/ (todo' = Tail(todo) /\ (Head(todo).op = "return" => going))
  BY DEF Stop, Runs, device
<1>3. QED
  BY <1>1, <1>2, UsableBeside

LEMMA FrameUses == Usable /\ Frame => Usable'
<1> SUFFICES ASSUME Usable, Frame PROVE Usable'
  OBVIOUS
<1> DEFINE c == Head(frames)
<1>1. /\ Inv' /\ todo \in Seq(Steps) /\ frames \in Stacks /\ Fit(todo, frames)
      /\ StockedFor(todo, live, going) /\ Ready /\ Tidy(todo)
      /\ UNCHANGED <<going, live, held>>
  BY FrameKeepsInv, FitTidy DEF Usable, Inv, Shape, Stacks, Fits, Stocked, Frame, device
<1>2. ASSUME todo # <<>>, Head(todo).op \in {"try", "leave"}
      PROVE  StockedFor(Tail(todo), live, going) /\ Tail(todo) \in Seq(Steps)
  <2>1. Rest(todo, 1, Tail(todo)) /\ \A k \in 2..1 : Optional(todo[k])
    BY <1>1, <1>2, TailRests
  <2>2. Served(Head(todo), live, going, live, going)
    BY <1>2 DEF Served, Does
  <2>3. StockedFor(Tail(todo), live, going)
    BY <1>1, <1>2, <2>1, <2>2, StockedAfter
  <2>4. QED
    BY <2>1, <2>3 DEF Rest
<1>3. ASSUME Fit(todo', frames'), StockedFor(todo', live, going),
             ComingOf(todo', frames') \subseteq ComingOf(todo, frames)
      PROVE  Usable'
  BY <1>1, <1>3 DEF Usable, Fits, Stocked, Ready
<1>4. frames # <<>> => c \in Cleanups /\ c \in Seq(Calls)
  BY <1>1, Popped DEF Fit
<1>5. CASE /\ Runs("try") /\ frames' = <<Head(todo).cleanup>> \o frames
           /\ todo' = Tail(todo)
  BY <1>1, <1>2, <1>3, <1>5, FitTry DEF Runs
<1>6. CASE /\ Runs("leave") /\ frames # <<>>
           /\ todo' = Head(frames) \o Tail(todo) /\ frames' = Tail(frames)
  <2>1. todo # <<>> /\ Head(todo).op = "leave"
    BY <1>6 DEF Runs
  <2>2. Fit(todo', frames') /\ ComingOf(todo', frames') \subseteq ComingOf(todo, frames)
    BY <1>1, <1>6, <2>1, FitLeave
  <2>3. StockedFor(Tail(todo), live, going) /\ Joins(c, Tail(todo), todo')
    BY <1>2, <1>4, <1>6, <2>1, ConcatJoins
  <2>4. StockedFor(todo', live, going)
    BY <1>2, <1>4, <1>6, <2>1, <2>3, StockedBehind
  <2>5. QED
    BY <1>3, <2>2, <2>4
<1>7. CASE todo = <<>> /\ frames # <<>> /\ todo' = Head(frames) /\ frames' = Tail(frames)
  <2>1. Fit(todo', frames') /\ ComingOf(todo', frames') \subseteq ComingOf(todo, frames)
    BY <1>1, <1>7, FitUnwound
  <2>2. Joins(c, <<>>, c)
    BY <1>4, <1>7, CallsAreSteps DEF Joins
  <2>3. StockedFor(todo', live, going)
    BY <1>4, <1>7, <2>2, EmptyIsShaped, NothingToStock, StockedBehind
  <2>4. QED
    BY <1>3, <2>1, <2>3
<1>8. QED
  BY <1>5, <1>6, <1>7 DEF Frame

LEMMA NextUses == Usable /\ [Next]_vars => Usable'
<1> SUFFICES ASSUME Usable, [Next]_vars PROVE Usable'
  OBVIOUS
<1>1. Inv'
  BY NextKeepsInv DEF Usable
<1>2. CASE Start \/ Finish \/ RunKernel \/ UNCHANGED vars
  <2>1. UNCHANGED <<todo, frames, going, live, held>>
    BY <1>2 DEF Start, Finish, RunKernel, vars, host, device
  <2>2. QED
    BY <1>1, <2>1, UsableStays
<1>3. CASE Skip \/ Succeed \/ Fail \/ Compare \/ Stop \/ Frame
  BY <1>3, SkipUses, SucceedUses, FailUses, CompareUses, StopUses, FrameUses
<1>4. QED
  BY <1>2, <1>3 DEF Next, Host, Done

(* Whatever went wrong before: every call a probe makes, in the block or in  *)
(* its cleanups, is made on objects that exist.                              *)
THEOREM ObjectsExist == Spec => []CallsUseLiveObjects
<1>1. Init => Usable
  BY InitUsable
<1>2. Usable /\ [Next]_vars => Usable'
  BY NextUses
<1>3. Usable => CallsUseLiveObjects
  BY UsableIsUse
<1>4. QED
  BY <1>1, <1>2, <1>3, PTL DEF Spec

-------------------------------------------------------------------------------
(* What the device uses.  The wait for a stream is what runs next; or it is  *)
(* the first step of the innermost cleanup, and nothing is entered, left or  *)
(* released before a wait of the block itself.                               *)
CleanupWaits(st) ==
  /\ frames # <<>> /\ Head(frames) # <<>>
  /\ LET d == Head(Head(frames)) IN DrainsOn(d, st) /\ ~d.chained /\ d.own \in held
Soon(st) ==
  \/ todo # <<>> /\ DrainsOn(Head(todo), st) /\ ~Skipped(Head(todo))
  \/ CleanupWaits(st) /\ (todo = <<>> \/ WaitAhead(todo, 1, st))

Safe(k) == k.uses = {} \/ (k.uses \subseteq live /\ Soon(k.stream))
Waited ==
  /\ live \ {"ctx"} \subseteq held
  /\ status = "idle" => queue = <<>>
  /\ "escaped" \notin seen => \A i \in DOMAIN queue : Safe(queue[i])

Drained == Usable /\ Waited

LEMMA DrainedDangles == Drained => DeviceNeverDangles
  BY DEF Drained, Waited, Safe, DeviceNeverDangles

LEMMA InitDrained == Init => Drained
<1> SUFFICES ASSUME Init PROVE Drained
  OBVIOUS
<1>1. live \ {"ctx"} \subseteq held /\ queue = <<>> /\ DOMAIN queue = {}
  BY DEF Init
<1>2. QED
  BY <1>1, InitUsable DEF Drained, Waited

(* A kernel whose wait does not come now stays safe while other steps run.   *)
LEMMA SoonLater ==
  ASSUME todo \in Seq(Steps), todo # <<>>, NEW st, Soon(st),
         ~(DrainsOn(Head(todo), st) /\ ~Skipped(Head(todo)))
  PROVE  /\ CleanupWaits(st)
         /\ Head(todo).op \notin {"try", "leave"} /\ Ends(Head(todo)) = {}
         /\ \A u : Rest(todo, 1, u) => WaitAhead(u, 1, st)
<1>1. Head(todo) = todo[1] /\ DOMAIN todo = 1..Len(todo) /\ Len(todo) \in Nat
  BY TailRests, LenProperties
<1>2. CleanupWaits(st) /\ WaitAhead(todo, 1, st)
  BY DEF Soon
<1>3. PICK w \in 1..Len(todo) :
        /\ Waits(todo[w], st)
        /\ \A k \in 1..(w - 1) : todo[k].op \notin {"try", "leave"} /\ Ends(todo[k]) = {}
  BY <1>2 DEF WaitAhead
<1>4. ~Waits(todo[1], st)
  BY <1>1 DEF Waits, DrainsOn, Skipped
<1>5. w # 1 /\ 1 \in 1..(w - 1)
  BY <1>3, <1>4
<1>6. WaitAhead(todo, 1 + 1, st)
  <2>1. w \in (1 + 1)..Len(todo) /\ \A k \in (1 + 1)..(w - 1) : k \in 1..(w - 1)
    BY <1>1, <1>5
  <2>2. QED
    BY <1>3, <2>1 DEF WaitAhead
<1>7. ASSUME NEW u, Rest(todo, 1, u)
      PROVE  WaitAhead(u, 1, st)
  <2>1. Len(u) \in Nat
    BY <1>7, RestIn
  <2>2. 1 \in 1..(Len(u) + 1)
    BY <2>1
  <2>3. QED
    BY <1>6, <1>7, <2>2, WaitAheadOfRest
<1>8. QED
  BY <1>1, <1>2, <1>3, <1>5, <1>7

LEMMA SafeAfter ==
  ASSUME todo \in Seq(Steps), todo # <<>>, NEW k, Safe(k),
         ~(DrainsOn(Head(todo), k.stream) /\ ~Skipped(Head(todo))),
         UNCHANGED frames, held \subseteq held', live \ Ends(Head(todo)) \subseteq live',
         todo' = <<>> \/ Rest(todo, 1, todo')
  PROVE  Safe(k)'
<1>1. CASE k.uses = {}
  BY <1>1 DEF Safe
<1>2. CASE k.uses \subseteq live /\ Soon(k.stream)
  <2>1. CleanupWaits(k.stream) /\ Ends(Head(todo)) = {}
        /\ \A u : Rest(todo, 1, u) => WaitAhead(u, 1, k.stream)
    BY <1>2, SoonLater
  <2>2. CleanupWaits(k.stream)'
    BY <2>1 DEF CleanupWaits
  <2>3. todo' = <<>> \/ WaitAhead(todo', 1, k.stream)
    BY <2>1
  <2>4. k.uses \subseteq live'
    BY <1>2, <2>1
  <2>5. QED
    BY <2>2, <2>3, <2>4 DEF Safe, Soon
<1>3. QED
  BY <1>1, <1>2 DEF Safe

(* A step that waits for no stream and starts nothing.                       *)
LEMMA DrainedAfter ==
  ASSUME Drained, Usable', todo # <<>>, status = "running", status' = "running",
         seen \subseteq seen', UNCHANGED <<frames, live, held, queue>>,
         todo' = <<>> \/ Rest(todo, 1, todo'),
         "escaped" \notin seen' =>
           \A i \in DOMAIN queue :
             ~(DrainsOn(Head(todo), queue[i].stream) /\ ~Skipped(Head(todo)))
  PROVE  Drained'
<1>1. todo \in Seq(Steps) /\ Waited
  BY DEF Drained, Usable, Inv, Shape
<1>2. ASSUME "escaped" \notin seen', NEW i \in DOMAIN queue
      PROVE  Safe(queue[i])'
  <2>1. Safe(queue[i])
    BY <1>1, <1>2 DEF Waited
  <2> DEFINE k == queue[i]
  <2>2. ~(DrainsOn(Head(todo), k.stream) /\ ~Skipped(Head(todo)))
    BY <1>2
  <2>3. Safe(k)
    BY <2>1
  <2> HIDE DEF k
  <2>4. Safe(k)' /\ k' = k
    BY <1>1, <2>2, <2>3, SafeAfter DEF k
  <2>5. QED
    BY <2>4 DEF k
<1>3. Waited'
  BY <1>1, <1>2 DEF Waited
<1>4. QED
  BY <1>3 DEF Drained

LEMMA SkipDrains == Drained /\ Skip => Drained'
<1> SUFFICES ASSUME Drained, Skip PROVE Drained'
  OBVIOUS
<1>1. Usable' /\ todo \in Seq(Steps)
  BY SkipUses DEF Drained, Usable, Inv, Shape
<1>2. /\ todo # <<>> /\ status = "running" /\ status' = "running" /\ seen' = seen
      /\ UNCHANGED <<frames, live, held, queue>>
      /\ todo' = Tail(todo) /\ Skipped(Head(todo))
  BY DEF Skip, Runs, device
<1>3. Rest(todo, 1, todo')
  BY <1>1, <1>2, TailRests
<1>4. QED
  BY <1>1, <1>2, <1>3, DrainedAfter

LEMMA CompareDrains == Drained /\ Compare => Drained'
<1> SUFFICES ASSUME Drained, Compare PROVE Drained'
  OBVIOUS
<1>1. Usable' /\ todo \in Seq(Steps)
  BY CompareUses DEF Drained, Usable, Inv, Shape
<1>2. /\ todo # <<>> /\ status = "running" /\ status' = "running" /\ seen' = seen
      /\ UNCHANGED <<frames, live, held, queue>> /\ Head(todo).op = "check"
      /\ todo' = Tail(todo) \/ todo' = <<>>
  BY DEF Compare, Runs, device
<1>3. todo' = <<>> \/ Rest(todo, 1, todo')
  BY <1>1, <1>2, TailRests
<1>4. \A st : ~DrainsOn(Head(todo), st)
  BY <1>2 DEF DrainsOn
<1>5. QED
  BY <1>1, <1>2, <1>3, <1>4, DrainedAfter

LEMMA StopDrains == Drained /\ Stop => Drained'
<1> SUFFICES ASSUME Drained, Stop PROVE Drained'
  OBVIOUS
<1>1. Usable' /\ todo \in Seq(Steps)
  BY StopUses DEF Drained, Usable, Inv, Shape
<1>2. /\ todo # <<>> /\ status = "running" /\ status' = "running" /\ seen \subseteq seen'
      /\ UNCHANGED <<frames, live, held, queue>>
      /\ Head(todo).op \in {"raise", "decline", "return"}
      /\ todo' = Tail(todo) \/ todo' = <<>>
  BY DEF Stop, Runs, device
<1>3. todo' = <<>> \/ Rest(todo, 1, todo')
  BY <1>1, <1>2, TailRests
<1>4. \A st : ~DrainsOn(Head(todo), st)
  BY <1>2 DEF DrainsOn
<1>5. QED
  BY <1>1, <1>2, <1>3, <1>4, DrainedAfter

(* A wait that fails leaves no kernel; one that throws is on record.         *)
LEMMA FailDrains == Drained /\ Fail => Drained'
<1> SUFFICES ASSUME Drained, Fail PROVE Drained'
  OBVIOUS
<1> DEFINE s == Head(todo)
<1>1. Usable' /\ todo \in Seq(Steps) /\ SkipsInside(todo) /\ Waited /\ Inv
  BY FailUses DEF Drained, Usable, Inv, Shape, Fits, Fit
<1>2. /\ todo # <<>> /\ s.op = "call" /\ status = "running" /\ status' = "running"
      /\ UNCHANGED <<frames, live, held>> /\ s \in Calls
  BY <1>1, HeadIsStep DEF Fail, Runs, Inv
<1>3. PICK how \in {"fail", "refused", "raise"} :
        /\ Takes(s, how)
        /\ IF how \notin s.want THEN Badly(Tags(s, how))
           ELSE seen' = seen \union (IF Judged(s) THEN {} ELSE {"refused"})
        /\ queue' = IF s.effect.do = "drain" /\ how # "raise" THEN <<>> ELSE queue
  BY DEF Fail
<1>4. seen \subseteq seen'
  BY <1>3 DEF Badly
<1>5. "raise" \notin s.want
  BY <1>2, ProgramsAreWellFormed DEF ProgramsAreWellFormed
<1>6. CASE s.effect.do = "drain" /\ how # "raise"
  <2>1. queue' = <<>> /\ DOMAIN queue' = {}
    BY <1>3, <1>6
  <2>2. QED
    BY <1>1, <1>2, <2>1 DEF Drained, Waited
<1>7. CASE "escaped" \in seen' /\ queue' = queue
  BY <1>1, <1>2, <1>7 DEF Drained, Waited
<1>8. CASE "escaped" \notin seen' /\ queue' = queue /\ s.effect.do # "drain"
  <2>1. s.mode = "hush" => how # "raise"
    BY <1>3, <1>5, <1>8 DEF Badly, Tags
  <2>2. CASE s.mode = "hush"
    <3>1. todo' = SubSeq(todo, 2 + 0, Len(todo))
      BY <1>3, <2>1, <2>2 DEF Takes
    <3>2. Rest(todo, 0 + 1, todo')
      BY <1>1, <1>2, <3>1, SkipsRest
    <3>3. Rest(todo, 1, todo')
      BY <3>2
    <3>4. QED
      BY <1>1, <1>2, <1>4, <1>8, <3>3, DrainedAfter DEF DrainsOn
  <2>3. CASE s.mode # "hush"
    <3>1. todo' = Tail(todo) \/ todo' = <<>>
      BY <1>3, <2>3 DEF Takes
    <3>2. todo' = <<>> \/ Rest(todo, 1, todo')
      BY <1>1, <1>2, <3>1, TailRests
    <3>3. QED
      BY <1>1, <1>2, <1>4, <1>8, <3>2, DrainedAfter DEF DrainsOn
  <2>4. QED
    BY <2>2, <2>3
<1>9. s.effect.do = "drain" /\ how = "raise" => "escaped" \in seen'
  BY <1>3, <1>5 DEF Badly, Tags
<1>10. QED
  BY <1>3, <1>6, <1>7, <1>8, <1>9

(* What a kernel that is started uses is waited for.                         *)
LEMMA StartedIsSafe ==
  ASSUME Drained, Succeed, Head(todo).effect.do = "push",
         NEW k, k = Head(todo).effect.kernel
  PROVE  Safe(k)'
<1> DEFINE s == Head(todo)
           st == k.stream
<1>1. /\ todo \in Seq(Steps) /\ Fit(todo, frames) /\ Usable /\ Waited
      /\ going \in BOOLEAN
  BY DEF Drained, Usable, Inv, Shape, TypeOK, Fits
<1>2. /\ todo # <<>> /\ s.op = "call" /\ Runs("call") /\ ~Skipped(s) /\ frames' = frames
      /\ (s.mode # "must" => todo' = Tail(todo)) /\ going' = (going \/ Recorded(s))
  BY DEF Succeed, Runs
<1>3. PICK e : Effect(s.effect, e)
  BY DEF Succeed
<1>4. live' = live /\ held' = held
  BY <1>3 DEF Effect
<1>5. s.uses \subseteq live
  BY <1>1, <1>2, UsableIsUse DEF CallsUseLiveObjects
<1>6. /\ Rest(todo, 1, Tail(todo)) /\ s = todo[1] /\ 1 \in DOMAIN todo
      /\ DOMAIN todo = 1..Len(todo) /\ Len(todo) \in Nat
  BY <1>1, <1>2, TailRests, LenProperties
<1>7. PICK S : Nested(todo, S) /\ S[0] = frames /\ Awaited(todo, S)
  BY <1>1 DEF Fit, Planned
<1>8. S[1] = frames
  <2>1. 1 \in 1..Len(todo) /\ 1 - 1 = 0
    BY <1>6
  <2>2. S[1] = Enter(todo[1], S[0])
    BY <1>7, <2>1 DEF Nested
  <2>3. QED
    BY <1>2, <1>6, <1>7, <2>2 DEF Enter
<1>9. /\ k.uses \subseteq s.uses
      /\ k.uses # {} => s.mode # "must"
      /\ k.uses # {} =>
           \/ /\ 1 < Len(todo) /\ DrainsOn(todo[1 + 1], st) /\ Unowned(todo[1 + 1])
              /\ todo[1 + 1].chained => Recorded(s)
           \/ /\ frames # <<>> /\ Head(frames) # <<>>
              /\ LET d == Head(Head(frames)) IN
                   DrainsOn(d, st) /\ ~d.chained /\ d.own \in s.uses \ {"ctx"}
              /\ WaitAhead(todo, 1 + 1, st)
  BY <1>2, <1>6, <1>7, <1>8, Zenon DEF Awaited
<1> HIDE DEF st
<1>10. CASE k.uses = {}
  BY <1>10 DEF Safe
<1>11. CASE k.uses # {}
  <2>1. todo' = Tail(todo) /\ k.uses \subseteq live'
    BY <1>2, <1>4, <1>5, <1>9, <1>11
  <2>2. CASE /\ 1 < Len(todo) /\ DrainsOn(todo[1 + 1], st) /\ Unowned(todo[1 + 1])
             /\ todo[1 + 1].chained => Recorded(s)
    <3>1. todo' # <<>> /\ Head(todo') = todo[1 + 1]
      <4>1. Tail(todo) \in Seq(Steps) /\ Len(Tail(todo)) = Len(todo) - 1
            /\ \A i \in 1..Len(Tail(todo)) : Tail(todo)[i] = todo[i + 1]
        BY <1>6 DEF Rest
      <4>2. 1 \in 1..Len(Tail(todo)) /\ Len(Tail(todo)) # 0
        BY <1>6, <2>2, <4>1
      <4>3. Tail(todo) # <<>>
        <5>1. Len(<<>>) = 0
          OBVIOUS
        <5>2. QED
          BY <4>2, <5>1, Zenon
      <4>4. Head(Tail(todo)) = Tail(todo)[1]
        BY <4>1, <4>3, TailRests
      <4>5. QED
        BY <2>1, <4>1, <4>2, <4>3, <4>4
    <3> DEFINE n == todo[1 + 1]
    <3>2. n.effect.do = "drain" /\ Unowned(n) /\ (n.chained => going')
      BY <1>2, <2>2 DEF DrainsOn
    <3> HIDE DEF n
    <3>3. Head(todo') = n /\ DrainsOn(n, st)
      BY <2>2, <3>1 DEF n
    <3>4. ~Skipped(Head(todo))'
      BY <3>2, <3>3 DEF Skipped
    <3>5. Soon(st)'
      BY <3>1, <3>3, <3>4 DEF Soon
    <3>6. QED
      BY <2>1, <3>5 DEF Safe, st
  <2>3. CASE /\ frames # <<>> /\ Head(frames) # <<>>
             /\ LET d == Head(Head(frames)) IN
                  DrainsOn(d, st) /\ ~d.chained /\ d.own \in s.uses \ {"ctx"}
             /\ WaitAhead(todo, 1 + 1, st)
    <3>1. s.uses \ {"ctx"} \subseteq held
      BY <1>1, <1>5 DEF Waited
    <3>2. CleanupWaits(st)'
      BY <1>2, <1>4, <2>3, <3>1 DEF CleanupWaits
    <3>3. WaitAhead(todo', 1, st)
      <4>1. 1 \in 1..(Len(Tail(todo)) + 1)
        <5>1. Len(Tail(todo)) \in Nat
          BY <1>1, <1>6, RestIn
        <5>2. QED
          BY <5>1
      <4>2. QED
        BY <1>1, <1>6, <2>1, <2>3, <4>1, WaitAheadOfRest
    <3>4. QED
      BY <2>1, <3>2, <3>3 DEF Safe, Soon, st
  <2>4. QED
    BY <1>9, <1>11, <2>2, <2>3
<1>12. QED
  BY <1>10, <1>11

LEMMA SucceedDrains == Drained /\ Succeed => Drained'
<1> SUFFICES ASSUME Drained, Succeed PROVE Drained'
  OBVIOUS
<1> DEFINE s == Head(todo)
<1>1. /\ Usable' /\ todo \in Seq(Steps) /\ Waited /\ Inv /\ queue \in Seq(Kernels)
  BY SucceedUses DEF Drained, Usable, Inv, Shape
<1>2. /\ todo # <<>> /\ s.op = "call" /\ status = "running" /\ status' = "running"
      /\ frames' = frames /\ s \in Calls
      /\ todo' = Tail(todo) \/ todo' = <<>>
      /\ s.effect.do = "drain" => Pending(s.effect.stream) = {}
      /\ \/ Well
         \/ Badly({"answer"})
         \/ \E d \in s.effect.bad : Badly({d})
  BY <1>1, HeadIsStep DEF Succeed, Runs, Inv
<1>3. seen \subseteq seen'
  BY <1>2 DEF Well, Badly
<1>4. PICK d : Effect(s.effect, d)
  BY DEF Succeed
<1>5. /\ live' = IF s.effect.do \in {"gain", "adopt"} THEN live \union {s.effect.r}
                 ELSE IF s.effect.do = "lose" THEN live \ {s.effect.r} ELSE live
      /\ held' = IF s.effect.do = "gain" THEN held \union {s.effect.r} ELSE held
      /\ queue' = IF s.effect.do = "push" THEN Append(queue, s.effect.kernel) ELSE queue
  BY <1>4 DEF Effect
<1>6. todo' = <<>> \/ Rest(todo, 1, todo')
  BY <1>1, <1>2, TailRests
<1>7. live' \ {"ctx"} \subseteq held'
  <2>1. s.effect.do = "adopt" => s.effect.r = "ctx"
    BY <1>2, ProgramsUseWhatExists DEF ProgramsUseWhatExists
  <2>2. QED
    BY <1>1, <1>5, <2>1 DEF Waited
<1>8. held \subseteq held' /\ live \ Ends(s) \subseteq live'
  BY <1>2, <1>5 DEF Ends
<1>9. ASSUME "escaped" \notin seen', NEW k, \E i \in DOMAIN queue : queue[i] = k
      PROVE  Safe(k)'
  <2>1. Safe(k)
    BY <1>1, <1>3, <1>9 DEF Waited
  <2>2. ~(DrainsOn(s, k.stream) /\ ~Skipped(s))
    <3>1. PICK i \in DOMAIN queue : queue[i] = k
      BY <1>9
    <3>2. ASSUME DrainsOn(s, k.stream) PROVE FALSE
      <4>1. s.effect.do = "drain" /\ s.effect.stream = k.stream
        BY <3>2 DEF DrainsOn
      <4>2. i \in Pending(s.effect.stream)
        BY <3>1, <4>1 DEF Pending
      <4>3. QED
        BY <1>2, <4>1, <4>2
    <3>3. QED
      BY <3>2
  <2>3. QED
    BY <1>1, <1>2, <1>6, <1>8, <2>1, <2>2, SafeAfter
<1>10. ASSUME "escaped" \notin seen', NEW i \in DOMAIN queue'
       PROVE  Safe(queue[i])'
  <2>1. CASE s.effect.do # "push"
    <3> DEFINE k == queue'[i]
    <3>1. \E j \in DOMAIN queue : queue[j] = k
      BY <1>5, <2>1
    <3>2. QED
      BY <1>9, <1>10, <1>5, <2>1
  <2>2. CASE s.effect.do = "push"
    <3>1. PICK k : k = s.effect.kernel
      OBVIOUS
    <3>2. k \in Kernels
      BY <1>2, <2>2, <3>1 DEF Kernels
    <3>3. /\ queue' = Append(queue, k) /\ Len(queue) \in Nat /\ DOMAIN queue = 1..Len(queue)
          /\ DOMAIN queue' = 1..(Len(queue) + 1)
          /\ \A j \in 1..Len(queue) : queue'[j] = queue[j]
          /\ queue'[Len(queue) + 1] = k
      BY <1>1, <1>5, <2>2, <3>1, <3>2, AppendProperties, LenProperties
    <3>4. CASE i \in DOMAIN queue
      <4>1. PICK x : x = queue[i]
        OBVIOUS
      <4>2. Safe(x)'
        BY <1>9, <1>10, <3>4, <4>1
      <4>3. queue'[i] = x
        BY <3>3, <3>4, <4>1
      <4>4. QED
        BY <4>2, <4>3
    <3>5. CASE i = Len(queue) + 1
      <4>1. Safe(k)'
        BY <2>2, <3>1, StartedIsSafe
      <4>2. QED
        BY <3>3, <3>5, <4>1
    <3>6. QED
      BY <3>3, <3>4, <3>5
  <2>3. QED
    BY <2>1, <2>2
<1>11. QED
  BY <1>1, <1>2, <1>7, <1>10 DEF Drained, Waited

(* Unwinding runs the wait next.                                             *)
LEMMA FrameDrains == Drained /\ Frame => Drained'
<1> SUFFICES ASSUME Drained, Frame PROVE Drained'
  OBVIOUS
<1>1. /\ Usable' /\ todo \in Seq(Steps) /\ Waited /\ frames \in Stacks
      /\ UNCHANGED <<going, live, held, queue, seen>>
      /\ status = "running" /\ status' = "running"
  BY FrameUses DEF Drained, Usable, Inv, Shape, Stacks, Frame, Runs, device
<1>2. ASSUME "escaped" \notin seen, NEW i \in DOMAIN queue, NEW k, k = queue[i]
      PROVE  Safe(k)'
  <2>1. Safe(k)
    BY <1>1, <1>2 DEF Waited
  <2>2. CASE k.uses = {}
    BY <2>2 DEF Safe
  <2>3. CASE k.uses \subseteq live /\ Soon(k.stream) /\ todo # <<>>
    <3>1. Head(todo).op \in {"try", "leave"}
      BY <2>3 DEF Frame, Runs
    <3>2. ~DrainsOn(Head(todo), k.stream)
      BY <3>1 DEF DrainsOn
    <3>3. QED
      BY <1>1, <2>3, <3>1, <3>2, SoonLater
  <2>4. CASE k.uses \subseteq live /\ Soon(k.stream) /\ todo = <<>>
    <3>1. CleanupWaits(k.stream) /\ todo' = Head(frames)
      BY <2>4 DEF Soon, Frame, Runs
    <3> DEFINE d == Head(Head(frames))
    <3>2. /\ todo' # <<>> /\ Head(todo') = d /\ DrainsOn(d, k.stream)
          /\ ~d.chained /\ d.own \in held /\ d.effect.do = "drain"
      BY <3>1 DEF CleanupWaits, DrainsOn
    <3> HIDE DEF d
    <3>3. ~Skipped(Head(todo))'
      BY <1>1, <3>2 DEF Skipped
    <3>4. QED
      BY <1>1, <2>4, <3>2, <3>3 DEF Safe, Soon
  <2>5. QED
    BY <2>1, <2>2, <2>3, <2>4 DEF Safe
<1>3. ASSUME "escaped" \notin seen, NEW i \in DOMAIN queue
      PROVE  Safe(queue[i])'
  <2>1. PICK k : k = queue[i]
    OBVIOUS
  <2>2. Safe(k)' /\ queue'[i] = k
    BY <1>1, <1>2, <1>3, <2>1
  <2>3. QED
    BY <2>2
<1>4. QED
  BY <1>1, <1>3 DEF Drained, Waited

(* A kernel that has run leaves the queue.                                   *)
LEMMA Removed ==
  ASSUME NEW q \in Seq(Kernels), NEW n \in DOMAIN q,
         NEW r, r = SubSeq(q, 1, n - 1) \o SubSeq(q, n + 1, Len(q))
  PROVE  /\ Len(q) \in Nat /\ DOMAIN q = 1..Len(q) /\ n \in 1..Len(q)
         /\ Len(r) = Len(q) - 1 /\ DOMAIN r = 1..(Len(q) - 1)
         /\ \A l \in 1..(Len(q) - 1) : r[l] = q[IF l < n THEN l ELSE l + 1]
<1> DEFINE m == Len(q)
           a == SubSeq(q, 1, n - 1)
           b == SubSeq(q, n + 1, m)
<1>1. m \in Nat /\ DOMAIN q = 1..m /\ n \in 1..m /\ \A j \in 1..m : q[j] \in Kernels
  BY ElementOfSeq, LenProperties
<1> HIDE DEF m
<1>2. /\ a \in Seq(Kernels) /\ Len(a) = n - 1 /\ \A i \in 1..(n - 1) : a[i] = q[i]
  <2>1. 1 \in Nat /\ n - 1 \in Nat /\ \A i \in 1..(n - 1) : q[i] \in Kernels
    BY <1>1
  <2>2. /\ a \in Seq(Kernels) /\ Len(a) = IF 1 <= n - 1 THEN (n - 1) - 1 + 1 ELSE 0
        /\ \A i \in 1..((n - 1) - 1 + 1) : a[i] = q[1 + i - 1]
    BY <2>1, SubSeqProperties
  <2> HIDE DEF a
  <2>3. Len(a) = n - 1
    BY <1>1, <2>2
  <2>4. \A i \in 1..(n - 1) : i \in 1..((n - 1) - 1 + 1) /\ 1 + i - 1 = i
    BY <1>1
  <2>5. QED
    BY <2>2, <2>3, <2>4
<1>3. /\ b \in Seq(Kernels) /\ Len(b) = m - n /\ \A i \in 1..(m - n) : b[i] = q[i + n]
  <2>1. n + 1 \in Nat /\ m \in Nat /\ \A i \in (n + 1)..m : q[i] \in Kernels
    BY <1>1
  <2>2. /\ b \in Seq(Kernels) /\ Len(b) = IF n + 1 <= m THEN m - (n + 1) + 1 ELSE 0
        /\ \A i \in 1..(m - (n + 1) + 1) : b[i] = q[(n + 1) + i - 1]
    BY <2>1, SubSeqProperties
  <2> HIDE DEF b
  <2>3. Len(b) = m - n
    BY <1>1, <2>2
  <2>4. \A i \in 1..(m - n) : i \in 1..(m - (n + 1) + 1) /\ (n + 1) + i - 1 = i + n
    BY <1>1
  <2>5. QED
    BY <2>2, <2>3, <2>4
<1> HIDE DEF a, b
<1>4. r = a \o b
  BY DEF a, b, m
<1>5. /\ r \in Seq(Kernels) /\ Len(r) = Len(a) + Len(b)
      /\ \A i \in 1..(Len(a) + Len(b)) :
           r[i] = IF i <= Len(a) THEN a[i] ELSE b[i - Len(a)]
  <2>1. a \in Seq(Kernels) /\ b \in Seq(Kernels)
    BY <1>2, <1>3
  <2>2. QED
    BY <1>4, <2>1, ConcatProperties
<1>6. Len(a) = n - 1 /\ Len(b) = m - n /\ (n - 1) + (m - n) = m - 1
  BY <1>1, <1>2, <1>3
<1>7. Len(r) = m - 1 /\ DOMAIN r = 1..(m - 1)
  BY <1>5, <1>6, LenProperties
<1>8. ASSUME NEW l \in 1..(m - 1)
      PROVE  r[l] = q[IF l < n THEN l ELSE l + 1]
  <2>1. r[l] = IF l <= n - 1 THEN a[l] ELSE b[l - (n - 1)]
    BY <1>5, <1>6
  <2>2. CASE l < n
    <3>1. l <= n - 1 /\ l \in 1..(n - 1)
      BY <1>1, <2>2
    <3>2. QED
      BY <1>2, <2>1, <2>2, <3>1
  <2>3. CASE ~(l < n)
    <3>1. ~(l <= n - 1) /\ l - (n - 1) \in 1..(m - n) /\ (l - (n - 1)) + n = l + 1
      <4>1. m \in Nat /\ n \in 1..m /\ l \in 1..(m - 1)
        BY <1>1
      <4>2. ~(l <= n - 1) /\ l >= n
        BY <2>3, <4>1
      <4>3. l - (n - 1) \in 1..(m - n)
        BY <4>1, <4>2
      <4>4. (l - (n - 1)) + n = l + 1
        BY <4>1
      <4>5. QED
        BY <4>2, <4>3, <4>4
    <3>2. r[l] = b[l - (n - 1)] /\ b[l - (n - 1)] = q[(l - (n - 1)) + n]
      BY <1>3, <2>1, <3>1
    <3>3. QED
      BY <2>3, <3>1, <3>2
  <2>4. QED
    BY <2>2, <2>3
<1>9. QED
  BY <1>1, <1>7, <1>8 DEF m

LEMMA RunKernelDrains == Drained /\ RunKernel => Drained'
<1> SUFFICES ASSUME Drained, RunKernel PROVE Drained'
  OBVIOUS
<1>1. /\ Inv' /\ Waited /\ queue \in Seq(Kernels)
      /\ UNCHANGED <<todo, frames, going, live, held>>
      /\ status = "running" /\ status' = "running"
  BY RunKernelKeepsInv DEF Drained, Usable, Inv, Shape, RunKernel, host
<1>2. Usable'
  BY <1>1, UsableStays DEF Drained
<1>3. seen \subseteq seen'
  BY DEF RunKernel, Well, Badly
<1>4. PICK n \in DOMAIN queue :
        queue' = SubSeq(queue, 1, n - 1) \o SubSeq(queue, n + 1, Len(queue))
  BY DEF RunKernel
<1>5. \A i \in DOMAIN queue' : \E j \in DOMAIN queue : queue'[i] = queue[j]
  <2>1. PICK q, r : q = queue /\ r = queue'
    OBVIOUS
  <2>2. q \in Seq(Kernels) /\ n \in DOMAIN q
        /\ r = SubSeq(q, 1, n - 1) \o SubSeq(q, n + 1, Len(q))
    BY <1>1, <1>4, <2>1
  <2>3. PICK m : m = Len(q)
    OBVIOUS
  <2>4. /\ m \in Nat /\ DOMAIN q = 1..m /\ n \in 1..m /\ DOMAIN r = 1..(m - 1)
        /\ \A l \in 1..(m - 1) : r[l] = q[IF l < n THEN l ELSE l + 1]
    BY <2>2, <2>3, Removed
  <2>5. \A l \in 1..(m - 1) : (IF l < n THEN l ELSE l + 1) \in 1..m
    BY <2>4
  <2>6. QED
    BY <2>1, <2>4, <2>5
<1>6. ASSUME NEW k, Safe(k) PROVE Safe(k)'
  BY <1>1, <1>6 DEF Safe, Soon, CleanupWaits, Skipped
<1>7. ASSUME "escaped" \notin seen', NEW i \in DOMAIN queue'
      PROVE  Safe(queue[i])'
  <2>1. PICK j \in DOMAIN queue : queue'[i] = queue[j]
    BY <1>5
  <2>2. PICK k : k = queue[j]
    OBVIOUS
  <2>3. Safe(k)
    BY <1>1, <1>3, <1>7, <2>2 DEF Waited
  <2>4. Safe(k)' /\ queue'[i] = k
    BY <1>6, <2>1, <2>2, <2>3
  <2>5. QED
    BY <2>4
<1>8. QED
  BY <1>1, <1>2, <1>7 DEF Drained, Waited

LEMMA DrainedStays ==
  ASSUME Drained, Usable', UNCHANGED <<todo, frames, going, live, held, queue>>,
         status' = "idle" => status = "idle", seen \subseteq seen'
  PROVE  Drained'
  BY DEF Drained, Waited, Safe, Soon, CleanupWaits, Skipped

LEMMA NextDrains == Drained /\ [Next]_vars => Drained'
<1> SUFFICES ASSUME Drained, [Next]_vars PROVE Drained'
  OBVIOUS
<1>1. Usable'
  BY NextUses DEF Drained
<1>2. CASE Start
  <2>1. UNCHANGED <<todo, frames, going, live, held, queue>>
        /\ (status' = "idle" => status = "idle") /\ queue = <<>> /\ DOMAIN queue = {}
    BY <1>2 DEF Start, host, device, Drained, Waited
  <2>2. QED
    BY <1>1, <2>1 DEF Drained, Waited
<1>3. CASE Finish
  <2>1. UNCHANGED <<todo, frames, going, live, held, queue, seen>> /\ status' = Verdict
    BY <1>3 DEF Finish, host, device
  <2>2. status' # "idle"
    BY <2>1 DEF Verdict, Drained, Usable, Inv, TypeOK
  <2>3. QED
    BY <1>1, <2>1, <2>2, DrainedStays
<1>4. CASE UNCHANGED vars
  BY <1>1, <1>4, DrainedStays DEF vars, host, device
<1>5. CASE Skip \/ Succeed \/ Fail \/ Compare \/ Stop \/ Frame \/ RunKernel
  BY <1>5, SkipDrains, SucceedDrains, FailDrains, CompareDrains, StopDrains, FrameDrains,
     RunKernelDrains
<1>6. QED
  BY <1>2, <1>3, <1>4, <1>5 DEF Next, Host, Done

(* Whatever fails and in whatever order the device runs: unless a wait       *)
(* threw, nothing that a queued kernel uses has been released.               *)
THEOREM NothingDangles == Spec => []DeviceNeverDangles
<1>1. Init => Drained
  BY InitDrained
<1>2. Drained /\ [Next]_vars => Drained'
  BY NextDrains
<1>3. Drained => DeviceNeverDangles
  BY DrainedDangles
<1>4. QED
  BY <1>1, <1>2, <1>3, PTL DEF Spec

-------------------------------------------------------------------------------
(* What goes right.  A value is due before place n of the queue if the kernels *)
(* ahead of that leave it, whatever else the device does in the meantime.      *)
Due(p, n) ==
  \/ /\ mem[p[1]] = p[2]
     /\ \A j \in 1..(n - 1) : p[1] \notin Writes(queue[j])
  \/ \E j \in 1..(n - 1) :
       /\ p \in queue[j].writes
       /\ \A l \in (j + 1)..(n - 1) : p[1] \notin Writes(queue[l])

(* A queued kernel finds what it needs when its turn comes, and cannot take    *)
(* its turn before one that concerns it.                                       *)
Fitting(k) ==
  /\ Writes(k) \subseteq Names
  /\ \A v, w \in k.writes : v[1] = w[1] => v = w
Lined ==
  \A i \in DOMAIN queue :
    /\ Fitting(queue[i])
    /\ \A p \in queue[i].needs : p[1] \in Names /\ Due(p, i)
    /\ \A j \in 1..(i - 1) : Conflict(queue[i], queue[j]) => j \in Before(i)

(* What an outline knows is so.                                                *)
Holds(a) ==
  /\ going \in a.going
  /\ \A i \in DOMAIN queue : queue[i] \in a.queue
  /\ \A p \in a.known : p[1] \in Names /\ Due(p, Len(queue) + 1)

Blameless == seen \subseteq {"unreleased", "escaped"}
Foreseen == \E A : Follows(todo, A) /\ Holds(A[0])
Clean ==
  Blameless =>
    /\ exc = "none" /\ good = TRUE /\ status \in {"idle", "running", "pass"}
    /\ Lined /\ Foreseen
Sane == Usable /\ Clean

LEMMA SaneIsFair == Sane => BlameIsEarned
  BY DEF Sane, Clean, Blameless, BlameIsEarned

LEMMA HoldsWeaker ==
  ASSUME NEW a, NEW b, Implies(a, b)
  PROVE  Holds(a) => Holds(b)
  BY DEF Holds, Implies

LEMMA HoldsWeakerNext ==
  ASSUME NEW a, NEW b, Implies(a, b)
  PROVE  Holds(a)' => Holds(b)'
  BY DEF Holds, Implies

LEMMA FollowsRest ==
  ASSUME NEW t \in Seq(Steps), NEW n, NEW u, Rest(t, n, u), NEW A, Follows(t, A)
  PROVE  \E B : Follows(u, B) /\ B[0] = A[n]
<1> DEFINE B == [i \in 0..Len(u) |-> A[i + n]]
<1>1. /\ n \in Nat /\ Len(u) \in Nat /\ DOMAIN u = 1..Len(u)
      /\ \A i \in DOMAIN u : i + n \in DOMAIN t /\ u[i] = t[i + n]
  BY RestIn
<1>2. \A i \in 0..Len(u) : B[i] = A[i + n]
  OBVIOUS
<1>3. B[0] = A[n]
  BY <1>1, <1>2
<1> HIDE DEF B
<1>4. ASSUME NEW i \in DOMAIN u
      PROVE  Justified(u[i], B[i - 1]) /\ Implies(After(u[i], B[i - 1]), B[i])
  <2>1. i - 1 \in 0..Len(u) /\ i \in 0..Len(u) /\ (i - 1) + n = (i + n) - 1
    BY <1>1
  <2>2. B[i - 1] = A[(i + n) - 1] /\ B[i] = A[i + n] /\ u[i] = t[i + n] /\ i + n \in DOMAIN t
    BY <1>1, <1>2, <2>1
  <2>3. QED
    BY <2>2 DEF Follows
<1>5. QED
  BY <1>3, <1>4 DEF Follows

(* What is left out of a cleanup may only lose what was known.                 *)
LEMMA OptionalImplies ==
  ASSUME NEW s, Optional(s), NEW a
  PROVE  Implies(a, After(s, a))
<1>1. /\ s.op = "call" /\ ~Unowned(s) /\ ~Recorded(s) /\ s.effect.do \in {"lose", "drain"}
      /\ ~Sure(s, a.going)
  BY DEF Optional, Recorded, Sure
<1>2. Recording(s, a.going) = a.going /\ Queued(s, a) = a.queue /\ Given(s, a.going) = {}
  BY <1>1 DEF Recording, Queued, Given
<1>3. QED
  BY <1>2 DEF Implies, After

LEMMA ImpliesThrough ==
  ASSUME NEW a, NEW b, NEW c, Implies(a, b), Implies(b, c)
  PROVE  Implies(a, c)
  BY DEF Implies

LEMMA OptionalPasses ==
  ASSUME NEW t \in Seq(Steps), NEW A, Follows(t, A), NEW n \in Nat, n <= Len(t),
         \A k \in 2..n : Optional(t[k]), n # 0
  PROVE  Implies(A[1], A[n])
<1> DEFINE M == {m \in Nat : m + 1 <= n => Implies(A[1], A[m + 1])}
<1>0. DOMAIN t = 1..Len(t) /\ Len(t) \in Nat
  BY LenProperties
<1>1. 0 \in M
  BY DEF Implies
<1>2. ASSUME NEW m \in Nat, m \in M
      PROVE  m + 1 \in M
  <2> SUFFICES ASSUME (m + 1) + 1 <= n PROVE Implies(A[1], A[(m + 1) + 1])
    OBVIOUS
  <2>1. /\ (m + 1) + 1 \in 2..n /\ (m + 1) + 1 \in DOMAIN t
        /\ ((m + 1) + 1) - 1 = m + 1 /\ m + 1 <= n
    BY <1>0
  <2>2. Implies(A[1], A[m + 1])
    BY <1>2, <2>1
  <2>3. Implies(After(t[(m + 1) + 1], A[m + 1]), A[(m + 1) + 1])
    BY <2>1 DEF Follows
  <2>4. Implies(A[m + 1], After(t[(m + 1) + 1], A[m + 1]))
    BY <2>1, OptionalImplies
  <2>5. QED
    BY <2>2, <2>3, <2>4, ImpliesThrough
<1> HIDE DEF M
<1>3. Nat \subseteq M
  BY <1>1, <1>2, SetInduction
<1>4. n - 1 \in Nat /\ (n - 1) + 1 = n
  OBVIOUS
<1>5. n - 1 \in M /\ (n - 1) + 1 <= n
  BY <1>3, <1>4
<1>6. Implies(A[1], A[(n - 1) + 1])
  BY <1>5, Zenon DEF M
<1>7. QED
  BY <1>4, <1>6

(* A step after which its consequences hold goes on as foreseen.               *)
LEMMA GoesOn ==
  ASSUME todo \in Seq(Steps), todo # <<>>,
         NEW A, Follows(todo, A), NEW a, a = After(Head(todo), A[0]), Holds(a)',
         NEW n \in Nat \ {0}, Rest(todo, n, todo'), \A k \in 2..n : Optional(todo[k])
  PROVE  Foreseen'
<1>1. Head(todo) = todo[1] /\ 1 \in DOMAIN todo
  BY TailRests
<1>2. Implies(After(todo[1], A[1 - 1]), A[1]) /\ 1 - 1 = 0
  BY <1>1 DEF Follows
<1>3. n <= Len(todo)
  BY DEF Rest
<1>4. Implies(A[1], A[n])
  BY <1>3, OptionalPasses
<1>5. Implies(a, A[n])
  BY <1>1, <1>2, <1>4, ImpliesThrough
<1>6. Holds(A[n])'
  BY <1>5, HoldsWeakerNext
<1>7. PICK B : Follows(todo', B) /\ B[0] = A[n]
  BY FollowsRest
<1>8. QED
  BY <1>6, <1>7 DEF Foreseen

-------------------------------------------------------------------------------
(* The effect of a call.  Ahead of place n the queue is what it was.           *)
LEMMA DueStays ==
  ASSUME NEW p, NEW n, mem'[p[1]] = mem[p[1]],
         \A j \in 1..(n - 1) : queue'[j] = queue[j]
  PROVE  Due(p, n)' <=> Due(p, n)
<1>1. ASSUME NEW j \in 1..(n - 1), NEW l \in (j + 1)..(n - 1)
      PROVE  queue'[l] = queue[l]
  <2>1. l \in 1..(n - 1)
    OBVIOUS
  <2>2. QED
    BY <2>1
<1>2. QED
  BY <1>1 DEF Due

(* Names nobody in the queue reads have changed.                               *)
LEMMA ChangedLined ==
  ASSUME Lined, UNCHANGED queue, NEW C, \A b \in Names \ C : mem'[b] = mem[b],
         \A i \in DOMAIN queue : C \intersect Reads(queue[i]) = {}
  PROVE  Lined'
<1> SUFFICES ASSUME NEW i \in DOMAIN queue, NEW p \in queue[i].needs
             PROVE  p[1] \in Names /\ Due(p, i)'
  BY DEF Lined, Before
<1>1. p[1] \in Names /\ Due(p, i)
  BY DEF Lined
<1>2. p[1] \notin C
  BY DEF Reads
<1>3. QED
  BY <1>1, <1>2, DueStays

LEMMA ChangedHolds ==
  ASSUME NEW a, Holds(a), UNCHANGED queue,
         NEW C, \A b \in Names \ C : mem'[b] = mem[b],
         NEW b, going' \in b.going, \A i \in DOMAIN queue : queue[i] \in b.queue,
         \A p \in b.known : \/ p \in a.known /\ p[1] \notin C
                            \/ p[1] \in Names /\ Due(p, Len(queue) + 1)'
  PROVE  Holds(b)'
<1> SUFFICES ASSUME NEW p \in b.known, p \in a.known, p[1] \notin C
             PROVE  p[1] \in Names /\ Due(p, Len(queue) + 1)'
  BY DEF Holds
<1>1. p[1] \in Names /\ Due(p, Len(queue) + 1)
  BY DEF Holds
<1>2. QED
  BY <1>1, DueStays

(* A kernel is queued.                                                         *)
LEMMA Appended ==
  ASSUME NEW k \in Kernels, Shape, queue' = Append(queue, k)
  PROVE  /\ Len(queue) \in Nat /\ DOMAIN queue = 1..Len(queue)
         /\ Len(queue') = Len(queue) + 1 /\ DOMAIN queue' = 1..(Len(queue) + 1)
         /\ queue'[Len(queue) + 1] = k
         /\ \A i \in 1..Len(queue) : queue'[i] = queue[i]
<1>1. queue \in Seq(Kernels)
  BY DEF Shape
<1>2. /\ queue' \in Seq(Kernels) /\ Len(queue') = Len(queue) + 1
      /\ \A i \in 1..Len(queue) : queue'[i] = queue[i]
      /\ queue'[Len(queue) + 1] = k
  BY <1>1, AppendProperties
<1>3. QED
  BY <1>1, <1>2, LenProperties

LEMMA PushedLined ==
  ASSUME Shape, Lined, NEW a, Holds(a), NEW k \in Kernels,
         queue' = Append(queue, k), UNCHANGED mem,
         Fitting(k), k.needs \subseteq a.known,
         \A l \in a.queue : Conflict(k, l) => l.stream \in k.waits \union {k.stream}
  PROVE  Lined'
<1>0. PICK m : m = Len(queue)
  OBVIOUS
<1>1. /\ m \in Nat /\ DOMAIN queue = 1..m /\ DOMAIN queue' = 1..(m + 1)
      /\ queue'[m + 1] = k /\ \A i \in 1..m : queue'[i] = queue[i]
  BY <1>0, Appended
<1>2. ASSUME NEW i \in 1..(m + 1), NEW p
      PROVE  Due(p, i)' <=> Due(p, i)
  <2>1. \A j \in 1..(i - 1) : queue'[j] = queue[j]
    BY <1>1
  <2>2. QED
    BY <2>1, DueStays
<1>3. \A i \in 1..m : Before(i)' = Before(i)
  <2> SUFFICES ASSUME NEW i \in 1..m PROVE Before(i)' = Before(i)
    OBVIOUS
  <2>1. \A j \in 1..(i - 1) : queue'[j] = queue[j] /\ queue'[i] = queue[i]
    BY <1>1
  <2>2. QED
    BY <2>1 DEF Before
<1>4. ASSUME NEW i \in 1..m
      PROVE  /\ Fitting(queue'[i])
             /\ \A p \in queue'[i].needs : p[1] \in Names /\ Due(p, i)'
             /\ \A j \in 1..(i - 1) : Conflict(queue'[i], queue'[j]) => j \in Before(i)'
  <2>1. i \in 1..(m + 1) /\ queue'[i] = queue[i] /\ \A j \in 1..(i - 1) : queue'[j] = queue[j]
    BY <1>1
  <2>2. QED
    BY <1>1, <1>2, <1>3, <2>1 DEF Lined
<1>5. /\ Fitting(queue'[m + 1])
      /\ \A p \in queue'[m + 1].needs : p[1] \in Names /\ Due(p, m + 1)'
      /\ \A j \in 1..((m + 1) - 1) :
           Conflict(queue'[m + 1], queue'[j]) => j \in Before(m + 1)'
  <2>1. ASSUME NEW p \in k.needs PROVE p[1] \in Names /\ Due(p, m + 1)'
    <3>1. p[1] \in Names /\ Due(p, m + 1)
      BY <1>0 DEF Holds
    <3>2. m + 1 \in 1..(m + 1)
      BY <1>1
    <3>3. QED
      BY <1>2, <3>1, <3>2
  <2>2. ASSUME NEW j \in 1..((m + 1) - 1), Conflict(queue'[m + 1], queue'[j])
        PROVE  j \in Before(m + 1)'
    <3>1. j \in 1..m /\ queue'[j] = queue[j] /\ queue[j] \in a.queue
      BY <1>1 DEF Holds
    <3>2. queue[j].stream \in k.waits \union {k.stream}
      BY <1>1, <2>2, <3>1
    <3>3. QED
      BY <1>1, <3>1, <3>2 DEF Before
  <2>3. QED
    BY <1>1, <2>1, <2>2
<1>6. \A i \in 1..(m + 1) : i \in 1..m \/ i = m + 1
  BY <1>1
<1>7. QED
  BY <1>1, <1>4, <1>5, <1>6 DEF Lined

LEMMA PushedHolds ==
  ASSUME Shape, NEW a, Holds(a), NEW k \in Kernels,
         queue' = Append(queue, k), UNCHANGED mem, Fitting(k),
         NEW b, going' \in b.going, a.queue \union {k} \subseteq b.queue,
         \A p \in b.known : (p \in a.known /\ p[1] \notin Writes(k)) \/ p \in k.writes
  PROVE  Holds(b)'
<1>0. PICK m : m = Len(queue)
  OBVIOUS
<1>1. /\ m \in Nat /\ DOMAIN queue = 1..m /\ DOMAIN queue' = 1..(m + 1)
      /\ Len(queue') = m + 1
      /\ queue'[m + 1] = k /\ \A i \in 1..m : queue'[i] = queue[i]
  BY <1>0, Appended
<1>2. \A i \in DOMAIN queue' : queue'[i] \in b.queue
  <2>1. \A i \in 1..(m + 1) : i \in 1..m \/ i = m + 1
    BY <1>1
  <2>2. \A i \in 1..m : queue[i] \in a.queue
    BY <1>1 DEF Holds
  <2>3. QED
    BY <1>1, <2>1, <2>2
<1>3. ASSUME NEW p \in b.known
      PROVE  p[1] \in Names /\ Due(p, (m + 1) + 1)'
  <2>0. ((m + 1) + 1) - 1 = m + 1 /\ m + 1 \in 1..(m + 1)
    BY <1>1
  <2>1. CASE p \in k.writes
    <3>1. p[1] \in Writes(k) /\ p[1] \in Names
      BY <2>1 DEF Writes, Fitting
    <3>2. \A l \in ((m + 1) + 1)..(m + 1) : FALSE
      BY <1>1
    <3>3. p \in queue'[m + 1].writes /\ \A l \in ((m + 1) + 1)..(m + 1) : p[1] \notin Writes(queue'[l])
      BY <1>1, <2>1, <3>2
    <3>4. QED
      BY <2>0, <3>1, <3>3 DEF Due
  <2>2. CASE p \in a.known /\ p[1] \notin Writes(k)
    <3>1. p[1] \in Names /\ Due(p, m + 1) /\ (m + 1) - 1 = m
      BY <1>0, <1>1, <2>2 DEF Holds
    <3>2. CASE mem[p[1]] = p[2] /\ \A j \in 1..m : p[1] \notin Writes(queue[j])
      <4>1. \A j \in 1..(m + 1) : p[1] \notin Writes(queue'[j])
        <5>1. \A j \in 1..(m + 1) : j \in 1..m \/ j = m + 1
          BY <1>1
        <5>2. QED
          BY <1>1, <2>2, <3>2, <5>1
      <4>2. QED
        BY <2>0, <3>1, <3>2, <4>1 DEF Due
    <3>3. ASSUME NEW j \in 1..m, p \in queue[j].writes,
                 \A l \in (j + 1)..m : p[1] \notin Writes(queue[l])
          PROVE  Due(p, (m + 1) + 1)'
      <4>1. \A l \in (j + 1)..(m + 1) : (l \in (j + 1)..m /\ l \in 1..m) \/ l = m + 1
        BY <1>1
      <4>2. \A l \in (j + 1)..(m + 1) : p[1] \notin Writes(queue'[l])
        BY <1>1, <2>2, <3>3, <4>1
      <4>3. j \in 1..(m + 1) /\ p \in queue'[j].writes
        BY <1>1, <3>3
      <4>4. QED
        BY <2>0, <4>2, <4>3 DEF Due
    <3>4. QED
      BY <3>1, <3>2, <3>3 DEF Due
  <2>3. QED
    BY <2>1, <2>2
<1>4. QED
  BY <1>1, <1>2, <1>3 DEF Holds

(* A value that nothing in the queue overwrites is there already.              *)
LEMMA DueNow ==
  ASSUME Shape, NEW a, Holds(a), NEW p, Due(p, Len(queue) + 1),
         p[1] \notin Overwritten(a.queue)
  PROVE  mem[p[1]] = p[2] /\ \A j \in DOMAIN queue : p[1] \notin Writes(queue[j])
<1>0. PICK m : m = Len(queue)
  OBVIOUS
<1>1. /\ m \in Nat /\ DOMAIN queue = 1..m /\ (m + 1) - 1 = m
      /\ \A j \in 1..m : queue[j] \in a.queue
  BY <1>0, LenProperties DEF Shape, Holds
<1>2. \A j \in 1..m : p[1] \notin Writes(queue[j])
  BY <1>1 DEF Overwritten
<1>3. \A j \in 1..m : p \notin queue[j].writes
  BY <1>2 DEF Writes
<1>4. QED
  BY <1>0, <1>1, <1>2, <1>3 DEF Due

LEMMA WellDone ==
  ASSUME Inv, NEW s \in Calls, ~Skipped(s), NEW a, Justified(s, a), Holds(a), Lined,
         "ok" \in s.want, Effect(s.effect, "none"),
         s.effect.do = "drain" => Pending(s.effect.stream) = {},
         going' = (going \/ Recorded(s)), NEW b, b = After(s, a)
  PROVE  Lined' /\ Holds(b)'
<1>1. /\ Shape /\ going \in BOOLEAN /\ going \in a.going /\ DOMAIN mem = Names
      /\ s.op = "call" /\ (s.chained => going)
  BY DEF Inv, TypeOK, Holds, Calls, Skipped
<1>2. ~LeftOut(s, a.going) /\ ~Never(s, a.going) /\ Apposite(s, a)
  <2>1. s.chained => TRUE \in a.going
    BY <1>1
  <2>2. QED
    BY <1>1, <2>1 DEF LeftOut, Never, Justified
<1>3. going' \in b.going
  <2>1. b.going = Recording(s, a.going)
    BY DEF After
  <2>2. CASE Recorded(s)
    <3>1. going' = TRUE /\ TRUE \in Codes(s)
      BY <1>1, <2>2 DEF Codes
    <3>2. QED
      BY <1>1, <1>2, <2>1, <2>2, <3>1 DEF Recording
  <2>3. CASE ~Recorded(s)
    BY <1>1, <2>1, <2>3 DEF Recording
  <2>4. QED
    BY <2>2, <2>3
<1>4. /\ b.queue = Queued(s, a)
      /\ b.known = {p \in a.known : p[1] \notin Upset(s, a)} \union
                   (IF NeedsOf(s.effect) \subseteq a.known THEN Given(s, a.going) ELSE {})
  BY <1>1 DEF After
<1>5. \A i \in DOMAIN queue : queue[i] \in a.queue
  BY DEF Holds
<1>6. CASE s.effect.do = "gain"
  <2> DEFINE r == s.effect.r
  <2>1. PICK l : mem' = [mem EXCEPT ![r] = l]
    BY <1>6 DEF Effect
  <2>2. UNCHANGED queue /\ \A n \in Names \ {r} : mem'[n] = mem[n]
    BY <1>1, <1>6, <2>1 DEF Effect
  <2>3. \A i \in DOMAIN queue : {r} \intersect Reads(queue[i]) = {}
    BY <1>2, <1>5, <1>6 DEF Apposite, Changes
  <2>4. Upset(s, a) = {r} /\ Given(s, a.going) = {} /\ b.queue = a.queue
    BY <1>1, <1>2, <1>4, <1>6 DEF Upset, MayLose, Changes, Given, Brings, Queued
  <2>5. \A p \in b.known : p \in a.known /\ p[1] \notin {r}
    BY <1>4, <2>4
  <2> HIDE DEF r
  <2>6. Lined'
    BY <2>2, <2>3, ChangedLined
  <2>7. Holds(b)'
    BY <1>3, <1>5, <2>2, <2>4, <2>5, ChangedHolds
  <2>8. QED
    BY <2>6, <2>7
<1>7. CASE s.effect.do = "store"
  <2> DEFINE e == s.effect
  <2>1. mem' = [mem EXCEPT ![e.b] = Computed(e.label, e.needs)] /\ UNCHANGED queue
    BY <1>7 DEF Effect
  <2>2. e.b \in Names /\ \A n \in Names \ {e.b} : mem'[n] = mem[n]
    BY <1>1, <1>2, <1>7, <2>1 DEF Apposite, Changes
  <2>3. \A i \in DOMAIN queue : e.b \notin Reads(queue[i]) \union Writes(queue[i])
    BY <1>2, <1>5, <1>7 DEF Apposite, Changes
  <2>4. /\ Upset(s, a) = {e.b} /\ Given(s, a.going) \subseteq {<<e.b, e.label>>}
        /\ b.queue = a.queue /\ NeedsOf(e) = e.needs
    BY <1>1, <1>2, <1>4, <1>7 DEF Upset, MayLose, Changes, Given, Brings, Queued, NeedsOf
  <2>5. \A n \in e.needs : n[1] \notin Overwritten(a.queue)
    BY <1>2, <1>7 DEF Apposite
  <2>6. ASSUME e.needs \subseteq a.known
        PROVE  mem'[e.b] = e.label
    <3>1. \A n \in e.needs : mem[n[1]] = n[2]
      <4> SUFFICES ASSUME NEW n \in e.needs PROVE mem[n[1]] = n[2]
        OBVIOUS
      <4>1. Due(n, Len(queue) + 1)
        BY <2>6 DEF Holds
      <4>2. QED
        BY <1>1, <2>5, <4>1, DueNow
    <3>2. Computed(e.label, e.needs) = e.label
      BY <3>1 DEF Computed
    <3>3. QED
      BY <1>1, <2>1, <2>2, <3>2
  <2> HIDE DEF e
  <2>7. ASSUME NEW p, p = <<e.b, e.label>>, e.needs \subseteq a.known
        PROVE  p[1] \in Names /\ Due(p, Len(queue) + 1)'
    <3>0. PICK m : m = Len(queue)
      OBVIOUS
    <3>1. m \in Nat /\ DOMAIN queue = 1..m /\ (m + 1) - 1 = m
      BY <1>1, <3>0, LenProperties DEF Shape
    <3>2. p[1] = e.b /\ p[2] = e.label /\ mem'[p[1]] = p[2]
      BY <2>6, <2>7
    <3>3. \A j \in 1..m : p[1] \notin Writes(queue'[j])
      BY <2>1, <2>3, <3>1, <3>2
    <3>4. Due(p, m + 1)'
      BY <3>1, <3>2, <3>3 DEF Due
    <3>5. QED
      BY <2>1, <2>2, <3>0, <3>2, <3>4
  <2>8. \A p \in b.known : \/ p \in a.known /\ p[1] \notin {e.b}
                           \/ p[1] \in Names /\ Due(p, Len(queue) + 1)'
    <3> SUFFICES ASSUME NEW p \in b.known, ~(p \in a.known /\ p[1] \notin {e.b})
                 PROVE  p[1] \in Names /\ Due(p, Len(queue) + 1)'
      OBVIOUS
    <3>1. p = <<e.b, e.label>> /\ e.needs \subseteq a.known
      BY <1>4, <2>4 DEF e
    <3>2. QED
      BY <2>7, <3>1
  <2>9. \A i \in DOMAIN queue : {e.b} \intersect Reads(queue[i]) = {}
    BY <2>3
  <2>10. Lined'
    BY <2>1, <2>2, <2>9, ChangedLined
  <2>11. Holds(b)'
    BY <1>3, <1>5, <2>1, <2>2, <2>4, <2>8, ChangedHolds
  <2>12. QED
    BY <2>10, <2>11
<1>8. CASE s.effect.do = "push"
  <2> DEFINE k == s.effect.kernel
  <2>1. queue' = Append(queue, k) /\ UNCHANGED mem
    BY <1>8 DEF Effect
  <2>2. k \in Kernels
    BY <1>8 DEF Kernels
  <2>3. /\ Fitting(k) /\ k.needs \subseteq a.known
        /\ \A l \in a.queue : Conflict(k, l) => l.stream \in k.waits \union {k.stream}
    BY <1>2, <1>8 DEF Apposite, Changes, Fitting
  <2>4. /\ Upset(s, a) = Writes(k) /\ Given(s, a.going) \subseteq k.writes
        /\ b.queue = a.queue \union {k}
    BY <1>1, <1>2, <1>4, <1>8 DEF Upset, MayLose, Changes, Given, Brings, Queued
  <2> HIDE DEF k
  <2>5. \A p \in b.known : (p \in a.known /\ p[1] \notin Writes(k)) \/ p \in k.writes
    BY <1>4, <2>4
  <2>6. Lined'
    BY <1>1, <2>1, <2>2, <2>3, PushedLined
  <2>7. Holds(b)'
    BY <1>1, <1>3, <2>1, <2>2, <2>3, <2>4, <2>5, PushedHolds
  <2>8. QED
    BY <2>6, <2>7
<1>9. CASE s.effect.do \notin {"gain", "store", "push"}
  <2>1. UNCHANGED <<mem, queue>>
    BY <1>9 DEF Effect
  <2>2. Given(s, a.going) = {}
    BY <1>9 DEF Given, Brings
  <2>3. \A p \in b.known : p \in a.known /\ p[1] \notin {}
    BY <1>4, <2>2
  <2>4. \A i \in DOMAIN queue : queue[i] \in b.queue
    <3>1. CASE s.effect.do = "drain" /\ Sure(s, a.going)
      <4>1. \A i \in DOMAIN queue : queue[i].stream # s.effect.stream
        BY <3>1 DEF Pending
      <4>2. b.queue = {l \in a.queue : l.stream # s.effect.stream}
        BY <1>1, <1>4, <3>1 DEF Queued
      <4>3. QED
        BY <1>5, <4>1, <4>2
    <3>2. CASE ~(s.effect.do = "drain" /\ Sure(s, a.going))
      <4>1. b.queue = a.queue
        BY <1>1, <1>4, <1>9, <3>2 DEF Queued
      <4>2. QED
        BY <1>5, <4>1
    <3>3. QED
      BY <3>1, <3>2
  <2>5. /\ \A n \in Names \ {} : mem'[n] = mem[n]
        /\ \A i \in DOMAIN queue : {} \intersect Reads(queue[i]) = {}
    BY <2>1
  <2>6. Lined'
    BY <2>1, <2>5, ChangedLined
  <2>7. Holds(b)'
    BY <1>3, <2>1, <2>3, <2>4, <2>5, ChangedHolds
  <2>8. QED
    BY <2>6, <2>7
<1>10. QED
  BY <1>6, <1>7, <1>8, <1>9

(* A call that is left out.                                                    *)
LEMMA SkippedHolds ==
  ASSUME Inv, NEW s \in Calls, Skipped(s), NEW a, Holds(a), Lined,
         UNCHANGED <<mem, queue, going>>, NEW b, b = After(s, a)
  PROVE  Lined' /\ Holds(b)'
<1>1. /\ Shape /\ going \in BOOLEAN /\ going \in a.going /\ s.op = "call"
      /\ \/ s.chained /\ going = FALSE
         \/ ~Unowned(s)
         \/ Does(s, "gain", "ctx")
  BY DEF Inv, TypeOK, Holds, Calls, Skipped, Does
<1>2. Sure(s, a.going) => s.effect.do = "gain"
  <2>1. ASSUME Sure(s, a.going), s.chained PROVE going = TRUE
    BY <1>1, <2>1 DEF Sure
  <2>2. Sure(s, a.going) => Unowned(s)
    BY DEF Sure
  <2>3. QED
    BY <1>1, <2>1, <2>2 DEF Does
<1>3. /\ b.going = Recording(s, a.going) /\ b.queue = Queued(s, a)
      /\ b.known \subseteq a.known \union Given(s, a.going)
  BY DEF After
<1>4. going' \in b.going
  BY <1>1, <1>3 DEF Recording
<1>5. a.queue \subseteq b.queue
  BY <1>1, <1>2, <1>3 DEF Queued
<1>6. b.known \subseteq a.known
  BY <1>2, <1>3 DEF Given, Brings
<1>7. Lined'
  BY DEF Lined, Before, Due
<1>8. Holds(b)'
  BY <1>4, <1>5, <1>6 DEF Holds, Due
<1>9. QED
  BY <1>7, <1>8

(* A call that may fail does; a wait that fails may lose the queue.            *)
LEMMA FailedHolds ==
  ASSUME Inv, NEW s \in Calls, ~Skipped(s), NEW a, Holds(a), Lined,
         ~Sure(s, a.going), going' \in Recording(s, a.going), UNCHANGED mem,
         queue' = queue \/ (s.effect.do = "drain" /\ queue' = <<>>),
         NEW b, b = After(s, a)
  PROVE  Lined' /\ Holds(b)'
<1>1. /\ Shape /\ going \in BOOLEAN /\ going \in a.going /\ s.op = "call"
      /\ ~(s.chained /\ ~going)
  BY DEF Inv, TypeOK, Holds, Calls, Skipped
<1>2. ~LeftOut(s, a.going)
  BY <1>1 DEF LeftOut
<1>3. /\ b.going = Recording(s, a.going) /\ b.queue = Queued(s, a)
      /\ b.known = {p \in a.known : p[1] \notin Upset(s, a)}
  BY DEF After, Given
<1>4. a.queue \subseteq b.queue
  BY <1>1, <1>3 DEF Queued
<1>5. CASE queue' = queue
  <2>1. Lined'
    BY <1>5 DEF Lined, Before, Due
  <2>2. Holds(b)'
    BY <1>3, <1>4, <1>5 DEF Holds, Due
  <2>3. QED
    BY <2>1, <2>2
<1>6. CASE s.effect.do = "drain" /\ queue' = <<>>
  <2>1. Len(<<>>) = 0 /\ DOMAIN <<>> = {}
    OBVIOUS
  <2>2. Lined'
    BY <1>6, <2>1 DEF Lined
  <2>3. Upset(s, a) = Overwritten(a.queue)
    BY <1>1, <1>2, <1>6 DEF Upset, MayLose
  <2>4. ASSUME NEW p \in b.known
        PROVE  p[1] \in Names /\ Due(p, Len(queue) + 1)'
    <3>1. p \in a.known /\ p[1] \notin Overwritten(a.queue)
      BY <1>3, <2>3
    <3>2. p[1] \in Names /\ Due(p, Len(queue) + 1)
      BY <3>1 DEF Holds
    <3>3. mem'[p[1]] = p[2]
      BY <1>1, <3>1, <3>2, DueNow
    <3>4. Len(queue') + 1 = 1 /\ \A j \in 1..(1 - 1) : FALSE
      BY <1>6, <2>1
    <3>5. Due(p, 1)'
      BY <3>3, <3>4 DEF Due
    <3>6. QED
      BY <3>2, <3>4, <3>5
  <2>5. \A i \in DOMAIN queue' : queue'[i] \in b.queue
    BY <1>6, <2>1
  <2>6. QED
    BY <1>3, <2>2, <2>4, <2>5 DEF Holds
<1>7. QED
  BY <1>5, <1>6

(* The first step to run, and what is known before it.                         *)
LEMMA KnownNow ==
  ASSUME Sane, Blameless, todo # <<>>
  PROVE  /\ Inv /\ todo \in Seq(Steps) /\ Head(todo) \in Steps
         /\ Rest(todo, 1, Tail(todo)) /\ \A k \in 2..1 : Optional(todo[k])
         /\ exc = "none" /\ good = TRUE /\ Lined
         /\ \E A : Follows(todo, A) /\ Holds(A[0]) /\ Justified(Head(todo), A[0])
<1>1. /\ Inv /\ todo \in Seq(Steps) /\ exc = "none" /\ good = TRUE /\ Lined /\ Foreseen
  BY DEF Sane, Usable, Inv, Shape, Clean
<1>2. Rest(todo, 1, Tail(todo)) /\ Head(todo) = todo[1] /\ 1 \in DOMAIN todo
  BY <1>1, TailRests
<1>3. Head(todo) \in Steps
  BY <1>1, HeadTailProperties
<1>4. PICK A : Follows(todo, A) /\ Holds(A[0])
  BY <1>1 DEF Foreseen
<1>5. Justified(Head(todo), A[0])
  <2>1. 1 - 1 = 0
    OBVIOUS
  <2>2. QED
    BY <1>2, <1>4, <2>1 DEF Follows
<1>6. QED
  BY <1>1, <1>2, <1>3, <1>4, <1>5

LEMMA SkipIsClean == Sane /\ Skip => Clean'
<1> SUFFICES ASSUME Sane, Skip, Blameless'
             PROVE  /\ exc' = "none" /\ good' = TRUE /\ status' \in {"idle", "running", "pass"}
                    /\ Lined' /\ Foreseen'
  BY DEF Clean
<1>1. /\ Blameless /\ todo # <<>> /\ Head(todo).op = "call" /\ Skipped(Head(todo))
      /\ todo' = Tail(todo) /\ status = "running"
      /\ UNCHANGED <<exc, good, status, mem, queue, going>>
  BY DEF Skip, Runs, device, Blameless
<1>2. PICK A : Follows(todo, A) /\ Holds(A[0]) /\ Justified(Head(todo), A[0])
  BY <1>1, KnownNow
<1>3. PICK s, b : s = Head(todo) /\ b = After(s, A[0])
  OBVIOUS
<1>4. s \in Calls
  BY <1>1, <1>3, KnownNow DEF Calls
<1>5. Lined' /\ Holds(b)'
  BY <1>1, <1>2, <1>3, <1>4, KnownNow, SkippedHolds
<1>6. Foreseen'
  BY <1>1, <1>2, <1>3, <1>5, KnownNow, GoesOn
<1>7. QED
  BY <1>1, <1>5, <1>6, KnownNow

LEMMA SucceedIsClean == Sane /\ Succeed => Clean'
<1> SUFFICES ASSUME Sane, Succeed, Blameless'
             PROVE  /\ exc' = "none" /\ good' = TRUE /\ status' \in {"idle", "running", "pass"}
                    /\ Lined' /\ Foreseen'
  BY DEF Clean
<1>1. PICK s : s = Head(todo)
  OBVIOUS
<1>2. /\ todo # <<>> /\ s.op = "call" /\ ~Skipped(s) /\ status' = "running"
      /\ s.effect.do = "drain" => Pending(s.effect.stream) = {}
      /\ \/ "ok" \in s.want /\ Well /\ Effect(s.effect, "none")
         \/ "ok" \notin s.want /\ Badly({"answer"}) /\ Effect(s.effect, "none")
         \/ /\ s.effect.do = "store"
            /\ \E d \in s.effect.bad : Badly({d}) /\ Effect(s.effect, d)
      /\ IF s.mode = "must" THEN todo' = <<>> /\ exc' = "error" /\ good' = good
         ELSE todo' = Tail(todo) /\ exc' = exc /\ good' = (good /\ "ok" \in s.want)
      /\ going' = (going \/ Recorded(s))
  BY <1>1 DEF Succeed, Runs
<1>3. Blameless
  BY <1>2 DEF Blameless, Well, Badly
<1>4. s \in Calls
  BY <1>1, <1>2, <1>3, KnownNow DEF Calls
<1>5. "ok" \in s.want /\ Effect(s.effect, "none")
  <2>1. ~Badly({"answer"})
    BY DEF Badly, Blameless
  <2>2. ASSUME s.effect.do = "store", NEW d \in s.effect.bad, Badly({d})
        PROVE  FALSE
    <3>1. d \in Miscomputed
      BY <1>4, <2>2, ProgramsAreWellFormed DEF ProgramsAreWellFormed
    <3>2. d \in {"unreleased", "escaped"}
      BY <2>2 DEF Badly, Blameless
    <3>3. QED
      BY <3>1, <3>2 DEF Miscomputed
  <2>3. QED
    BY <1>2, <2>1, <2>2
<1>6. PICK A : Follows(todo, A) /\ Holds(A[0]) /\ Justified(s, A[0])
  BY <1>1, <1>2, <1>3, KnownNow
<1>7. PICK b : b = After(s, A[0])
  OBVIOUS
<1>8. Lined' /\ Holds(b)'
  BY <1>2, <1>3, <1>4, <1>5, <1>6, <1>7, KnownNow, WellDone
<1>9. s.mode # "must"
  BY <1>2, <1>5, <1>6 DEF Justified
<1>10. todo' = Tail(todo) /\ exc' = exc /\ good' = (good /\ "ok" \in s.want)
  BY <1>2, <1>9
<1>11. Foreseen'
  BY <1>1, <1>2, <1>3, <1>6, <1>7, <1>8, <1>10, KnownNow, GoesOn
<1>12. QED
  BY <1>2, <1>3, <1>5, <1>8, <1>10, <1>11, KnownNow

LEMMA FailIsClean == Sane /\ Fail => Clean'
<1> SUFFICES ASSUME Sane, Fail, Blameless'
             PROVE  /\ exc' = "none" /\ good' = TRUE /\ status' \in {"idle", "running", "pass"}
                    /\ Lined' /\ Foreseen'
  BY DEF Clean
<1>1. PICK s : s = Head(todo)
  OBVIOUS
<1>2. /\ todo # <<>> /\ s.op = "call" /\ ~Skipped(s) /\ status' = "running"
      /\ UNCHANGED mem
  BY <1>1 DEF Fail, Runs
<1>3. PICK how \in {"fail", "refused", "raise"} :
        /\ Takes(s, how)
        /\ IF how \notin s.want THEN Badly(Tags(s, how))
           ELSE /\ seen' = seen \union (IF Judged(s) THEN {} ELSE {"refused"})
                /\ faults' = faults
        /\ queue' = IF s.effect.do = "drain" /\ how # "raise" THEN <<>> ELSE queue
  BY <1>1 DEF Fail
<1>4. Blameless
  BY <1>3 DEF Blameless, Badly
<1>5. s \in Calls /\ s.want \subseteq {"ok", "fail", "refused"}
  <2>1. s \in Calls
    BY <1>1, <1>2, <1>4, KnownNow DEF Calls
  <2>2. QED
    BY <2>1, ProgramsAreWellFormed DEF ProgramsAreWellFormed
<1>6. PICK A : Follows(todo, A) /\ Holds(A[0]) /\ Justified(s, A[0])
  BY <1>1, <1>2, <1>4, KnownNow
<1>7. PICK b : b = After(s, A[0])
  OBVIOUS
<1>8. ASSUME ~Sure(s, A[0].going), going' \in Recording(s, A[0].going)
      PROVE  Lined' /\ Holds(b)'
  BY <1>2, <1>3, <1>4, <1>5, <1>6, <1>7, <1>8, KnownNow, FailedHolds
<1>9. CASE s.mode = "hush"
  <2> DEFINE m == IF how = "raise" THEN s.skip ELSE 0
  <2>1. todo' = SubSeq(todo, 2 + m, Len(todo)) /\ UNCHANGED <<exc, going, good>>
    BY <1>3, <1>9 DEF Takes
  <2>2. ~Sure(s, A[0].going) /\ ~Recorded(s)
    BY <1>9 DEF Sure, Recorded
  <2>3. going' \in Recording(s, A[0].going)
    BY <1>6, <2>1, <2>2 DEF Recording, Holds
  <2>4. Lined' /\ Holds(b)'
    BY <1>8, <2>2, <2>3
  <2>5. SkipsInside(todo)
    BY DEF Sane, Usable, Fits, Fit
  <2>6. /\ m \in Nat /\ Rest(todo, m + 1, todo')
        /\ \A k \in 2..(m + 1) : Optional(todo[k])
    BY <1>1, <1>2, <1>4, <2>1, <2>5, KnownNow, SkipsRest
  <2> HIDE DEF m
  <2>7. m + 1 \in Nat \ {0}
    BY <2>6
  <2>8. Foreseen'
    BY <1>1, <1>2, <1>4, <1>6, <1>7, <2>4, <2>6, <2>7, KnownNow, GoesOn
  <2>9. QED
    BY <1>2, <1>4, <2>1, <2>4, <2>8, KnownNow
<1>10. CASE s.mode # "hush"
  <2>1. how \in s.want
    <3>1. Tags(s, how) \intersect {"raise", "answer", "fail"} # {}
      BY <1>10 DEF Tags
    <3>2. ~Badly(Tags(s, how))
      BY <3>1 DEF Badly, Blameless
    <3>3. QED
      BY <1>3, <3>2
  <2>2. how # "raise" /\ how # "ok"
    BY <1>5, <2>1
  <2>3. Judged(s)
    BY <1>3, <2>1 DEF Blameless
  <2>4. ~LeftOut(s, A[0].going)
    <3>1. going \in BOOLEAN /\ going \in A[0].going /\ ~(s.chained /\ ~going)
      BY <1>2, <1>4, <1>6, KnownNow DEF Inv, TypeOK, Holds, Skipped
    <3>2. QED
      BY <3>1 DEF LeftOut
  <2>5. CASE s.mode = "must"
    <3>1. todo' = Tail(todo) /\ UNCHANGED <<exc, going, good>>
      BY <1>3, <2>1, <2>5 DEF Takes
    <3>2. ~Sure(s, A[0].going) /\ ~Recorded(s)
      BY <1>2, <1>6, <2>5 DEF Sure, Justified, Recorded
    <3>3. going' \in Recording(s, A[0].going)
      BY <1>6, <3>1, <3>2 DEF Recording, Holds
    <3>4. Lined' /\ Holds(b)'
      BY <1>8, <3>2, <3>3
    <3>5. Foreseen'
      BY <1>1, <1>2, <1>4, <1>6, <1>7, <3>1, <3>4, KnownNow, GoesOn
    <3>6. QED
      BY <1>2, <1>4, <3>1, <3>4, <3>5, KnownNow
  <2>6. CASE Recorded(s)
    <3>1. /\ todo' = Tail(todo) /\ exc' = exc /\ going' = FALSE
          /\ good' = (good /\ how \in s.want)
      BY <1>3, <2>2, <2>6 DEF Takes, Recorded
    <3>2. ~Sure(s, A[0].going)
      BY <2>1, <2>2, <2>6 DEF Sure
    <3>3. going' \in Recording(s, A[0].going)
      <4>1. FALSE \in Codes(s)
        BY <2>1, <2>2 DEF Codes
      <4>2. QED
        BY <1>2, <2>4, <2>6, <3>1, <4>1 DEF Recording
    <3>4. Lined' /\ Holds(b)'
      BY <1>8, <3>2, <3>3
    <3>5. Foreseen'
      BY <1>1, <1>2, <1>4, <1>6, <1>7, <3>1, <3>4, KnownNow, GoesOn
    <3>6. QED
      BY <1>2, <1>4, <2>1, <3>1, <3>4, <3>5, KnownNow
  <2>7. QED
    BY <2>3, <2>5, <2>6 DEF Judged, Recorded
<1>11. QED
  BY <1>9, <1>10

(* A step that is neither a call nor the end of a block changes nothing known. *)
LEMMA PlainAfter ==
  ASSUME NEW s, s.op \notin {"call", "leave"}, NEW a
  PROVE  Implies(a, After(s, a))
  BY DEF Implies, After, Recording, Queued, Upset, MayLose

LEMMA UnmovedHolds ==
  ASSUME UNCHANGED <<mem, queue, going>>
  PROVE  (Lined' <=> Lined) /\ \A a : Holds(a)' <=> Holds(a)
<1>1. Lined' <=> Lined
  BY DEF Lined, Before, Due
<1>2. ASSUME NEW a PROVE Holds(a)' <=> Holds(a)
  BY DEF Holds, Due
<1>3. QED
  BY <1>1, <1>2

LEMMA PlainGoesOn ==
  ASSUME Sane, Blameless, todo # <<>>, Head(todo).op \notin {"call", "leave"},
         UNCHANGED <<mem, queue, going>>, todo' = Tail(todo)
  PROVE  Lined' /\ Foreseen'
<1>1. PICK A : Follows(todo, A) /\ Holds(A[0])
  BY KnownNow
<1>2. PICK b : b = After(Head(todo), A[0])
  OBVIOUS
<1>3. Lined' /\ Holds(A[0])'
  <2>1. PICK a : a = A[0]
    OBVIOUS
  <2>2. Lined' /\ Holds(a)'
    BY <1>1, <2>1, KnownNow, UnmovedHolds
  <2>3. QED
    BY <2>1, <2>2
<1>4. Implies(A[0], b)
  BY <1>2, PlainAfter
<1>5. Holds(b)'
  BY <1>3, <1>4, HoldsWeakerNext
<1>6. Foreseen'
  BY <1>1, <1>2, <1>5, KnownNow, GoesOn
<1>7. QED
  BY <1>3, <1>6

LEMMA CompareIsClean == Sane /\ Compare => Clean'
<1> SUFFICES ASSUME Sane, Compare, Blameless'
             PROVE  /\ exc' = "none" /\ good' = TRUE /\ status' \in {"idle", "running", "pass"}
                    /\ Lined' /\ Foreseen'
  BY DEF Clean
<1>1. PICK s : s = Head(todo)
  OBVIOUS
<1>2. /\ todo # <<>> /\ s.op = "check" /\ status' = "running" /\ Blameless
      /\ UNCHANGED <<mem, queue, going>>
  BY <1>1 DEF Compare, Runs, device, Blameless
<1>3. PICK A : Follows(todo, A) /\ Holds(A[0]) /\ Justified(s, A[0])
  BY <1>1, <1>2, KnownNow
<1>4. PICK p \in A[0].known : p[1] = s.b /\ p[2] \in {s.label} \union s.also
  BY <1>2, <1>3 DEF Justified
<1>5. mem[s.b] = p[2]
  <2>1. PICK a : a = A[0]
    OBVIOUS
  <2>2. Shape /\ Due(p, Len(queue) + 1) /\ p[1] \notin Overwritten(a.queue)
    BY <1>2, <1>3, <1>4, <2>1, KnownNow DEF Holds, Justified, Inv
  <2>3. QED
    BY <1>3, <1>4, <2>1, <2>2, DueNow
<1>6. mem[s.b] = s.label \/ mem[s.b] \in s.also
  BY <1>4, <1>5
<1>7. todo' = Tail(todo) /\ exc' = exc /\ good' = (good /\ TRUE)
  BY <1>1, <1>6 DEF Compare
<1>8. Lined' /\ Foreseen'
  BY <1>1, <1>2, <1>7, PlainGoesOn
<1>9. QED
  BY <1>2, <1>7, <1>8, KnownNow

LEMMA StopIsClean == Sane /\ Stop => Clean'
<1> SUFFICES ASSUME Sane, Stop, Blameless'
             PROVE  /\ exc' = "none" /\ good' = TRUE /\ status' \in {"idle", "running", "pass"}
                    /\ Lined' /\ Foreseen'
  BY DEF Clean
<1>1. PICK s : s = Head(todo)
  OBVIOUS
<1>2. /\ todo # <<>> /\ s.op = "return" /\ Blameless /\ status' = "running"
      /\ \/ going = FALSE
         \/ todo' = Tail(todo) /\ UNCHANGED <<exc, good>>
      /\ UNCHANGED <<mem, queue, going>>
  <2>1. going \in BOOLEAN
    BY DEF Sane, Usable, Inv, TypeOK
  <2>2. ~(seen' = seen \union {"declined"})
    BY DEF Blameless
  <2>3. UNCHANGED <<mem, queue, going, status>>
    BY DEF Stop, device
  <2>4. /\ Runs("return") /\ seen' = seen
        /\ \/ ~going
           \/ todo' = Tail(todo) /\ UNCHANGED <<exc, good>>
    BY <2>2 DEF Stop
  <2>5. QED
    BY <1>1, <2>1, <2>3, <2>4 DEF Runs, Blameless
<1>3. PICK A : Follows(todo, A) /\ Holds(A[0]) /\ Justified(s, A[0])
  BY <1>1, <1>2, KnownNow
<1>4. going # FALSE
  BY <1>2, <1>3 DEF Holds, Justified
<1>5. Lined' /\ Foreseen'
  BY <1>1, <1>2, <1>4, PlainGoesOn
<1>6. QED
  BY <1>2, <1>4, <1>5, KnownNow

LEMMA StartIsClean == Sane /\ Start => Clean'
<1> SUFFICES ASSUME Sane, Start, Blameless'
             PROVE  /\ exc' = "none" /\ good' = TRUE /\ status' \in {"idle", "running", "pass"}
                    /\ Lined' /\ Foreseen'
  BY DEF Clean
<1>1. /\ status' = "running" /\ Blameless
      /\ UNCHANGED <<todo, exc, good, mem, queue, going>>
  BY DEF Start, Blameless, host, device
<1>2. exc = "none" /\ good = TRUE /\ Lined /\ Foreseen
  BY <1>1 DEF Sane, Clean
<1>3. Lined' /\ Foreseen'
  BY <1>1, <1>2, UnmovedHolds DEF Foreseen
<1>4. QED
  BY <1>1, <1>2, <1>3

LEMMA FinishIsClean == Sane /\ Finish => Clean'
<1> SUFFICES ASSUME Sane, Finish, Blameless'
             PROVE  /\ exc' = "none" /\ good' = TRUE /\ status' \in {"idle", "running", "pass"}
                    /\ Lined' /\ Foreseen'
  BY DEF Clean
<1>1. /\ status' = Verdict /\ Blameless
      /\ UNCHANGED <<todo, exc, good, mem, queue, going>>
  BY DEF Finish, Blameless, host, device
<1>2. exc = "none" /\ good = TRUE /\ Lined /\ Foreseen
  BY <1>1 DEF Sane, Clean
<1>3. Verdict = "pass"
  BY <1>2 DEF Verdict
<1>4. Lined' /\ Foreseen'
  BY <1>1, <1>2, UnmovedHolds DEF Foreseen
<1>5. QED
  BY <1>1, <1>2, <1>3, <1>4

LEMMA InitIsClean == Init => Clean
<1> SUFFICES ASSUME Init
             PROVE  Lined /\ Foreseen
  BY DEF Clean, Init
<1>1. /\ probe \in Probes /\ todo \in Code[probe] /\ queue = <<>> /\ going = TRUE
      /\ Len(queue) = 0 /\ DOMAIN queue = {}
  BY DEF Init
<1>2. Lined
  BY <1>1 DEF Lined
<1>3. PICK A : A = Outline(todo)
  OBVIOUS
<1>4. Implies(Unstarted, A[0]) /\ Follows(todo, A)
  BY <1>1, <1>3, ProgramsCheckWhatTheyMade DEF ProgramsCheckWhatTheyMade
<1>5. Holds(A[0])
  BY <1>1, <1>4 DEF Implies, Unstarted, Holds
<1>6. QED
  BY <1>2, <1>4, <1>5 DEF Foreseen

(* A cleanup that may lose what is queued loses nothing else.                  *)
Settled(a) == \A p \in a.known : p[1] \notin Overwritten(a.queue)

LEMMA OptionalKeeps ==
  ASSUME NEW s, Optional(s), NEW a, Settled(a)
  PROVE  Justified(s, a) /\ Implies(After(s, a), a)
<1>1. /\ s.op = "call" /\ ~Unowned(s) /\ ~Recorded(s) /\ s.effect.do \in {"lose", "drain"}
      /\ s.mode # "must" /\ ~Sure(s, a.going)
  BY DEF Optional, Recorded, Sure
<1>2. Changes(s.effect) = {}
  BY <1>1 DEF Changes
<1>3. Justified(s, a)
  BY <1>1, <1>2 DEF Justified, Apposite
<1>4. Upset(s, a) \subseteq Overwritten(a.queue)
  BY <1>1, <1>2 DEF Upset
<1>5. Recording(s, a.going) = a.going /\ Queued(s, a) = a.queue
  BY <1>1 DEF Recording, Queued
<1>6. Implies(After(s, a), a)
  BY <1>4, <1>5 DEF Implies, After, Settled
<1>7. QED
  BY <1>3, <1>6

LEMMA LeaveSettles ==
  ASSUME NEW s, s.op = "leave", NEW a
  PROVE  Implies(a, After(s, a)) /\ Settled(After(s, a))
<1>1. /\ Recording(s, a.going) = a.going /\ Queued(s, a) = a.queue
      /\ Upset(s, a) = Overwritten(a.queue)
  BY DEF Recording, Queued, Upset, MayLose
<1>2. QED
  BY <1>1 DEF Implies, After, Settled

LEMMA CleanupFollows ==
  ASSUME NEW c \in Seq(Calls), \A s \in StepsOf(c) : Optional(s),
         NEW t \in Seq(Steps), NEW u, Joins(c, t, u),
         NEW A, Follows(t, A), NEW a, Settled(a), Implies(a, A[0])
  PROVE  \E B : Follows(u, B) /\ Implies(a, B[0])
<1>0. PICK m, n : m = Len(c) /\ n = Len(t)
  OBVIOUS
<1> DEFINE B == [i \in 0..(m + n) |-> IF i < m THEN a ELSE A[i - m]]
<1>1. /\ m \in Nat /\ n \in Nat /\ DOMAIN c = 1..m /\ DOMAIN t = 1..n /\ DOMAIN u = 1..(m + n)
      /\ \A i \in DOMAIN u : \/ i \in DOMAIN c /\ u[i] = c[i] /\ c[i] \in Calls
                             \/ i - m \in DOMAIN t /\ u[i] = t[i - m]
  BY <1>0, JoinsIn
<1>2. \A i \in 0..(m + n) : B[i] = IF i < m THEN a ELSE A[i - m]
  OBVIOUS
<1> HIDE DEF B
<1>3. Implies(a, a)
  BY DEF Implies
<1>4. \A i \in 0..m : Implies(a, B[i])
  <2>1. \A i \in 0..m : i \in 0..(m + n) /\ (~(i < m) => i - m = 0)
    BY <1>1
  <2>2. QED
    BY <1>2, <1>3, <2>1
<1>5. ASSUME NEW i \in DOMAIN u, i \in DOMAIN c, u[i] = c[i]
      PROVE  Justified(u[i], B[i - 1]) /\ Implies(After(u[i], B[i - 1]), B[i])
  <2>1. B[i - 1] = a /\ i \in 0..m
    BY <1>1, <1>2, <1>5
  <2>2. Optional(u[i])
    BY <1>5 DEF StepsOf
  <2>3. Justified(u[i], a) /\ Implies(After(u[i], a), a)
    BY <2>2, OptionalKeeps
  <2>4. QED
    BY <1>4, <2>1, <2>3, ImpliesThrough
<1>6. ASSUME NEW i \in DOMAIN u, i - m \in DOMAIN t, u[i] = t[i - m]
      PROVE  Justified(u[i], B[i - 1]) /\ Implies(After(u[i], B[i - 1]), B[i])
  <2>1. /\ i - 1 \in 0..(m + n) /\ i \in 0..(m + n) /\ ~(i - 1 < m) /\ ~(i < m)
        /\ (i - 1) - m = (i - m) - 1
    BY <1>1, <1>6
  <2>2. B[i - 1] = A[(i - m) - 1] /\ B[i] = A[i - m]
    BY <1>2, <2>1
  <2>3. QED
    BY <1>6, <2>2 DEF Follows
<1>7. Follows(u, B)
  BY <1>1, <1>5, <1>6 DEF Follows
<1>8. QED
  BY <1>1, <1>4, <1>7

LEMMA FrameIsClean == Sane /\ Frame => Clean'
<1> SUFFICES ASSUME Sane, Frame, Blameless'
             PROVE  /\ exc' = "none" /\ good' = TRUE /\ status' \in {"idle", "running", "pass"}
                    /\ Lined' /\ Foreseen'
  BY DEF Clean
<1>1. /\ Blameless /\ status = "running" /\ status' = "running"
      /\ UNCHANGED <<exc, good, mem, queue, going>>
  BY DEF Frame, Runs, Blameless, device
<1>2. exc = "none" /\ good = TRUE /\ Lined /\ Foreseen
  BY <1>1 DEF Sane, Clean
<1>3. Lined' /\ \A a : Holds(a) => Holds(a)'
  BY <1>1, <1>2, UnmovedHolds
<1>4. SUFFICES Foreseen'
  BY <1>1, <1>2, <1>3
<1>5. ASSUME frames # <<>>
      PROVE  /\ Head(frames) \in Seq(Calls)
             /\ \A s \in StepsOf(Head(frames)) : Optional(s)
  <2>1. frames \in Stacks /\ Fit(todo, frames)
    BY DEF Sane, Usable, Inv, Shape, Stacks, Fits
  <2>2. Head(frames) \in Cleanups /\ Head(frames) \in Seq(Calls)
    BY <1>5, <2>1, Popped DEF Fit
  <2>3. QED
    BY <2>2, CleanupsFit
<1>6. CASE Runs("try") /\ todo' = Tail(todo)
  BY <1>1, <1>6, PlainGoesOn DEF Runs
<1>7. CASE Runs("leave") /\ frames # <<>> /\ todo' = Head(frames) \o Tail(todo)
  <2>1. todo # <<>> /\ Head(todo).op = "leave"
    BY <1>7 DEF Runs
  <2>2. PICK A : Follows(todo, A) /\ Holds(A[0])
    BY <1>2 DEF Foreseen
  <2>3. PICK a, m : a = A[0] /\ m = After(Head(todo), a)
    OBVIOUS
  <2>4. /\ todo \in Seq(Steps) /\ Head(todo) = todo[1] /\ 1 \in DOMAIN todo /\ 1 - 1 = 0
        /\ Rest(todo, 1, Tail(todo)) /\ Tail(todo) \in Seq(Steps)
    BY <1>1, <2>1, KnownNow, TailRests DEF Rest
  <2>5. Implies(m, A[1])
    BY <2>2, <2>3, <2>4 DEF Follows
  <2>6. PICK T : Follows(Tail(todo), T) /\ T[0] = A[1]
    BY <2>2, <2>4, FollowsRest
  <2>7. Implies(a, m) /\ Settled(m)
    BY <2>1, <2>3, LeaveSettles
  <2>8. Joins(Head(frames), Tail(todo), todo')
    BY <1>5, <1>7, <2>4, ConcatJoins
  <2>9. PICK B : Follows(todo', B) /\ Implies(m, B[0])
    <3>1. PICK c, t, u : c = Head(frames) /\ t = Tail(todo) /\ u = todo'
      OBVIOUS
    <3>2. /\ c \in Seq(Calls) /\ (\A s \in StepsOf(c) : Optional(s))
          /\ t \in Seq(Steps) /\ Joins(c, t, u)
      BY <1>5, <1>7, <2>4, <2>8, <3>1
    <3>3. Follows(t, T) /\ Settled(m) /\ Implies(m, T[0])
      BY <2>5, <2>6, <2>7, <3>1
    <3>4. \E B : Follows(u, B) /\ Implies(m, B[0])
      BY <3>2, <3>3, CleanupFollows
    <3>5. QED
      BY <3>1, <3>4
  <2>10. Holds(m)'
    BY <1>3, <2>2, <2>3, <2>7, HoldsWeakerNext
  <2>11. Holds(B[0])'
    BY <2>9, <2>10, HoldsWeakerNext
  <2>12. QED
    BY <2>9, <2>11 DEF Foreseen
<1>8. CASE frames # <<>> /\ todo' = Head(frames)
  <2>1. PICK A : Holds(A[0])
    BY <1>2 DEF Foreseen
  <2>2. PICK a, m : a = A[0] /\ m = [going |-> a.going, queue |-> a.queue, known |-> {}]
    OBVIOUS
  <2>3. Implies(a, m) /\ Settled(m) /\ Implies(m, m)
    BY <2>2 DEF Implies, Settled
  <2>4. PICK T : T = [i \in {0} |-> m]
    OBVIOUS
  <2>5. Follows(<<>>, T) /\ Implies(m, T[0])
    BY <2>3, <2>4 DEF Follows
  <2>6. Joins(Head(frames), <<>>, todo')
    BY <1>5, <1>8, CallsAreSteps DEF Joins
  <2>7. PICK B : Follows(todo', B) /\ Implies(m, B[0])
    <3>1. PICK c, t, u : c = Head(frames) /\ t = <<>> /\ u = todo'
      OBVIOUS
    <3>2. /\ c \in Seq(Calls) /\ (\A s \in StepsOf(c) : Optional(s))
          /\ t \in Seq(Steps) /\ Joins(c, t, u)
      BY <1>5, <1>8, <2>6, <3>1, EmptyIsShaped
    <3>3. Follows(t, T)
      BY <2>5, <3>1
    <3>4. \E B : Follows(u, B) /\ Implies(m, B[0])
      BY <2>3, <2>5, <3>2, <3>3, CleanupFollows
    <3>5. QED
      BY <3>1, <3>4
  <2>8. Holds(m)'
    BY <1>3, <2>1, <2>2, <2>3, HoldsWeakerNext
  <2>9. Holds(B[0])'
    BY <2>7, <2>8, HoldsWeakerNext
  <2>10. QED
    BY <2>7, <2>9 DEF Foreseen
<1>9. QED
  BY <1>6, <1>7, <1>8 DEF Frame

-------------------------------------------------------------------------------
(* The device runs a kernel.                                                   *)
(* It finds what it needs, and nothing ahead of it concerns it.                *)
LEMMA RunsRight ==
  ASSUME Shape, Lined, NEW i \in DOMAIN queue, Before(i) = {}, NEW k, k = queue[i],
         mem' = Result(k, "none")
  PROVE  /\ \A j \in 1..(i - 1) : ~Conflict(k, queue[j])
         /\ \A b \in Names \ Writes(k) : mem'[b] = mem[b]
         /\ \A w \in k.writes : mem'[w[1]] = w[2]
<1>1. /\ Fitting(k) /\ \A p \in k.needs : Due(p, i)
      /\ \A j \in 1..(i - 1) : ~Conflict(k, queue[j])
  BY DEF Lined
<1>2. \A p \in k.needs : mem[p[1]] = p[2]
  <2> SUFFICES ASSUME NEW p \in k.needs, NEW j \in 1..(i - 1), p \in queue[j].writes
               PROVE  FALSE
    BY <1>1 DEF Due
  <2>1. p[1] \in Reads(k) /\ p[1] \in Writes(queue[j])
    BY DEF Reads, Writes
  <2>2. QED
    BY <1>1, <2>1 DEF Conflict
<1>3. \A l : Computed(l, k.needs) = l
  BY <1>2 DEF Computed
<1>4. \A b \in Names \ Writes(k) : mem'[b] = mem[b]
  BY DEF Result
<1>5. ASSUME NEW w \in k.writes PROVE mem'[w[1]] = w[2]
  <2>1. w[1] \in Names /\ w[1] \in Writes(k)
    BY <1>1 DEF Fitting, Writes
  <2>2. \A v \in k.writes : v[1] = w[1] => v = w
    BY <1>1 DEF Fitting
  <2>3. (CHOOSE v \in k.writes : v[1] = w[1]) = w
    BY <2>2
  <2>4. mem'[w[1]] = Computed((CHOOSE v \in k.writes : v[1] = w[1])[2], k.needs)
    BY <2>1 DEF Result
  <2>5. QED
    BY <1>3, <2>3, <2>4
<1>6. QED
  BY <1>1, <1>4, <1>5

(* What is due behind it stays due there.                                      *)
LEMMA DueBehind ==
  ASSUME NEW m \in Nat, NEW i \in 1..m,
         \A l \in 1..(m - 1) : queue'[l] = queue[IF l < i THEN l ELSE l + 1],
         NEW k, k = queue[i],
         \A j \in 1..(i - 1) : ~Conflict(k, queue[j]),
         \A b \in Names \ Writes(k) : mem'[b] = mem[b],
         \A w \in k.writes : mem'[w[1]] = w[2],
         NEW p, p[1] \in Names, NEW n \in (i + 1)..(m + 1), Due(p, n)
  PROVE  Due(p, n - 1)'
<1>0. n - 1 \in Nat /\ n - 1 <= m /\ (n - 1) - 1 = n - 2
  OBVIOUS
<1>1. ASSUME NEW l \in 1..(n - 2)
      PROVE  (IF l < i THEN l ELSE l + 1) \in 1..(n - 1)
             /\ queue'[l] = queue[IF l < i THEN l ELSE l + 1]
  OBVIOUS
<1>2. CASE mem[p[1]] = p[2] /\ \A j \in 1..(n - 1) : p[1] \notin Writes(queue[j])
  <2>1. p[1] \notin Writes(k)
    <3>1. i \in 1..(n - 1)
      OBVIOUS
    <3>2. QED
      BY <1>2, <3>1
  <2>2. mem'[p[1]] = p[2]
    BY <1>2, <2>1
  <2>3. \A l \in 1..(n - 2) : p[1] \notin Writes(queue'[l])
    BY <1>1, <1>2
  <2>4. QED
    BY <1>0, <2>2, <2>3 DEF Due
<1>3. ASSUME NEW j \in 1..(n - 1), p \in queue[j].writes,
             \A l \in (j + 1)..(n - 1) : p[1] \notin Writes(queue[l])
      PROVE  Due(p, n - 1)'
  <2>1. CASE j = i
    <3>1. mem'[p[1]] = p[2] /\ p[1] \in Writes(k)
      BY <1>3, <2>1 DEF Writes
    <3>2. ASSUME NEW l \in 1..(n - 2) PROVE p[1] \notin Writes(queue'[l])
      <4>1. CASE l < i
        <5>1. l \in 1..(i - 1) /\ queue'[l] = queue[l]
          BY <1>1, <4>1
        <5>2. QED
          BY <3>1, <5>1 DEF Conflict
      <4>2. CASE ~(l < i)
        <5>1. l + 1 \in (j + 1)..(n - 1) /\ queue'[l] = queue[l + 1]
          BY <1>1, <2>1, <4>2
        <5>2. QED
          BY <1>3, <5>1
      <4>3. QED
        BY <4>1, <4>2
    <3>3. QED
      BY <1>0, <3>1, <3>2 DEF Due
  <2>2. CASE j < i
    <3>1. j \in 1..(n - 2) /\ queue'[j] = queue[j]
      <4>1. j \in 1..(n - 2)
        BY <2>2
      <4>2. QED
        BY <1>1, <2>2, <4>1
    <3>2. ASSUME NEW l \in (j + 1)..(n - 2) PROVE p[1] \notin Writes(queue'[l])
      <4>1. l \in 1..(n - 2) /\ (IF l < i THEN l ELSE l + 1) \in (j + 1)..(n - 1)
        BY <2>2
      <4>2. QED
        BY <1>1, <1>3, <4>1
    <3>3. QED
      BY <1>0, <1>3, <3>1, <3>2 DEF Due
  <2>3. CASE j > i
    <3>1. j - 1 \in 1..(n - 2) /\ ~(j - 1 < i) /\ (j - 1) + 1 = j
      BY <2>3
    <3>2. queue'[j - 1] = queue[j]
      BY <1>1, <3>1
    <3>3. ASSUME NEW l \in ((j - 1) + 1)..(n - 2) PROVE p[1] \notin Writes(queue'[l])
      <4>1. l \in 1..(n - 2) /\ ~(l < i) /\ l + 1 \in (j + 1)..(n - 1)
        BY <2>3
      <4>2. queue'[l] = queue[l + 1]
        BY <1>1, <4>1
      <4>3. QED
        BY <1>3, <4>1, <4>2
    <3>4. QED
      BY <1>0, <1>3, <3>1, <3>2, <3>3 DEF Due
  <2>4. QED
    BY <2>1, <2>2, <2>3
<1>4. QED
  BY <1>2, <1>3 DEF Due

LEMMA RunKernelIsClean == Sane /\ RunKernel => Clean'
<1> SUFFICES ASSUME Sane, RunKernel, Blameless'
             PROVE  /\ exc' = "none" /\ good' = TRUE /\ status' \in {"idle", "running", "pass"}
                    /\ Lined' /\ Foreseen'
  BY DEF Clean
<1>1. PICK i \in DOMAIN queue :
        LET k == queue[i] IN
        /\ queue' = SubSeq(queue, 1, i - 1) \o SubSeq(queue, i + 1, Len(queue))
        /\ \/ Before(i) = {} /\ Well /\ mem' = Result(k, "none")
           \/ Matters(i) /\ Badly({"reordered"}) /\ mem' = Result(k, "none")
           \/ /\ Before(i) = {}
              /\ \E d \in k.bad : Badly({d}) /\ mem' = Result(k, d)
  BY DEF RunKernel
<1>2. PICK k, m : k = queue[i] /\ m = Len(queue)
  OBVIOUS
<1>3. /\ status = "running" /\ status' = "running" /\ UNCHANGED <<todo, exc, good, going>>
      /\ Shape /\ queue \in Seq(Kernels) /\ k \in Kernels
  BY <1>2, ElementOfSeq DEF RunKernel, host, Sane, Usable, Inv, Shape
<1>4. Before(i) = {} /\ Well /\ mem' = Result(k, "none")
  <2>1. ~Badly({"reordered"})
    BY DEF Badly, Blameless
  <2>2. ASSUME NEW d \in k.bad, Badly({d}) PROVE FALSE
    <3>1. d \in Miscomputed
      BY <1>3, <2>2, KernelsMiscompute
    <3>2. QED
      BY <2>2, <3>1 DEF Badly, Blameless, Miscomputed
  <2>3. QED
    BY <1>1, <1>2, <2>1, <2>2
<1>5. /\ exc = "none" /\ good = TRUE /\ Lined /\ Foreseen
  BY <1>4 DEF Well, Blameless, Sane, Clean
<1>6. /\ m \in Nat /\ DOMAIN queue = 1..m /\ i \in 1..m
      /\ Len(queue') = m - 1 /\ DOMAIN queue' = 1..(m - 1)
      /\ \A l \in 1..(m - 1) : queue'[l] = queue[IF l < i THEN l ELSE l + 1]
  <2>1. PICK q, r : q = queue /\ r = queue'
    OBVIOUS
  <2>2. q \in Seq(Kernels) /\ i \in DOMAIN q
        /\ r = SubSeq(q, 1, i - 1) \o SubSeq(q, i + 1, Len(q))
    BY <1>1, <1>3, <2>1
  <2>3. /\ Len(q) \in Nat /\ DOMAIN q = 1..Len(q) /\ i \in 1..Len(q)
        /\ Len(r) = Len(q) - 1 /\ DOMAIN r = 1..(Len(q) - 1)
        /\ \A l \in 1..(Len(q) - 1) : r[l] = q[IF l < i THEN l ELSE l + 1]
    BY <2>2, Removed
  <2>4. QED
    BY <1>2, <2>1, <2>3
<1>7. /\ \A j \in 1..(i - 1) : ~Conflict(k, queue[j])
      /\ \A b \in Names \ Writes(k) : mem'[b] = mem[b]
      /\ \A w \in k.writes : mem'[w[1]] = w[2]
  BY <1>2, <1>3, <1>4, <1>5, RunsRight
<1>8. ASSUME NEW p, p[1] \in Names, NEW n \in (i + 1)..(m + 1), Due(p, n)
      PROVE  Due(p, n - 1)'
  BY <1>2, <1>6, <1>7, <1>8, DueBehind
<1>9. ASSUME NEW p, p[1] \in Names \ Writes(k), NEW n \in 1..i, Due(p, n)
      PROVE  Due(p, n)'
  <2>1. \A j \in 1..(n - 1) : queue'[j] = queue[j]
    BY <1>6
  <2>2. mem'[p[1]] = mem[p[1]]
    BY <1>7, <1>9
  <2>3. QED
    BY <1>9, <2>1, <2>2, DueStays
<1>10. Lined'
  <2> SUFFICES ASSUME NEW l \in 1..(m - 1)
               PROVE  /\ Fitting(queue'[l])
                      /\ \A p \in queue'[l].needs : p[1] \in Names /\ Due(p, l)'
                      /\ \A j \in 1..(l - 1) :
                           Conflict(queue'[l], queue'[j]) => j \in Before(l)'
    BY <1>6 DEF Lined
  <2>1. PICK o : o = IF l < i THEN l ELSE l + 1
    OBVIOUS
  <2>2. o \in 1..m /\ o # i /\ queue'[l] = queue[o]
    BY <1>6, <2>1
  <2>3. /\ Fitting(queue[o]) /\ \A p \in queue[o].needs : p[1] \in Names /\ Due(p, o)
        /\ \A j \in 1..(o - 1) : Conflict(queue[o], queue[j]) => j \in Before(o)
    BY <1>5, <1>6, <2>2 DEF Lined
  <2>4. ASSUME NEW p \in queue'[l].needs PROVE p[1] \in Names /\ Due(p, l)'
    <3>1. p[1] \in Names /\ Due(p, o)
      BY <2>2, <2>3
    <3>2. CASE l < i
      <4>1. o = l /\ l \in 1..i /\ l \in 1..(i - 1)
        BY <1>6, <2>1, <3>2
      <4>2. p[1] \notin Writes(k)
        BY <1>7, <2>2, <4>1 DEF Conflict, Reads
      <4>3. QED
        BY <1>9, <3>1, <4>1, <4>2
    <3>3. CASE ~(l < i)
      <4>1. o = l + 1 /\ o \in (i + 1)..(m + 1) /\ o - 1 = l
        BY <1>6, <2>1, <3>3
      <4>2. Due(p, o - 1)'
        BY <1>8, <3>1, <4>1
      <4>3. QED
        BY <3>1, <4>1, <4>2
    <3>4. QED
      BY <3>2, <3>3
  <2>5. ASSUME NEW j \in 1..(l - 1), Conflict(queue'[l], queue'[j])
        PROVE  j \in Before(l)'
    <3>1. PICK h : h = IF j < i THEN j ELSE j + 1
      OBVIOUS
    <3>2. j \in 1..(m - 1) /\ h \in 1..(o - 1) /\ queue'[j] = queue[h]
      BY <1>6, <2>1, <3>1
    <3>3. h \in Before(o)
      BY <2>2, <2>3, <2>5, <3>2
    <3>4. queue'[j].stream \in queue'[l].waits \union {queue'[l].stream}
      BY <2>2, <3>2, <3>3 DEF Before
    <3>5. QED
      BY <3>4 DEF Before
  <2>6. QED
    BY <2>2, <2>3, <2>4, <2>5
<1>11. PICK A : Follows(todo, A) /\ Holds(A[0])
  BY <1>5 DEF Foreseen
<1>12. Holds(A[0])'
  <2>1. PICK a : a = A[0]
    OBVIOUS
  <2>2. going' \in a.going /\ \A l \in DOMAIN queue' : queue'[l] \in a.queue
    <3>1. \A l \in 1..(m - 1) : (IF l < i THEN l ELSE l + 1) \in 1..m
      BY <1>6
    <3>2. going \in a.going /\ \A l \in 1..m : queue[l] \in a.queue
      BY <1>6, <1>11, <2>1 DEF Holds
    <3>3. QED
      BY <1>3, <1>6, <3>1, <3>2
  <2>3. ASSUME NEW p \in a.known
        PROVE  p[1] \in Names /\ Due(p, (m - 1) + 1)'
    <3>1. p[1] \in Names /\ Due(p, m + 1)
      BY <1>2, <1>11, <2>1 DEF Holds
    <3>2. m + 1 \in (i + 1)..(m + 1) /\ (m + 1) - 1 = (m - 1) + 1
      BY <1>6
    <3>3. Due(p, (m + 1) - 1)'
      BY <1>8, <3>1, <3>2
    <3>4. QED
      BY <3>1, <3>2, <3>3
  <2>4. Holds(a)'
    BY <1>6, <2>2, <2>3 DEF Holds
  <2>5. QED
    BY <2>1, <2>4
<1>13. Foreseen'
  BY <1>3, <1>11, <1>12 DEF Foreseen
<1>14. QED
  BY <1>3, <1>5, <1>10, <1>13

LEMMA InitSane == Init => Sane
  BY InitUsable, InitIsClean DEF Sane

LEMMA NextIsSane == Sane /\ [Next]_vars => Sane'
<1> SUFFICES ASSUME Sane, [Next]_vars PROVE Sane'
  OBVIOUS
<1>1. Usable'
  BY NextUses DEF Sane
<1>2. CASE UNCHANGED vars
  <2>1. UNCHANGED <<seen, exc, good, status, todo, mem, queue, going>>
    BY <1>2 DEF vars, host, device
  <2>2. (Lined' <=> Lined) /\ \A a : Holds(a)' <=> Holds(a)
    BY <2>1, UnmovedHolds
  <2>3. Clean'
    BY <2>1, <2>2 DEF Sane, Clean, Blameless, Foreseen
  <2>4. QED
    BY <1>1, <2>3 DEF Sane
<1>3. CASE Host
  BY <1>1, <1>3, StartIsClean, SkipIsClean, SucceedIsClean, FailIsClean, CompareIsClean,
     StopIsClean, FrameIsClean, FinishIsClean DEF Host, Sane
<1>4. CASE RunKernel
  BY <1>1, <1>4, RunKernelIsClean DEF Sane
<1>5. QED
  BY <1>2, <1>3, <1>4 DEF Next, Done

(* No verdict is given against a backend that did nothing wrong: a probe that  *)
(* reports an incorrect result, an error or a crash has met a fault, a refusal *)
(* or a device that was not there, whatever the probe and its program, the     *)
(* order the device chose and the releases that failed.                        *)
THEOREM CorrectIsNotBlamed == Spec => []BlameIsEarned
<1>1. Init => Sane
  BY InitSane
<1>2. Sane /\ [Next]_vars => Sane'
  BY NextIsSane
<1>3. Sane => BlameIsEarned
  BY SaneIsFair
<1>4. QED
  BY <1>1, <1>2, <1>3, PTL DEF Spec

-------------------------------------------------------------------------------
(* What a pass can hide.  A refusal and a probe that gives up leave a trace too. *)
Flagged == ~good \/ exc \in {"unsupported", "error"}
Explained ==
  /\ seen \intersect {"refused", "declined"} # {} => Flagged
  /\ "unavailable" \in seen => status \in {"unavailable", "crashed"}
OnlyValues ==
  status = "pass" => seen \subseteq Miscomputed \union {"reordered", "unreleased", "escaped"}

(* A process that passed has nothing against it.                               *)
Noted == Inv /\ Explained /\ (status = "pass" => ~Flagged)

LEMMA NotedHides == Noted => OnlyValues
  BY DEF Noted, Inv, TypeOK, NoCallFailsUnnoticed, Explained, OnlyValues, Deviations

LEMMA InitNoted == Init => Noted
  BY InitInv DEF Init, Noted, Explained

LEMMA FlaggedRuns ==
  ASSUME Noted, Inv', status = "running", status' = "running", Flagged => Flagged',
         seen' \intersect {"refused", "declined"} = seen \intersect {"refused", "declined"}
           \/ Flagged',
         "unavailable" \in seen' => "unavailable" \in seen
  PROVE  Noted'
  BY DEF Noted, Explained

LEMMA FailNoted == Noted /\ Fail => Noted'
<1> SUFFICES ASSUME Noted, Fail PROVE Noted'
  OBVIOUS
<1>0. Inv'
  BY FailKeepsInv DEF Noted
<1>1. PICK s : s = Head(todo)
  OBVIOUS
<1>2. s \in Calls /\ status' = status /\ status = "running"
  BY <1>1, HeadIsStep DEF Fail, Noted, Inv, Runs
<1>3. PICK how \in {"fail", "refused", "raise"} :
        /\ Takes(s, how)
        /\ IF how \notin s.want THEN Badly(Tags(s, how))
           ELSE seen' = seen \union (IF Judged(s) THEN {} ELSE {"refused"})
  BY <1>1 DEF Fail
<1>4. Flagged => Flagged'
  BY <1>3 DEF Takes, Flagged, Noted, Inv, TypeOK
<1>5. Tags(s, how) \intersect {"refused", "declined", "unavailable"} = {}
  BY DEF Tags
<1>6. CASE how \notin s.want \/ Judged(s)
  <2>1. /\ seen' \intersect {"refused", "declined"} = seen \intersect {"refused", "declined"}
        /\ "unavailable" \in seen' => "unavailable" \in seen
    BY <1>3, <1>5, <1>6 DEF Badly
  <2>2. QED
    BY <1>0, <1>2, <1>4, <2>1, FlaggedRuns
<1>7. CASE how \in s.want /\ ~Judged(s)
  <2>1. s.mode # "hush"
    <3>1. s.mode = "hush" => s.want = {"ok"}
      BY <1>2, ProgramsGiveBack DEF ProgramsGiveBack
    <3>2. QED
      BY <1>7, <3>1
  <2>2. Flagged'
    BY <1>3, <1>7, <2>1 DEF Takes, Judged, Recorded, Flagged
  <2>3. "unavailable" \in seen' => "unavailable" \in seen
    BY <1>3, <1>7
  <2>4. QED
    BY <1>0, <1>2, <2>2, <2>3, FlaggedRuns
<1>8. QED
  BY <1>6, <1>7

LEMMA StopNoted == Noted /\ Stop => Noted'
<1> SUFFICES ASSUME Noted, Stop PROVE Noted'
  OBVIOUS
<1>1. Inv' /\ exc = "none" /\ status = "running" /\ status' = status
  BY StopKeepsInv, HeadIsStep DEF Stop, Noted, Inv, Runs
<1>2. "unavailable" \in seen' => "unavailable" \in seen
  BY DEF Stop
<1>3. CASE seen' = seen /\ good' = good
  BY <1>1, <1>2, <1>3, FlaggedRuns DEF Flagged
<1>4. CASE Runs("raise") /\ exc' = Head(todo).as
  <2>1. exc' \in {"unsupported", "error"}
    BY <1>4, HeadIsStep, ProgramsAreWellFormed DEF ProgramsAreWellFormed, Noted, Inv
  <2>2. QED
    BY <1>1, <1>2, <2>1, FlaggedRuns DEF Flagged
<1>5. CASE good' = FALSE
  BY <1>1, <1>2, <1>5, FlaggedRuns DEF Flagged
<1>6. QED
  BY <1>3, <1>4, <1>5 DEF Stop

LEMMA BesideNoted == Noted /\ (Skip \/ Succeed \/ Compare \/ Frame \/ RunKernel) => Noted'
<1> SUFFICES ASSUME Noted, Skip \/ Succeed \/ Compare \/ Frame \/ RunKernel PROVE Noted'
  OBVIOUS
<1>1. Inv'
  BY SkipKeepsInv, SucceedKeepsInv, CompareKeepsInv, FrameKeepsInv, RunKernelKeepsInv
     DEF Noted
<1>2. status = "running" /\ status' = "running"
  BY DEF Skip, Succeed, Compare, Frame, RunKernel, Runs
<1>3. CASE Skip \/ Frame
  <2>1. UNCHANGED <<seen, good, exc>>
    BY <1>3 DEF Skip, Frame
  <2>2. QED
    BY <1>1, <1>2, <2>1, FlaggedRuns DEF Flagged
<1>4. CASE Compare
  <2>1. seen' = seen /\ (Flagged => Flagged')
    BY <1>4 DEF Compare, Flagged
  <2>2. QED
    BY <1>1, <1>2, <2>1, FlaggedRuns
<1>5. CASE Succeed
  <2>1. PICK s : s = Head(todo)
    OBVIOUS
  <2>2. s \in Calls
    BY <1>5, <2>1, HeadIsStep DEF Succeed, Noted, Inv
  <2>3. s.effect.do = "store" => s.effect.bad \subseteq Miscomputed
    BY <2>2, ProgramsAreWellFormed DEF ProgramsAreWellFormed
  <2>4. /\ Well \/ \E d \in Miscomputed \union {"answer"} : Badly({d})
        /\ Flagged => Flagged'
    BY <1>5, <2>1, <2>3 DEF Succeed, Flagged
  <2>5. /\ seen' \intersect {"refused", "declined"} = seen \intersect {"refused", "declined"}
        /\ "unavailable" \in seen' => "unavailable" \in seen
    BY <2>4 DEF Well, Badly, Miscomputed
  <2>6. QED
    BY <1>1, <1>2, <2>4, <2>5, FlaggedRuns
<1>6. CASE RunKernel
  <2>1. \A i \in DOMAIN queue : queue[i].bad \subseteq Miscomputed
    BY ElementOfSeq, LenProperties, KernelsMiscompute DEF Noted, Inv, Shape
  <2>2. Well \/ \E d \in Miscomputed \union {"reordered"} : Badly({d})
    BY <1>6, <2>1 DEF RunKernel
  <2>3. /\ seen' \intersect {"refused", "declined"} = seen \intersect {"refused", "declined"}
        /\ "unavailable" \in seen' => "unavailable" \in seen
    BY <2>2 DEF Well, Badly, Miscomputed
  <2>4. Flagged => Flagged'
    BY <1>6 DEF RunKernel, host, Flagged
  <2>5. QED
    BY <1>1, <1>2, <2>3, <2>4, FlaggedRuns
<1>7. QED
  BY <1>3, <1>4, <1>5, <1>6

LEMMA NextNoted == Noted /\ [Next]_vars => Noted'
<1> SUFFICES ASSUME Noted, [Next]_vars PROVE Noted'
  OBVIOUS
<1>1. Inv'
  BY NextKeepsInv DEF Noted
<1>2. CASE UNCHANGED vars
  BY <1>1, <1>2 DEF vars, host, Noted, Explained, Flagged
<1>3. CASE Start
  <2>1. /\ UNCHANGED <<good, exc>> /\ status = "idle"
        /\ \/ seen' = {"unavailable"} /\ status' \in {"unavailable", "crashed"}
           \/ seen' = seen /\ status' = "running"
    BY <1>3 DEF Start, host
  <2>2. QED
    BY <1>1, <2>1 DEF Noted, Explained, Flagged
<1>4. CASE Finish
  <2>1. /\ UNCHANGED <<good, exc, seen>> /\ status = "running"
        /\ status' = "pass" => good /\ exc \in {"none", "return"}
    BY <1>4 DEF Finish, host, Verdict
  <2>2. QED
    BY <1>1, <2>1 DEF Noted, Explained, Flagged
<1>5. QED
  BY <1>2, <1>3, <1>4, FailNoted, StopNoted, BesideNoted DEF Next, Host, Done

(* A pass hides no failure of a call, no refusal, no missing device and no     *)
(* early end of the probe: at most values that were computed wrongly, in the   *)
(* wrong order or not at all, and releases that failed.                        *)
THEOREM PassHidesOnlyValues == Spec => []OnlyValues
<1>1. Init => Noted
  BY InitNoted
<1>2. Noted /\ [Next]_vars => Noted'
  BY NextNoted
<1>3. Noted => OnlyValues
  BY NotedHides
<1>4. QED
  BY <1>1, <1>2, <1>3, PTL DEF Spec
===============================================================================
