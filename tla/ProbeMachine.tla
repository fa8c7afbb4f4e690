----------------------------- MODULE ProbeMachine -----------------------------
(***************************************************************************)
(* One probe process: the host runs the program of its probe, the device   *)
(* runs the queued kernels on its own, and the backend under test may, up  *)
(* to MaxFaults times, fail a call, answer it wrongly, or drop, reorder or *)
(* miscompute work.  The verdict the process reports is compared with what *)
(* the backend did.                                                        *)
(***************************************************************************)
EXTENDS ProbePrograms

CONSTANTS
  Catching,    \* probes whose main() turns exceptions into a result
  Recognises,  \* probes whose main() knows the text of a refusal
  Blind,       \* Blind[p]: what the checks of p cannot see
  MaxFaults    \* bound: how often the backend misbehaves

ASSUME FaultsAreBounded == MaxFaults \in Nat

(* What the backend can do wrong besides miscomputing: a call that fails   *)
(* or is answered wrongly, work out of order, a release that fails and a   *)
(* wait that throws.                                                       *)
Failures == {"fail", "answer", "raise"}
Deviations == Failures \union Miscomputed \union {"reordered", "unreleased", "escaped"}

VARIABLES
  probe,   \* the test this process runs
  todo,    \* the steps still to run
  frames,  \* the cleanups of the try statements entered, innermost first
  exc,     \* what is unwinding: "none", "return", "unsupported" or "error"
  going,   \* the last recorded code was 0
  good,    \* every recorded code and every check was as it must be
  live,    \* objects that exist in the driver
  held,    \* objects this probe made
  mem,     \* the label of every value
  queue,   \* kernels the device has not run yet, oldest first
  status,  \* "idle", "running", or the status reported
  missed,  \* history: a checked value was not the reference
  seen,    \* history: what the backend did wrong, refused or could not do
  faults   \* how often it misbehaved

host == <<todo, frames, exc, going, good>>
device == <<live, held, mem, queue>>
vars == <<probe, host, device, status, missed, seen, faults>>

Outcomes == {"pass", "incorrect", "unsupported", "error", "crashed", "unavailable"}
Reported == status \in Outcomes

TypeOK ==
  /\ probe \in Probes
  /\ exc \in {"none", "return", "unsupported", "error"}
  /\ going \in BOOLEAN /\ good \in BOOLEAN /\ missed \in BOOLEAN
  /\ live \subseteq Names /\ held \subseteq Names
  /\ DOMAIN mem = Names
  /\ status \in Outcomes \union {"idle", "running"}
  /\ seen \subseteq Deviations \union {"refused", "declined", "unavailable"}
  /\ faults \in 0..MaxFaults

(* A context may already be current: PyTorch makes its own.                *)
Init ==
  /\ probe \in Probes
  /\ todo \in Code[probe]
  /\ frames = <<>> /\ exc = "none" /\ going = TRUE /\ good = TRUE
  /\ live \in {{}, {"ctx"}} /\ held = {} /\ queue = <<>>
  /\ mem = [b \in Names |-> "junk"]
  /\ status = "idle" /\ missed = FALSE /\ seen = {} /\ faults = 0

-------------------------------------------------------------------------------
(* Faults.                                                                 *)
Well == UNCHANGED <<seen, faults>>
Badly(tags) ==
  /\ faults < MaxFaults
  /\ faults' = faults + 1
  /\ seen' = seen \union tags

(* No PyTorch or no CUDA device, or the runner is entered.                 *)
Start ==
  /\ status = "idle"
  /\ \/ /\ status' = IF probe \in Catching THEN "unavailable" ELSE "crashed"
        /\ seen' = {"unavailable"}
     \/ status' = "running" /\ seen' = seen
  /\ UNCHANGED <<probe, host, device, missed, faults>>

Runs(op) == status = "running" /\ todo # <<>> /\ Head(todo).op = op

(* Mutants: a cleanup does not ask whether its object was made; and one    *)
(* that an exception led to does not wait.                                 *)
Skipped_NullHandle(s) ==
  \/ s.chained /\ ~going
  \/ s.effect.do = "gain" /\ s.effect.r = "ctx" /\ "ctx" \in live
Skipped_Hasty(s) ==
  \/ Skipped_NullHandle(s)
  \/ ~Unowned(s) /\ s.own \notin held
  \/ s.effect.do = "drain" /\ s.mode = "hush" /\ exc # "none"

(* Not made: a chained call after a failure, the release of an object that *)
(* was never made, the creation of a context when one is current.          *)
Skipped(s) ==
  \/ s.chained /\ ~going
  \/ ~Unowned(s) /\ s.own \notin held
  \/ s.effect.do = "gain" /\ s.effect.r = "ctx" /\ "ctx" \in live

Skip ==
  /\ Runs("call") /\ Skipped(Head(todo))
  /\ todo' = Tail(todo)
  /\ UNCHANGED <<probe, frames, exc, going, good, device, status, missed, seen, faults>>

Judged(s) == s.mode \in {"ask", "must"}
Pending(stream) == {i \in DOMAIN queue : queue[i].stream = stream}

(* What is computed from these inputs: NaN spreads, anything else that is  *)
(* not as expected makes the result wrong.                                 *)
Computed(label, needs) ==
  IF \A n \in needs : mem[n[1]] = n[2] THEN label
  ELSE IF \E n \in needs : mem[n[1]] = "nan" THEN "nan" ELSE "wrong"

(* The effect of a successful call; d is "none" or how its value is bad.   *)
Effect(e, d) ==
  /\ live' = IF e.do \in {"gain", "adopt"} THEN live \union {e.r}
             ELSE IF e.do = "lose" THEN live \ {e.r} ELSE live
  /\ held' = IF e.do = "gain" THEN held \union {e.r} ELSE held
  /\ queue' = IF e.do = "push" THEN Append(queue, e.kernel) ELSE queue
  /\ \/ e.do = "gain" /\ \E l \in e.left : mem' = [mem EXCEPT ![e.r] = l]
     \/ /\ e.do = "store"
        /\ mem' = [mem EXCEPT ![e.b] = IF d = "none" THEN Computed(e.label, e.needs)
                                       ELSE IF d \in {"dropped", "uncopied"} THEN @ ELSE d]
     \/ e.do \notin {"gain", "store"} /\ mem' = mem

(* The call returns 0.  A wait returns only when its stream is empty.      *)
Succeed ==
  LET s == Head(todo) IN
  /\ Runs("call") /\ ~Skipped(s)
  /\ s.effect.do = "drain" => Pending(s.effect.stream) = {}
  /\ \/ "ok" \in s.want /\ Well /\ Effect(s.effect, "none")
     \/ "ok" \notin s.want /\ Badly({"answer"}) /\ Effect(s.effect, "none")
     \/ /\ s.effect.do = "store"
        /\ \E d \in s.effect.bad : Badly({d}) /\ Effect(s.effect, d)
  /\ IF s.mode = "must" THEN todo' = <<>> /\ exc' = "error" /\ good' = good
     ELSE todo' = Tail(todo) /\ exc' = exc /\ good' = (good /\ "ok" \in s.want)
  /\ going' = (going \/ Recorded(s))
  /\ UNCHANGED <<probe, frames, status, missed>>

(* Mutant: a recorded code is not among those judged at the end.           *)
Takes_Forgets(s, how) ==
  IF s.mode = "hush" \/ Recorded(s)
  THEN todo' = Tail(todo) /\ UNCHANGED <<exc, going, good>>
  ELSE todo' = <<>> /\ UNCHANGED <<going, good>> /\ exc' = "error"

(* Mutant: an exception in a cleanup gets out of it.                       *)
Takes_Escapes(s, how) ==
  IF s.mode = "hush" /\ how = "raise"
  THEN todo' = <<>> /\ UNCHANGED <<going, good>> /\ exc' = "error"
  ELSE IF s.mode = "hush"
  THEN todo' = Tail(todo) /\ UNCHANGED <<exc, going, good>>
  ELSE IF s.mode = "must" /\ how \in s.want
  THEN todo' = Tail(todo) /\ UNCHANGED <<exc, going, good>>
  ELSE IF Recorded(s) /\ how # "raise"
  THEN /\ todo' = Tail(todo) /\ exc' = exc /\ going' = FALSE
       /\ good' = (good /\ how \in s.want)
  ELSE /\ todo' = <<>> /\ UNCHANGED <<going, good>>
       /\ exc' = IF how = "refused" THEN "unsupported" ELSE "error"

(* What a failing call does to the host: an unchecked one is recorded, one *)
(* in a cleanup is ignored (an exception leaves the rest of its try), any  *)
(* other raises.                                                           *)
Takes(s, how) ==
  IF s.mode = "hush"
  THEN /\ todo' = SubSeq(todo, 2 + (IF how = "raise" THEN s.skip ELSE 0), Len(todo))
       /\ UNCHANGED <<exc, going, good>>
  ELSE IF s.mode = "must" /\ how \in s.want
  THEN todo' = Tail(todo) /\ UNCHANGED <<exc, going, good>>
  ELSE IF Recorded(s) /\ how # "raise"
  THEN /\ todo' = Tail(todo) /\ exc' = exc /\ going' = FALSE
       /\ good' = (good /\ how \in s.want)
  ELSE /\ todo' = <<>> /\ UNCHANGED <<going, good>>
       /\ exc' = IF how = "refused" THEN "unsupported" ELSE "error"

Tags(s, how) ==
  (IF s.effect.do = "lose" THEN {"unreleased"} ELSE {}) \union
  (IF s.effect.do = "drain" /\ how = "raise" THEN {"escaped"} ELSE {}) \union
  (IF s.mode = "hush" THEN (IF how = "raise" THEN {"escaped"} ELSE {"unreleased"})
   ELSE IF how = "raise" THEN {"raise"}
   ELSE IF Judged(s) THEN {"answer"} ELSE {"fail"})

(* The call fails with a code, is refused, or raises.  A wait that fails   *)
(* reports that the device is lost, with everything queued on it.          *)
Fail ==
  LET s == Head(todo) IN
  /\ Runs("call") /\ ~Skipped(s)
  /\ \E how \in {"fail", "refused", "raise"} :
       /\ how = "refused" => how \in s.want
       /\ how = "raise" => Judged(s) \/ s.mode = "hush"
       /\ Takes(s, how)
       /\ IF how \notin s.want THEN Badly(Tags(s, how))
          ELSE /\ seen' = seen \union (IF Judged(s) THEN {} ELSE {"refused"})
               /\ faults' = faults
       /\ queue' = IF s.effect.do = "drain" /\ how # "raise" THEN <<>> ELSE queue
  /\ UNCHANGED <<probe, frames, live, held, mem, status, missed>>

Compare ==
  LET s == Head(todo)
      right == mem[s.b] = s.label
      accepted == right \/ mem[s.b] \in s.also \/ \E a \in s.after : mem[a] = "nan"
  IN
  /\ Runs("check")
  /\ missed' = (missed \/ ~right)
  /\ IF s.loud /\ ~accepted
     THEN todo' = <<>> /\ exc' = "error" /\ good' = good
     ELSE todo' = Tail(todo) /\ exc' = exc /\ good' = (good /\ accepted)
  /\ UNCHANGED <<probe, frames, going, device, status, seen, faults>>

(* The probe itself refuses, gives up, or returns early.                   *)
Stop ==
  /\ \/ Runs("raise") /\ exc' = Head(todo).as /\ todo' = <<>> /\ good' = good
        /\ seen' = seen \union {"declined"}
     \/ Runs("decline") /\ exc' = "return" /\ todo' = <<>> /\ good' = FALSE
        /\ seen' = seen \union {"declined"}
     \/ Runs("return") /\ ~going /\ exc' = "return" /\ todo' = <<>>
        /\ UNCHANGED <<good, seen>>
     \/ Runs("return") /\ going /\ todo' = Tail(todo)
        /\ UNCHANGED <<exc, good, seen>>
  /\ UNCHANGED <<probe, frames, going, device, status, missed, faults>>

(* Mutant: an exception in a cleanup enters the same cleanup again.        *)
Frame_Again ==
  /\ \/ /\ Runs("try")
        /\ frames' = <<Head(todo).cleanup>> \o frames /\ todo' = Tail(todo)
     \/ /\ Runs("leave") /\ frames # <<>>
        /\ todo' = Head(frames) \o Tail(todo) /\ frames' = Tail(frames)
     \/ /\ status = "running" /\ todo = <<>> /\ frames # <<>>
        /\ todo' = Head(frames) /\ frames' = frames
  /\ UNCHANGED <<probe, exc, going, good, device, status, missed, seen, faults>>

(* Mutant: the cleanup is at the end of the block, not in a finally.       *)
Frame_NoFinally ==
  /\ \/ /\ Runs("try")
        /\ frames' = <<Head(todo).cleanup>> \o frames /\ todo' = Tail(todo)
     \/ /\ Runs("leave") /\ frames # <<>>
        /\ todo' = Head(frames) \o Tail(todo) /\ frames' = Tail(frames)
     \/ /\ status = "running" /\ todo = <<>> /\ frames # <<>>
        /\ todo' = <<>> /\ frames' = Tail(frames)
  /\ UNCHANGED <<probe, exc, going, good, device, status, missed, seen, faults>>

(* try / finally: on leaving it normally or while unwinding, its cleanup   *)
(* runs, then what follows it or the next outer one.                       *)
Frame ==
  /\ \/ /\ Runs("try")
        /\ frames' = <<Head(todo).cleanup>> \o frames /\ todo' = Tail(todo)
     \/ /\ Runs("leave") /\ frames # <<>>
        /\ todo' = Head(frames) \o Tail(todo) /\ frames' = Tail(frames)
     \/ /\ status = "running" /\ todo = <<>> /\ frames # <<>>
        /\ todo' = Head(frames) /\ frames' = Tail(frames)
  /\ UNCHANGED <<probe, exc, going, good, device, status, missed, seen, faults>>

(* Mutant: an early return is reported as if it were an exception.         *)
Verdict_Raw ==
  IF exc = "none" THEN (IF good THEN "pass" ELSE "incorrect")
  ELSE IF probe \notin Catching THEN "crashed" ELSE exc

(* main(): the status of the result line, or no result at all.             *)
Verdict ==
  IF exc \in {"none", "return"} THEN (IF good THEN "pass" ELSE "incorrect")
  ELSE IF probe \notin Catching THEN "crashed"
  ELSE IF exc = "unsupported" /\ probe \in Recognises THEN "unsupported" ELSE "error"

Finish ==
  /\ status = "running" /\ todo = <<>> /\ frames = <<>>
  /\ status' = Verdict
  /\ UNCHANGED <<probe, host, device, missed, seen, faults>>

(* The device runs a kernel: streams are in order, and a stream that waits *)
(* for another lets it finish first.                                       *)
Before(i) ==
  {j \in 1..(i - 1) : queue[j].stream \in queue[i].waits \union {queue[i].stream}}

Matters(i) == \E j \in Before(i) : Conflict(queue[i], queue[j])

Result(k, d) ==
  [b \in Names |->
     IF d = "dropped" \/ b \notin Writes(k) THEN mem[b]
     ELSE IF d # "none" THEN d
     ELSE Computed((CHOOSE w \in k.writes : w[1] = b)[2], k.needs)]

RunKernel ==
  /\ status = "running"
  /\ \E i \in DOMAIN queue :
       LET k == queue[i] IN
       /\ queue' = SubSeq(queue, 1, i - 1) \o SubSeq(queue, i + 1, Len(queue))
       /\ \/ Before(i) = {} /\ Well /\ mem' = Result(k, "none")
          \/ Matters(i) /\ Badly({"reordered"}) /\ mem' = Result(k, "none")
          \/ /\ Before(i) = {}
             /\ \E d \in k.bad : Badly({d}) /\ mem' = Result(k, d)
  /\ UNCHANGED <<probe, host, live, held, status, missed>>

Done == Reported /\ UNCHANGED vars

Host == Start \/ Skip \/ Succeed \/ Fail \/ Compare \/ Stop \/ Frame \/ Finish
Next == Host \/ RunKernel \/ Done

(* The process and the device each keep going; a device that hangs is the  *)
(* business of the runner that kills the probe (Promotion).                *)
Spec == Init /\ [][Next]_vars /\ WF_vars(Host) /\ WF_vars(RunKernel)

-------------------------------------------------------------------------------
(* Every call is made on objects that exist: no use after a release, no    *)
(* release twice, nothing released after the context it lives in.          *)
CallsUseLiveObjects ==
  Runs("call") /\ ~Skipped(Head(todo)) => Head(todo).uses \subseteq live

(* The cleanup of a failed probe never frees what a queued kernel still    *)
(* uses, unless the wait that should have drained the stream itself threw. *)
DeviceNeverDangles ==
  "escaped" \notin seen =>
    \A i \in DOMAIN queue : queue[i].uses \subseteq live

(* Whatever went wrong and wherever, a probe that reports has released     *)
(* what it made, unless a release failed.                                  *)
ReleasedAtExit ==
  Reported /\ seen \intersect {"unreleased", "escaped"} = {} =>
    live \intersect held \subseteq Unguarded[probe]

(* A pass is evidence: unless something happened that the checks of this   *)
(* probe are known not to see, the backend did nothing wrong.              *)
PassIsWitnessed ==
  status = "pass" /\ seen \intersect Blind[probe] = {} =>
    seen \subseteq {"unreleased", "escaped"}

(* No verdict against a backend that did nothing wrong.                    *)
BlameIsEarned ==
  status \in {"incorrect", "error", "crashed"} =>
    seen \ {"unreleased", "escaped"} # {}

(* In no program does a failed, thrown or wrongly answered call end in a   *)
(* pass, however much runs after it.                                       *)
NoCallFailsUnnoticed ==
  status = "pass" => seen \intersect Failures = {}

(* A process whose device makes progress reports.                          *)
Terminates == <>Reported

(* Documented, and false of the qualification scripts: a pass means that   *)
(* every compared output equals its reference.                             *)
PassMeansMatch == status = "pass" => ~missed
===============================================================================
