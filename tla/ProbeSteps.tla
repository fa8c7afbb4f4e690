------------------------------ MODULE ProbeSteps ------------------------------
(***************************************************************************)
(* The vocabulary in which the probes are written: a probe is the sequence *)
(* of calls its Python source makes, each with the answers that source     *)
(* accepts, the objects it uses and the effect it has, between the checks  *)
(* it makes of the results.  ProbeMachine runs such sequences.             *)
(* A value is a label: the name of the result the source expects, or one   *)
(* of "junk" (never written), "wrong", "nan", "imag" (right but for its    *)
(* imaginary part) and "factors" (factors whose product fits but which are *)
(* not the factorisation).                                                 *)
(***************************************************************************)
EXTENDS Integers, Sequences, SequencesExt

(* What a successful call does.                                            *)
Nothing == [do |-> "nothing"]

(* An object is made and its handle becomes non-null.  Memory holds what   *)
(* was left there: a driver does not clear it.  PyTorch keeps what it      *)
(* makes itself, so the probe only adopts it.                              *)
Gain(r, left) == [do |-> "gain", r |-> r, left |-> left \union {"junk"}]
Adopt(r) == [do |-> "adopt", r |-> r]
Lose(r) == [do |-> "lose", r |-> r]

(* A value is stored in b; a bad backend may store one of bad instead      *)
(* ("dropped" and "uncopied" leave b alone).  It is right only if what it  *)
(* reads is.                                                               *)
Store(b, label, needs, bad) ==
  [do |-> "store", b |-> b, label |-> label, needs |-> needs, bad |-> bad]

(* A kernel is queued on a stream, or the host waits for a stream.         *)
Push(kernel) == [do |-> "push", kernel |-> kernel]
Drain(stream) == [do |-> "drain", stream |-> stream]

Kernel(stream, waits, needs, writes, bad, uses) ==
  [stream |-> stream, waits |-> waits, needs |-> needs, writes |-> writes,
   bad |-> bad, uses |-> uses]

(* ck(f(...), name): anything but 0 raises RuntimeError.                   *)
ck(uses, effect) ==
  [op |-> "call", mode |-> "ck", chained |-> FALSE, own |-> "", skip |-> 0,
   uses |-> uses, want |-> {"ok"}, effect |-> effect]

(* The same, but 801 is turned into a "not supported" RuntimeError first.  *)
Refusable(uses, effect) == [ck(uses, effect) EXCEPT !.want = {"ok", "refused"}]

(* rc = int(f(...)): the code is recorded and judged at the end.  A call   *)
(* chained to it is made only while the last such code was 0.              *)
Ask(want, uses, effect) == [ck(uses, effect) EXCEPT !.mode = "ask", !.want = want]
Chained(call) == [call EXCEPT !.chained = TRUE]
Then(uses, effect) == Chained(Ask({"ok"}, uses, effect))

(* Anything but a refusal raises.                                          *)
MustRefuse(call) == [call EXCEPT !.mode = "must", !.want = {"refused"}]

(* A PyTorch operation: it may raise, with a text that says unsupported or *)
(* with any other.                                                         *)
Torch(effect) == [Refusable({}, effect) EXCEPT !.mode = "torch"]

(* if handle.value: try: release(handle) except Exception: pass            *)
Release(r, uses) ==
  [ck(uses \union {r}, Lose(r)) EXCEPT !.mode = "hush", !.own = r]
Quiesce(stream, uses) ==
  [ck(uses \union {stream}, Drain(stream)) EXCEPT !.mode = "hush", !.own = stream]

(* if handle.value: ck(release(handle))                                    *)
ckRelease(r, uses) == [ck(uses \union {r}, Lose(r)) EXCEPT !.own = r]

(* The result is compared with the reference (which copies it to the host);*)
(* labels in also get through, and so does everything once a value in      *)
(* after is NaN.  Insist raises on a mismatch instead of recording it.     *)
Check(b, label, also) ==
  [op |-> "check", b |-> b, label |-> label, also |-> also, after |-> {},
   loud |-> FALSE]
Insist(b, label, also) == [Check(b, label, also) EXCEPT !.loud = TRUE]

Raise(as) == [op |-> "raise", as |-> as]
Decline == [op |-> "decline"]
ReturnUnless == [op |-> "return"]

Try(body, cleanup) ==
  <<[op |-> "try", cleanup |-> cleanup]>> \o body \o <<[op |-> "leave"]>>

Times(n, body) == FlattenSeq([i \in 1..n |-> body])
===============================================================================
