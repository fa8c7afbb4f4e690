---------------------------- MODULE PromotionGate ----------------------------
(***************************************************************************)
(* scripts/promotion_gate.py: what a capability report and a functional    *)
(* report must show before a driver is eligible for review, and the shape  *)
(* of the entries the probe scripts write.                                 *)
(*                                                                         *)
(* Abstracted: field syntax (schema, hex digits, timestamps that do not    *)
(* parse), the GPU architecture (compared like the revision), the path of  *)
(* the loaded module (a DLL loaded from elsewhere has another hash).       *)
(***************************************************************************)
EXTENDS Naturals, Sequences

CONSTANTS
  DriverRequired,       (* DRIVER_REQUIRED: probe names                 *)
  FunctionalRequired    (* FUNCTIONAL_REQUIRED                          *)

(* What a probe process says about itself, and what a runner concludes. *)
Said == {"pass", "incorrect", "error", "unsupported", "unavailable"}
Statuses == Said \union {"timeout", "hang_after_result", "crash_after_result"}

BAD_STATUSES == Statuses \ {"pass", "unsupported"}

(* The statuses a runner counts as errors. *)
ErrorStatuses == {"error", "hang_after_result", "crash_after_result"}

EntriesOf(report) == {report.results[n] : n \in DOMAIN report.results}
CountIn(report, S(_)) ==
  LET hits == {n \in DOMAIN report.results : S(report.results[n])}
  IN  IF hits = {} THEN "zero" ELSE "some"

(* The aggregate fields of test-capabilities.ps1 that the gate reads; a      *)
(* count matters only as zero or not.                                        *)
CapabilitySummary(report) ==
  [no_silent_corruption |-> CountIn(report, LAMBDA e : e.status = "incorrect") = "zero",
   no_hangs             |-> CountIn(report, LAMBDA e : e.timed_out) = "zero",
   no_process_crashes   |-> CountIn(report, LAMBDA e : e.crashed) = "zero",
   timeouts             |-> CountIn(report, LAMBDA e : e.status = "timeout"),
   errors               |-> CountIn(report, LAMBDA e : e.status \in ErrorStatuses),
   timeout_retries      |-> CountIn(report, LAMBDA e : e.retried)]

(* The aggregate fields of test-functional.ps1 that the gate reads. *)
FunctionalSummary(report) ==
  [core_correctness_ok |-> \E n \in DOMAIN report.results :
                              /\ report.results[n].test = "matmul"
                              /\ report.results[n].status = "pass",
   hard_failures       |-> CountIn(report, LAMBDA e : e.status \in BAD_STATUSES)]

-----------------------------------------------------------------------------
(* Mutant: the exit code is compared with None. *)
CleanPass_NoExit(e) ==
  /\ e.status = "pass" /\ e.said = "pass" /\ e.exit = "none"
  /\ ~e.timed_out /\ ~e.hung /\ ~e.crashed

(* A clean PASS: the result says ok, and the process ended by itself with 0. *)
(* For the functional report the gate does not read hung; a hung process has *)
(* also timed out.                                                           *)
CleanPass(e) ==
  /\ e.status = "pass"
  /\ e.said = "pass"
  /\ e.exit = "0"
  /\ ~e.timed_out /\ ~e.hung /\ ~e.crashed

(* A passing probe must attest to the driver loaded inside its process. *)
loaded_driver_failure(e, digest) == e.loaded # digest

(* What the gate asks of every result of either report. *)
ResultAdmissible(e, digest) ==
  /\ e.status \notin BAD_STATUSES
  /\ e.status = "pass" => ~loaded_driver_failure(e, digest) /\ CleanPass(e)

Identified(report, digest, revision) ==
  report.driver = digest /\ report.revision = revision

(* No failure among the results: there are some, no test twice, all          *)
(* admissible, and every required one a clean PASS.                          *)
ResultsAdmissible(report, required, digest) ==
  /\ report.results # <<>>
  /\ \A m, n \in DOMAIN report.results :
        report.results[m].test = report.results[n].test => m = n
  /\ \A e \in EntriesOf(report) : ResultAdmissible(e, digest)
  /\ \A test \in required :
        \E e \in EntriesOf(report) : e.test = test /\ CleanPass(e)

(* evaluate returns no failures; fresh: both reports are within the age.     *)
evaluate(cap, fun, digest, revision, fresh) ==
  LET c == CapabilitySummary(cap)
      f == FunctionalSummary(fun)
  IN  /\ Identified(cap, digest, revision) /\ Identified(fun, digest, revision)
      /\ fresh
      /\ c.no_silent_corruption /\ c.no_hangs /\ c.no_process_crashes
      /\ c.timeouts = "zero" /\ c.errors = "zero" /\ c.timeout_retries = "zero"
      /\ \A m, n \in DOMAIN cap.selected : cap.selected[m] = cap.selected[n] => m = n
      /\ {cap.selected[n] : n \in DOMAIN cap.selected} = {e.test : e \in EntriesOf(cap)}
      /\ ResultsAdmissible(cap, DriverRequired, digest)
      /\ f.core_correctness_ok /\ f.hard_failures = "zero"
      /\ ResultsAdmissible(fun, FunctionalRequired, digest)
=============================================================================
