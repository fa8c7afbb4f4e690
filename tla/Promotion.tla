------------------------------- MODULE Promotion -------------------------------
(***************************************************************************)
(* From probe processes to the verdict on a driver: test-capabilities.ps1  *)
(* runs its probes one after another, each in a process of its own with a  *)
(* timeout and one retry; test-functional.ps1 does the same without retry; *)
(* promotion_gate.py reads both reports.  The probe processes run by       *)
(* themselves: they may hang, crash with or without a result, or answer    *)
(* while they are being killed.  The driver DLL and the checked-out        *)
(* revision may change between any two steps.                              *)
(*                                                                         *)
(* Windows does not let a DLL be overwritten while a process has it mapped *)
(* (renaming it away is not modelled).                                     *)
(***************************************************************************)
EXTENDS PromotionGate

CONSTANTS
  CapTests,      (* -Tests of test-capabilities.ps1, in order               *)
  FunTests,      (* -Tests of test-functional.ps1, in order                 *)
  Traced,        (* probes whose launch trace is checked:                   *)
                 (* "driver_launch_blocking"                                *)
  Drivers,       (* nvcuda.dll hashes, the staged one and others            *)
  Revisions,     (* project commits                                         *)
  Retry,         (* RetryTimeoutSeconds > TimeoutSeconds                    *)
  MaxChanges     (* bound: how often driver or revision change              *)

ASSUME PromotionAssumption ==
  /\ CapTests \in Seq(STRING) \ {<<>>} /\ FunTests \in Seq(STRING) \ {<<>>}
  /\ Retry \in BOOLEAN
  /\ MaxChanges \in Nat

VARIABLES
  world,      (* [driver, revision]: the staged DLL and the commit now       *)
  changes,    (* how often the world has changed                             *)
  pc,         (* the step of the script that runs                            *)
  suite,      (* "cap" or "fun": whose script runs                           *)
  attempt,    (* 1, or 2 for the retry                                       *)
  child,      (* the probe process                                           *)
  report,     (* report[s]: the report being written or written              *)
  verdict,    (* "none", "eligible", "rejected"                              *)
  witnessed,  (* history: [suite, test, driver] of children that computed    *)
              (* right results on that driver and ended by themselves with 0 *)
  spoiled,    (* history: some child reported or did something disqualifying *)
  flawless    (* history: every child passed on the staged driver, and the   *)
              (* world is still the one the first script found               *)

vars == <<world, changes, pc, suite, attempt, child, report, verdict, witnessed,
          spoiled, flawless>>
runner == <<pc, suite, attempt, report, verdict>>
history == <<witnessed, spoiled, flawless>>

Suites == {"cap", "fun"}
TestsOf(s) == IF s = "cap" THEN CapTests ELSE FunTests

(* Exit codes: what main returns for a status, "other" for anything else. *)
ExitOf(s) == CASE s = "pass"                   -> "0"
               [] s \in {"incorrect", "error"} -> "2"
               [] s = "unsupported"            -> "3"
               [] OTHER                        -> "4"
ExitCodes == {"0", "2", "3", "4", "other"}

NoChild == [alive |-> FALSE, loaded |-> "none", said |-> "none", exit |-> "none",
            excuse |-> FALSE]

EmptyReport(s) == [driver |-> "none", revision |-> "none",
                   selected |-> TestsOf(s), results |-> <<>>]

Worlds == [driver : Drivers, revision : Revisions]

Init ==
  /\ world \in Worlds
  /\ changes = 0
  /\ pc = "start"
  /\ suite = "cap"
  /\ attempt = 1
  /\ child = NoChild
  /\ report = [s \in Suites |-> EmptyReport(s)]
  /\ verdict = "none"
  /\ witnessed = {} /\ spoiled = FALSE /\ flawless = TRUE

(* A new DLL is staged or another commit checked out. *)
Change ==
  /\ changes < MaxChanges
  /\ changes' = changes + 1
  /\ world' \in Worlds \ {world}
  /\ world'.driver # world.driver => ~(child.alive /\ child.loaded = world.driver)
  /\ flawless' = FALSE
  /\ UNCHANGED <<runner, child, witnessed, spoiled>>

-----------------------------------------------------------------------------
(* The probe process.  Said and still alive: it may hang in its teardown.    *)
CurrentTest == TestsOf(suite)[Len(report[suite].results) + 1]

ChildSays(s) ==
  /\ child.alive /\ child.said = "none"
  /\ child' = [child EXCEPT !.said = s]
  /\ spoiled' = (spoiled \/ s \notin {"pass", "unsupported"})
  /\ flawless' = (flawless /\ s = "pass")
  /\ UNCHANGED <<world, changes, runner, witnessed>>

(* It ends with exit code c; excuse: it printed "no kernel image is          *)
(* available" before it died.  A code other than 0 and the expected one is   *)
(* "other" for all that is asked of it.                                      *)
ChildExits(c, excuse) ==
  /\ child.alive
  /\ c \in {"0", "other"} \/ c = ExitOf(child.said)
  /\ child.said = "none" => c = "other"
  /\ excuse => child.said = "none"
  /\ child' = [child EXCEPT !.alive = FALSE, !.exit = c, !.excuse = excuse]
  /\ LET proper == child.said # "none" /\ c = ExitOf(child.said)
     IN  /\ witnessed' = IF proper /\ child.said = "pass"
                           THEN witnessed \union {[suite |-> suite, test |-> CurrentTest,
                                                   driver |-> child.loaded]}
                           ELSE witnessed
         /\ spoiled' = (spoiled \/ ~(proper \/ excuse))
         /\ flawless' = (flawless /\ proper)
  /\ UNCHANGED <<world, changes, runner>>

-----------------------------------------------------------------------------
(* The scripts read the revision and hash the staged DLL first. *)
StartScript ==
  /\ pc = "start"
  /\ report' = [report EXCEPT ![suite].driver = world.driver,
                              ![suite].revision = world.revision]
  /\ pc' = "spawn"
  /\ UNCHANGED <<world, changes, suite, attempt, child, verdict, history>>

(* $p.Start(): the launcher maps the staged DLL, or another one is found.    *)
Spawn ==
  /\ pc = "spawn"
  /\ \E d \in Drivers :
       /\ child' = [NoChild EXCEPT !.alive = TRUE, !.loaded = d]
       /\ flawless' = (flawless /\ d = world.driver)
  /\ pc' = "wait"
  /\ UNCHANGED <<world, changes, suite, attempt, report, verdict, witnessed, spoiled>>

(* Mutant: the loop waits for a result. *)
TimeOut_NeedsResult ==
  /\ pc = "wait"
  /\ child.alive /\ child.said # "none"
  /\ pc' = "kill"
  /\ spoiled' = TRUE /\ flawless' = FALSE
  /\ UNCHANGED <<world, changes, suite, attempt, child, report, verdict, witnessed>>

(* $timedOut = -not $p.HasExited after the polling loop: the timeout may      *)
(* strike at any time.                                                        *)
TimeOut ==
  /\ pc = "wait"
  /\ child.alive
  /\ pc' = "kill"
  /\ spoiled' = TRUE /\ flawless' = FALSE
  /\ UNCHANGED <<world, changes, suite, attempt, child, report, verdict, witnessed>>

(* Stop-Tree; WaitForExit; the pipes are read to their end. *)
Kill ==
  /\ pc = "kill"
  /\ child' = [child EXCEPT !.alive = FALSE]
  /\ pc' = "judgeTimeout"
  /\ UNCHANGED <<world, changes, suite, attempt, report, verdict, history>>

HasExited ==
  /\ pc = "wait"
  /\ ~child.alive
  /\ pc' = "judgeExit"
  /\ UNCHANGED <<world, changes, suite, attempt, child, report, verdict, history>>

(* The parsed status: a passing probe whose launch trace is checked and       *)
(* missing becomes an error; a process that died without a result but with    *)
(* the excuse on its output counts as unsupported.                            *)
ParsedStatuses(timedOut) ==
  IF child.said = "pass" /\ suite = "cap" /\ CurrentTest \in Traced
    THEN {"pass", "error"}
  ELSE IF child.said # "none" THEN {child.said}
  ELSE IF child.excuse /\ ~timedOut THEN {"unsupported"}
  ELSE {"none"}

(* Mutant: the exit code is not compared. *)
Unexpected_Unchecked(timedOut, parsed) == FALSE

Unexpected(timedOut, parsed) ==
  ~timedOut /\ child.said # "none" /\ child.exit # ExitOf(parsed)

(* Mutant: a process without a result has no status. *)
StatusOf_NoDefault(timedOut, parsed) ==
  IF timedOut THEN IF child.said # "none" THEN "hang_after_result" ELSE "timeout"
  ELSE IF Unexpected(timedOut, parsed) THEN "crash_after_result"
  ELSE parsed

StatusOf(timedOut, parsed) ==
  IF timedOut THEN IF child.said # "none" THEN "hang_after_result" ELSE "timeout"
  ELSE IF Unexpected(timedOut, parsed) THEN "crash_after_result"
  ELSE IF parsed # "none" THEN parsed
  ELSE "error"

(* Mutant: the retry leaves no trace. *)
Entry_ForgetsRetry(timedOut, parsed) ==
  [test |-> CurrentTest, status |-> StatusOf(timedOut, parsed), said |-> child.said,
   timed_out |-> timedOut, hung |-> timedOut /\ child.said # "none",
   crashed |-> Unexpected(timedOut, parsed),
   exit |-> IF timedOut THEN "none" ELSE child.exit,
   loaded |-> IF child.said # "none" THEN child.loaded ELSE "none",
   retried |-> FALSE]

Entry(timedOut, parsed) ==
  [test      |-> CurrentTest,
   status    |-> StatusOf(timedOut, parsed),
   said      |-> child.said,
   timed_out |-> timedOut,
   hung      |-> timedOut /\ child.said # "none",
   crashed   |-> Unexpected(timedOut, parsed),
   exit      |-> IF timedOut THEN "none" ELSE child.exit,
   loaded    |-> IF child.said # "none" THEN child.loaded ELSE "none",
   retried   |-> attempt = 2]

(* Retry-on-timeout: the first attempt is not among the results. *)
RetryDue(e) == suite = "cap" /\ Retry /\ attempt = 1 /\ e.status = "timeout"

(* After the last test the report is written, and the next script runs.      *)
AfterEntry(n) ==
  IF n < Len(TestsOf(suite)) THEN pc' = "spawn" /\ suite' = suite
  ELSE IF suite = "cap" THEN pc' = "start" /\ suite' = "fun"
  ELSE pc' = "gate" /\ suite' = suite

Judge ==
  /\ pc \in {"judgeExit", "judgeTimeout"}
  /\ LET timedOut == pc = "judgeTimeout" IN
     \E parsed \in ParsedStatuses(timedOut) :
       LET e == Entry(timedOut, parsed) IN
       IF RetryDue(e)
         THEN /\ attempt' = 2 /\ pc' = "spawn"
              /\ UNCHANGED <<suite, report, history>>
         ELSE /\ report' = [report EXCEPT ![suite].results = Append(@, e)]
              /\ attempt' = 1
              /\ AfterEntry(Len(report[suite].results) + 1)
              /\ flawless' = (flawless /\ e.status = "pass")
              /\ UNCHANGED <<witnessed, spoiled>>
  /\ child' = NoChild
  /\ UNCHANGED <<world, changes, verdict>>

(* main of promotion_gate.py with the staged DLL and the current commit. *)
Gate(fresh) ==
  /\ pc = "gate"
  /\ verdict' = IF evaluate(report["cap"], report["fun"], world.driver,
                            world.revision, fresh)
                  THEN "eligible" ELSE "rejected"
  /\ pc' = "done"
  /\ flawless' = (flawless /\ fresh)
  /\ UNCHANGED <<world, changes, suite, attempt, child, report, witnessed, spoiled>>

(* Everything is over; the world goes on. *)
Finished == pc = "done" /\ UNCHANGED vars

Run == StartScript \/ Spawn \/ TimeOut \/ Kill \/ HasExited \/ Judge \/ \E b \in BOOLEAN : Gate(b)

Next ==
  \/ Run
  \/ \E s \in Said : ChildSays(s)
  \/ \E c \in ExitCodes, excuse \in BOOLEAN : ChildExits(c, excuse)
  \/ Change
  \/ Finished

(* The scripts run and their timeout strikes; a probe process need not do    *)
(* anything.                                                                 *)
Spec == Init /\ [][Next]_vars /\ WF_vars(Run)

-----------------------------------------------------------------------------
Entries == [test : STRING, status : Statuses, said : Said \union {"none"},
            timed_out : BOOLEAN, hung : BOOLEAN, crashed : BOOLEAN,
            exit : ExitCodes \union {"none"}, loaded : Drivers \union {"none"},
            retried : BOOLEAN]

TypeOK ==
  /\ world \in Worlds /\ changes \in 0 .. MaxChanges
  /\ pc \in {"start", "spawn", "wait", "kill", "judgeExit", "judgeTimeout", "gate", "done"}
  /\ suite \in Suites /\ attempt \in {1, 2}
  /\ child \in [alive : BOOLEAN, loaded : Drivers \union {"none"},
                said : Said \union {"none"}, exit : ExitCodes \union {"none"},
                excuse : BOOLEAN]
  /\ report \in [Suites -> [driver : Drivers \union {"none"},
                            revision : Revisions \union {"none"},
                            selected : Seq(STRING), results : Seq(Entries)]]
  /\ verdict \in {"none", "eligible", "rejected"}
  /\ witnessed \subseteq [suite : Suites, test : STRING, driver : Drivers]
  /\ spoiled \in BOOLEAN /\ flawless \in BOOLEAN

(* docs/PROMOTION_POLICY.md: any reported incorrect result, timeout, crash,  *)
(* hang or missing core result blocks promotion, also one that a retry hid,  *)
(* and the evidence is about the very DLL that is promoted, loaded inside    *)
(* every probe that counts.                                                  *)
EligibleIsEarned ==
  verdict = "eligible" =>
    /\ ~spoiled
    /\ \A test \in DriverRequired :
          [suite |-> "cap", test |-> test, driver |-> report["cap"].driver] \in witnessed
    /\ \A test \in FunctionalRequired :
          [suite |-> "fun", test |-> test, driver |-> report["cap"].driver] \in witnessed

(* The gate is not merely closed: flawless runs of the selected probes on    *)
(* one driver and one commit, assessed in time, are eligible.                *)
FlawlessIsEligible == (pc = "done" /\ flawless) => verdict = "eligible"

(* An entry says "pass" only for a process that computed a right result on   *)
(* the driver the entry names and ended by itself with exit code 0.          *)
PassIsWitnessed ==
  \A s \in Suites : \A e \in EntriesOf(report[s]) :
     e.status = "pass" =>
        [suite |-> s, test |-> e.test, driver |-> e.loaded] \in witnessed

(* Hanging probes do not stop the scripts: there is always a verdict.        *)
VerdictComes == <>(verdict # "none")
=============================================================================
