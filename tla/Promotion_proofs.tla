--------------------------- MODULE Promotion_proofs ---------------------------
(***************************************************************************)
(* Proofs about module Promotion, for any lists of probes, any drivers and *)
(* commits, with or without the retry.                                     *)
(***************************************************************************)
EXTENDS Promotion, TLAPS

Probing == {"wait", "kill", "judgeExit", "judgeTimeout"}

-----------------------------------------------------------------------------
(* The parts of the inductive invariant.                                     *)

(* A report is not full while its script starts a probe or has one, and the  *)
(* functional report is empty while the capability script runs.              *)
Progress ==
  /\ pc \notin {"gate", "done"} => Len(report[suite].results) < Len(TestsOf(suite))
  /\ suite = "cap" => pc \notin {"gate", "done"} /\ report["fun"] = EmptyReport("fun")

(* There is a probe process only in the steps of its test; it runs on some   *)
(* driver and has no exit code before it ends.                               *)
Process ==
  /\ pc \notin Probing => child = NoChild
  /\ pc \in Probing => child.loaded \in Drivers
  /\ child.alive => pc \in {"wait", "kill"} /\ child.exit = "none"
  /\ pc = "judgeExit" => child.exit # "none"
  /\ pc = "wait" => child.alive \/ child.exit # "none"

(* A process that said pass and ended with 0 is among the witnesses.         *)
Witness ==
  (child.said = "pass" /\ child.exit = "0") =>
     [suite |-> suite, test |-> CurrentTest, driver |-> child.loaded] \in witnessed

(* Two entries are never merged: the retry belongs to the capability script. *)
Retrying == attempt = 2 => suite = "cap" /\ pc \in Probing \union {"spawn"}

(* What disqualifies a report: a bad status, or a retry.                     *)
Tainted(s) == \E e \in EntriesOf(report[s]) :
                 e.status \in BAD_STATUSES \/ (s = "cap" /\ e.retried)

(* What will disqualify it: the process misbehaved, or is being retried.     *)
Misbehaved ==
  \/ child.said \notin {"none", "pass", "unsupported"}
  \/ child.exit # "none" /\ child.said # "none" /\ child.exit # ExitOf(child.said)
  \/ child.exit # "none" /\ child.said = "none" /\ ~child.excuse

Marked ==
  spoiled => \/ \E s \in Suites : Tainted(s)
             \/ pc \in {"kill", "judgeTimeout"}
             \/ attempt = 2
             \/ Misbehaved

(* The verdict is the last thing.                                            *)
Last == verdict # "none" => pc = "done"

(* What holds as long as nothing has gone wrong: each report filled so far   *)
(* has a clean entry per test for the driver staged now, and names it and    *)
(* the commit.                                                               *)
FlawlessEntry(e) ==
  /\ CleanPass(e) /\ ~e.retried /\ e.loaded = world.driver

FlawlessReport(s) ==
  \A n \in DOMAIN report[s].results :
     /\ report[s].results[n].test = TestsOf(s)[n]
     /\ FlawlessEntry(report[s].results[n])

Headed(s) == report[s].driver = world.driver /\ report[s].revision = world.revision

FlawlessProcess ==
  /\ pc \notin {"kill", "judgeTimeout"} /\ attempt = 1
  /\ child.said \in {"none", "pass"} /\ child.exit \in {"none", "0"}
  /\ child.exit = "0" => child.said = "pass"
  /\ pc \in Probing => child.loaded = world.driver

(* Which reports name driver and commit, and how long they are.              *)
FlawlessHeads ==
  /\ (suite = "fun" \/ pc # "start") => Headed("cap")
  /\ (suite = "fun" /\ pc # "start") => Headed("fun")

FlawlessLengths ==
  /\ suite = "fun" => Len(report["cap"].results) = Len(CapTests)
  /\ pc \in {"gate", "done"} => Len(report["fun"].results) = Len(FunTests)

FlawlessSoFar ==
  flawless => /\ FlawlessProcess /\ FlawlessHeads /\ FlawlessLengths
              /\ \A s \in Suites : FlawlessReport(s)

(* The selected tests never change. *)
Selected == \A s \in Suites : report[s].selected = TestsOf(s)

-----------------------------------------------------------------------------
(* Lemmas about the gate.                                                    *)

(* A count of the capability summary is zero only if no entry counts.        *)
LEMMA CapabilityCounts ==
  ASSUME NEW r
  PROVE  LET c == CapabilitySummary(r) IN
         /\ c.no_silent_corruption <=> \A e \in EntriesOf(r) : e.status # "incorrect"
         /\ c.no_hangs <=> \A e \in EntriesOf(r) : ~e.timed_out
         /\ c.no_process_crashes <=> \A e \in EntriesOf(r) : ~e.crashed
         /\ c.timeouts = "zero" <=> \A e \in EntriesOf(r) : e.status # "timeout"
         /\ c.errors = "zero" <=> \A e \in EntriesOf(r) : e.status \notin ErrorStatuses
         /\ c.timeout_retries = "zero" <=> \A e \in EntriesOf(r) : ~e.retried
BY DEF CapabilitySummary, CountIn, EntriesOf

LEMMA FunctionalCounts ==
  ASSUME NEW r
  PROVE  LET f == FunctionalSummary(r) IN
         /\ f.core_correctness_ok <=>
              \E e \in EntriesOf(r) : e.test = "matmul" /\ e.status = "pass"
         /\ f.hard_failures = "zero" <=>
              \A e \in EntriesOf(r) : e.status \notin BAD_STATUSES
BY DEF FunctionalSummary, CountIn, EntriesOf

-----------------------------------------------------------------------------
(* Type correctness, with what it needs: where the script is in its list of  *)
(* tests, and when there is a process.                                       *)
Reports == [driver : Drivers \union {"none"}, revision : Revisions \union {"none"},
            selected : Seq(STRING), results : Seq(Entries)]

Children == [alive : BOOLEAN, loaded : Drivers \union {"none"},
             said : Said \union {"none"}, exit : ExitCodes \union {"none"},
             excuse : BOOLEAN]

Base == TypeOK /\ Progress /\ Process

LEMMA TestsType ==
  ASSUME NEW s \in Suites
  PROVE  TestsOf(s) \in Seq(STRING) /\ Len(TestsOf(s)) > 0
BY PromotionAssumption DEF TestsOf

LEMMA ReportType ==
  ASSUME TypeOK, NEW s \in Suites
  PROVE  /\ report \in [Suites -> Reports] /\ report[s] \in Reports
         /\ report[s].results \in Seq(Entries)
         /\ Len(report[s].results) \in Nat
         /\ DOMAIN report[s].results = 1 .. Len(report[s].results)
BY DEF TypeOK, Reports

LEMMA ChildType ==
  ASSUME TypeOK
  PROVE  /\ child \in Children /\ child.alive \in BOOLEAN
         /\ child.said \in Said \union {"none"} /\ child.exit \in ExitCodes \union {"none"}
         /\ child.loaded \in Drivers \union {"none"} /\ child.excuse \in BOOLEAN
BY DEF TypeOK, Children

LEMMA NoChildType == NoChild \in Children
BY DEF NoChild, Children

(* The test whose process runs is one of the list. *)
LEMMA CurrentTestType ==
  ASSUME Base, pc \notin {"gate", "done"}
  PROVE  /\ CurrentTest \in STRING
         /\ Len(report[suite].results) + 1 \in DOMAIN TestsOf(suite)
<1>1. suite \in Suites
  BY DEF Base, TypeOK
<1>2. TestsOf(suite) \in Seq(STRING)
  BY <1>1, TestsType
<1>3. Len(report[suite].results) \in Nat
  BY <1>1, ReportType DEF Base
<1>4. Len(report[suite].results) + 1 \in 1 .. Len(TestsOf(suite))
  BY <1>2, <1>3 DEF Base, Progress
<1>5. QED
  BY <1>2, <1>4 DEF CurrentTest

LEMMA EntryType ==
  ASSUME Base, pc \in {"judgeExit", "judgeTimeout"}, NEW timedOut \in BOOLEAN,
         NEW parsed \in ParsedStatuses(timedOut)
  PROVE  Entry(timedOut, parsed) \in Entries
<1>1. CurrentTest \in STRING
  BY CurrentTestType
<1>2. parsed \in Said \union {"none"}
  BY ChildType DEF Base, ParsedStatuses, Said
<1>3. StatusOf(timedOut, parsed) \in Statuses
  BY <1>2 DEF StatusOf, Statuses, Said
<1>4. Unexpected(timedOut, parsed) \in BOOLEAN
  BY DEF Unexpected
<1>5. (attempt = 2) \in BOOLEAN
  OBVIOUS
<1>6. QED
  BY <1>1, <1>3, <1>4, <1>5, ChildType DEF Base, Entry, Entries

LEMMA BaseInit == Init => Base
<1> SUFFICES ASSUME Init PROVE Base
  OBVIOUS
<1>1. report \in [Suites -> Reports]
  <2>1. ASSUME NEW s \in Suites
        PROVE  EmptyReport(s) \in Reports
    BY TestsType DEF EmptyReport, Reports
  <2>2. QED
    BY <2>1 DEF Init
<1>2. TypeOK
  <2>1. /\ world \in Worlds /\ pc = "start" /\ attempt \in {1, 2}
        /\ verdict = "none" /\ spoiled \in BOOLEAN /\ flawless \in BOOLEAN
        /\ witnessed \subseteq [suite : Suites, test : STRING, driver : Drivers]
    BY DEF Init
  <2>2. changes \in 0 .. MaxChanges
    BY PromotionAssumption DEF Init
  <2>3. suite \in Suites
    BY DEF Init, Suites
  <2>4. child \in Children
    BY NoChildType DEF Init
  <2>5. QED
    BY <1>1, <2>1, <2>2, <2>3, <2>4 DEF TypeOK, Reports, Children
<1>3. Progress
  BY TestsType DEF Init, Progress, EmptyReport, Suites
<1>4. Process
  BY DEF Init, Process, NoChild, Probing
<1>5. QED
  BY <1>2, <1>3, <1>4 DEF Base

LEMMA Steps ==
  ASSUME [Next]_vars
  PROVE  \/ Change \/ (\E s \in Said : ChildSays(s))
         \/ (\E c \in ExitCodes, excuse \in BOOLEAN : ChildExits(c, excuse))
         \/ StartScript \/ Spawn \/ TimeOut \/ Kill \/ HasExited \/ Judge
         \/ (\E b \in BOOLEAN : Gate(b)) \/ UNCHANGED vars
BY DEF Next, Run, Finished

(* The two outcomes of judging an attempt. *)
RunsAgain(e) ==
  /\ RetryDue(e)
  /\ attempt' = 2 /\ pc' = "spawn" /\ suite' = suite
  /\ report' = report /\ flawless' = flawless

Records(e) ==
  /\ ~RetryDue(e)
  /\ report' = [report EXCEPT ![suite].results = Append(@, e)]
  /\ attempt' = 1
  /\ AfterEntry(Len(report[suite].results) + 1)
  /\ flawless' = (flawless /\ e.status = "pass")

Judges(timedOut, parsed) ==
  /\ pc \in {"judgeExit", "judgeTimeout"}
  /\ timedOut <=> pc = "judgeTimeout"
  /\ child' = NoChild /\ world' = world /\ changes' = changes
  /\ verdict' = verdict /\ witnessed' = witnessed /\ spoiled' = spoiled
  /\ RunsAgain(Entry(timedOut, parsed)) \/ Records(Entry(timedOut, parsed))

LEMMA JudgeCases ==
  ASSUME Judge
  PROVE  \E timedOut \in BOOLEAN : \E parsed \in ParsedStatuses(timedOut) :
           Judges(timedOut, parsed)
<1> DEFINE late == pc = "judgeTimeout"
<1>1. PICK parsed \in ParsedStatuses(late) :
         IF RetryDue(Entry(late, parsed))
           THEN /\ attempt' = 2 /\ pc' = "spawn"
                /\ UNCHANGED <<suite, report, history>>
           ELSE /\ report' = [report EXCEPT ![suite].results = Append(@, Entry(late, parsed))]
                /\ attempt' = 1
                /\ AfterEntry(Len(report[suite].results) + 1)
                /\ flawless' = (flawless /\ Entry(late, parsed).status = "pass")
                /\ UNCHANGED <<witnessed, spoiled>>
  BY Zenon DEF Judge
<1>2. /\ pc \in {"judgeExit", "judgeTimeout"} /\ late \in BOOLEAN
      /\ child' = NoChild /\ UNCHANGED <<world, changes, verdict>>
  BY DEF Judge
<1> DEFINE e == Entry(late, parsed)
<1> HIDE DEF late, e
<1>3. witnessed' = witnessed /\ spoiled' = spoiled /\ (RunsAgain(e) \/ Records(e))
  BY <1>1 DEF RunsAgain, Records, history, e
<1>4. QED
  BY <1>2, <1>3 DEF Judges, late, e

(* Recording an entry adds it to its script's report and touches nothing else.*)
LEMMA RecordedReport ==
  ASSUME Base, NEW e \in Entries, Records(e)
  PROVE  /\ report' \in [Suites -> Reports]
         /\ report'[suite].results = Append(report[suite].results, e)
         /\ Len(report'[suite].results) = Len(report[suite].results) + 1
         /\ \A n \in 1 .. Len(report[suite].results) :
               report'[suite].results[n] = report[suite].results[n]
         /\ report'[suite].results[Len(report[suite].results) + 1] = e
         /\ report'[suite].driver = report[suite].driver
         /\ report'[suite].revision = report[suite].revision
         /\ report'[suite].selected = report[suite].selected
         /\ \A s \in Suites : s # suite => report'[s] = report[s]
<1>1. suite \in Suites
  BY DEF Base, TypeOK
<1>2. report \in [Suites -> Reports] /\ report[suite] \in Reports
  BY <1>1, ReportType DEF Base
<1> DEFINE r == [report[suite] EXCEPT !.results = Append(@, e)]
<1>3. /\ r.results = Append(report[suite].results, e)
      /\ r.driver = report[suite].driver /\ r.revision = report[suite].revision
      /\ r.selected = report[suite].selected
  BY <1>2 DEF Reports
<1>4. report[suite].results \in Seq(Entries)
  BY <1>1, ReportType DEF Base
<1>5. Append(report[suite].results, e) \in Seq(Entries)
  BY <1>4
<1>6. r \in Reports
  BY <1>2, <1>5 DEF Reports
<1>7. report' = [report EXCEPT ![suite] = r]
  BY DEF Records
<1> HIDE DEF r
<1>8. /\ report'[suite] = r /\ report' \in [Suites -> Reports]
      /\ \A s \in Suites : s # suite => report'[s] = report[s]
  BY <1>1, <1>2, <1>6, <1>7
<1>9. QED
  BY <1>3, <1>4, <1>8

(* The type invariant, without the records spelt out. *)
Typed ==
  /\ world \in Worlds /\ changes \in 0 .. MaxChanges
  /\ pc \in {"start", "spawn", "wait", "kill", "judgeExit", "judgeTimeout", "gate", "done"}
  /\ suite \in Suites /\ attempt \in {1, 2}
  /\ child \in Children /\ report \in [Suites -> Reports]
  /\ verdict \in {"none", "eligible", "rejected"}
  /\ witnessed \subseteq [suite : Suites, test : STRING, driver : Drivers]
  /\ spoiled \in BOOLEAN /\ flawless \in BOOLEAN

LEMMA TypeStep ==
  ASSUME Base, [Next]_vars
  PROVE  TypeOK'
<1> SUFFICES Typed'
  BY DEF Typed, TypeOK, Reports, Children
<1>0. Typed
  BY DEF Base, Typed, TypeOK, Reports, Children
<1> USE <1>0 DEF Base, Typed
<1>1. CASE Change
  <2>1. changes' \in 0 .. MaxChanges
    BY <1>1, PromotionAssumption DEF Change
  <2>2. world' \in Worlds /\ flawless' = FALSE
        /\ UNCHANGED <<runner, child, witnessed, spoiled>>
    BY <1>1 DEF Change
  <2>3. QED
    BY <2>1, <2>2 DEF runner
<1>2. ASSUME NEW s \in Said, ChildSays(s)
      PROVE  Typed'
  <2>1. child' \in Children
    BY <1>2 DEF ChildSays, Children
  <2>2. QED
    BY <1>2, <2>1 DEF ChildSays, runner
<1>3. ASSUME NEW c \in ExitCodes, NEW excuse \in BOOLEAN, ChildExits(c, excuse)
      PROVE  Typed'
  <2>1. child' \in Children
    BY <1>3 DEF ChildExits, Children
  <2>2. pc \in Probing /\ child.loaded \in Drivers
    BY <1>3 DEF ChildExits, Process, Probing
  <2>3. [suite |-> suite, test |-> CurrentTest, driver |-> child.loaded]
           \in [suite : Suites, test : STRING, driver : Drivers]
    BY <2>2, CurrentTestType DEF Probing
  <2>4. witnessed' \subseteq [suite : Suites, test : STRING, driver : Drivers]
    BY <1>3, <2>3 DEF ChildExits
  <2>5. spoiled' \in BOOLEAN /\ flawless' \in BOOLEAN
    BY <1>3 DEF ChildExits
  <2>6. QED
    BY <1>3, <2>1, <2>4, <2>5 DEF ChildExits, runner
<1>4. CASE StartScript
  <2>1. report' = [report EXCEPT ![suite].driver = world.driver,
                                 ![suite].revision = world.revision]
    BY <1>4 DEF StartScript
  <2>2. world.driver \in Drivers /\ world.revision \in Revisions
    BY DEF Worlds
  <2>3. report' \in [Suites -> Reports]
    BY <2>1, <2>2, ZenonT(60) DEF Reports
  <2>4. QED
    BY <1>4, <2>3 DEF StartScript, history
<1>5. CASE Spawn
  <2>1. child' \in Children /\ flawless' \in BOOLEAN
    BY <1>5, NoChildType DEF Spawn, Children
  <2>2. QED
    BY <1>5, <2>1 DEF Spawn
<1>6. CASE TimeOut
  BY <1>6 DEF TimeOut
<1>7. CASE Kill
  <2>1. child' \in Children
    BY <1>7 DEF Kill, Children
  <2>2. QED
    BY <1>7, <2>1 DEF Kill, history
<1>8. CASE HasExited
  BY <1>8 DEF HasExited, history
<1>9. CASE Judge
  <2>0. PICK timedOut \in BOOLEAN :
           \E parsed \in ParsedStatuses(timedOut) : Judges(timedOut, parsed)
    BY <1>9, JudgeCases
  <2>1. PICK parsed \in ParsedStatuses(timedOut) : Judges(timedOut, parsed)
    BY <2>0
  <2>2. Entry(timedOut, parsed) \in Entries
    BY <2>1, EntryType DEF Judges
  <2> DEFINE e == Entry(timedOut, parsed)
  <2> HIDE DEF e
  <2>3. CASE RunsAgain(e)
    BY <2>1, <2>3, NoChildType DEF RunsAgain, Judges
  <2>4. CASE Records(e)
    <3>1. report' \in [Suites -> Reports]
      BY <2>2, <2>4, RecordedReport DEF e
    <3>2. suite' \in Suites /\ pc' \in {"spawn", "start", "gate"}
      BY <2>4 DEF Records, AfterEntry, Suites
    <3>3. attempt' = 1 /\ flawless' \in BOOLEAN
      BY <2>4 DEF Records
    <3>4. QED
      BY <2>1, <3>1, <3>2, <3>3, NoChildType DEF Judges
  <2>5. QED
    BY <2>1, <2>3, <2>4 DEF Judges, e
<1>10. ASSUME NEW b \in BOOLEAN, Gate(b)
       PROVE  Typed'
  BY <1>10 DEF Gate
<1>11. CASE UNCHANGED vars
  BY <1>11 DEF vars
<1>12. QED
  BY <1>1, <1>2, <1>3, <1>4, <1>5, <1>6, <1>7, <1>8, <1>9, <1>10, <1>11, Steps

(* Starting a script names the driver and the commit in its report. *)
LEMMA StartedReport ==
  ASSUME Base, StartScript
  PROVE  /\ report'[suite].results = report[suite].results
         /\ report'[suite].selected = report[suite].selected
         /\ report'[suite].driver = world.driver
         /\ report'[suite].revision = world.revision
         /\ \A s \in Suites : s # suite => report'[s] = report[s]
<1>1. suite \in Suites
  BY DEF Base, TypeOK
<1>2. report \in [Suites -> Reports] /\ report[suite] \in Reports
  BY <1>1, ReportType DEF Base
<1> DEFINE r == [report[suite] EXCEPT !.driver = world.driver, !.revision = world.revision]
<1>3. /\ r.results = report[suite].results /\ r.selected = report[suite].selected
      /\ r.driver = world.driver /\ r.revision = world.revision
  BY <1>2 DEF Reports
<1>4. report' = [report EXCEPT ![suite] = r]
  <2>1. report' = [report EXCEPT ![suite].driver = world.driver,
                                 ![suite].revision = world.revision]
    BY DEF StartScript
  <2>2. QED
    BY <1>1, <1>2, <2>1
<1> HIDE DEF r
<1>5. QED
  BY <1>1, <1>2, <1>3, <1>4

LEMMA ProgressStep ==
  ASSUME Base, [Next]_vars
  PROVE  Progress'
<1> USE DEF Base, Progress, TestsOf
<1>1. CASE UNCHANGED <<pc, suite, report>>
  BY <1>1
<1>2. CASE Change \/ (\E s \in Said : ChildSays(s))
           \/ (\E c \in ExitCodes, excuse \in BOOLEAN : ChildExits(c, excuse))
  BY <1>1, <1>2 DEF Change, ChildSays, ChildExits, runner
<1>3. CASE StartScript
  <2>1. suite' = suite /\ pc' = "spawn" /\ pc = "start"
    BY <1>3 DEF StartScript
  <2>2. /\ report'[suite].results = report[suite].results
        /\ suite = "cap" => report'["fun"] = report["fun"]
    <3>1. suite = "cap" => suite # "fun" /\ "fun" \in Suites
      BY DEF Suites
    <3> HIDE DEF Base
    <3>2. QED
      BY <1>3, <3>1, StartedReport
  <2>3. QED
    BY <2>1, <2>2
<1>4. CASE Spawn \/ TimeOut \/ Kill \/ HasExited
  BY <1>4 DEF Spawn, TimeOut, Kill, HasExited
<1>5. CASE Judge
  <2>0. PICK timedOut \in BOOLEAN :
           \E parsed \in ParsedStatuses(timedOut) : Judges(timedOut, parsed)
    BY <1>5, JudgeCases
  <2>1. PICK parsed \in ParsedStatuses(timedOut) : Judges(timedOut, parsed)
    BY <2>0
  <2> DEFINE e == Entry(timedOut, parsed)
  <2>2. e \in Entries
    BY <2>1, EntryType DEF Judges
  <2> HIDE DEF e
  <2>3. CASE RunsAgain(e)
    BY <2>1, <2>3 DEF RunsAgain, Judges
  <2>4. CASE Records(e)
    <3>1. /\ report'[suite].results = Append(report[suite].results, e)
          /\ Len(report'[suite].results) = Len(report[suite].results) + 1
          /\ \A s \in Suites : s # suite => report'[s] = report[s]
      BY <2>2, <2>4, RecordedReport
    <3>2. suite \in Suites /\ pc \notin {"gate", "done"}
          /\ Len(report[suite].results) \in Nat
      BY <2>1, ReportType DEF TypeOK, Judges
    <3>3. AfterEntry(Len(report[suite].results) + 1)
      BY <2>4 DEF Records
    <3>4. CASE Len(report[suite].results) + 1 < Len(TestsOf(suite))
      BY <3>1, <3>2, <3>3, <3>4 DEF AfterEntry, Suites
    <3>5. CASE ~(Len(report[suite].results) + 1 < Len(TestsOf(suite))) /\ suite = "cap"
      <4>1. pc' = "start" /\ suite' = "fun" /\ report'["fun"] = report["fun"]
        BY <3>1, <3>3, <3>5 DEF AfterEntry, Suites
      <4>2. Len(report'["fun"].results) = 0 /\ Len(FunTests) > 0
        BY <3>5, <4>1, PromotionAssumption DEF EmptyReport
      <4>3. QED
        BY <4>1, <4>2
    <3>6. CASE ~(Len(report[suite].results) + 1 < Len(TestsOf(suite))) /\ suite = "fun"
      BY <3>3, <3>6 DEF AfterEntry
    <3>7. QED
      BY <3>2, <3>4, <3>5, <3>6 DEF Suites
  <2>5. QED
    BY <2>1, <2>3, <2>4 DEF Judges, e
<1>6. ASSUME NEW b \in BOOLEAN, Gate(b)
      PROVE  Progress'
  BY <1>6 DEF Gate
<1>7. CASE UNCHANGED vars
  BY <1>1, <1>7 DEF vars
<1>8. QED
  BY <1>2, <1>3, <1>4, <1>5, <1>6, <1>7, Steps

LEMMA ProcessStep ==
  ASSUME Base, [Next]_vars
  PROVE  Process'
<1> USE DEF Base, Process, Probing
<1>1. CASE Change
  BY <1>1 DEF Change, runner
<1>2. ASSUME NEW s \in Said, ChildSays(s)
      PROVE  Process'
  <2>1. /\ child'.alive = child.alive /\ child'.loaded = child.loaded
        /\ child'.exit = child.exit /\ child.alive /\ pc' = pc
    BY <1>2, ChildType DEF ChildSays, Children, runner
  <2>2. QED
    BY <2>1
<1>3. ASSUME NEW c \in ExitCodes, NEW excuse \in BOOLEAN, ChildExits(c, excuse)
      PROVE  Process'
  <2>1. /\ child'.alive = FALSE /\ child'.loaded = child.loaded /\ child.alive
        /\ child'.exit = c /\ pc' = pc
    BY <1>3, ChildType DEF ChildExits, Children, runner
  <2>2. c # "none"
    BY DEF ExitCodes
  <2>3. QED
    BY <2>1, <2>2
<1>4. CASE StartScript
  BY <1>4 DEF StartScript
<1>5. CASE Spawn
  <2>1. /\ child'.alive /\ child'.loaded \in Drivers /\ child'.exit = "none"
        /\ pc' = "wait"
    BY <1>5 DEF Spawn, NoChild
  <2>2. QED
    BY <2>1
<1>6. CASE TimeOut
  BY <1>6 DEF TimeOut
<1>7. CASE Kill
  <2>1. child'.alive = FALSE /\ child'.loaded = child.loaded /\ pc' = "judgeTimeout"
        /\ pc = "kill"
    BY <1>7, ChildType DEF Kill, Children
  <2>2. QED
    BY <2>1
<1>8. CASE HasExited
  BY <1>8 DEF HasExited
<1>9. CASE Judge
  <2>1. child' = NoChild
    BY <1>9 DEF Judge
  <2>2. pc' \notin Probing
    <3>1. PICK timedOut \in BOOLEAN :
             \E parsed \in ParsedStatuses(timedOut) : Judges(timedOut, parsed)
      BY <1>9, JudgeCases
    <3>2. QED
      BY <3>1 DEF Judges, RunsAgain, Records, AfterEntry
  <2>3. ~NoChild.alive
    BY DEF NoChild
  <2>4. QED
    BY <2>1, <2>2, <2>3
<1>10. ASSUME NEW b \in BOOLEAN, Gate(b)
       PROVE  Process'
  BY <1>10 DEF Gate
<1>11. CASE UNCHANGED vars
  BY <1>11 DEF vars
<1>12. QED
  BY <1>1, <1>2, <1>3, <1>4, <1>5, <1>6, <1>7, <1>8, <1>9, <1>10, <1>11, Steps

LEMMA BaseStep == Base /\ [Next]_vars => Base'
BY TypeStep, ProgressStep, ProcessStep DEF Base

(* Whatever the processes and the world do, the script's variables, the      *)
(* reports and the verdict have their types; in particular the scripts run   *)
(* only tests of their lists.                                                *)
THEOREM TypeCorrect == Spec => []TypeOK
<1>1. Init => Base
  BY BaseInit
<1>2. Base /\ [Next]_vars => Base'
  BY BaseStep
<1>3. Base => TypeOK
  BY DEF Base
<1>4. QED
  BY <1>1, <1>2, <1>3, PTL DEF Spec

-----------------------------------------------------------------------------
(* What a pass in a report is worth.                                         *)

(* An entry with status pass is about a process that said pass and ended     *)
(* with 0.                                                                   *)
LEMMA PassingEntry ==
  ASSUME Base, NEW timedOut \in BOOLEAN, NEW parsed \in ParsedStatuses(timedOut),
         Judges(timedOut, parsed), Entry(timedOut, parsed).status = "pass"
  PROVE  /\ child.said = "pass" /\ child.exit = "0" /\ pc = "judgeExit"
         /\ Entry(timedOut, parsed).test = CurrentTest
         /\ Entry(timedOut, parsed).loaded = child.loaded
<1>1. StatusOf(timedOut, parsed) = "pass"
  BY DEF Entry
<1>2. ~timedOut /\ ~Unexpected(timedOut, parsed) /\ parsed = "pass"
  BY <1>1 DEF StatusOf
<1>3. child.said = "pass"
  BY <1>2 DEF ParsedStatuses
<1>4. child.exit = "0"
  BY <1>2, <1>3 DEF Unexpected, ExitOf
<1>5. QED
  BY <1>2, <1>3, <1>4 DEF Entry, Judges

LEMMA WitnessStep ==
  ASSUME Base, Witness, [Next]_vars
  PROVE  Witness'
<1>1. CASE UNCHANGED <<suite, report, child>> /\ witnessed \subseteq witnessed'
  BY <1>1 DEF Witness, CurrentTest, TestsOf
<1>2. CASE child'.said = "none" \/ child'.exit = "none"
  BY <1>2 DEF Witness
<1>3. CASE Change
  BY <1>1, <1>3 DEF Change, runner
<1>4. ASSUME NEW s \in Said, ChildSays(s)
      PROVE  Witness'
  <2>1. child'.exit = child.exit /\ child.exit = "none"
    BY <1>4, ChildType DEF ChildSays, Children, Base, Process
  <2>2. QED
    BY <1>2, <2>1
<1>5. ASSUME NEW c \in ExitCodes, NEW excuse \in BOOLEAN, ChildExits(c, excuse)
      PROVE  Witness'
  <2>1. /\ child'.said = child.said /\ child'.exit = c /\ child'.loaded = child.loaded
        /\ suite' = suite /\ report' = report
    BY <1>5, ChildType DEF ChildExits, Children, Base, runner
  <2>2. CurrentTest' = CurrentTest
    BY <2>1 DEF CurrentTest, TestsOf
  <2>3. (child.said = "pass" /\ c = "0") =>
           [suite |-> suite, test |-> CurrentTest, driver |-> child.loaded] \in witnessed'
    BY <1>5 DEF ChildExits, ExitOf
  <2>4. QED
    BY <2>1, <2>2, <2>3 DEF Witness
<1>6. CASE StartScript
  <2>1. child' = NoChild
    BY <1>6 DEF StartScript, Base, Process, Probing
  <2>2. QED
    BY <1>2, <2>1 DEF NoChild
<1>7. CASE Spawn
  <2>1. child'.said = "none"
    BY <1>7 DEF Spawn, NoChild
  <2>2. QED
    BY <1>2, <2>1
<1>8. CASE Kill
  <2>1. /\ child'.said = child.said /\ child'.exit = child.exit
        /\ child'.loaded = child.loaded
        /\ suite' = suite /\ report' = report /\ witnessed' = witnessed
    BY <1>8, ChildType DEF Kill, Children, Base, history
  <2>2. CurrentTest' = CurrentTest
    BY <2>1 DEF CurrentTest, TestsOf
  <2>3. QED
    BY <2>1, <2>2 DEF Witness
<1>9. CASE TimeOut \/ HasExited
  BY <1>1, <1>9 DEF TimeOut, HasExited, history
<1>10. CASE Judge
  <2>1. child' = NoChild
    BY <1>10 DEF Judge
  <2>2. QED
    BY <1>2, <2>1 DEF NoChild
<1>11. ASSUME NEW b \in BOOLEAN, Gate(b)
       PROVE  Witness'
  BY <1>1, <1>11 DEF Gate
<1>12. CASE UNCHANGED vars
  BY <1>1, <1>12 DEF vars
<1>13. QED
  BY <1>3, <1>4, <1>5, <1>6, <1>7, <1>8, <1>9, <1>10, <1>11, <1>12, Steps

(* Witnesses are never forgotten. *)
LEMMA WitnessesStay ==
  ASSUME [Next]_vars
  PROVE  witnessed \subseteq witnessed'
<1>1. ASSUME Judge
      PROVE  witnessed' = witnessed
  BY <1>1, JudgeCases DEF Judges
<1>2. QED
  BY <1>1, Steps DEF Change, ChildSays, ChildExits, StartScript, Spawn, TimeOut, Kill,
     HasExited, Gate, vars, history

(* A step leaves the entries of the reports alone, but for the one a judged  *)
(* attempt adds.                                                             *)
LEMMA EntriesKept ==
  ASSUME Base, [Next]_vars, ~Judge, NEW s \in Suites
  PROVE  report'[s].results = report[s].results
<1>1. CASE StartScript
  BY <1>1, StartedReport
<1>2. CASE report' = report
  BY <1>2
<1>3. StartScript \/ report' = report
  BY Steps DEF Change, ChildSays, ChildExits, Spawn, TimeOut, Kill, HasExited, Gate,
     vars, runner
<1>4. QED
  BY <1>1, <1>2, <1>3

LEMMA RecordedEntries ==
  ASSUME Base, NEW e \in Entries, Records(e), NEW s \in Suites
  PROVE  EntriesOf(report'[s]) =
           IF s = suite THEN EntriesOf(report[s]) \union {e} ELSE EntriesOf(report[s])
<1>1. CASE s # suite
  BY <1>1, RecordedReport
<1>2. CASE s = suite
  <2> DEFINE old == report[s].results
             n == Len(report[s].results)
  <2>1. /\ report'[s].results = Append(old, e)
        /\ \A m \in 1 .. n : report'[s].results[m] = old[m]
        /\ report'[s].results[n + 1] = e
    BY <1>2, RecordedReport
  <2>2. n \in Nat /\ DOMAIN old = 1 .. n /\ old \in Seq(Entries)
    BY ReportType DEF Base
  <2>3. DOMAIN report'[s].results = 1 .. n + 1
    BY <2>1, <2>2
  <2> HIDE DEF n
  <2>4. EntriesOf(report[s]) = {old[m] : m \in 1 .. n}
    BY <2>2 DEF EntriesOf
  <2>5. EntriesOf(report'[s]) = {report'[s].results[m] : m \in 1 .. n + 1}
    BY <2>3 DEF EntriesOf
  <2> HIDE DEF old
  <2>6. ASSUME NEW d
        PROVE  d \in EntriesOf(report'[s]) <=> d \in EntriesOf(report[s]) \/ d = e
    <3>1. \A m : m \in 1 .. n + 1 <=> m \in 1 .. n \/ m = n + 1
      BY <2>2
    <3>2. QED
      BY <2>1, <2>4, <2>5, <3>1
  <2>7. QED
    BY <1>2, <2>6
<1>3. QED
  BY <1>1, <1>2

LEMMA PassStep ==
  ASSUME Base, Witness, PassIsWitnessed, [Next]_vars
  PROVE  PassIsWitnessed'
<1>1. witnessed \subseteq witnessed'
  BY WitnessesStay
<1>2. CASE ~Judge
  <2>1. \A s \in Suites : report'[s].results = report[s].results
    BY <1>2, EntriesKept
  <2>2. QED
    BY <1>1, <2>1 DEF PassIsWitnessed, EntriesOf
<1>3. CASE Judge
  <2>0. PICK timedOut \in BOOLEAN :
           \E parsed \in ParsedStatuses(timedOut) : Judges(timedOut, parsed)
    BY <1>3, JudgeCases
  <2>1. PICK parsed \in ParsedStatuses(timedOut) : Judges(timedOut, parsed)
    BY <2>0
  <2> DEFINE e == Entry(timedOut, parsed)
  <2>2. e \in Entries
    BY <2>1, EntryType DEF Judges
  <2>3. e.status = "pass" =>
           [suite |-> suite, test |-> e.test, driver |-> e.loaded] \in witnessed
    BY <2>1, PassingEntry DEF Witness
  <2> HIDE DEF e
  <2>4. CASE RunsAgain(e)
    BY <1>1, <2>4 DEF RunsAgain, PassIsWitnessed
  <2>5. CASE Records(e)
    <3>1. ASSUME NEW s \in Suites, NEW d \in EntriesOf(report'[s]), d.status = "pass"
          PROVE  [suite |-> s, test |-> d.test, driver |-> d.loaded] \in witnessed'
      <4>1. CASE d \in EntriesOf(report[s])
        BY <1>1, <3>1, <4>1 DEF PassIsWitnessed
      <4>2. CASE s = suite /\ d = e
        BY <1>1, <2>3, <3>1, <4>2
      <4>3. QED
        BY <2>2, <2>5, <3>1, <4>1, <4>2, RecordedEntries
    <3>2. QED
      BY <3>1 DEF PassIsWitnessed
  <2>6. QED
    BY <2>1, <2>4, <2>5 DEF Judges, e
<1>4. QED
  BY <1>2, <1>3

(* An entry says pass only for a process that computed a right result on the *)
(* driver the entry names and ended by itself with 0.                        *)
THEOREM PassesAreWitnessed == Spec => []PassIsWitnessed
<1> DEFINE Inv == Base /\ Witness /\ PassIsWitnessed
<1>1. Init => Inv
  <2> SUFFICES ASSUME Init PROVE Witness /\ PassIsWitnessed
    BY BaseInit
  <2>1. Witness
    BY DEF Init, Witness, NoChild
  <2>2. PassIsWitnessed
    BY DEF Init, PassIsWitnessed, EmptyReport, EntriesOf
  <2>3. QED
    BY <2>1, <2>2
<1>2. Inv /\ [Next]_vars => Inv'
  BY BaseStep, WitnessStep, PassStep
<1>3. Inv => PassIsWitnessed
  OBVIOUS
<1>4. QED
  BY <1>1, <1>2, <1>3, PTL DEF Spec

-----------------------------------------------------------------------------
(* What disqualifies a driver is in the report in the end.                   *)

LEMMA RetryingStep ==
  ASSUME Base, Retrying, [Next]_vars
  PROVE  Retrying'
<1>1. CASE Judge
  <2>1. PICK timedOut \in BOOLEAN :
           \E parsed \in ParsedStatuses(timedOut) : Judges(timedOut, parsed)
    BY <1>1, JudgeCases
  <2>2. QED
    BY <2>1 DEF Judges, RunsAgain, Records, RetryDue, Retrying
<1>2. CASE UNCHANGED <<pc, suite, attempt>>
  BY <1>2 DEF Retrying
<1>3. QED
  BY <1>1, <1>2, Steps
     DEF Retrying, Probing, Change, ChildSays, ChildExits, StartScript, Spawn, TimeOut,
         Kill, HasExited, Gate, vars, runner

(* The entry of a process that misbehaved, was killed or was retried cannot  *)
(* be part of an admissible report.                                          *)
LEMMA MarkedEntry ==
  ASSUME Base, Retrying, NEW timedOut \in BOOLEAN,
         NEW parsed \in ParsedStatuses(timedOut), Judges(timedOut, parsed),
         pc \in {"kill", "judgeTimeout"} \/ attempt = 2 \/ Misbehaved
  PROVE  \/ Entry(timedOut, parsed).status \in BAD_STATUSES
         \/ suite = "cap" /\ Entry(timedOut, parsed).retried
<1> DEFINE status == StatusOf(timedOut, parsed)
<1>1. /\ Entry(timedOut, parsed).status = status
      /\ Entry(timedOut, parsed).retried = (attempt = 2)
  BY DEF Entry
<1>2. CASE timedOut
  BY <1>1, <1>2 DEF StatusOf, BAD_STATUSES, Statuses
<1>3. CASE attempt = 2
  BY <1>1, <1>3 DEF Retrying
<1>4. CASE ~timedOut /\ Unexpected(timedOut, parsed)
  BY <1>1, <1>4 DEF StatusOf, BAD_STATUSES, Statuses
<1>5. CASE ~timedOut /\ ~Unexpected(timedOut, parsed) /\ attempt # 2
  <2>1. Misbehaved /\ pc = "judgeExit" /\ child.exit # "none"
    BY <1>5 DEF Judges, Base, Process
  <2>2. CASE child.said = "none"
    <3>1. parsed = "none"
      BY <2>1, <2>2 DEF Misbehaved, ParsedStatuses
    <3>2. QED
      BY <1>1, <1>5, <3>1 DEF StatusOf, BAD_STATUSES, Statuses, Said
  <2>3. CASE child.said = "pass"
    <3>1. parsed = "error"
      BY <1>5, <2>1, <2>3 DEF Misbehaved, ParsedStatuses, Unexpected
    <3>2. QED
      BY <1>1, <1>5, <3>1 DEF StatusOf, BAD_STATUSES, Statuses, Said
  <2>4. CASE child.said \notin {"none", "pass"}
    <3>1. parsed = child.said
      BY <2>4 DEF ParsedStatuses
    <3>2. child.exit = ExitOf(child.said)
      BY <1>5, <2>4, <3>1 DEF Unexpected
    <3>3. child.said \notin {"none", "pass", "unsupported"}
      BY <2>1, <2>4, <3>2 DEF Misbehaved
    <3>4. parsed \in Said \ {"pass", "unsupported"}
      BY <3>1, <3>3, ChildType DEF Base
    <3>5. status = parsed
      BY <1>5, <3>4 DEF StatusOf, Said
    <3>6. parsed \in BAD_STATUSES
      BY <3>4 DEF BAD_STATUSES, Statuses
    <3>7. QED
      BY <1>1, <3>5, <3>6
  <2>5. QED
    BY <2>2, <2>3, <2>4
<1>6. QED
  BY <1>2, <1>3, <1>4, <1>5

LEMMA MarkedStep ==
  ASSUME Base, Retrying, Marked, [Next]_vars
  PROVE  Marked'
<1>1. ASSUME \A s \in Suites : EntriesOf(report[s]) \subseteq EntriesOf(report'[s]),
             NEW s \in Suites, Tainted(s)
      PROVE  Tainted(s)'
  BY <1>1 DEF Tainted
<1>2. CASE Judge
  <2>0. PICK timedOut \in BOOLEAN :
           \E parsed \in ParsedStatuses(timedOut) : Judges(timedOut, parsed)
    BY <1>2, JudgeCases
  <2>1. PICK parsed \in ParsedStatuses(timedOut) : Judges(timedOut, parsed)
    BY <2>0
  <2> DEFINE e == Entry(timedOut, parsed)
  <2>2. e \in Entries
    BY <2>1, EntryType DEF Judges
  <2>3. (pc \in {"kill", "judgeTimeout"} \/ attempt = 2 \/ Misbehaved) =>
           e.status \in BAD_STATUSES \/ (suite = "cap" /\ e.retried)
    BY <2>1, MarkedEntry
  <2>4. spoiled' = spoiled /\ (RunsAgain(e) \/ Records(e))
    BY <2>1 DEF Judges
  <2> HIDE DEF e
  <2>5. CASE RunsAgain(e)
    BY <2>5 DEF RunsAgain, Marked
  <2>6. CASE Records(e)
    <3>1. \A s \in Suites : EntriesOf(report[s]) \subseteq EntriesOf(report'[s])
      BY <2>2, <2>6, RecordedEntries
    <3>2. suite \in Suites /\ e \in EntriesOf(report'[suite])
      BY <2>2, <2>6, RecordedEntries DEF Base, TypeOK
    <3>3. ASSUME spoiled, ~\E s \in Suites : Tainted(s)
          PROVE  \E s \in Suites : Tainted(s)'
      <4>1. e.status \in BAD_STATUSES \/ (suite = "cap" /\ e.retried)
        BY <2>3, <3>3 DEF Marked
      <4>2. QED
        BY <3>2, <4>1 DEF Tainted
    <3>4. spoiled => \E s \in Suites : Tainted(s)'
      BY <1>1, <3>1, <3>3
    <3>5. QED
      BY <2>4, <3>4 DEF Marked
  <2>7. QED
    BY <2>4, <2>5, <2>6
<1>3. ASSUME ~Judge
      PROVE  (\E s \in Suites : Tainted(s)) => (\E s \in Suites : Tainted(s)')
  <2>1. \A s \in Suites : EntriesOf(report'[s]) = EntriesOf(report[s])
    BY <1>3, EntriesKept DEF EntriesOf
  <2>2. QED
    BY <1>1, <2>1
<1>4. ASSUME NEW s \in Said, ChildSays(s), ~Judge
      PROVE  Marked'
  <2>1. /\ pc' = pc /\ attempt' = attempt /\ child.said = "none" /\ child.exit = "none"
        /\ child'.said = s /\ spoiled' = (spoiled \/ s \notin {"pass", "unsupported"})
    BY <1>4, ChildType DEF ChildSays, Children, Base, Process, runner
  <2>2. ~Misbehaved
    BY <2>1 DEF Misbehaved
  <2>3. s \notin {"pass", "unsupported"} => Misbehaved'
    BY <2>1 DEF Misbehaved, Said
  <2>4. QED
    BY <1>3, <1>4, <2>1, <2>2, <2>3 DEF Marked
<1>5. ASSUME NEW c \in ExitCodes, NEW excuse \in BOOLEAN, ChildExits(c, excuse), ~Judge
      PROVE  Marked'
  <2>1. /\ pc' = pc /\ attempt' = attempt /\ child.exit = "none"
        /\ child'.said = child.said /\ child'.exit = c /\ child'.excuse = excuse
    BY <1>5, ChildType DEF ChildExits, Children, Base, Process, runner
  <2>2. spoiled' = (spoiled \/ ~((child.said # "none" /\ c = ExitOf(child.said)) \/ excuse))
    BY <1>5 DEF ChildExits
  <2>3. Misbehaved => Misbehaved'
    BY <2>1 DEF Misbehaved
  <2>4. ~((child.said # "none" /\ c = ExitOf(child.said)) \/ excuse) => Misbehaved'
    BY <2>1 DEF Misbehaved, ExitCodes, ExitOf
  <2>5. QED
    BY <1>3, <1>5, <2>1, <2>2, <2>3, <2>4 DEF Marked
<1>6. CASE (StartScript \/ Spawn) /\ ~Judge
  <2>1. child = NoChild
    BY <1>6 DEF StartScript, Spawn, Base, Process, Probing
  <2>2. ~Misbehaved
    BY <2>1 DEF Misbehaved, NoChild
  <2>3. pc \notin {"kill", "judgeTimeout"} /\ attempt' = attempt /\ spoiled' = spoiled
    BY <1>6 DEF StartScript, Spawn, history
  <2>4. QED
    BY <1>3, <1>6, <2>2, <2>3 DEF Marked
<1>7. CASE (TimeOut \/ Kill) /\ ~Judge
  BY <1>7 DEF TimeOut, Kill, Marked
<1>8. CASE (Change \/ HasExited \/ (\E b \in BOOLEAN : Gate(b)) \/ UNCHANGED vars) /\ ~Judge
  <2>1. /\ child' = child /\ attempt' = attempt /\ spoiled' = spoiled
        /\ pc' = pc \/ pc \notin {"kill", "judgeTimeout"}
    BY <1>8 DEF Change, HasExited, Gate, vars, runner, history
  <2>2. Misbehaved' <=> Misbehaved
    BY <2>1 DEF Misbehaved
  <2>3. QED
    BY <1>3, <1>8, <2>1, <2>2 DEF Marked
<1>9. QED
  BY <1>2, <1>4, <1>5, <1>6, <1>7, <1>8, Steps

(* What admissible results show, whatever else the gate asks. *)
LEMMA AdmissibleResults ==
  ASSUME PassIsWitnessed, NEW s \in Suites, NEW required, NEW digest,
         ResultsAdmissible(report[s], required, digest)
  PROVE  /\ \A e \in EntriesOf(report[s]) : e.status \notin BAD_STATUSES
         /\ \A test \in required :
               [suite |-> s, test |-> test, driver |-> digest] \in witnessed
<1>1. ASSUME NEW test \in required
      PROVE  [suite |-> s, test |-> test, driver |-> digest] \in witnessed
  <2>1. PICK e \in EntriesOf(report[s]) : e.test = test /\ CleanPass(e)
    BY DEF ResultsAdmissible
  <2>2. e.status = "pass"
    BY <2>1 DEF CleanPass
  <2>3. e.loaded = digest
    BY <2>2 DEF ResultsAdmissible, ResultAdmissible, loaded_driver_failure
  <2>4. [suite |-> s, test |-> e.test, driver |-> e.loaded] \in witnessed
    BY <2>2 DEF PassIsWitnessed
  <2>5. QED
    BY <2>1, <2>3, <2>4
<1>2. QED
  BY <1>1 DEF ResultsAdmissible, ResultAdmissible

LEMMA EligibleReports ==
  ASSUME Base, Retrying, Marked, PassIsWitnessed, pc = "gate", NEW fresh,
         evaluate(report["cap"], report["fun"], world.driver, world.revision, fresh)
  PROVE  /\ ~spoiled
         /\ \A test \in DriverRequired :
               [suite |-> "cap", test |-> test, driver |-> report["cap"].driver] \in witnessed
         /\ \A test \in FunctionalRequired :
               [suite |-> "fun", test |-> test, driver |-> report["cap"].driver] \in witnessed
<1>1. /\ report["cap"].driver = world.driver
      /\ CapabilitySummary(report["cap"]).timeout_retries = "zero"
      /\ ResultsAdmissible(report["cap"], DriverRequired, world.driver)
      /\ ResultsAdmissible(report["fun"], FunctionalRequired, world.driver)
  BY DEF evaluate, Identified
<1>2. "cap" \in Suites /\ "fun" \in Suites /\ Suites = {"cap", "fun"}
  BY DEF Suites
<1>3. \A e \in EntriesOf(report["cap"]) : ~e.retried
  BY <1>1, CapabilityCounts
<1>4. \A s \in Suites : ~Tainted(s)
  BY <1>1, <1>2, <1>3, AdmissibleResults DEF Tainted
<1>5. child = NoChild /\ attempt # 2
  BY DEF Base, Process, Probing, Retrying
<1>6. ~Misbehaved
  BY <1>5 DEF Misbehaved, NoChild
<1>7. ~spoiled
  BY <1>4, <1>5, <1>6 DEF Marked
<1>8. QED
  BY <1>1, <1>2, <1>7, AdmissibleResults

LEMMA LastStep ==
  ASSUME Last, [Next]_vars
  PROVE  Last'
<1>1. ASSUME Judge
      PROVE  verdict' = verdict /\ pc # "done"
  BY <1>1, JudgeCases DEF Judges
<1>2. QED
  BY <1>1, Steps
     DEF Last, Change, ChildSays, ChildExits, StartScript, Spawn, TimeOut, Kill, HasExited,
         Gate, vars, runner

LEMMA EarnedStep ==
  ASSUME Base, Retrying, Marked, PassIsWitnessed, Last, EligibleIsEarned, [Next]_vars
  PROVE  EligibleIsEarned'
<1>1. ASSUME NEW b \in BOOLEAN, Gate(b)
      PROVE  EligibleIsEarned'
  <2>1. /\ pc = "gate" /\ report' = report /\ witnessed' = witnessed /\ spoiled' = spoiled
        /\ verdict' = "eligible" =>
             evaluate(report["cap"], report["fun"], world.driver, world.revision, b)
    BY <1>1 DEF Gate
  <2>2. QED
    BY <2>1, EligibleReports DEF EligibleIsEarned
<1>2. CASE UNCHANGED <<verdict, spoiled, report>>
  BY <1>2, WitnessesStay DEF EligibleIsEarned
<1>3. CASE verdict' = verdict /\ pc # "done"
  BY <1>3 DEF Last, EligibleIsEarned
<1>4. ASSUME Judge
      PROVE  verdict' = verdict /\ pc # "done"
  BY <1>4, JudgeCases DEF Judges
<1>5. ASSUME NEW s \in Said, ChildSays(s)
      PROVE  verdict' = verdict /\ pc # "done"
  BY <1>5 DEF ChildSays, runner, Base, Process
<1>6. ASSUME NEW c \in ExitCodes, NEW excuse \in BOOLEAN, ChildExits(c, excuse)
      PROVE  verdict' = verdict /\ pc # "done"
  BY <1>6 DEF ChildExits, runner, Base, Process
<1>7. StartScript \/ Spawn \/ TimeOut \/ Kill \/ HasExited => verdict' = verdict /\ pc # "done"
  BY DEF StartScript, Spawn, TimeOut, Kill, HasExited
<1>8. Change \/ UNCHANGED vars => UNCHANGED <<verdict, spoiled, report>>
  BY DEF Change, vars, runner
<1>9. QED
  BY <1>1, <1>2, <1>3, <1>4, <1>5, <1>6, <1>7, <1>8, Steps

(* A driver is eligible only if no process of the session timed out, hung,   *)
(* crashed or reported anything but a right result or a missing feature -    *)
(* not even in an attempt that the retry replaced - and every required probe *)
(* computed a right result on the very driver the reports name.              *)
THEOREM EligibilityIsEarned == Spec => []EligibleIsEarned
<1> DEFINE Inv == /\ Base /\ Witness /\ PassIsWitnessed
                  /\ Retrying /\ Marked /\ Last /\ EligibleIsEarned
<1>1. Init => Inv
  <2> SUFFICES ASSUME Init
               PROVE  /\ Witness /\ PassIsWitnessed
                      /\ Retrying /\ Marked /\ Last /\ EligibleIsEarned
    BY BaseInit
  <2>1. Witness
    BY DEF Init, Witness, NoChild
  <2>2. PassIsWitnessed
    BY DEF Init, PassIsWitnessed, EmptyReport, EntriesOf
  <2>3. QED
    BY <2>1, <2>2 DEF Init, Retrying, Marked, Last, EligibleIsEarned
<1>2. Inv /\ [Next]_vars => Inv'
  BY BaseStep, WitnessStep, PassStep, RetryingStep, MarkedStep, LastStep, EarnedStep
<1>3. Inv => EligibleIsEarned
  OBVIOUS
<1>4. QED
  BY <1>1, <1>2, <1>3, PTL DEF Spec

-----------------------------------------------------------------------------
(* The gate is not merely closed.                                            *)

(* The lists name every required probe, and none twice; core_correctness_ok  *)
(* is about matmul.  docs/PROMOTION_POLICY.md's own command line does not    *)
(* cover DRIVER_REQUIRED.                                                    *)
Distinct(s) == \A m, n \in DOMAIN TestsOf(s) : TestsOf(s)[m] = TestsOf(s)[n] => m = n
Names(s, tests) == \A test \in tests : \E n \in DOMAIN TestsOf(s) : TestsOf(s)[n] = test
Covering ==
  /\ \A s \in Suites : Distinct(s)
  /\ Names("cap", DriverRequired) /\ Names("fun", FunctionalRequired \union {"matmul"})

LEMMA SelectedStep ==
  ASSUME Base, Selected, [Next]_vars
  PROVE  Selected'
<1>1. ASSUME NEW s \in Suites
      PROVE  report'[s].selected = report[s].selected
  <2>1. CASE Judge
    <3>0. PICK timedOut \in BOOLEAN :
             \E parsed \in ParsedStatuses(timedOut) : Judges(timedOut, parsed)
      BY <2>1, JudgeCases
    <3>1. PICK parsed \in ParsedStatuses(timedOut) : Judges(timedOut, parsed)
      BY <3>0
    <3> DEFINE e == Entry(timedOut, parsed)
    <3>2. e \in Entries
      BY <3>1, EntryType DEF Judges
    <3>3. report' = report \/ Records(e)
      BY <3>1 DEF Judges, RunsAgain
    <3> HIDE DEF e
    <3>4. QED
      BY <3>2, <3>3, RecordedReport
  <2>2. CASE StartScript
    BY <2>2, StartedReport
  <2>3. CASE report' = report
    BY <2>3
  <2>4. Judge \/ StartScript \/ report' = report
    BY Steps DEF Change, ChildSays, ChildExits, Spawn, TimeOut, Kill, HasExited, Gate,
       vars, runner
  <2>5. QED
    BY <2>1, <2>2, <2>3, <2>4
<1>2. QED
  BY <1>1 DEF Selected, TestsOf

(* Nothing that has gone wrong is forgotten, and a change of the world is    *)
(* something that goes wrong.                                                *)
LEMMA StillFlawless ==
  ASSUME [Next]_vars, flawless'
  PROVE  flawless /\ world' = world
<1>1. CASE Judge
  <2>1. PICK timedOut \in BOOLEAN :
           \E parsed \in ParsedStatuses(timedOut) : Judges(timedOut, parsed)
    BY <1>1, JudgeCases
  <2>2. QED
    BY <2>1 DEF Judges, RunsAgain, Records
<1>2. QED
  BY <1>1, Steps DEF Change, ChildSays, ChildExits, StartScript, Spawn, TimeOut, Kill,
     HasExited, Gate, vars, history

LEMMA FlawlessProcessStep ==
  ASSUME Base, FlawlessProcess, [Next]_vars, flawless'
  PROVE  FlawlessProcess'
<1>0. flawless /\ world' = world
  BY StillFlawless
<1>1. ASSUME NEW s \in Said, ChildSays(s)
      PROVE  FlawlessProcess'
  <2>1. /\ child'.said = s /\ child'.exit = child.exit /\ child'.loaded = child.loaded
        /\ pc' = pc /\ attempt' = attempt /\ s = "pass"
    BY <1>1, ChildType DEF ChildSays, Children, runner, Base
  <2>2. QED
    BY <1>0, <2>1 DEF FlawlessProcess
<1>2. ASSUME NEW c \in ExitCodes, NEW excuse \in BOOLEAN, ChildExits(c, excuse)
      PROVE  FlawlessProcess'
  <2>1. /\ child'.said = child.said /\ child'.exit = c /\ child'.loaded = child.loaded
        /\ pc' = pc /\ attempt' = attempt
        /\ child.said # "none" /\ c = ExitOf(child.said)
    BY <1>2, ChildType DEF ChildExits, Children, runner, Base
  <2>2. child.said = "pass" /\ c = "0"
    BY <2>1 DEF FlawlessProcess, ExitOf
  <2>3. QED
    BY <1>0, <2>1, <2>2 DEF FlawlessProcess
<1>3. CASE StartScript
  BY <1>0, <1>3 DEF StartScript, FlawlessProcess, Probing
<1>4. CASE Spawn
  <2>1. /\ child'.said = "none" /\ child'.exit = "none" /\ child'.loaded = world.driver
        /\ pc' = "wait" /\ attempt' = attempt
    BY <1>4 DEF Spawn, NoChild
  <2>2. QED
    BY <1>0, <2>1 DEF FlawlessProcess
<1>5. CASE TimeOut \/ Kill
  BY <1>5 DEF TimeOut, Kill, FlawlessProcess
<1>6. CASE HasExited
  BY <1>0, <1>6 DEF HasExited, FlawlessProcess, Probing
<1>7. CASE Judge
  <2>0. PICK timedOut \in BOOLEAN :
           \E parsed \in ParsedStatuses(timedOut) : Judges(timedOut, parsed)
    BY <1>7, JudgeCases
  <2>1. PICK parsed \in ParsedStatuses(timedOut) : Judges(timedOut, parsed)
    BY <2>0
  <2>2. ~timedOut /\ parsed \in Said \union {"none"}
    BY <2>1, ChildType DEF Judges, FlawlessProcess, ParsedStatuses, Said, Base
  <2>3. StatusOf(timedOut, parsed) # "timeout"
    BY <2>2 DEF StatusOf, Said
  <2>4. ~RunsAgain(Entry(timedOut, parsed))
    BY <2>3 DEF RunsAgain, RetryDue, Entry
  <2>5. attempt' = 1 /\ child' = NoChild /\ pc' \notin Probing
    BY <2>1, <2>4 DEF Judges, Records, AfterEntry, Probing
  <2>6. QED
    BY <2>5 DEF FlawlessProcess, NoChild, Probing
<1>8. CASE (\E b \in BOOLEAN : Gate(b)) \/ UNCHANGED vars
  BY <1>0, <1>8 DEF Gate, vars, FlawlessProcess, Probing
<1>9. CASE Change
  BY <1>9 DEF Change
<1>10. QED
  BY <1>1, <1>2, <1>3, <1>4, <1>5, <1>6, <1>7, <1>8, <1>9, Steps

(* The entry of a flawless process is one the gate cannot object to. *)
LEMMA FlawlessEntryRecorded ==
  ASSUME Base, FlawlessProcess, NEW timedOut \in BOOLEAN,
         NEW parsed \in ParsedStatuses(timedOut), Judges(timedOut, parsed),
         Entry(timedOut, parsed).status = "pass"
  PROVE  Entry(timedOut, parsed).test = CurrentTest /\ FlawlessEntry(Entry(timedOut, parsed))
<1> DEFINE e == Entry(timedOut, parsed)
<1>1. /\ child.said = "pass" /\ child.exit = "0" /\ pc = "judgeExit"
      /\ e.test = CurrentTest /\ e.loaded = child.loaded
  BY PassingEntry
<1>2. ~timedOut /\ attempt = 1 /\ child.loaded = world.driver
  BY <1>1 DEF Judges, FlawlessProcess, Probing
<1>3. ~Unexpected(timedOut, parsed)
  <2>1. StatusOf(timedOut, parsed) = "pass"
    BY DEF Entry
  <2>2. QED
    BY <1>2, <2>1 DEF StatusOf
<1>4. CleanPass(e) /\ ~e.retried
  BY <1>1, <1>2, <1>3 DEF CleanPass, Entry
<1>5. QED
  BY <1>1, <1>2, <1>4 DEF FlawlessEntry

LEMMA FlawlessReportStep ==
  ASSUME Base, FlawlessProcess, \A s \in Suites : FlawlessReport(s), [Next]_vars, flawless'
  PROVE  \A s \in Suites : FlawlessReport(s)'
<1>0. flawless /\ world' = world
  BY StillFlawless
<1>1. \A e : FlawlessEntry(e)' <=> FlawlessEntry(e)
  BY <1>0 DEF FlawlessEntry
<1>2. ASSUME NEW s \in Suites, report'[s].results = report[s].results
      PROVE  FlawlessReport(s)'
  BY <1>1, <1>2 DEF FlawlessReport, TestsOf
<1>3. CASE ~Judge
  BY <1>2, <1>3, EntriesKept
<1>4. CASE Judge
  <2>0. PICK timedOut \in BOOLEAN :
           \E parsed \in ParsedStatuses(timedOut) : Judges(timedOut, parsed)
    BY <1>4, JudgeCases
  <2>1. PICK parsed \in ParsedStatuses(timedOut) : Judges(timedOut, parsed)
    BY <2>0
  <2> DEFINE e == Entry(timedOut, parsed)
  <2>2. e \in Entries
    BY <2>1, EntryType DEF Judges
  <2>3. e.status = "pass" => e.test = CurrentTest /\ FlawlessEntry(e)
    BY <2>1, FlawlessEntryRecorded
  <2> HIDE DEF e
  <2>4. CASE RunsAgain(e)
    BY <1>2, <2>4 DEF RunsAgain
  <2>5. CASE Records(e)
    <3>1. e.test = CurrentTest /\ FlawlessEntry(e)
      BY <2>3, <2>5 DEF Records
    <3>2. ASSUME NEW s \in Suites, s # suite
          PROVE  FlawlessReport(s)'
      BY <1>2, <2>2, <2>5, <3>2, RecordedReport
    <3>3. suite \in Suites
      BY DEF Base, TypeOK
    <3> DEFINE n == Len(report[suite].results)
               new == report'[suite].results
    <3>4. /\ n \in Nat /\ DOMAIN report[suite].results = 1 .. n
          /\ report[suite].results \in Seq(Entries)
      BY <3>3, ReportType DEF Base
    <3>5. /\ DOMAIN new = 1 .. n + 1
          /\ \A m \in 1 .. n : new[m] = report[suite].results[m]
          /\ new[n + 1] = e
      BY <2>2, <2>5, <3>4, RecordedReport
    <3> HIDE DEF new
    <3>6. e.test = TestsOf(suite)[n + 1]
      BY <3>1 DEF CurrentTest
    <3>7. ASSUME NEW m \in 1 .. n
          PROVE  report[suite].results[m].test = TestsOf(suite)[m]
                 /\ FlawlessEntry(report[suite].results[m])
      BY <3>3, <3>4 DEF FlawlessReport
    <3> HIDE DEF n
    <3>8. ASSUME NEW m \in DOMAIN new
          PROVE  new[m].test = TestsOf(suite)[m] /\ FlawlessEntry(new[m])
      <4>1. m \in 1 .. n \/ m = n + 1
        BY <3>4, <3>5
      <4>2. QED
        BY <3>1, <3>5, <3>6, <3>7, <4>1
    <3>9. ASSUME NEW s \in Suites, s = suite
          PROVE  FlawlessReport(s)'
      BY <1>1, <3>8, <3>9 DEF FlawlessReport, TestsOf, new
    <3>10. QED
      BY <3>2, <3>9
  <2>6. QED
    BY <2>1, <2>4, <2>5 DEF Judges, e
<1>5. QED
  BY <1>3, <1>4

LEMMA FlawlessHeadsStep ==
  ASSUME Base, FlawlessHeads, [Next]_vars, flawless'
  PROVE  FlawlessHeads'
<1>0. flawless /\ world' = world
  BY StillFlawless
<1>1. ASSUME NEW s \in Suites, Headed(s), report'[s].driver = report[s].driver,
             report'[s].revision = report[s].revision
      PROVE  Headed(s)'
  BY <1>0, <1>1 DEF Headed
<1>2. Suites = {"cap", "fun"} /\ suite \in Suites
  BY DEF Suites, Base, TypeOK
<1>3. CASE Judge
  <2>0. PICK timedOut \in BOOLEAN :
           \E parsed \in ParsedStatuses(timedOut) : Judges(timedOut, parsed)
    BY <1>3, JudgeCases
  <2>1. PICK parsed \in ParsedStatuses(timedOut) : Judges(timedOut, parsed)
    BY <2>0
  <2> DEFINE e == Entry(timedOut, parsed)
  <2>2. e \in Entries
    BY <2>1, EntryType DEF Judges
  <2>3. report' = report \/ Records(e)
    BY <2>1 DEF Judges, RunsAgain
  <2> HIDE DEF e
  <2>4. \A s \in Suites : /\ report'[s].driver = report[s].driver
                          /\ report'[s].revision = report[s].revision
    BY <2>2, <2>3, RecordedReport
  <2>5. pc # "start" /\ (suite' = "fun" /\ pc' # "start" => suite = "fun")
    BY <2>1 DEF Judges, RunsAgain, Records, AfterEntry
  <2>6. QED
    BY <1>1, <1>2, <2>4, <2>5 DEF FlawlessHeads
<1>4. CASE StartScript
  <2>1. /\ report'[suite].driver = world.driver /\ report'[suite].revision = world.revision
        /\ \A s \in Suites : s # suite => report'[s] = report[s]
    BY <1>4, StartedReport
  <2>2. Headed(suite)'
    <3>1. suite' = suite
      BY <1>4 DEF StartScript
    <3>2. QED
      BY <1>0, <2>1, <3>1 DEF Headed
  <2>3. suite' = suite
    BY <1>4 DEF StartScript
  <2>4. suite = "fun" => Headed("cap")'
    BY <1>1, <1>2, <2>1 DEF FlawlessHeads
  <2>5. QED
    BY <1>2, <2>2, <2>3, <2>4 DEF FlawlessHeads
<1>5. CASE report' = report /\ suite' = suite /\ (pc' = pc \/ pc # "start")
  BY <1>1, <1>2, <1>5 DEF FlawlessHeads
<1>6. Judge \/ StartScript \/ (report' = report /\ suite' = suite /\ (pc' = pc \/ pc # "start"))
  BY Steps DEF Change, ChildSays, ChildExits, Spawn, TimeOut, Kill, HasExited, Gate,
     vars, runner
<1>7. QED
  BY <1>3, <1>4, <1>5, <1>6

LEMMA FlawlessLengthsStep ==
  ASSUME Base, FlawlessLengths, [Next]_vars
  PROVE  FlawlessLengths'
<1>1. Suites = {"cap", "fun"} /\ suite \in Suites
  BY DEF Suites, Base, TypeOK
<1>2. CASE Judge
  <2>0. PICK timedOut \in BOOLEAN :
           \E parsed \in ParsedStatuses(timedOut) : Judges(timedOut, parsed)
    BY <1>2, JudgeCases
  <2>1. PICK parsed \in ParsedStatuses(timedOut) : Judges(timedOut, parsed)
    BY <2>0
  <2> DEFINE e == Entry(timedOut, parsed)
  <2>2. e \in Entries
    BY <2>1, EntryType DEF Judges
  <2>3. RunsAgain(e) \/ Records(e)
    BY <2>1 DEF Judges
  <2>4. pc \notin {"gate", "done"}
    BY <2>1 DEF Judges
  <2> HIDE DEF e
  <2>5. CASE RunsAgain(e)
    BY <2>5 DEF RunsAgain, FlawlessLengths
  <2>6. CASE Records(e)
    <3> DEFINE n == Len(report[suite].results)
    <3>1. n \in Nat /\ Len(TestsOf(suite)) \in Nat /\ n < Len(TestsOf(suite))
      BY <1>1, <2>4, ReportType, TestsType DEF Base, Progress
    <3>2. /\ Len(report'[suite].results) = n + 1
          /\ \A s \in Suites : s # suite => report'[s] = report[s]
      BY <2>2, <2>6, RecordedReport
    <3>3. AfterEntry(n + 1)
      BY <2>6 DEF Records
    <3> HIDE DEF n
    <3>4. CASE suite = "cap"
      BY <3>1, <3>2, <3>3, <3>4 DEF AfterEntry, TestsOf, FlawlessLengths
    <3>5. CASE suite = "fun"
      BY <1>1, <3>1, <3>2, <3>3, <3>5 DEF AfterEntry, TestsOf, FlawlessLengths
    <3>6. QED
      BY <1>1, <3>4, <3>5
  <2>7. QED
    BY <2>3, <2>5, <2>6
<1>3. ASSUME ~Judge
      PROVE  /\ suite' = suite
             /\ pc' \in {"gate", "done"} => pc \in {"gate", "done"}
  BY <1>3, Steps
     DEF Change, ChildSays, ChildExits, StartScript, Spawn, TimeOut, Kill, HasExited, Gate,
         vars, runner
<1>4. CASE ~Judge
  BY <1>1, <1>3, <1>4, EntriesKept DEF FlawlessLengths
<1>5. QED
  BY <1>2, <1>4

LEMMA FlawlessStep ==
  ASSUME Base, FlawlessSoFar, [Next]_vars
  PROVE  FlawlessSoFar'
<1> SUFFICES ASSUME flawless'
             PROVE  /\ FlawlessProcess' /\ FlawlessHeads' /\ FlawlessLengths'
                    /\ \A s \in Suites : FlawlessReport(s)'
  BY DEF FlawlessSoFar
<1>1. /\ FlawlessProcess /\ FlawlessHeads /\ FlawlessLengths
      /\ \A s \in Suites : FlawlessReport(s)
  BY StillFlawless DEF FlawlessSoFar
<1>2. QED
  BY <1>1, FlawlessProcessStep, FlawlessHeadsStep, FlawlessLengthsStep, FlawlessReportStep

(* The results of a flawless script are admissible, and about the tests of   *)
(* its list.                                                                 *)
LEMMA FlawlessAdmissible ==
  ASSUME Base, NEW s \in Suites, NEW required, FlawlessReport(s), Distinct(s),
         Len(report[s].results) = Len(TestsOf(s)), Names(s, required)
  PROVE  /\ \A e \in EntriesOf(report[s]) : FlawlessEntry(e)
         /\ {e.test : e \in EntriesOf(report[s])} = {TestsOf(s)[n] : n \in DOMAIN TestsOf(s)}
         /\ \A test \in required : \E e \in EntriesOf(report[s]) : e.test = test
         /\ ResultsAdmissible(report[s], required, world.driver)
<1> DEFINE n == Len(TestsOf(s))
           results == report[s].results
<1>1. n \in Nat /\ n > 0 /\ DOMAIN TestsOf(s) = 1 .. n /\ DOMAIN results = 1 .. n
  BY TestsType, ReportType DEF Base
<1>2. \A m \in 1 .. n : results[m].test = TestsOf(s)[m] /\ FlawlessEntry(results[m])
  BY <1>1 DEF FlawlessReport
<1>3. EntriesOf(report[s]) = {results[m] : m \in 1 .. n}
  BY <1>1 DEF EntriesOf
<1> HIDE DEF n, results
<1>4. \A e \in EntriesOf(report[s]) : FlawlessEntry(e)
  BY <1>2, <1>3
<1>5. {e.test : e \in EntriesOf(report[s])} = {TestsOf(s)[m] : m \in DOMAIN TestsOf(s)}
  BY <1>1, <1>2, <1>3
<1>6. \A test \in required : \E e \in EntriesOf(report[s]) : e.test = test
  BY <1>1, <1>2, <1>3 DEF Names
<1>7. \A l, m \in DOMAIN results : results[l].test = results[m].test => l = m
  BY <1>1, <1>2 DEF Distinct
<1>8. \A e \in EntriesOf(report[s]) : ResultAdmissible(e, world.driver) /\ CleanPass(e)
  <2>1. \A e : FlawlessEntry(e) => ResultAdmissible(e, world.driver) /\ CleanPass(e)
    BY DEF FlawlessEntry, CleanPass, ResultAdmissible, loaded_driver_failure, BAD_STATUSES
  <2>2. QED
    BY <1>4, <2>1
<1>9. results # <<>>
  BY <1>1
<1>10. QED
  BY <1>4, <1>5, <1>6, <1>7, <1>8, <1>9 DEF ResultsAdmissible, results

LEMMA FlawlessEvaluates ==
  ASSUME Base, Selected, FlawlessSoFar, flawless, Covering, pc = "gate"
  PROVE  evaluate(report["cap"], report["fun"], world.driver, world.revision, TRUE)
<1>1. "cap" \in Suites /\ "fun" \in Suites /\ suite = "fun"
  BY DEF Suites, Base, Progress, TypeOK
<1>2. /\ Headed("cap") /\ Headed("fun")
      /\ Len(report["cap"].results) = Len(TestsOf("cap"))
      /\ Len(report["fun"].results) = Len(TestsOf("fun"))
      /\ FlawlessReport("cap") /\ FlawlessReport("fun")
  BY <1>1 DEF FlawlessSoFar, FlawlessHeads, FlawlessLengths, TestsOf
<1>3. /\ Distinct("cap") /\ Distinct("fun")
      /\ Names("cap", DriverRequired) /\ Names("fun", FunctionalRequired)
      /\ Names("fun", {"matmul"})
  BY <1>1 DEF Covering, Names
<1>4. /\ \A e \in EntriesOf(report["cap"]) : FlawlessEntry(e)
      /\ {e.test : e \in EntriesOf(report["cap"])}
           = {TestsOf("cap")[n] : n \in DOMAIN TestsOf("cap")}
      /\ ResultsAdmissible(report["cap"], DriverRequired, world.driver)
  BY <1>1, <1>2, <1>3, FlawlessAdmissible
<1>5. /\ \A e \in EntriesOf(report["fun"]) : FlawlessEntry(e)
      /\ ResultsAdmissible(report["fun"], FunctionalRequired, world.driver)
  BY <1>1, <1>2, <1>3, FlawlessAdmissible
<1>6. \E e \in EntriesOf(report["fun"]) : e.test = "matmul"
  BY <1>1, <1>2, <1>3, FlawlessAdmissible
<1>7. \A e : FlawlessEntry(e) =>
         e.status = "pass" /\ ~e.timed_out /\ ~e.crashed /\ ~e.retried
  BY DEF FlawlessEntry, CleanPass
<1>8. LET c == CapabilitySummary(report["cap"]) IN
      /\ c.no_silent_corruption /\ c.no_hangs /\ c.no_process_crashes
      /\ c.timeouts = "zero" /\ c.errors = "zero" /\ c.timeout_retries = "zero"
  BY <1>4, <1>7, CapabilityCounts DEF ErrorStatuses
<1>9. LET f == FunctionalSummary(report["fun"]) IN
      f.core_correctness_ok /\ f.hard_failures = "zero"
  BY <1>5, <1>6, <1>7, FunctionalCounts DEF BAD_STATUSES
<1>10. report["cap"].selected = TestsOf("cap")
  BY <1>1 DEF Selected
<1>11. /\ Identified(report["cap"], world.driver, world.revision)
       /\ Identified(report["fun"], world.driver, world.revision)
  BY <1>2 DEF Headed, Identified
<1>12. \A m, n \in DOMAIN report["cap"].selected :
          report["cap"].selected[m] = report["cap"].selected[n] => m = n
  BY <1>3, <1>10 DEF Distinct
<1>13. {report["cap"].selected[n] : n \in DOMAIN report["cap"].selected}
          = {e.test : e \in EntriesOf(report["cap"])}
  BY <1>4, <1>10
<1>14. QED
  BY <1>4, <1>5, <1>8, <1>9, <1>11, <1>12, <1>13 DEF evaluate

LEMMA EligibleStep ==
  ASSUME Covering, Base, Selected, FlawlessSoFar, FlawlessIsEligible, [Next]_vars
  PROVE  FlawlessIsEligible'
<1> SUFFICES ASSUME pc' = "done", flawless'
             PROVE  verdict' = "eligible"
  BY DEF FlawlessIsEligible
<1>1. flawless
  BY StillFlawless
<1>2. ASSUME NEW b \in BOOLEAN, Gate(b)
      PROVE  verdict' = "eligible"
  <2>1. pc = "gate" /\ b
    BY <1>2 DEF Gate
  <2>2. evaluate(report["cap"], report["fun"], world.driver, world.revision, b)
    <3>1. b = TRUE
      BY <2>1
    <3>2. QED
      BY <1>1, <2>1, <3>1, FlawlessEvaluates
  <2>3. QED
    BY <1>2, <2>2 DEF Gate
<1>3. ASSUME ~\E b \in BOOLEAN : Gate(b)
      PROVE  pc = "done" /\ verdict' = verdict
  <2>1. ~Judge
    <3>1. Judge => pc' # "done"
      <4>1. ASSUME Judge
            PROVE  pc' # "done"
        BY <4>1, JudgeCases DEF Judges, RunsAgain, Records, AfterEntry
      <4>2. QED
        BY <4>1
    <3>2. QED
      BY <3>1
  <2>2. QED
    BY <1>3, <2>1, Steps
       DEF Change, ChildSays, ChildExits, StartScript, Spawn, TimeOut, Kill, HasExited,
           vars, runner
<1>4. QED
  BY <1>1, <1>2, <1>3 DEF FlawlessIsEligible

(* For lists of probes that cover what the gate requires: if every process   *)
(* passed on the staged driver, nothing changed meanwhile and the reports    *)
(* are fresh, the driver is eligible.  What the gate demands can be met, for *)
(* any lists, by the scripts that write the reports.                         *)
THEOREM FlawlessSessionsPass ==
  ASSUME Covering
  PROVE  Spec => []FlawlessIsEligible
<1> DEFINE Inv == Base /\ Selected /\ FlawlessSoFar /\ FlawlessIsEligible
<1>1. Init => Inv
  <2> SUFFICES ASSUME Init
               PROVE  Selected /\ FlawlessSoFar /\ FlawlessIsEligible
    BY BaseInit
  <2>1. pc = "start" /\ suite = "cap" /\ attempt = 1 /\ child = NoChild
    BY DEF Init
  <2>2. \A s \in Suites : report[s].selected = TestsOf(s) /\ report[s].results = <<>>
    BY DEF Init, EmptyReport
  <2>3. FlawlessProcess /\ FlawlessHeads /\ FlawlessLengths
    BY <2>1 DEF FlawlessProcess, FlawlessHeads, FlawlessLengths, NoChild, Probing
  <2>4. \A s \in Suites : FlawlessReport(s)
    BY <2>2 DEF FlawlessReport
  <2>5. QED
    BY <2>1, <2>2, <2>3, <2>4 DEF Selected, FlawlessSoFar, FlawlessIsEligible
<1>2. Inv /\ [Next]_vars => Inv'
  BY BaseStep, SelectedStep, FlawlessStep, EligibleStep
<1>3. Inv => FlawlessIsEligible
  OBVIOUS
<1>4. QED
  BY <1>1, <1>2, <1>3, PTL DEF Spec
=============================================================================
