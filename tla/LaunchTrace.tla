------------------------------ MODULE LaunchTrace ------------------------------
(***************************************************************************)
(* The crash trace: the threads of a CUDA process number their kernel      *)
(* launches and append a record to a file before and after each; any of    *)
(* them may bring the process down.  An earlier process may have left      *)
(* records in the file.  Two readers then go through it line by line:      *)
(* summarize-zluda-trace.py and the accounting of run-llama-zluda-safe.ps1.*)
(***************************************************************************)
EXTENDS Integers, Sequences, FiniteSets, SequencesExt

CONSTANTS
  Threads,      \* host threads of the application
  Handles,      \* values of a CUfunction, reused once a module is unloaded
  Kernels,      \* names of kernels
  MaxLaunches,  \* bound: launches of one process
  MaxLookups,   \* bound: cuModuleGetFunction calls of one process
  Leftovers,    \* what earlier processes may have left in the file
  MaxLost,      \* bound: writes to the file, or openings of it, that fail
  MaxRefused    \* bound: launches refused before they have a number

ASSUME BoundsAreNatural ==
  MaxLaunches \in Nat /\ MaxLookups \in Nat /\ MaxLost \in Nat /\ MaxRefused \in Nat

ASSUME FinitelyManyThreads == IsFiniteSet(Threads)

VARIABLES
  setup,    \* blocking: CUDA_LAUNCH_BLOCKING, as the launcher sets it;
            \* traced: this nvcuda.dll writes launch records
  phase,    \* "running", then how the process ended
  thread,   \* what each thread is doing
  fate,     \* fate[id]: what became of launch id of this process
  culprit,  \* the launch that brought the process down, or 0
  bound,    \* the kernel each handle stands for now
  lookups,
  lines,    \* the trace file: a line is the records written on it
  ragged,   \* the last line has no newline yet
  log,      \* the calls zluda_trace logged
  lost, merged, \* history: records were lost, or share a line
  old,      \* history: lines earlier processes left in the file
  refused,  \* history: launches refused before they had a number
  unended   \* history: newlines that were not written

process == <<setup, phase, thread, fate, culprit, bound, lookups>>
file == <<lines, ragged, log>>
history == <<lost, merged, old, refused, unended>>
vars == <<process, file, history>>

Terminal == {"done", "launch-error", "sync-error"}
Events == {"begin"} \union Terminal

(* What one trace_launch writes; a line is a sequence of such texts, and   *)
(* empty when only newlines met there.                                     *)
Text == [id : Nat, event : Events]

ASSUME LeftoversAreLines == Leftovers \subseteq Seq(Seq(Text))

Ended == phase \in {"exit 0", "crashed"}

idle == [pc |-> "idle", id |-> 0, h |-> "", kernel |-> "", say |-> ""]
Empty ==
  [open |-> {}, begun |-> {}, closed |-> {}, errors |-> 0, begins |-> 0,
   terminals |-> 0, functions |-> [h \in Handles |-> "none"], launches |-> <<>>]

TypeOK ==
  /\ setup \in [blocking : BOOLEAN, traced : BOOLEAN]
  /\ phase \in {"running", "exit 0", "crashed"}
  /\ thread \in [Threads -> [pc : {"idle", "launch", "sync", "return"},
                             id : 0..MaxLaunches, h : Handles \union {""},
                             kernel : Kernels \union {""},
                             say : Events \union {"", "newline"}]]
  /\ fate \in Seq({"open", "queued", "ok", "error"}) /\ Len(fate) <= MaxLaunches
  /\ culprit \in 0..Len(fate)
  /\ bound \in [Handles -> Kernels \union {"none"}]
  /\ lost \in 0..MaxLost /\ unended \in 0..MaxLost /\ refused \in 0..MaxRefused

(* The lines that begin and that close a launch, and the numbers a file    *)
(* leaves open.                                                            *)
Begins(f) == {i \in DOMAIN f : f[i] # <<>> /\ f[i][1].event = "begin"}
Closes(f) == {i \in DOMAIN f : f[i] # <<>> /\ f[i][1].event \in Terminal}
Open(f) ==
  {f[i][1].id : i \in {j \in Begins(f) :
                          \A l \in Closes(f) : l > j => f[l][1].id # f[j][1].id}}

(* The launcher removes the file first, and goes on when it cannot; by     *)
(* hand nobody does.  The last line may have lost its newline in a crash.  *)
Init ==
  /\ setup \in [blocking : BOOLEAN, traced : BOOLEAN]
  /\ phase = "running" /\ thread = [t \in Threads |-> idle]
  /\ fate = <<>> /\ culprit = 0 /\ lookups = 0
  /\ bound = [h \in Handles |-> "none"]
  /\ lines \in {<<>>} \union Leftovers
  /\ ragged \in {FALSE, lines # <<>> /\ Last(lines) # <<>>}
  /\ old = Len(lines)
  /\ log = <<>>
  /\ lost = 0 /\ merged = FALSE /\ refused = 0 /\ unended = 0

-------------------------------------------------------------------------------
(* The process.                                                            *)
Set(t, changes) == thread' = [thread EXCEPT ![t] = changes]
Ready(t, pc) == phase = "running" /\ thread[t].pc = pc /\ thread[t].say = ""

(* cuModuleGetFunction: a handle is given to another kernel only when no   *)
(* launch still uses it.  zluda_trace logs the call and its status.        *)
GetFunction(t) ==
  /\ Ready(t, "idle") /\ lookups < MaxLookups /\ lookups' = lookups + 1
  /\ \E h \in Handles, k \in Kernels, ok \in BOOLEAN :
       /\ ok => \A u \in Threads : thread[u].h # h
       /\ bound' = IF ok THEN [bound EXCEPT ![h] = k] ELSE bound
       /\ log' = Append(log, [call |-> "function", h |-> h, kernel |-> k, ok |-> ok])
  /\ UNCHANGED <<setup, phase, thread, fate, culprit, lines, ragged, history>>

(* launch_kernel refuses a launch whose arguments come in extra before it  *)
(* takes a number, and launch_kernel_ex one with an attribute it does not  *)
(* know: zluda_trace logs the error, the launch trace has nothing of it.   *)
Refuse(t) ==
  /\ Ready(t, "idle") /\ refused < MaxRefused /\ refused' = refused + 1
  /\ \E h \in {g \in Handles : bound[g] # "none"} :
       log' = Append(log, [call |-> "launch", h |-> h, kernel |-> bound[h], ok |-> FALSE])
  /\ UNCHANGED <<process, lines, ragged, lost, merged, old, unended>>

(* next_launch_id: the number is taken before the record is written.       *)
NextLaunchId(t) ==
  /\ Ready(t, "idle") /\ Len(fate) < MaxLaunches
  /\ fate' = Append(fate, "open")
  /\ \E h \in {g \in Handles : bound[g] # "none"} :
       Set(t, [pc |-> "launch", id |-> Len(fate'), h |-> h, kernel |-> bound[h],
               say |-> IF setup.traced THEN "begin" ELSE ""])
  /\ UNCHANGED <<setup, phase, culprit, bound, lookups, file, history>>

(* trace_launch: the text and its newline are two writes, and a file that  *)
(* cannot be opened or written loses the record silently.                  *)
WriteText(t) ==
  LET r == [id |-> thread[t].id, event |-> thread[t].say] IN
  /\ phase = "running" /\ thread[t].say \in Events
  /\ IF ragged THEN lines' = [lines EXCEPT ![Len(lines)] = Append(@, r)]
     ELSE lines' = Append(lines, <<r>>)
  /\ merged' = (merged \/ ragged) /\ ragged' = TRUE
  /\ Set(t, [thread[t] EXCEPT !.say = "newline"])
  /\ UNCHANGED <<setup, phase, fate, culprit, bound, lookups, log, lost, old, refused, unended>>

LoseRecord(t) ==
  /\ phase = "running" /\ thread[t].say \in Events
  /\ lost + unended < MaxLost /\ lost' = lost + 1
  /\ Set(t, [thread[t] EXCEPT !.say = ""])
  /\ UNCHANGED <<setup, phase, fate, culprit, bound, lookups, file, merged, old, refused, unended>>

EndLine(t) ==
  /\ phase = "running" /\ thread[t].say = "newline"
  /\ lines' = IF ragged THEN lines ELSE Append(lines, <<>>)
  /\ ragged' = FALSE
  /\ Set(t, [thread[t] EXCEPT !.say = ""])
  /\ UNCHANGED <<setup, phase, fate, culprit, bound, lookups, log, history>>

(* The text was written and its newline was not: the next record joins it. *)
LoseNewline(t) ==
  /\ phase = "running" /\ thread[t].say = "newline"
  /\ lost + unended < MaxLost /\ unended' = unended + 1
  /\ Set(t, [thread[t] EXCEPT !.say = ""])
  /\ UNCHANGED <<setup, phase, fate, culprit, bound, lookups, file, lost, merged, old, refused>>

(* The call returns: the launch goes on to the wait or to its last record. *)
Proceed(t, pc, event, f) ==
  /\ Set(t, [thread[t] EXCEPT !.pc = pc, !.say = IF setup.traced THEN event ELSE ""])
  /\ fate' = [fate EXCEPT ![thread[t].id] = f]
  /\ UNCHANGED <<setup, phase, culprit, bound, lookups, file, history>>

(* Mutant: with launch blocking too, done is recorded before the wait.     *)
ModuleLaunchKernel_Early(t) ==
  /\ Ready(t, "launch")
  /\ \/ Proceed(t, "return", "launch-error", "error")
     \/ setup.blocking /\ Proceed(t, "sync", "done", "queued")
     \/ ~setup.blocking /\ Proceed(t, "return", "done", "queued")

ModuleLaunchKernel(t) ==
  /\ Ready(t, "launch")
  /\ \/ Proceed(t, "return", "launch-error", "error")
     \/ setup.blocking /\ Proceed(t, "sync", "", "queued")
     \/ ~setup.blocking /\ Proceed(t, "return", "done", "queued")

(* Mutant: a failed wait is recorded as an event no reader knows.          *)
StreamSynchronize_Unknown(t) ==
  /\ Ready(t, "sync")
  /\ \/ Proceed(t, "return", "error", "error")
     \/ Proceed(t, "return", "done", "ok")

StreamSynchronize(t) ==
  /\ Ready(t, "sync")
  /\ \/ Proceed(t, "return", "sync-error", "error")
     \/ Proceed(t, "return", "done", "ok")

(* launch_kernel returns and zluda_trace logs the call.                    *)
Return(t) ==
  LET me == thread[t] IN
  /\ Ready(t, "return")
  /\ log' = Append(log, [call |-> "launch", h |-> me.h, kernel |-> me.kernel,
                         ok |-> fate[me.id] # "error"])
  /\ Set(t, idle)
  /\ UNCHANGED <<setup, phase, fate, culprit, bound, lookups, lines, ragged, history>>

(* A launch takes the process down while it is issued, or once it runs; or *)
(* the process fails on its own account; or it exits with 0, whatever its  *)
(* other threads do.                                                       *)
Crash ==
  /\ phase = "running" /\ phase' = "crashed"
  /\ culprit' \in
       {0} \union {id \in DOMAIN fate : fate[id] = "queued"} \union
       {thread[t].id : t \in {u \in Threads : Ready(u, "launch")}}
  /\ UNCHANGED <<setup, thread, fate, bound, lookups, file, history>>

Exit ==
  /\ phase = "running" /\ phase' = "exit 0"
  /\ UNCHANGED <<setup, thread, fate, culprit, bound, lookups, file, history>>

-------------------------------------------------------------------------------
(* Mutants: an error does not close its launch; only done is a terminal    *)
(* number of the summary.                                                  *)
Blocking_DoneCloses(s, line) ==
  IF line = <<>> THEN s
  ELSE IF line[1].event = "begin"
  THEN [s EXCEPT !.open = @ \union {line[1].id}, !.begun = @ \union {line[1].id},
                 !.begins = @ + 1]
  ELSE [s EXCEPT !.open = IF line[1].event = "done" THEN @ \ {line[1].id} ELSE @,
                 !.closed = @ \union {line[1].id}, !.terminals = @ + 1]
Blocking_DoneCounts(s, line) ==
  IF line = <<>> THEN s
  ELSE IF line[1].event = "begin"
  THEN [s EXCEPT !.open = @ \union {line[1].id}, !.begun = @ \union {line[1].id},
                 !.begins = @ + 1]
  ELSE [s EXCEPT !.open = @ \ {line[1].id}, !.terminals = @ + 1,
                 !.closed = IF line[1].event = "done" THEN @ \union {line[1].id} ELSE @]

(* The readers go through the lines once the process has ended.  One loop  *)
(* body serves both: each keeps the open launches by number; the script    *)
(* counts records, the summary distinct numbers.  A line is matched from   *)
(* its start, so only its first record is seen.                            *)
Blocking(s, line) ==
  IF line = <<>> THEN s
  ELSE IF line[1].event = "begin"
  THEN [s EXCEPT !.open = @ \union {line[1].id}, !.begun = @ \union {line[1].id},
                 !.begins = @ + 1]
  ELSE [s EXCEPT !.open = @ \ {line[1].id}, !.closed = @ \union {line[1].id},
                 !.terminals = @ + 1,
                 !.errors = @ + IF line[1].event = "done" THEN 0 ELSE 1]

(* Mutant: a failed look-up names the handle too.                          *)
Functions_AnyStatus(s, c) ==
  IF c.call = "launch"
  THEN [s EXCEPT !.launches = Append(@, [name |-> s.functions[c.h], kernel |-> c.kernel])]
  ELSE [s EXCEPT !.functions[c.h] = c.kernel]

(* The log: a handle has the name of its last successful look-up.          *)
Functions(s, c) ==
  IF c.call = "launch"
  THEN [s EXCEPT !.launches = Append(@, [name |-> s.functions[c.h], kernel |-> c.kernel])]
  ELSE IF c.ok THEN [s EXCEPT !.functions[c.h] = c.kernel] ELSE s

sum == FoldLeft(Functions, FoldLeft(Blocking, Empty, lines), log)

(* unmatched[-1] after sorting by number.                                  *)
last_unmatched == IF sum.open = {} THEN 0 ELSE CHOOSE i \in sum.open : \A j \in sum.open : j <= i

(* Mutant: begins and terminals are not counted against each other.        *)
Accepted_Uncounted ==
  setup.blocking /\ phase = "exit 0" /\ sum.begins >= 1 /\ sum.errors = 0 /\ sum.open = {}

(* The launcher's verdict on a process that exited with 0.                 *)
Accepted ==
  /\ setup.blocking /\ phase = "exit 0"
  /\ sum.begins >= 1
  /\ sum.errors = 0
  /\ sum.open = {}
  /\ sum.begins = sum.terminals

Step(t) ==
  \/ GetFunction(t) \/ Refuse(t) \/ NextLaunchId(t)
  \/ WriteText(t) \/ LoseRecord(t) \/ EndLine(t) \/ LoseNewline(t)
  \/ ModuleLaunchKernel(t) \/ StreamSynchronize(t) \/ Return(t)

Next ==
  \/ \E t \in Threads : Step(t)
  \/ Crash \/ Exit
  \/ Ended /\ UNCHANGED vars

Spec == Init /\ [][Next]_vars

-------------------------------------------------------------------------------
(* Every record this process wrote is in the file, on a line of its own.   *)
Intact == setup.traced /\ lost = 0 /\ ~merged

(* Launches whose first record is written and whose last one is not.       *)
InFlight ==
  {thread[t].id : t \in {u \in Threads :
     \/ thread[u].pc \in {"launch", "sync"} /\ thread[u].say # "begin"
     \/ thread[u].pc = "return" /\ thread[u].say \in Terminal}}

Finished ==
  {id \in DOMAIN fate : \A t \in Threads :
     thread[t].id = id => thread[t].pc = "return" /\ thread[t].say \notin Terminal}

(* The unmatched launches of the report are those that were in flight when *)
(* the process ended, whatever the interleaving of its threads, and those  *)
(* an earlier process left open under a number this one did not finish.    *)
UnmatchedIsInFlight ==
  Ended /\ Intact => sum.open = InFlight \union (Open(SubSeq(lines, 1, old)) \ Finished)

(* With launch blocking, the launch that brought the process down is one   *)
(* of them, and the crash suspect when no other thread was launching and   *)
(* the file was new.                                                       *)
CulpritIsSuspected ==
  Ended /\ Intact /\ setup.blocking /\ culprit # 0 =>
    /\ culprit \in sum.open
    /\ old = 0 /\ Cardinality({t \in Threads : thread[t].pc # "idle"}) = 1 =>
         last_unmatched = culprit

(* The script counts records and the summary counts numbers: in a file of  *)
(* one process they agree, even when records were lost or share a line.    *)
ReadersAgree ==
  LET s == sum IN
  Ended /\ old = 0 =>
    s.begins = Cardinality(s.begun) /\ s.terminals = Cardinality(s.closed)

(* The launcher accepts only a run that launched something, all of whose   *)
(* numbered launches completed; the loss of any one record makes it        *)
(* refuse.  A launch that launch_kernel refused has no number: it is not   *)
(* seen, and unless there was one, every launch the application asked for  *)
(* succeeded.                                                              *)
AcceptedIsComplete ==
  Accepted /\ old = 0 /\ ~merged /\ lost <= 1 /\ (\A t \in Threads : thread[t].pc = "idle") =>
    /\ fate # <<>> /\ lost = 0 /\ \A id \in DOMAIN fate : fate[id] = "ok"
    /\ refused = 0 => \A i \in DOMAIN log : log[i].call = "launch" => log[i].ok

(* The name a launch is reported under is that of the kernel it launched,  *)
(* though handles are reused and look-ups fail.                            *)
NamesResolve ==
  LET launches == sum.launches IN
  \A i \in DOMAIN launches : launches[i].name = launches[i].kernel
================================================================================
