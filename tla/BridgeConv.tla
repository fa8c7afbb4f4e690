------------------------------ MODULE BridgeConv ------------------------------
(***************************************************************************)
(* The nine convolution entry points of native/cudnn_bridge/cudnn_bridge.c *)
(* that talk to MIOpen: algorithm query (..Algorithm_v7), workspace query  *)
(* (..WorkspaceSize) and execution, forward, backward-data and             *)
(* backward-filter.  Every call into MIOpen is a step of its own and may   *)
(* fail; between two steps other threads run and MIOpen's list of          *)
(* solutions may change.                                                   *)
(*                                                                         *)
(* Abstracted: tensor data, launch times, strides of tensors.  The checks  *)
(* handle->cuda_stream # NULL and bridge_backend_ready() are left out:      *)
(* module MiopenBackend shows that a valid handle has the default stream   *)
(* and a loaded backend.  A filter descriptor is always NCHW and a data    *)
(* type always known to MIOpen: the setters admit nothing else.            *)
(***************************************************************************)
EXTENDS ConvAlgorithms, ConvGeometry

CONSTANTS
  Threads,        (* caller threads                                          *)
  Requests,       (* the calls they make                                     *)
  Catalog,        (* Catalog[d]: solution lists MIOpen may hold, direction d *)
  QueryCap,       (* the most records read from MIOpen at once (64)          *)
  MakeStatuses,   (* what create/set of a MIOpen descriptor may return       *)
  QueryStatuses,  (* what count/get-solutions/solution-workspace may return  *)
  LaunchStatuses, (* what an Immediate call may return                       *)
  MaxChanges      (* bound: how often MIOpen's lists change                  *)

(* One record MIOpen returns: its id, family, the workspace listed in the    *)
(* record, the workspace its own query reports, and whether that query       *)
(* works for it at all.                                                      *)
Solution == [id : Nat, family : Families, listed : Nat, ws : Nat, ok : BOOLEAN]

(* solution_id = 0, required_workspace = 0: the locals before selection. *)
Unselected == [id |-> 0, family |-> "OTHER", listed |-> 0, ws |-> 0, ok |-> FALSE]

(* One entry of perfResults. *)
PerfResult == [algo : Algorithms, memory : Nat]

Kinds == {"v7", "size", "exec"}

(* A call: what validation makes of its pointers (bad) and scalars (plain:   *)
(* alpha = 1, beta = 0), its descriptors, the algorithm or count asked for,  *)
(* the workspace handed over.                                                *)
Request == [kind : Kinds, dir : Dirs, algo : Algorithms, requested : Int,
            given : Nat, ptr : BOOLEAN, bad : BOOLEAN, plain : BOOLEAN,
            g : Geometry]

ASSUME ConstantsAssumption ==
  /\ Requests \subseteq Request /\ Requests # {}
  /\ Catalog \in [Dirs -> SUBSET Seq(Solution)]
  /\ QueryCap \in Nat \ {0}
  /\ MaxChanges \in Nat
  /\ MakeStatuses \subseteq MiopenStatus
  /\ QueryStatuses \subseteq MiopenStatus
  /\ LaunchStatuses \subseteq MiopenStatus

VARIABLES
  list,      (* list[d]: the solutions MIOpen holds for direction d           *)
  changes,   (* how often the lists have changed                              *)
  pc,        (* pc[t]: the next step of thread t's call, or "idle"            *)
  req,       (* req[t]: the call                                              *)
  slot,      (* slot[t]: the temporary MIOpen descriptor being made, 1..4     *)
  made,      (* made[t]: slots whose local pointer is non-NULL                *)
  live,      (* live[t]: slots whose MIOpen object exists                     *)
  quota,     (* quota[t]: query_count                                         *)
  seen,      (* seen[t]: the records read from MIOpen                         *)
  i,         (* i[t]: the scan position in seen[t]                            *)
  out,       (* out[t]: perfResults of the running algorithm query            *)
  pick,      (* pick[t]: the selected solution (id and workspace)             *)
  launched,  (* launched[t]: the Immediate call was made                      *)
  cs,        (* cs[t]: the cuDNN status of the call                           *)
  disturbed, (* history: during this call a MIOpen call or an allocation      *)
             (* failed, or MIOpen's lists changed                             *)
  advert     (* history: what the last algorithm query of t published; clean  *)
             (* while the query was undisturbed and the lists are still those *)

vars == <<list, changes, pc, req, slot, made, live, quota, seen, i, out, pick,
          launched, cs, disturbed, advert>>
backend == <<list, changes>>

(* The three tensors or filters of the call, then the convolution. *)
Slots == 1 .. 4
FilterSlot(d) == CASE d = "bwdFilter" -> 3 [] OTHER -> 2

Min2(a, b) == IF a < b THEN a ELSE b

NoAdvert == [dir |-> "fwd", clean |-> FALSE, perf |-> <<>>]

-----------------------------------------------------------------------------
(* The checks made before any MIOpen object exists, in the code's order. *)
EntryStatus(r) ==
  LET shapes == bridge_validate_conv_shapes(r.g) IN
  IF r.bad \/ (r.kind = "v7" /\ r.requested < 0) THEN "BAD_PARAM"
  ELSE IF r.kind = "v7" /\ r.requested = 0 THEN "SUCCESS"
  ELSE IF shapes # "SUCCESS" THEN shapes
  ELSE IF r.kind = "exec" /\ ~r.plain THEN "NOT_SUPPORTED"
  ELSE "GO"

Lists == {l \in [Dirs -> UNION {Catalog[d] : d \in Dirs}] :
            \A d \in Dirs : l[d] \in Catalog[d]}

Init ==
  /\ list \in Lists
  /\ changes = 0
  /\ pc = [t \in Threads |-> "idle"]
  /\ req = [t \in Threads |-> CHOOSE r \in Requests : TRUE]
  /\ slot = [t \in Threads |-> 1]
  /\ made = [t \in Threads |-> {}]
  /\ live = [t \in Threads |-> {}]
  /\ quota = [t \in Threads |-> 0]
  /\ seen = [t \in Threads |-> <<>>]
  /\ i = [t \in Threads |-> 1]
  /\ out = [t \in Threads |-> <<>>]
  /\ pick = [t \in Threads |-> Unselected]
  /\ launched = [t \in Threads |-> FALSE]
  /\ cs = [t \in Threads |-> "NOT_INITIALIZED"]     (* no call yet *)
  /\ disturbed = [t \in Threads |-> FALSE]
  /\ advert = [t \in Threads |-> NoAdvert]

(* The call's locals as its prologue initialises them. *)
Prologue(t, r) ==
  /\ req' = [req EXCEPT ![t] = r]
  /\ slot' = [slot EXCEPT ![t] = 1]
  /\ quota' = [quota EXCEPT ![t] = 0]
  /\ seen' = [seen EXCEPT ![t] = <<>>]
  /\ i' = [i EXCEPT ![t] = 1]
  /\ out' = [out EXCEPT ![t] = <<>>]
  /\ pick' = [pick EXCEPT ![t] = Unselected]
  /\ launched' = [launched EXCEPT ![t] = FALSE]
  /\ disturbed' = [disturbed EXCEPT ![t] = FALSE]

(* A call that returns from its prologue. *)
Reject(t, r) ==
  /\ pc[t] = "idle"
  /\ EntryStatus(r) # "GO"
  /\ Prologue(t, r)
  /\ cs' = [cs EXCEPT ![t] = EntryStatus(r)]
  /\ UNCHANGED <<backend, pc, made, live, advert>>

(* A call that goes on to make its MIOpen descriptors. *)
Call(t, r) ==
  /\ pc[t] = "idle"
  /\ EntryStatus(r) = "GO"
  /\ Prologue(t, r)
  /\ pc' = [pc EXCEPT ![t] = "make"]
  /\ cs' = [cs EXCEPT ![t] = "SUCCESS"]
  /\ UNCHANGED <<backend, made, live, advert>>

-----------------------------------------------------------------------------
(* goto done *)
Leave(t, s) ==
  /\ pc' = [pc EXCEPT ![t] = "cleanup"]
  /\ cs' = [cs EXCEPT ![t] = s]

(* Mutant: a slot past the last descriptor. *)
NextSlot_PastLast(t) ==
  /\ slot' = [slot EXCEPT ![t] = @ + 1]
  /\ pc' = [pc EXCEPT ![t] = IF slot[t] = 4 THEN "count" ELSE "make"]
  /\ cs' = cs

(* cs = bridge_make_...(...); if (cs) goto done;                             *)
(* The next descriptor, or the selection once all four were attempted.       *)
NextSlot(t) ==
  /\ slot' = [slot EXCEPT ![t] = Min2(@ + 1, 4)]
  /\ pc' = [pc EXCEPT ![t] = IF slot[t] = 4 THEN "count" ELSE "make"]
  /\ cs' = cs

MakeReturns(t, s) == IF s = "SUCCESS" THEN NextSlot(t) ELSE Leave(t, s) /\ slot' = slot

Disturb(t, ms) ==
  disturbed' = [disturbed EXCEPT ![t] = @ \/ ms # "SUCCESS"]

(* A filter whose packed strides leave the int range has no descriptor. *)
FilterTooWide(t) ==
  /\ pc[t] = "make"
  /\ slot[t] = FilterSlot(req[t].dir)
  /\ ~bridge_contiguous_strides(req[t].g.w)
  /\ Leave(t, "BAD_PARAM")
  /\ UNCHANGED <<backend, req, slot, made, live, quota, seen, i, out, pick,
                 launched, disturbed, advert>>

(* create_tensor or create_conv: a status other than SUCCESS leaves the      *)
(* pointer NULL.                                                             *)
Create(t, ms) ==
  /\ pc[t] = "make"
  /\ slot[t] = FilterSlot(req[t].dir) => bridge_contiguous_strides(req[t].g.w)
  /\ Disturb(t, ms)
  /\ IF ms = "SUCCESS"
       THEN /\ made' = [made EXCEPT ![t] = @ \union {slot[t]}]
            /\ live' = [live EXCEPT ![t] = @ \union {slot[t]}]
            /\ pc' = [pc EXCEPT ![t] = "set"]
            /\ UNCHANGED <<slot, cs>>
       ELSE /\ MakeReturns(t, bridge_status(ms))
            /\ UNCHANGED <<made, live>>
  /\ UNCHANGED <<backend, req, quota, seen, i, out, pick, launched, advert>>

(* Mutant: the object is destroyed, its pointer stays. *)
SetUp_KeepsPointer(t, ms) ==
  /\ pc[t] = "set"
  /\ Disturb(t, ms)
  /\ IF ms = "SUCCESS"
       THEN NextSlot(t) /\ UNCHANGED live
       ELSE /\ live' = [live EXCEPT ![t] = @ \ {slot[t]}]
            /\ MakeReturns(t, bridge_status(ms))
  /\ UNCHANGED <<backend, req, made, quota, seen, i, out, pick, launched, advert>>

(* set_tensor, or init_conv_nd followed for a grouped convolution by         *)
(* set_group_count: ms is the last status.  On failure the object is         *)
(* destroyed and the pointer is NULL again.                                  *)
SetUp(t, ms) ==
  /\ pc[t] = "set"
  /\ Disturb(t, ms)
  /\ IF ms = "SUCCESS"
       THEN /\ NextSlot(t)
            /\ UNCHANGED <<made, live>>
       ELSE /\ live' = [live EXCEPT ![t] = @ \ {slot[t]}]
            /\ made' = [made EXCEPT ![t] = @ \ {slot[t]}]
            /\ MakeReturns(t, bridge_status(ms))
  /\ UNCHANGED <<backend, req, quota, seen, i, out, pick, launched, advert>>

-----------------------------------------------------------------------------
(* Selection.  The pickers (workspace query, execution) and the algorithm    *)
(* query read MIOpen's list the same way and differ in what they look for.   *)
Picks(t) == req[t].kind # "v7"

(* What the pickers refuse before asking MIOpen: a NULL descriptor, a        *)
(* forward algorithm that maps to no family.                                 *)
PickRefusal(t) ==
  IF ~Picks(t) THEN "GO"
  ELSE IF made[t] # Slots THEN "BAD_PARAM"
  ELSE IF req[t].dir = "fwd" /\ req[t].algo \notin DOMAIN bridge_map_algo
    THEN "NOT_SUPPORTED"
  ELSE "GO"

RefuseSelection(t) ==
  /\ pc[t] = "count"
  /\ PickRefusal(t) # "GO"
  /\ Leave(t, PickRefusal(t))
  /\ UNCHANGED <<backend, req, slot, made, live, quota, seen, i, out, pick,
                 launched, disturbed, advert>>

(* Mutant: an execution returns after its selection. *)
Selected_NeverLaunches(t, s) ==
  /\ cs' = [cs EXCEPT ![t] = s]
  /\ pc' = [pc EXCEPT ![t] = "cleanup"]

(* The picker returned status s: an execution goes on exactly when it is     *)
(* SUCCESS, every other call is over.                                        *)
Selected(t, s) ==
  /\ cs' = [cs EXCEPT ![t] = s]
  /\ pc' = [pc EXCEPT ![t] = IF s = "SUCCESS" /\ req[t].kind = "exec"
                               THEN "check" ELSE "cleanup"]

(* ..GetSolutionCount *)
Count(t, ms) ==
  /\ pc[t] = "count"
  /\ PickRefusal(t) = "GO"
  /\ Disturb(t, ms)
  /\ LET n == Len(list[req[t].dir]) IN
       \/ /\ ms # "SUCCESS"
          /\ Selected(t, bridge_status(ms))
          /\ UNCHANGED quota
       \/ /\ ms = "SUCCESS" /\ n = 0
          /\ Leave(t, "NOT_SUPPORTED")
          /\ UNCHANGED quota
       \/ /\ ms = "SUCCESS" /\ n > 0
          /\ quota' = [quota EXCEPT ![t] = Min2(n, QueryCap)]
          /\ pc' = [pc EXCEPT ![t] = "get"]
          /\ UNCHANGED cs
  /\ UNCHANGED <<backend, req, slot, made, live, seen, i, out, pick, launched,
                 advert>>

(* calloc for the records fails. *)
NoMemory(t) ==
  /\ pc[t] = "get"
  /\ Leave(t, "ALLOC_FAILED")
  /\ disturbed' = [disturbed EXCEPT ![t] = TRUE]
  /\ UNCHANGED <<backend, req, slot, made, live, quota, seen, i, out, pick,
                 launched, advert>>

(* ..GetSolution: at most query_count records of the list as it is now. *)
Get(t, ms) ==
  /\ pc[t] = "get"
  /\ Disturb(t, ms)
  /\ IF ms = "SUCCESS"
       THEN /\ LET l == list[req[t].dir]
               IN  seen' = [seen EXCEPT ![t] = SubSeq(l, 1, Min2(quota[t], Len(l)))]
            /\ pc' = [pc EXCEPT ![t] = "scan"]
            /\ UNCHANGED cs
       ELSE /\ Selected(t, bridge_status(ms))
            /\ UNCHANGED seen
  /\ UNCHANGED <<backend, req, slot, made, live, quota, i, out, pick, launched,
                 advert>>

(* The scan is over: no record left, or the caller's array is full. *)
ScanOver(t) ==
  \/ i[t] > Len(seen[t])
  \/ ~Picks(t) /\ Len(out[t]) >= req[t].requested

Scanning(t) == pc[t] = "scan" /\ ~ScanOver(t)
Record(t) == seen[t][i[t]]

(* Mutant: the query publishes an algorithm again. *)
Wanted_Repeats(t) ==
  IF Picks(t)
    THEN Serves(req[t].dir, Record(t).family, req[t].algo)
    ELSE Publishable(req[t].dir, Record(t).family)

(* The record belongs to the algorithm asked for, or to a family the query   *)
(* has not published yet.                                                    *)
Wanted(t) ==
  IF Picks(t)
    THEN Serves(req[t].dir, Record(t).family, req[t].algo)
    ELSE /\ Publishable(req[t].dir, Record(t).family)
         /\ \A k \in 1 .. Len(out[t]) :
               out[t][k].algo # PublishedAs(req[t].dir, Record(t).family)

(* Mutant: the scan does not advance. *)
PassOver_Stuck(t) ==
  /\ Scanning(t)
  /\ ~Wanted(t)
  /\ UNCHANGED vars

PassOver(t) ==
  /\ Scanning(t)
  /\ ~Wanted(t)
  /\ i' = [i EXCEPT ![t] = @ + 1]
  /\ UNCHANGED <<backend, pc, req, slot, made, live, quota, seen, out, pick,
                 launched, cs, disturbed, advert>>

(* ..GetSolutionWorkspaceSize fails for the record, because it always does   *)
(* or this once: the record is not usable.                                   *)
Unusable(t) ==
  /\ Scanning(t)
  /\ Wanted(t)
  /\ Record(t).ok => QueryStatuses # {"SUCCESS"}
  /\ i' = [i EXCEPT ![t] = @ + 1]
  /\ disturbed' = [disturbed EXCEPT ![t] = @ \/ Record(t).ok]
  /\ UNCHANGED <<backend, pc, req, slot, made, live, quota, seen, out, pick,
                 launched, cs, advert>>

(* Mutant: the workspace of the record, not of the query for it. *)
Publish_ListedWorkspace(t) ==
  /\ Scanning(t)
  /\ ~Picks(t) /\ Wanted(t) /\ Record(t).ok
  /\ out' = [out EXCEPT ![t] =
               Append(@, [algo   |-> PublishedAs(req[t].dir, Record(t).family),
                          memory |-> Record(t).listed])]
  /\ i' = [i EXCEPT ![t] = @ + 1]
  /\ UNCHANGED <<backend, pc, req, slot, made, live, quota, seen, pick,
                 launched, cs, disturbed, advert>>

(* The query answers: the algorithm query publishes the record with the      *)
(* workspace just reported, a picker selects it and stops.                   *)
Publish(t) ==
  /\ Scanning(t)
  /\ ~Picks(t) /\ Wanted(t) /\ Record(t).ok
  /\ out' = [out EXCEPT ![t] =
               Append(@, [algo   |-> PublishedAs(req[t].dir, Record(t).family),
                          memory |-> Record(t).ws])]
  /\ i' = [i EXCEPT ![t] = @ + 1]
  /\ UNCHANGED <<backend, pc, req, slot, made, live, quota, seen, pick,
                 launched, cs, disturbed, advert>>

Select(t) ==
  /\ Scanning(t)
  /\ Picks(t) /\ Wanted(t) /\ Record(t).ok
  /\ pick' = [pick EXCEPT ![t] = Record(t)]
  /\ Selected(t, "SUCCESS")
  /\ UNCHANGED <<backend, req, slot, made, live, quota, seen, i, out, launched,
                 disturbed, advert>>

(* Mutant: an empty scan succeeds. *)
EndScan_DefaultSuccess(t) ==
  /\ pc[t] = "scan"
  /\ ScanOver(t)
  /\ Leave(t, "SUCCESS")
  /\ UNCHANGED <<backend, req, slot, made, live, quota, seen, i, out, pick,
                 launched, disturbed, advert>>

EndScan(t) ==
  /\ pc[t] = "scan"
  /\ ScanOver(t)
  /\ Leave(t, IF Len(out[t]) > 0 THEN "SUCCESS" ELSE "NOT_SUPPORTED")
  /\ UNCHANGED <<backend, req, slot, made, live, quota, seen, i, out, pick,
                 launched, disturbed, advert>>

-----------------------------------------------------------------------------
(* Mutant: a NULL workspace passes. *)
WorkspaceShort_SizeOnly(t) == pick[t].ws > req[t].given

(* The caller's workspace is too small, or there is none. *)
WorkspaceShort(t) ==
  \/ pick[t].ws > req[t].given
  \/ pick[t].ws > 0 /\ ~req[t].ptr

CheckWorkspace(t) ==
  /\ pc[t] = "check"
  /\ IF WorkspaceShort(t) THEN Leave(t, "BAD_PARAM")
       ELSE pc' = [pc EXCEPT ![t] = "launch"] /\ UNCHANGED cs
  /\ UNCHANGED <<backend, req, slot, made, live, quota, seen, i, out, pick,
                 launched, disturbed, advert>>

(* ..Immediate *)
Launch(t, ms) ==
  /\ pc[t] = "launch"
  /\ launched' = [launched EXCEPT ![t] = TRUE]
  /\ Disturb(t, ms)
  /\ Leave(t, bridge_status(ms))
  /\ UNCHANGED <<backend, req, slot, made, live, quota, seen, i, out, pick,
                 advert>>

(* done: free the records, destroy every non-NULL descriptor, return cs. *)
Cleanup(t) ==
  /\ pc[t] = "cleanup"
  /\ live' = [live EXCEPT ![t] = @ \ made[t]]
  /\ made' = [made EXCEPT ![t] = {}]
  /\ pc' = [pc EXCEPT ![t] = "idle"]
  /\ advert' = IF Picks(t) THEN advert
                ELSE [advert EXCEPT ![t] =
                       [dir   |-> req[t].dir,
                        clean |-> cs[t] = "SUCCESS" /\ ~disturbed[t],
                        perf  |-> out[t]]]
  /\ UNCHANGED <<backend, req, slot, quota, seen, i, out, pick, launched, cs,
                 disturbed>>

(* MIOpen re-orders or replaces its solutions (its databases are updated by  *)
(* other work on the machine): what was read before no longer describes it.  *)
BackendChanges ==
  /\ changes < MaxChanges
  /\ changes' = changes + 1
  /\ list' \in Lists
  /\ disturbed' = [t \in Threads |-> TRUE]
  /\ advert' = [t \in Threads |-> [advert[t] EXCEPT !.clean = FALSE]]
  /\ UNCHANGED <<pc, req, slot, made, live, quota, seen, i, out, pick, launched,
                 cs>>

(* What thread t does once its call has begun. *)
Proceed(t) ==
  \/ FilterTooWide(t)
  \/ \E ms \in MakeStatuses : Create(t, ms) \/ SetUp(t, ms)
  \/ RefuseSelection(t)
  \/ \E ms \in QueryStatuses : Count(t, ms) \/ Get(t, ms)
  \/ NoMemory(t)
  \/ PassOver(t) \/ Unusable(t) \/ Publish(t) \/ Select(t) \/ EndScan(t)
  \/ CheckWorkspace(t)
  \/ \E ms \in LaunchStatuses : Launch(t, ms)
  \/ Cleanup(t)

Next ==
  \/ \E t \in Threads :
        \/ \E r \in Requests : Reject(t, r) \/ Call(t, r)
        \/ Proceed(t)
  \/ BackendChanges

(* A call is straight-line C that runs until it returns: its thread is       *)
(* scheduled and MIOpen's functions return.                                  *)
Fairness == \A t \in Threads : WF_vars(Proceed(t))

Spec == Init /\ [][Next]_vars /\ Fairness

-----------------------------------------------------------------------------
TypeOK ==
  /\ list \in Lists
  /\ changes \in 0 .. MaxChanges
  /\ pc \in [Threads -> {"idle", "make", "set", "count", "get", "scan", "check",
                         "launch", "cleanup"}]
  /\ req \in [Threads -> Requests]
  /\ slot \in [Threads -> Slots]
  /\ made \in [Threads -> SUBSET Slots]
  /\ live \in [Threads -> SUBSET Slots]
  /\ quota \in [Threads -> Nat]
  /\ seen \in [Threads -> Seq(Solution)]
  /\ i \in [Threads -> Nat \ {0}]
  /\ out \in [Threads -> Seq(PerfResult)]
  /\ pick \in [Threads -> Solution]
  /\ launched \in [Threads -> BOOLEAN]
  /\ cs \in [Threads -> CudnnStatus]
  /\ disturbed \in [Threads -> BOOLEAN]
  /\ advert \in [Threads -> [dir : Dirs, clean : BOOLEAN,
                              perf : Seq(PerfResult)]]

(* Whatever call fails and wherever, the function that returns has destroyed *)
(* each MIOpen descriptor it created, and its non-NULL pointers never point  *)
(* to a destroyed one (every "goto done" path and the failure paths inside   *)
(* the make helpers).                                                        *)
DescriptorsBalanced ==
  \A t \in Threads : /\ made[t] \subseteq live[t]
                     /\ pc[t] = "idle" => live[t] = {}

(* A solver is launched only with all four descriptors, with a family that   *)
(* serves the algorithm the caller named, and with a workspace that covers   *)
(* what MIOpen reports for that very solver.                                 *)
LaunchHonoursRequest ==
  \A t \in Threads : pc[t] = "launch" =>
     /\ made[t] = Slots
     /\ Serves(req[t].dir, pick[t].family, req[t].algo)
     /\ pick[t].ws <= req[t].given
     /\ pick[t].ws > 0 => req[t].ptr

(* docs/CUDNN_BRIDGE.md, "Exact solver/workspace binding", step 6: execute   *)
(* the selected MIOpen solution.  No Immediate call with the initial         *)
(* solution id 0 that no query returned.                                     *)
LaunchIsSelected ==
  \A t \in Threads : launched[t] => pick[t] # Unselected

(* A call whose shapes were accepted is a convolution: in both directions    *)
(* the output has one element for each position of the filter.  The one      *)
(* exception is C's division: a filter that overhangs the padded input by    *)
(* less than the stride is accepted with an output of one element.           *)
AcceptedIsConvolution ==
  \A t \in Threads : pc[t] # "idle" =>
     \A s \in Spatial :
        req[t].g.y.dims[s + 2] =
          IF Overhangs(req[t].g, s) THEN 1 ELSE Cardinality(Positions(req[t].g, s))

(* SUCCESS is never returned for work that was not done: an execution has    *)
(* launched a solver, an algorithm query has results to show, a workspace    *)
(* query has selected the solver whose size it wrote.                        *)
SuccessIsEarned ==
  \A t \in Threads :
     (pc[t] = "idle" /\ cs[t] = "SUCCESS" /\ EntryStatus(req[t]) = "GO") =>
        CASE req[t].kind = "exec" -> launched[t]
          [] req[t].kind = "v7"   -> out[t] # <<>>
          [] OTHER                -> pick[t] # Unselected

(* An algorithm query returns each family once, no more entries than asked   *)
(* for, and never more than the ..MaxCount entry point announces.            *)
AdvertsWellFormed ==
  \A t \in Threads :
     /\ \A j, k \in DOMAIN out[t] : out[t][j].algo = out[t][k].algo => j = k
     /\ Len(out[t]) <= AlgorithmMaxCount(req[t].dir)
     /\ out[t] # <<>> => Len(out[t]) <= req[t].requested

(* Between undisturbed calls what was advertised holds: for an algorithm the *)
(* query published, the workspace query reports the published memory, and an *)
(* execution given that much memory does launch.  The two run different      *)
(* code: the query unmaps families and drops duplicates, the pickers search. *)
AdvertisedRuns ==
  \A t \in Threads :
     ( /\ pc[t] = "cleanup" /\ Picks(t) /\ ~disturbed[t]
       /\ bridge_contiguous_strides(req[t].g.w) /\ advert[t].clean /\ advert[t].dir = req[t].dir )
     => \A k \in DOMAIN advert[t].perf :
          LET e == advert[t].perf[k] IN
          e.algo = req[t].algo =>
            /\ pick[t] # Unselected /\ pick[t].ws = e.memory
            /\ ( /\ req[t].kind = "exec" /\ req[t].given >= e.memory
                 /\ e.memory > 0 => req[t].ptr ) => launched[t]

(* Every call returns, whatever fails on its way. *)
CallsReturn == \A t \in Threads : pc[t] # "idle" ~> pc[t] = "idle"

-----------------------------------------------------------------------------
(* The abstract contract, read off the detailed state. *)
Phase(t)  == CASE pc[t] = "idle" -> "idle"
               [] pc[t] # "idle" /\ launched[t] -> "launched"
               [] OTHER -> "open"
Wants(t)  == IF req[t].kind = "exec" THEN "run" ELSE "ask"
Answer(t) == IF pc[t] = "idle" THEN cs[t] ELSE "PENDING"

Contract == INSTANCE ConvContract WITH
  phase  <- [t \in Threads |-> Phase(t)],
  wants  <- [t \in Threads |-> Wants(t)],
  answer <- [t \in Threads |-> Answer(t)],
  held   <- {t \in Threads : live[t] # {}}

(* The entry points keep the contract of module ConvContract. *)
KeepsContract == Contract!ContractSpec
=============================================================================
