-------------------------- MODULE ConvAdverts_proofs --------------------------
(***************************************************************************)
(* What the algorithm queries of the bridge publish, and that the pickers, *)
(* which are other code, keep it: proofs about module BridgeConv for any   *)
(* number of threads, any set of calls, any catalog of solutions.          *)
(***************************************************************************)
EXTENDS BridgeConv_proofs

(* The records a call reads when MIOpen's list is the present one. *)
Readable(d) == SubSeq(list[d], 1, Min2(QueryCap, Len(list[d])))

(* The positions of the usable records among them that serve algorithm a. *)
Serving(d, a) ==
  {n \in 1 .. Len(Readable(d)) :
     Readable(d)[n].ok /\ Serves(d, Readable(d)[n].family, a)}

First(S, n) == n \in S /\ \A m \in S : n <= m

(* The names under which direction d publishes its families. *)
Published(d) == {PublishedAs(d, f) : f \in DOMAIN Unmap(d)}

(* Entry e describes the record a picker would find for its algorithm. *)
Advertised(d, e) ==
  /\ e.algo \in Published(d)
  /\ \E n \in 1 .. Len(Readable(d)) :
        First(Serving(d, e.algo), n) /\ Readable(d)[n].ws = e.memory

(* The picker of t has found the record the query would have described. *)
PickedFirst(t) ==
  \E n \in 1 .. Len(Readable(req[t].dir)) :
     First(Serving(req[t].dir, req[t].algo), n) /\ pick[t] = Readable(req[t].dir)[n]

-----------------------------------------------------------------------------
(* The invariant, for one thread t, while nothing has disturbed its call.    *)
(* Its descriptors are made one after the other.                             *)
Making(t) ==
  (pc[t] # "idle" /\ ~disturbed[t] /\ bridge_contiguous_strides(req[t].g.w)) =>
    /\ pc[t] = "make"  => made[t] = 1 .. slot[t] - 1
    /\ pc[t] = "set"   => made[t] = 1 .. slot[t]
    /\ pc[t] = "count" => made[t] = Slots

(* What it has read is what MIOpen holds. *)
Reading(t) ==
  ~disturbed[t] =>
    /\ pc[t] = "get"  => quota[t] = Min2(Len(list[req[t].dir]), QueryCap)
    /\ pc[t] = "scan" => seen[t] = Readable(req[t].dir)

(* Before the scan nothing has been looked at or published. *)
Fresh(t) ==
  pc[t] \in {"make", "set", "count", "get"} => i[t] = 1 /\ out[t] = <<>>

(* A picker has passed no record that serves, a query none that it could     *)
(* have published and did not.                                               *)
Scanned(t) ==
  (~disturbed[t] /\ pc[t] = "scan") =>
    /\ Picks(t) => \A m \in Serving(req[t].dir, req[t].algo) : i[t] <= m
    /\ ~Picks(t) => \A m \in 1 .. i[t] - 1 :
         (seen[t][m].ok /\ Publishable(req[t].dir, seen[t][m].family)) =>
            \E k \in DOMAIN out[t] :
               out[t][k].algo = PublishedAs(req[t].dir, seen[t][m].family)

Publishing(t) ==
  (~disturbed[t] /\ ~Picks(t) /\ pc[t] # "idle") =>
     \A k \in DOMAIN out[t] : Advertised(req[t].dir, out[t][k])

(* Where a picker's call ends. *)
Settled(t) ==
  (pc[t] # "idle" /\ ~disturbed[t] /\ Picks(t) /\ bridge_contiguous_strides(req[t].g.w)) =>
    /\ pc[t] \in {"check", "launch"} => PickedFirst(t)
    /\ pc[t] = "cleanup" =>
         \/ Serving(req[t].dir, req[t].algo) = {}
         \/ /\ PickedFirst(t)
            /\ req[t].kind = "exec" => launched[t] \/ WorkspaceShort(t)

(* What was published holds while MIOpen's lists are still those. *)
Kept(t) ==
  advert[t].clean =>
     \A k \in DOMAIN advert[t].perf : Advertised(advert[t].dir, advert[t].perf[k])

Promised(t) ==
  Making(t) /\ Reading(t) /\ Fresh(t) /\ Scanned(t) /\ Publishing(t) /\ Settled(t) /\ Kept(t)

(* The shape of an answer, disturbed or not. *)
Distinct(t) ==
  /\ \A j, k \in DOMAIN out[t] : out[t][j].algo = out[t][k].algo => j = k
  /\ \A k \in DOMAIN out[t] : out[t][k].algo \in Published(req[t].dir)
  /\ out[t] # <<>> => Len(out[t]) <= req[t].requested

-----------------------------------------------------------------------------
(* What a step leaves alone.                                                 *)
Beside(u) == <<slot[u], disturbed[u], advert[u]>>

LEMMA OthersBeside ==
  ASSUME TypeOK, NEW t \in Threads, NEW u \in Threads, u # t, Acts(t)
  PROVE  Beside(u)' = Beside(u)
<1>1. ASSUME NEW r \in Requests, Reject(t, r) \/ Call(t, r)
      PROVE  Beside(u)' = Beside(u)
  BY <1>1 DEF TypeOK, Beside, Reject, Call, Prologue
<1>2. ASSUME NEW ms \in MakeStatuses, Create(t, ms) \/ SetUp(t, ms)
      PROVE  Beside(u)' = Beside(u)
  BY <1>2 DEF TypeOK, Beside, Create, SetUp, MakeReturns, NextSlot, Leave, Disturb
<1>3. ASSUME NEW ms \in QueryStatuses, Count(t, ms) \/ Get(t, ms)
      PROVE  Beside(u)' = Beside(u)
  BY <1>3 DEF TypeOK, Beside, Count, Get, Disturb
<1>4. CASE \/ FilterTooWide(t) \/ RefuseSelection(t) \/ NoMemory(t) \/ PassOver(t)
           \/ Unusable(t) \/ Publish(t) \/ Select(t) \/ EndScan(t) \/ CheckWorkspace(t)
  BY <1>4
     DEF TypeOK, Beside, FilterTooWide, RefuseSelection, NoMemory, PassOver, Unusable,
         Publish, Select, EndScan, CheckWorkspace
<1>5. ASSUME NEW ms \in LaunchStatuses, Launch(t, ms)
      PROVE  Beside(u)' = Beside(u)
  BY <1>5 DEF TypeOK, Beside, Launch, Disturb
<1>6. CASE Cleanup(t)
  BY <1>6 DEF TypeOK, Beside, Cleanup
<1>7. QED
  BY <1>1, <1>2, <1>3, <1>4, <1>5, <1>6 DEF Acts, Proceed

LEMMA ListsKept ==
  ASSUME NEW t \in Threads, Acts(t)
  PROVE  list' = list
BY DEF Acts, Proceed, Reject, Call, FilterTooWide, Create, SetUp, RefuseSelection, Count,
       Get, NoMemory, PassOver, Unusable, Publish, Select, EndScan, CheckWorkspace, Launch,
       Cleanup, backend

(* What the lists determine stays while they stay. *)
LEMMA SameLists ==
  ASSUME list' = list
  PROVE  /\ \A d : Readable(d)' = Readable(d)
         /\ \A d, a : Serving(d, a)' = Serving(d, a)
         /\ \A d, e : Advertised(d, e)' = Advertised(d, e)
BY DEF Readable, Serving, Advertised, First

LEMMA PromisedKept ==
  ASSUME NEW u \in Threads, Promised(u), list' = list,
         Own(u)' = Own(u), Beside(u)' = Beside(u)
  PROVE  Promised(u)'
<1>1. UNCHANGED <<pc[u], req[u], made[u], quota[u], seen[u], i[u], out[u], pick[u],
                  launched[u], slot[u], disturbed[u], advert[u]>>
  BY DEF Own, Beside
<1> USE <1>1, SameLists DEF Promised
<1>2. Making(u)'
  BY DEF Making
<1>3. Reading(u)'
  BY DEF Reading
<1>4. Fresh(u)' /\ Scanned(u)'
  BY DEF Fresh, Scanned, Picks
<1>5. Publishing(u)'
  BY DEF Publishing, Picks
<1>6. Settled(u)'
  BY DEF Settled, Picks, PickedFirst, First, WorkspaceShort
<1>7. Kept(u)'
  BY DEF Kept
<1>8. QED
  BY <1>2, <1>3, <1>4, <1>5, <1>6, <1>7

(* A change of the lists takes every promise back. *)
LEMMA PromisedVoid ==
  ASSUME TypeOK, NEW u \in Threads, Promised(u), BackendChanges
  PROVE  Promised(u)'
<1>1. disturbed'[u] = TRUE
  BY DEF BackendChanges
<1>2. advert'[u].clean = FALSE
  BY DEF BackendChanges, TypeOK
<1>3. QED
  BY <1>1, <1>2
     DEF Promised, Making, Reading, Fresh, Scanned, Publishing, Settled, Kept,
         BackendChanges

-----------------------------------------------------------------------------
LEMMA MakingStep ==
  ASSUME TypeOK, NEW t \in Threads, Balance(t), Making(t), Acts(t)
  PROVE  Making(t)'
<1>1. ASSUME NEW r \in Requests, Reject(t, r) \/ Call(t, r)
      PROVE  Making(t)'
  <2>1. pc'[t] \in {"idle", "make"} /\ made'[t] = {} /\ slot'[t] = 1
    BY <1>1 DEF TypeOK, Reject, Call, Prologue, Balance
  <2>2. QED
    BY <2>1 DEF Making
<1>2. ASSUME NEW ms \in MakeStatuses, Create(t, ms)
      PROVE  Making(t)'
  <2>1. CASE ms # "SUCCESS"
    BY <1>2, <2>1 DEF Create, Disturb, TypeOK, Making
  <2>2. CASE ms = "SUCCESS"
    <3>1. /\ pc[t] = "make" /\ pc'[t] = "set" /\ made'[t] = made[t] \union {slot[t]}
          /\ disturbed'[t] = disturbed[t] /\ slot'[t] = slot[t] /\ req' = req
      BY <1>2, <2>2 DEF Create, Disturb, TypeOK
    <3>2. slot[t] \in 1 .. 4
      BY DEF TypeOK, Slots
    <3>3. QED
      BY <3>1, <3>2 DEF Making
  <2>3. QED
    BY <2>1, <2>2
<1>3. ASSUME NEW ms \in MakeStatuses, SetUp(t, ms)
      PROVE  Making(t)'
  <2>1. CASE ms # "SUCCESS"
    BY <1>3, <2>1 DEF SetUp, Disturb, TypeOK, Making
  <2>2. CASE ms = "SUCCESS"
    <3>1. slot[t] \in 1 .. 4
      BY DEF TypeOK, Slots
    <3>2. /\ pc[t] = "set" /\ made'[t] = made[t] /\ req' = req
          /\ disturbed'[t] = disturbed[t]
          /\ \/ slot[t] = 4 /\ pc'[t] = "count"
             \/ slot[t] < 4 /\ pc'[t] = "make" /\ slot'[t] = slot[t] + 1
      BY <1>3, <2>2, <3>1 DEF SetUp, Disturb, NextSlot, Min2, TypeOK
    <3>3. QED
      BY <3>1, <3>2 DEF Making, Slots
  <2>3. QED
    BY <2>1, <2>2
<1>4. ASSUME NEW ms \in QueryStatuses, Count(t, ms) \/ Get(t, ms)
      PROVE  Making(t)'
  <2>1. pc'[t] \notin {"make", "set", "count"}
    BY <1>4 DEF TypeOK, Count, Get, Selected, Leave
  <2>2. QED
    BY <2>1 DEF Making
<1>5. CASE \/ FilterTooWide(t) \/ RefuseSelection(t) \/ NoMemory(t) \/ PassOver(t)
           \/ Unusable(t) \/ Publish(t) \/ Select(t) \/ EndScan(t) \/ CheckWorkspace(t)
           \/ Cleanup(t)
  <2>1. pc'[t] \notin {"make", "set", "count"}
    BY <1>5
       DEF TypeOK, FilterTooWide, RefuseSelection, NoMemory, PassOver, Unusable, Publish,
           Select, EndScan, CheckWorkspace, Cleanup, Leave, Selected, Scanning
  <2>2. QED
    BY <2>1 DEF Making
<1>6. ASSUME NEW ms \in LaunchStatuses, Launch(t, ms)
      PROVE  Making(t)'
  BY <1>6 DEF TypeOK, Launch, Leave, Making
<1>7. QED
  BY <1>1, <1>2, <1>3, <1>4, <1>5, <1>6 DEF Acts, Proceed

LEMMA ReadingStep ==
  ASSUME TypeOK, NEW t \in Threads, Reading(t), Acts(t)
  PROVE  Reading(t)'
<1>1. ASSUME NEW r \in Requests, Reject(t, r) \/ Call(t, r)
      PROVE  Reading(t)'
  BY <1>1 DEF TypeOK, Reject, Call, Reading
<1>2. ASSUME NEW ms \in MakeStatuses, Create(t, ms) \/ SetUp(t, ms)
      PROVE  Reading(t)'
  <2>1. pc'[t] \notin {"get", "scan"}
    BY <1>2 DEF TypeOK, Create, SetUp, MakeReturns, NextSlot, Leave
  <2>2. QED
    BY <2>1 DEF Reading
<1>3. ASSUME NEW ms \in QueryStatuses, Count(t, ms)
      PROVE  Reading(t)'
  <2>1. \/ pc'[t] \notin {"get", "scan"}
        \/ pc'[t] = "get" /\ quota'[t] = Min2(Len(list[req[t].dir]), QueryCap)
    BY <1>3 DEF TypeOK, Count, Selected, Leave
  <2>2. req' = req /\ list' = list
    BY <1>3 DEF Count, backend
  <2>3. QED
    BY <2>1, <2>2 DEF Reading
<1>4. ASSUME NEW ms \in QueryStatuses, Get(t, ms)
      PROVE  Reading(t)'
  <2> DEFINE l == list[req[t].dir]
  <2>1. CASE ms # "SUCCESS"
    BY <1>4, <2>1 DEF Get, Disturb, TypeOK, Reading
  <2>2. CASE ms = "SUCCESS"
    <3>1. /\ pc[t] = "get" /\ pc'[t] = "scan"
          /\ seen'[t] = SubSeq(l, 1, Min2(quota[t], Len(l)))
          /\ disturbed'[t] = disturbed[t] /\ req' = req /\ list' = list
      BY <1>4, <2>2 DEF Get, Disturb, TypeOK, backend
    <3>2. Min2(Min2(Len(l), QueryCap), Len(l)) = Min2(QueryCap, Len(l))
      <4>1. Len(l) \in Nat
        BY RequestType, ListType
      <4>2. QED
        BY <4>1, ConstantsAssumption DEF Min2
    <3>3. ~disturbed[t] => seen'[t] = Readable(req[t].dir)
      BY <3>1, <3>2 DEF Reading, Readable
    <3>4. QED
      BY <3>1, <3>3, SameLists DEF Reading
  <2>3. QED
    BY <2>1, <2>2
<1>5. CASE PassOver(t) \/ Unusable(t) \/ Publish(t)
  <2>1. /\ UNCHANGED <<pc, req, seen, list>> /\ pc[t] = "scan"
        /\ disturbed[t] => disturbed'[t]
    BY <1>5 DEF PassOver, Unusable, Publish, Scanning, TypeOK, backend
  <2>2. QED
    BY <2>1, SameLists DEF Reading
<1>6. CASE \/ FilterTooWide(t) \/ RefuseSelection(t) \/ NoMemory(t) \/ Select(t)
           \/ EndScan(t) \/ CheckWorkspace(t) \/ Cleanup(t)
  <2>1. pc'[t] \notin {"get", "scan"}
    BY <1>6
       DEF TypeOK, FilterTooWide, RefuseSelection, NoMemory, Select, EndScan,
           CheckWorkspace, Cleanup, Leave, Selected
  <2>2. QED
    BY <2>1 DEF Reading
<1>7. ASSUME NEW ms \in LaunchStatuses, Launch(t, ms)
      PROVE  Reading(t)'
  BY <1>7 DEF TypeOK, Launch, Leave, Reading
<1>8. QED
  BY <1>1, <1>2, <1>3, <1>4, <1>5, <1>6, <1>7 DEF Acts, Proceed

LEMMA FreshStep ==
  ASSUME TypeOK, NEW t \in Threads, Fresh(t), Acts(t)
  PROVE  Fresh(t)'
<1>1. ASSUME NEW r \in Requests, Reject(t, r) \/ Call(t, r)
      PROVE  Fresh(t)'
  BY <1>1 DEF TypeOK, Reject, Call, Prologue, Fresh
<1>2. ASSUME NEW ms \in MakeStatuses, Create(t, ms) \/ SetUp(t, ms)
      PROVE  Fresh(t)'
  <2>1. pc[t] \in {"make", "set"} /\ UNCHANGED <<i, out>>
    BY <1>2 DEF Create, SetUp
  <2>2. QED
    BY <2>1 DEF Fresh
<1>3. ASSUME NEW ms \in QueryStatuses, Count(t, ms) \/ Get(t, ms)
      PROVE  Fresh(t)'
  <2>1. pc[t] \in {"count", "get"} /\ UNCHANGED <<i, out>>
    BY <1>3 DEF Count, Get
  <2>2. QED
    BY <2>1 DEF Fresh
<1>4. CASE \/ FilterTooWide(t) \/ RefuseSelection(t) \/ NoMemory(t) \/ PassOver(t)
           \/ Unusable(t) \/ Publish(t) \/ Select(t) \/ EndScan(t) \/ CheckWorkspace(t)
           \/ Cleanup(t)
  <2>1. pc'[t] \notin {"make", "set", "count", "get"}
    BY <1>4
       DEF TypeOK, FilterTooWide, RefuseSelection, NoMemory, PassOver, Unusable, Publish,
           Select, EndScan, CheckWorkspace, Cleanup, Leave, Selected, Scanning
  <2>2. QED
    BY <2>1 DEF Fresh
<1>5. ASSUME NEW ms \in LaunchStatuses, Launch(t, ms)
      PROVE  Fresh(t)'
  BY <1>5 DEF TypeOK, Launch, Leave, Fresh
<1>6. QED
  BY <1>1, <1>2, <1>3, <1>4, <1>5 DEF Acts, Proceed

(* Two different pieces of code agree: a record serves an algorithm that is  *)
(* published at all exactly when it is published under that name.            *)
LEMMA ServesIsPublished ==
  ASSUME NEW d \in Dirs, NEW f \in Families, NEW a \in Published(d)
  PROVE  Serves(d, f, a) <=> Publishable(d, f) /\ PublishedAs(d, f) = a
<1>1. CASE d = "fwd"
  <2>1. Published(d) = {"GEMM", "DIRECT", "FFT", "WINOGRAD", "IMPLICIT_GEMM"}
    BY <1>1 DEF Published, PublishedAs, Unmap, bridge_unmap_algo
  <2>2. QED
    BY <1>1, <2>1
       DEF Serves, Publishable, PublishedAs, Unmap, bridge_unmap_algo, bridge_map_algo,
           Families
<1>2. CASE d # "fwd"
  BY <1>2 DEF Serves
<1>3. QED
  BY <1>1, <1>2

LEMMA ReadableType ==
  ASSUME TypeOK, NEW d \in Dirs
  PROVE  /\ Readable(d) \in Seq(Solution)
         /\ Len(Readable(d)) \in Nat
         /\ Len(list[d]) = 0 => Len(Readable(d)) = 0
<1>1. list[d] \in Seq(Solution) /\ Len(list[d]) \in Nat
  BY ListType
<1>2. Min2(QueryCap, Len(list[d])) \in 0 .. Len(list[d])
  BY <1>1, ConstantsAssumption DEF Min2
<1>3. Readable(d) \in Seq(Solution) /\ Len(Readable(d)) = Min2(QueryCap, Len(list[d]))
  BY <1>1, <1>2 DEF Readable
<1>4. QED
  BY <1>1, <1>2, <1>3

(* The record at hand in an undisturbed scan. *)
LEMMA ScanningRecord ==
  ASSUME TypeOK, NEW t \in Threads, Scanning(t)
  PROVE  /\ Record(t) \in Solution /\ Record(t) = seen[t][i[t]]
         /\ i[t] \in 1 .. Len(seen[t]) /\ Len(seen[t]) \in Nat
         /\ req[t].dir \in Dirs
BY RecordType, RequestType DEF Record, TypeOK

LEMMA ScannedStep ==
  ASSUME TypeOK, NEW t \in Threads, Reading(t), Fresh(t), Scanned(t), Acts(t)
  PROVE  Scanned(t)'
<1>1. ASSUME NEW r \in Requests, Reject(t, r) \/ Call(t, r)
      PROVE  Scanned(t)'
  BY <1>1 DEF TypeOK, Reject, Call, Scanned
<1>2. ASSUME NEW ms \in MakeStatuses, Create(t, ms) \/ SetUp(t, ms)
      PROVE  Scanned(t)'
  <2>1. pc'[t] # "scan"
    BY <1>2 DEF TypeOK, Create, SetUp, MakeReturns, NextSlot, Leave
  <2>2. QED
    BY <2>1 DEF Scanned
<1>3. ASSUME NEW ms \in QueryStatuses, Count(t, ms)
      PROVE  Scanned(t)'
  BY <1>3 DEF TypeOK, Count, Selected, Leave, Scanned
<1>4. ASSUME NEW ms \in QueryStatuses, Get(t, ms)
      PROVE  Scanned(t)'
  <2>1. i'[t] = 1
    BY <1>4 DEF Get, Fresh
  <2>2. \A m \in Serving(req[t].dir, req[t].algo)' : 1 <= m
    BY DEF Serving
  <2>3. QED
    BY <2>1, <2>2, <1>4 DEF Get, Scanned, Serving
<1>5. ASSUME Scanning(t), UNCHANGED <<req, seen, pc, list>>, i'[t] = i[t] + 1,
             disturbed[t] => disturbed'[t],
             \A k \in DOMAIN out[t] : k \in DOMAIN out'[t] /\ out'[t][k] = out[t][k],
             ~disturbed'[t] =>
                /\ Picks(t) => ~(Record(t).ok
                                   /\ Serves(req[t].dir, Record(t).family, req[t].algo))
                /\ (~Picks(t) /\ Record(t).ok /\ Publishable(req[t].dir, Record(t).family))
                     => \E k \in DOMAIN out'[t] :
                          out'[t][k].algo = PublishedAs(req[t].dir, Record(t).family)
      PROVE  Scanned(t)'
  <2>1. /\ i[t] \in 1 .. Len(seen[t]) /\ Record(t) = seen[t][i[t]] /\ Len(seen[t]) \in Nat
        /\ pc[t] = "scan" /\ Picks(t)' = Picks(t)
    BY <1>5, ScanningRecord DEF Scanning, Picks
  <2>2. SUFFICES ASSUME ~disturbed'[t]
                 PROVE  /\ Picks(t) => \A m \in Serving(req[t].dir, req[t].algo) : i[t] + 1 <= m
                        /\ ~Picks(t) => \A m \in 1 .. i[t] :
                             (seen[t][m].ok /\ Publishable(req[t].dir, seen[t][m].family)) =>
                                \E k \in DOMAIN out'[t] :
                                   out'[t][k].algo = PublishedAs(req[t].dir, seen[t][m].family)
    BY <1>5, <2>1, SameLists DEF Scanned
  <2>3. ASSUME Picks(t), NEW m \in Serving(req[t].dir, req[t].algo)
        PROVE  i[t] + 1 <= m
    <3>1. i[t] <= m /\ m \in Nat
      BY <1>5, <2>1, <2>2, <2>3 DEF Scanned, Serving
    <3>2. m # i[t]
      BY <1>5, <2>1, <2>2, <2>3 DEF Reading, Serving
    <3>3. QED
      BY <2>1, <3>1, <3>2
  <2>4. ASSUME ~Picks(t), NEW m \in 1 .. i[t], seen[t][m].ok,
               Publishable(req[t].dir, seen[t][m].family)
        PROVE  \E k \in DOMAIN out'[t] :
                  out'[t][k].algo = PublishedAs(req[t].dir, seen[t][m].family)
    <3>1. CASE m = i[t]
      BY <1>5, <2>1, <2>2, <2>4, <3>1
    <3>2. CASE m # i[t]
      <4>1. m \in 1 .. i[t] - 1
        BY <2>1, <3>2
      <4>2. PICK k \in DOMAIN out[t] :
                   out[t][k].algo = PublishedAs(req[t].dir, seen[t][m].family)
        BY <1>5, <2>1, <2>2, <2>4, <4>1 DEF Scanned
      <4>3. QED
        BY <1>5, <4>2
    <3>3. QED
      BY <3>1, <3>2
  <2>5. QED
    BY <2>3, <2>4
<1>6. CASE PassOver(t)
  <2>1. /\ Scanning(t) /\ UNCHANGED <<req, seen, pc, list, out, disturbed>>
        /\ i'[t] = i[t] + 1 /\ ~Wanted(t)
    BY <1>6 DEF PassOver, TypeOK, backend
  <2>2. /\ Picks(t) => ~Serves(req[t].dir, Record(t).family, req[t].algo)
        /\ (~Picks(t) /\ Publishable(req[t].dir, Record(t).family)) =>
             \E k \in DOMAIN out[t] :
                out[t][k].algo = PublishedAs(req[t].dir, Record(t).family)
    <3>1. out[t] \in Seq(PerfResult)
      BY DEF TypeOK
    <3>2. QED
      BY <2>1, <3>1 DEF Wanted
  <2>3. QED
    BY <1>5, <2>1, <2>2
<1>7. CASE Unusable(t)
  <2>1. /\ Scanning(t) /\ UNCHANGED <<req, seen, pc, list, out>>
        /\ i'[t] = i[t] + 1 /\ disturbed'[t] = (disturbed[t] \/ Record(t).ok)
    BY <1>7 DEF Unusable, TypeOK, backend
  <2>2. QED
    BY <1>5, <2>1
<1>8. CASE Publish(t)
  <2> DEFINE e == [algo   |-> PublishedAs(req[t].dir, Record(t).family),
                   memory |-> Record(t).ws]
  <2>1. /\ Scanning(t) /\ UNCHANGED <<req, seen, pc, list, disturbed>>
        /\ i'[t] = i[t] + 1 /\ ~Picks(t) /\ out'[t] = Append(out[t], e)
    BY <1>8 DEF Publish, TypeOK, backend
  <2>2. out[t] \in Seq(PerfResult)
    BY DEF TypeOK
  <2>3. /\ \A k \in DOMAIN out[t] : k \in DOMAIN out'[t] /\ out'[t][k] = out[t][k]
        /\ Len(out[t]) + 1 \in DOMAIN out'[t] /\ out'[t][Len(out[t]) + 1] = e
    <3> HIDE DEF e
    <3>1. QED
      BY <2>1, <2>2
  <2>4. e.algo = PublishedAs(req[t].dir, Record(t).family)
    OBVIOUS
  <2>5. QED
    <3> HIDE DEF e
    <3>1. QED
      BY <1>5, <2>1, <2>3, <2>4
<1>9. CASE \/ FilterTooWide(t) \/ RefuseSelection(t) \/ NoMemory(t) \/ Select(t)
           \/ EndScan(t) \/ CheckWorkspace(t) \/ Cleanup(t)
  <2>1. pc'[t] # "scan"
    BY <1>9
       DEF TypeOK, FilterTooWide, RefuseSelection, NoMemory, Select, EndScan,
           CheckWorkspace, Cleanup, Leave, Selected
  <2>2. QED
    BY <2>1 DEF Scanned
<1>10. ASSUME NEW ms \in LaunchStatuses, Launch(t, ms)
       PROVE  Scanned(t)'
  BY <1>10 DEF TypeOK, Launch, Leave, Scanned
<1>11. QED
  BY <1>1, <1>2, <1>3, <1>4, <1>6, <1>7, <1>8, <1>9, <1>10 DEF Acts, Proceed

(* What the query publishes is the first record a picker would find.         *)
LEMMA PublishedIsFirst ==
  ASSUME TypeOK, NEW t \in Threads, Reading(t), Scanned(t), ~disturbed[t],
         Scanning(t), ~Picks(t), Wanted(t), Record(t).ok
  PROVE  Advertised(req[t].dir, [algo   |-> PublishedAs(req[t].dir, Record(t).family),
                                 memory |-> Record(t).ws])
<1> DEFINE d == req[t].dir
           a == PublishedAs(d, Record(t).family)
           S == Serving(d, a)
<1>1. /\ d \in Dirs /\ i[t] \in 1 .. Len(seen[t]) /\ Record(t) = seen[t][i[t]]
      /\ Record(t) \in Solution /\ Len(seen[t]) \in Nat /\ pc[t] = "scan"
  BY ScanningRecord DEF Scanning
<1>2. seen[t] = Readable(d)
  BY <1>1 DEF Reading
<1>3. Publishable(d, Record(t).family) /\ \A k \in DOMAIN out[t] : out[t][k].algo # a
  <2>1. out[t] \in Seq(PerfResult)
    BY DEF TypeOK
  <2>2. QED
    BY <2>1 DEF Wanted
<1>4. a \in Published(d)
  BY <1>3 DEF Published, Publishable
<1>5. \A f \in Families : Serves(d, f, a) <=> Publishable(d, f) /\ PublishedAs(d, f) = a
  BY <1>1, <1>4, ServesIsPublished
<1>6. i[t] \in S
  BY <1>1, <1>2, <1>3, <1>5 DEF Serving, Solution
<1>7. ASSUME NEW m \in S
      PROVE  i[t] <= m
  <2>1. /\ m \in 1 .. Len(seen[t]) /\ seen[t][m].ok /\ seen[t][m].family \in Families
        /\ Serves(d, seen[t][m].family, a)
    <3>1. seen[t] \in Seq(Solution)
      BY DEF TypeOK
    <3>2. /\ m \in 1 .. Len(seen[t]) /\ seen[t][m].ok
          /\ Serves(d, seen[t][m].family, a)
      BY <1>2, <1>7 DEF Serving
    <3>3. seen[t][m] \in Solution
      BY <3>1, <3>2
    <3>4. QED
      BY <3>2, <3>3 DEF Solution
  <2>2. Publishable(d, seen[t][m].family) /\ PublishedAs(d, seen[t][m].family) = a
    BY <1>5, <2>1
  <2>3. CASE m \in 1 .. i[t] - 1
    <3>1. \E k \in DOMAIN out[t] : out[t][k].algo = a
      BY <1>1, <2>1, <2>2, <2>3 DEF Scanned
    <3>2. QED
      BY <1>3, <3>1
  <2>4. QED
    BY <1>1, <2>1, <2>3
<1>8. First(S, i[t])
  BY <1>6, <1>7 DEF First
<1> HIDE DEF a, S
<1>9. /\ [algo |-> a, memory |-> Record(t).ws].algo = a
      /\ [algo |-> a, memory |-> Record(t).ws].memory = Record(t).ws
  OBVIOUS
<1>10. Advertised(d, [algo |-> a, memory |-> Record(t).ws])
  BY <1>1, <1>2, <1>4, <1>8, <1>9 DEF Advertised, S
<1>11. QED
  BY <1>10 DEF a

LEMMA PublishingStep ==
  ASSUME TypeOK, NEW t \in Threads, Reading(t), Scanned(t), Publishing(t), Acts(t)
  PROVE  Publishing(t)'
<1>1. ASSUME NEW r \in Requests, Reject(t, r) \/ Call(t, r)
      PROVE  Publishing(t)'
  BY <1>1 DEF TypeOK, Reject, Call, Prologue, Publishing
<1>2. ASSUME UNCHANGED <<req, out, list>>, pc[t] # "idle", disturbed[t] => disturbed'[t]
      PROVE  Publishing(t)'
  BY <1>2, SameLists DEF Publishing, Picks
<1>3. ASSUME NEW ms \in MakeStatuses, Create(t, ms) \/ SetUp(t, ms)
      PROVE  Publishing(t)'
  <2>1. pc[t] # "idle" /\ UNCHANGED <<req, out, list>> /\ (disturbed[t] => disturbed'[t])
    BY <1>3 DEF Create, SetUp, Disturb, TypeOK, backend
  <2>2. QED
    BY <1>2, <2>1
<1>4. ASSUME NEW ms \in QueryStatuses, Count(t, ms) \/ Get(t, ms)
      PROVE  Publishing(t)'
  <2>1. pc[t] # "idle" /\ UNCHANGED <<req, out, list>> /\ (disturbed[t] => disturbed'[t])
    BY <1>4 DEF Count, Get, Disturb, TypeOK, backend
  <2>2. QED
    BY <1>2, <2>1
<1>5. CASE \/ FilterTooWide(t) \/ RefuseSelection(t) \/ NoMemory(t) \/ PassOver(t)
           \/ Unusable(t) \/ Select(t) \/ EndScan(t) \/ CheckWorkspace(t)
  <2>1. pc[t] # "idle" /\ UNCHANGED <<req, out, list>> /\ (disturbed[t] => disturbed'[t])
    BY <1>5
       DEF FilterTooWide, RefuseSelection, NoMemory, PassOver, Unusable, Select, EndScan,
           CheckWorkspace, Scanning, TypeOK, backend
  <2>2. QED
    BY <1>2, <2>1
<1>6. ASSUME NEW ms \in LaunchStatuses, Launch(t, ms)
      PROVE  Publishing(t)'
  <2>1. pc[t] # "idle" /\ UNCHANGED <<req, out, list>> /\ (disturbed[t] => disturbed'[t])
    BY <1>6 DEF Launch, Disturb, TypeOK, backend
  <2>2. QED
    BY <1>2, <2>1
<1>7. CASE Publish(t)
  <2> DEFINE e == [algo   |-> PublishedAs(req[t].dir, Record(t).family),
                   memory |-> Record(t).ws]
  <2>1. /\ Scanning(t) /\ UNCHANGED <<req, pc, list, disturbed>> /\ ~Picks(t)
        /\ Wanted(t) /\ Record(t).ok /\ out'[t] = Append(out[t], e)
    BY <1>7 DEF Publish, TypeOK, backend
  <2>2. ~disturbed[t] => Advertised(req[t].dir, e)
    BY <2>1, PublishedIsFirst
  <2> HIDE DEF e
  <2>3. \A k \in DOMAIN out'[t] : out'[t][k] = e \/ (k \in DOMAIN out[t] /\ out'[t][k] = out[t][k])
    <3>1. out[t] \in Seq(PerfResult)
      BY DEF TypeOK
    <3>2. QED
      BY <2>1, <3>1
  <2>4. QED
    BY <2>1, <2>2, <2>3, SameLists DEF Publishing, Scanning, Picks
<1>8. CASE Cleanup(t)
  BY <1>8 DEF TypeOK, Cleanup, Publishing
<1>9. QED
  BY <1>1, <1>3, <1>4, <1>5, <1>6, <1>7, <1>8 DEF Acts, Proceed

LEMMA KeptStep ==
  ASSUME TypeOK, NEW t \in Threads, Publishing(t), Kept(t), Acts(t)
  PROVE  Kept(t)'
<1>1. CASE Cleanup(t)
  <2>1. pc[t] = "cleanup" /\ list' = list
    BY <1>1 DEF Cleanup, backend
  <2>2. CASE Picks(t)
    <3>1. advert' = advert
      BY <1>1, <2>2 DEF Cleanup
    <3>2. QED
      BY <2>1, <3>1, SameLists DEF Kept
  <2>3. CASE ~Picks(t)
    <3>1. /\ advert'[t].dir = req[t].dir /\ advert'[t].perf = out[t]
          /\ advert'[t].clean => ~disturbed[t]
      BY <1>1, <2>3 DEF Cleanup, TypeOK
    <3>2. QED
      BY <2>1, <2>3, <3>1, SameLists DEF Kept, Publishing
  <2>4. QED
    BY <2>2, <2>3
<1>2. CASE ~Cleanup(t)
  <2>1. advert' = advert /\ list' = list
    BY <1>2, ListsKept
       DEF Acts, Proceed, Reject, Call, FilterTooWide, Create, SetUp, RefuseSelection,
           Count, Get, NoMemory, PassOver, Unusable, Publish, Select, EndScan,
           CheckWorkspace, Launch
  <2>2. QED
    BY <2>1, SameLists DEF Kept
<1>3. QED
  BY <1>1, <1>2

(* A picker's call, step by step.                                            *)
LEMMA SettledStep ==
  ASSUME TypeOK, NEW t \in Threads, Making(t), Reading(t), Scanned(t), Settled(t), Acts(t)
  PROVE  Settled(t)'
<1> DEFINE S == Serving(req[t].dir, req[t].algo)
<1>1. CASE pc'[t] \notin {"check", "launch", "cleanup"}
  BY <1>1 DEF Settled
<1>2. ASSUME UNCHANGED <<req, list>>,
             (~disturbed'[t] /\ Picks(t) /\ bridge_contiguous_strides(req[t].g.w)) =>
               /\ pc'[t] \in {"check", "launch"} => PickedFirst(t)'
               /\ pc'[t] = "cleanup" =>
                    \/ S = {}
                    \/ /\ PickedFirst(t)'
                       /\ req[t].kind = "exec" => launched'[t] \/ WorkspaceShort(t)'
      PROVE  Settled(t)'
  BY <1>2, SameLists DEF Settled, Picks
<1>3. ASSUME NEW ms \in MakeStatuses, Create(t, ms) \/ SetUp(t, ms)
      PROVE  Settled(t)'
  <2>1. CASE ms # "SUCCESS"
    BY <1>3, <2>1 DEF Create, SetUp, Disturb, TypeOK, Settled
  <2>2. CASE ms = "SUCCESS"
    <3>1. pc'[t] \in {"make", "set", "count"}
      BY <1>3, <2>2 DEF Create, SetUp, NextSlot, TypeOK
    <3>2. QED
      BY <1>1, <3>1
  <2>3. QED
    BY <2>1, <2>2
<1>4. CASE FilterTooWide(t)
  BY <1>4 DEF FilterTooWide, Settled, TypeOK
<1>5. CASE RefuseSelection(t)
  <2>1. UNCHANGED <<req, list, disturbed>> /\ pc[t] = "count" /\ pc'[t] = "cleanup"
    BY <1>5 DEF RefuseSelection, Leave, TypeOK, backend
  <2>2. (~disturbed[t] /\ bridge_contiguous_strides(req[t].g.w)) => S = {}
    <3>1. SUFFICES ASSUME ~disturbed[t], bridge_contiguous_strides(req[t].g.w)
                   PROVE  S = {}
      OBVIOUS
    <3>2. made[t] = Slots
      BY <2>1, <3>1 DEF Making
    <3>3. req[t].dir = "fwd" /\ req[t].algo \notin DOMAIN bridge_map_algo
      BY <1>5, <3>2 DEF RefuseSelection, PickRefusal
    <3>4. QED
      BY <3>3 DEF Serving, Serves
  <2>3. QED
    BY <1>2, <2>1, <2>2
<1>6. ASSUME NEW ms \in QueryStatuses, Count(t, ms)
      PROVE  Settled(t)'
  <2>1. CASE ms # "SUCCESS"
    BY <1>6, <2>1 DEF Count, Disturb, TypeOK, Settled
  <2>2. CASE ms = "SUCCESS"
    <3>1. \/ pc'[t] = "get"
          \/ Len(list[req[t].dir]) = 0 /\ pc'[t] = "cleanup"
      BY <1>6, <2>2 DEF Count, Leave, TypeOK
    <3>2. Len(list[req[t].dir]) = 0 => S = {}
      BY RequestType, ReadableType DEF Serving
    <3>3. UNCHANGED <<req, list>>
      BY <1>6 DEF Count, backend
    <3>4. QED
      BY <1>1, <1>2, <3>1, <3>2, <3>3
  <2>3. QED
    BY <2>1, <2>2
<1>7. ASSUME NEW ms \in QueryStatuses, Get(t, ms)
      PROVE  Settled(t)'
  <2>1. CASE ms # "SUCCESS"
    BY <1>7, <2>1 DEF Get, Disturb, TypeOK, Settled
  <2>2. CASE ms = "SUCCESS"
    BY <1>1, <1>7, <2>2 DEF Get, TypeOK
  <2>3. QED
    BY <2>1, <2>2
<1>8. CASE NoMemory(t)
  BY <1>8 DEF NoMemory, TypeOK, Settled
<1>9. CASE PassOver(t) \/ Unusable(t) \/ Publish(t)
  <2>1. pc'[t] = "scan"
    BY <1>9 DEF PassOver, Unusable, Publish, Scanning
  <2>2. QED
    BY <1>1, <2>1
<1>10. CASE Select(t)
  <2>1. /\ Scanning(t) /\ Picks(t) /\ Wanted(t) /\ Record(t).ok
        /\ pick'[t] = Record(t) /\ UNCHANGED <<req, list, disturbed>>
        /\ pc'[t] \in {"check", "cleanup"} /\ pc'[t] = "cleanup" => req[t].kind # "exec"
    BY <1>10 DEF Select, Selected, TypeOK, backend
  <2>2. ASSUME ~disturbed[t]
        PROVE  PickedFirst(t)'
    <3>1. /\ i[t] \in 1 .. Len(seen[t]) /\ Record(t) = seen[t][i[t]]
          /\ seen[t] = Readable(req[t].dir) /\ pc[t] = "scan"
      BY <2>1, <2>2, ScanningRecord DEF Scanning, Reading
    <3>2. i[t] \in S
      BY <2>1, <3>1 DEF Serving, Wanted
    <3>3. First(S, i[t])
      BY <2>1, <2>2, <3>1, <3>2 DEF First, Scanned
    <3>4. QED
      BY <2>1, <3>1, <3>3, SameLists DEF PickedFirst, First
  <2>3. QED
    BY <1>2, <2>1, <2>2
<1>11. CASE EndScan(t)
  <2>1. /\ pc[t] = "scan" /\ ScanOver(t) /\ pc'[t] = "cleanup"
        /\ UNCHANGED <<req, list, disturbed>>
    BY <1>11 DEF EndScan, Leave, TypeOK, backend
  <2>2. ASSUME ~disturbed[t], Picks(t)
        PROVE  S = {}
    <3>1. i[t] > Len(seen[t]) /\ seen[t] = Readable(req[t].dir)
      BY <2>1, <2>2 DEF ScanOver, Reading
    <3>2. Len(seen[t]) \in Nat /\ i[t] \in Nat
      BY DEF TypeOK
    <3>3. \A m \in S : i[t] <= m /\ m \in 1 .. Len(seen[t])
      BY <2>1, <2>2, <3>1 DEF Scanned, Serving
    <3>4. QED
      BY <3>1, <3>2, <3>3
  <2>3. QED
    BY <1>2, <2>1, <2>2
<1>12. CASE CheckWorkspace(t)
  <2>1. /\ pc[t] = "check" /\ UNCHANGED <<req, list, disturbed, pick>>
        /\ \/ pc'[t] = "cleanup" /\ WorkspaceShort(t)
           \/ pc'[t] = "launch"
    BY <1>12 DEF CheckWorkspace, Leave, TypeOK, backend
  <2>2. PickedFirst(t) => PickedFirst(t)'
    BY <2>1, SameLists DEF PickedFirst, First
  <2>3. WorkspaceShort(t)' = WorkspaceShort(t)
    BY <2>1 DEF WorkspaceShort
  <2>4. QED
    BY <1>2, <2>1, <2>2, <2>3 DEF Settled
<1>13. ASSUME NEW ms \in LaunchStatuses, Launch(t, ms)
       PROVE  Settled(t)'
  <2>1. /\ pc[t] = "launch" /\ pc'[t] = "cleanup" /\ launched'[t] = TRUE
        /\ UNCHANGED <<req, list, pick>> /\ (disturbed[t] => disturbed'[t])
    BY <1>13 DEF Launch, Leave, Disturb, TypeOK, backend
  <2>2. PickedFirst(t) => PickedFirst(t)'
    BY <2>1, SameLists DEF PickedFirst, First
  <2>3. QED
    BY <1>2, <2>1, <2>2 DEF Settled
<1>14. ASSUME NEW r \in Requests, Reject(t, r) \/ Call(t, r)
       PROVE  Settled(t)'
  <2>1. pc'[t] \in {"idle", "make"}
    BY <1>14 DEF TypeOK, Reject, Call
  <2>2. QED
    BY <1>1, <2>1
<1>15. CASE Cleanup(t)
  BY <1>1, <1>15 DEF Cleanup, TypeOK
<1>16. QED
  BY <1>3, <1>4, <1>5, <1>6, <1>7, <1>8, <1>9, <1>10, <1>11, <1>12, <1>13, <1>14, <1>15
     DEF Acts, Proceed

-----------------------------------------------------------------------------
LEMMA PromisedInit ==
  ASSUME Init, NEW t \in Threads
  PROVE  Promised(t)
BY DEF Init, Promised, Making, Reading, Fresh, Scanned, Publishing, Settled, Kept, NoAdvert

LEMMA PromisedStep ==
  ASSUME TypeOK, [Next]_vars, \A u \in Threads : Balance(u) /\ Promised(u)
  PROVE  \A u \in Threads : Promised(u)'
<1> SUFFICES ASSUME NEW u \in Threads PROVE Promised(u)'
  OBVIOUS
<1>1. CASE BackendChanges
  BY <1>1, PromisedVoid
<1>2. CASE UNCHANGED vars
  <2>1. list' = list /\ Own(u)' = Own(u) /\ Beside(u)' = Beside(u)
    BY <1>2 DEF vars, Own, Beside
  <2>2. QED
    BY <2>1, PromisedKept
<1>3. ASSUME NEW t \in Threads, Acts(t), t # u
      PROVE  Promised(u)'
  BY <1>3, ListsKept, OthersKept, OthersBeside, PromisedKept
<1>4. ASSUME Acts(u)
      PROVE  Promised(u)'
  BY <1>4, MakingStep, ReadingStep, FreshStep, ScannedStep, PublishingStep, SettledStep,
     KeptStep
     DEF Promised
<1>5. QED
  BY <1>1, <1>2, <1>3, <1>4, NextActs

(* What the last query of a thread published holds for its next calls, while *)
(* no MIOpen call fails and MIOpen's lists stay: the workspace query reports *)
(* the published memory for a published algorithm, and an execution given    *)
(* that much launches the very record.  For every catalog, of any length,    *)
(* with any duplicates and unusable records.                                 *)
THEOREM AdvertisementsHold == Spec => []AdvertisedRuns
<1> DEFINE Inv == TypeOK /\ \A u \in Threads : Balance(u) /\ Promised(u)
<1>1. Init => Inv
  BY InitType, PromisedInit DEF Init, Balance
<1>2. Inv /\ [Next]_vars => Inv'
  BY StepType, BalanceStep, PromisedStep
<1>3. Inv => AdvertisedRuns
  <2> SUFFICES ASSUME Inv, NEW t \in Threads, pc[t] = "cleanup", Picks(t), ~disturbed[t],
                      bridge_contiguous_strides(req[t].g.w), advert[t].clean,
                      advert[t].dir = req[t].dir,
                      NEW k \in DOMAIN advert[t].perf,
                      advert[t].perf[k].algo = req[t].algo
               PROVE  /\ pick[t] # Unselected /\ pick[t].ws = advert[t].perf[k].memory
                      /\ ( /\ req[t].kind = "exec"
                           /\ req[t].given >= advert[t].perf[k].memory
                           /\ advert[t].perf[k].memory > 0 => req[t].ptr ) => launched[t]
    BY DEF AdvertisedRuns
  <2> DEFINE d == req[t].dir
             S == Serving(d, req[t].algo)
  <2>1. PICK n \in 1 .. Len(Readable(d)) :
               First(S, n) /\ Readable(d)[n].ws = advert[t].perf[k].memory
    BY DEF Promised, Kept, Advertised
  <2>2. S # {}
    BY <2>1 DEF First
  <2>3. /\ PickedFirst(t)
        /\ req[t].kind = "exec" => launched[t] \/ WorkspaceShort(t)
    BY <2>2 DEF Promised, Settled
  <2>4. PICK m \in 1 .. Len(Readable(d)) : First(S, m) /\ pick[t] = Readable(d)[m]
    BY <2>3 DEF PickedFirst
  <2>5. m = n
    BY <2>1, <2>4 DEF First
  <2>6. pick[t].ok /\ pick[t].ws = advert[t].perf[k].memory
    BY <2>1, <2>4, <2>5 DEF First, Serving
  <2>7. pick[t] # Unselected
    BY <2>6 DEF Unselected
  <2>8. pick[t].ws \in Nat /\ req[t].given \in Nat
    BY RequestType DEF TypeOK, Solution, Request
  <2>9. QED
    BY <2>3, <2>6, <2>7, <2>8 DEF WorkspaceShort
<1>4. QED
  BY <1>1, <1>2, <1>3, PTL DEF Spec

-----------------------------------------------------------------------------
(* How many names the three directions publish, and no more.                 *)
LEMMA PublishedNames ==
  /\ Published("fwd") = {"GEMM", "DIRECT", "FFT", "WINOGRAD", "IMPLICIT_GEMM"}
  /\ Published("bwdData") = {"ALGO_0", "ALGO_1", "FFT", "WINOGRAD"}
  /\ Published("bwdFilter") = {"ALGO_0", "ALGO_1", "WINOGRAD_NONFUSED"}
<1>1. Published("fwd") = {"GEMM", "DIRECT", "FFT", "WINOGRAD", "IMPLICIT_GEMM"}
  BY DEF Published, PublishedAs, Unmap, bridge_unmap_algo
<1>2. Published("bwdData") = {"ALGO_0", "ALGO_1", "FFT", "WINOGRAD"}
  BY DEF Published, PublishedAs, Unmap, bridge_unmap_bwd_data_algo
<1>3. Published("bwdFilter") = {"ALGO_0", "ALGO_1", "WINOGRAD_NONFUSED"}
  BY DEF Published, PublishedAs, Unmap, bridge_unmap_bwd_filter_algo
<1>4. QED
  BY <1>1, <1>2, <1>3

(* A list of distinct published names fits in the announced maximum. *)
LEMMA DistinctFit ==
  ASSUME NEW d \in Dirs, NEW names \in Seq(Published(d)),
         \A j, k \in DOMAIN names : names[j] = names[k] => j = k
  PROVE  Len(names) <= AlgorithmMaxCount(d)
<1>1. Len(names) \in Nat /\ DOMAIN names = 1 .. Len(names)
  OBVIOUS
<1>2. \A j \in 1 .. Len(names) : names[j] \in Published(d)
  OBVIOUS
<1>3. CASE d = "fwd"
  <2>1. SUFFICES ASSUME Len(names) >= 6 PROVE FALSE
    BY <1>1, <1>3 DEF AlgorithmMaxCount
  <2>2. \A j \in 1 .. 6 : j \in DOMAIN names /\ names[j] \in Published("fwd")
    BY <1>1, <1>2, <1>3, <2>1
  <2>3. QED
    BY <2>2, PublishedNames
<1>4. CASE d = "bwdData"
  <2>1. SUFFICES ASSUME Len(names) >= 5 PROVE FALSE
    BY <1>1, <1>4 DEF AlgorithmMaxCount
  <2>2. \A j \in 1 .. 5 : j \in DOMAIN names /\ names[j] \in Published("bwdData")
    BY <1>1, <1>2, <1>4, <2>1
  <2>3. QED
    BY <2>2, PublishedNames
<1>5. CASE d = "bwdFilter"
  <2>1. SUFFICES ASSUME Len(names) >= 4 PROVE FALSE
    BY <1>1, <1>5 DEF AlgorithmMaxCount
  <2>2. \A j \in 1 .. 4 : j \in DOMAIN names /\ names[j] \in Published("bwdFilter")
    BY <1>1, <1>2, <1>5, <2>1
  <2>3. QED
    BY <2>2, PublishedNames
<1>6. QED
  BY <1>3, <1>4, <1>5 DEF Dirs

LEMMA DistinctOwnStep ==
  ASSUME TypeOK, NEW t \in Threads, Distinct(t), Acts(t)
  PROVE  Distinct(t)'
<1>1. ASSUME NEW r \in Requests, Reject(t, r) \/ Call(t, r)
      PROVE  Distinct(t)'
  <2>1. out'[t] = <<>>
    BY <1>1 DEF TypeOK, Reject, Call, Prologue
  <2>2. QED
    BY <2>1 DEF Distinct
<1>2. CASE Publish(t)
  <2> DEFINE a == PublishedAs(req[t].dir, Record(t).family)
             e == [algo |-> a, memory |-> Record(t).ws]
             n == Len(out[t])
  <2>1. /\ out'[t] = Append(out[t], e) /\ req' = req
        /\ ~Picks(t) /\ Wanted(t) /\ n < req[t].requested
    <3>1. out[t] \in Seq(PerfResult) /\ req[t].requested \in Int
      BY RequestType DEF TypeOK, Request
    <3>2. QED
      BY <1>2, <3>1 DEF Publish, Scanning, ScanOver, TypeOK
  <2>2. out[t] \in Seq(PerfResult) /\ n \in Nat /\ req[t].requested \in Int
    BY RequestType DEF TypeOK, Request
  <2>3. a \in Published(req[t].dir) /\ \A k \in 1 .. n : out[t][k].algo # a
    BY <2>1 DEF Wanted, Published, Publishable
  <2>4. e.algo = a
    OBVIOUS
  <2> HIDE DEF a, e
  <2>5. /\ DOMAIN out'[t] = 1 .. n + 1 /\ out'[t][n + 1] = e /\ Len(out'[t]) = n + 1
        /\ \A k \in 1 .. n : out'[t][k] = out[t][k]
    BY <2>1, <2>2
  <2>6. \A k \in 1 .. n + 1 : k \in 1 .. n \/ k = n + 1
    BY <2>2
  <2>7. DOMAIN out[t] = 1 .. n
    BY <2>2
  <2>8. \A j, k \in DOMAIN out'[t] : out'[t][j].algo = out'[t][k].algo => j = k
    BY <2>3, <2>4, <2>5, <2>6, <2>7 DEF Distinct
  <2>9. \A k \in DOMAIN out'[t] : out'[t][k].algo \in Published(req[t].dir)
    BY <2>3, <2>4, <2>5, <2>6, <2>7 DEF Distinct
  <2>10. Len(out'[t]) <= req[t].requested
    BY <2>1, <2>2, <2>5
  <2>11. QED
    BY <2>1, <2>8, <2>9, <2>10 DEF Distinct
<1>3. CASE Proceed(t) /\ ~Publish(t)
  <2>1. out' = out /\ req' = req
    BY <1>3
       DEF Proceed, FilterTooWide, Create, SetUp, RefuseSelection, Count, Get, NoMemory,
           PassOver, Unusable, Select, EndScan, CheckWorkspace, Launch, Cleanup
  <2>2. QED
    BY <2>1 DEF Distinct
<1>4. QED
  BY <1>1, <1>2, <1>3 DEF Acts

(* An algorithm query publishes no algorithm twice, at most what the caller  *)
(* has room for, and - a consequence of the first and of the tables of names *)
(* - never more than ..AlgorithmMaxCount announces.                          *)
THEOREM AdvertsAreWellFormed == Spec => []AdvertsWellFormed
<1> DEFINE Inv == TypeOK /\ \A u \in Threads : Distinct(u)
<1>1. Init => Inv
  BY InitType DEF Init, Distinct
<1>2. Inv /\ [Next]_vars => Inv'
  <2> SUFFICES ASSUME Inv, [Next]_vars, NEW u \in Threads
               PROVE  Distinct(u)'
    BY StepType
  <2>1. ASSUME Own(u)' = Own(u)
        PROVE  Distinct(u)'
    BY <2>1 DEF Own, Distinct
  <2>2. CASE BackendChanges \/ UNCHANGED vars
    BY <2>1, <2>2, BackendKeepsCalls
  <2>3. ASSUME NEW t \in Threads, Acts(t), t # u
        PROVE  Distinct(u)'
    BY <2>1, <2>3, OthersKept
  <2>4. ASSUME Acts(u)
        PROVE  Distinct(u)'
    BY <2>4, DistinctOwnStep
  <2>5. QED
    BY <2>2, <2>3, <2>4, NextActs
<1>3. Inv => AdvertsWellFormed
  <2> SUFFICES ASSUME Inv, NEW t \in Threads
               PROVE  Len(out[t]) <= AlgorithmMaxCount(req[t].dir)
    BY DEF AdvertsWellFormed, Distinct
  <2> DEFINE names == [k \in 1 .. Len(out[t]) |-> out[t][k].algo]
  <2>1. out[t] \in Seq(PerfResult) /\ Len(out[t]) \in Nat /\ req[t].dir \in Dirs
    BY RequestType DEF TypeOK
  <2>2. /\ names \in Seq(Published(req[t].dir)) /\ Len(names) = Len(out[t])
        /\ \A j, k \in DOMAIN names : names[j] = names[k] => j = k
    BY <2>1 DEF Distinct
  <2> HIDE DEF names
  <2>3. QED
    BY <2>1, <2>2, DistinctFit
<1>4. QED
  BY <1>1, <1>2, <1>3, PTL DEF Spec
=============================================================================
