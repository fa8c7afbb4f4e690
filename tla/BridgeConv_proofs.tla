--------------------------- MODULE BridgeConv_proofs ---------------------------
(***************************************************************************)
(* Proofs about module BridgeConv, for any number of threads, any set of   *)
(* calls, any catalog of solutions.                                        *)
(***************************************************************************)
EXTENDS BridgeConv, TLAPS

(* bridge_status maps every MIOpen status to a cuDNN status. *)
LEMMA StatusType ==
  ASSUME NEW ms \in MiopenStatus
  PROVE  bridge_status(ms) \in CudnnStatus
BY DEF MiopenStatus, CudnnStatus, bridge_status

(* The name a family is published under is an algorithm of cuDNN. *)
LEMMA PublishedType ==
  ASSUME NEW d \in Dirs, NEW f \in Families, Publishable(d, f)
  PROVE  PublishedAs(d, f) \in Algorithms
<1>1. \A g \in DOMAIN bridge_unmap_algo : bridge_unmap_algo[g] \in Algorithms
  BY DEF bridge_unmap_algo, Algorithms
<1>2. \A g \in DOMAIN bridge_unmap_bwd_data_algo :
         bridge_unmap_bwd_data_algo[g] \in Algorithms
  BY DEF bridge_unmap_bwd_data_algo, Algorithms
<1>3. \A g \in DOMAIN bridge_unmap_bwd_filter_algo :
         bridge_unmap_bwd_filter_algo[g] \in Algorithms
  BY DEF bridge_unmap_bwd_filter_algo, Algorithms
<1>4. QED
  BY <1>1, <1>2, <1>3 DEF Publishable, PublishedAs, Unmap

LEMMA RequestType ==
  ASSUME TypeOK, NEW t \in Threads
  PROVE  /\ req[t] \in Request
         /\ req[t].dir \in Dirs
BY ConstantsAssumption DEF TypeOK, Request

LEMMA ListType ==
  ASSUME TypeOK, NEW d \in Dirs
  PROVE  list[d] \in Seq(Solution)
BY ConstantsAssumption DEF TypeOK, Lists

LEMMA EntryType ==
  ASSUME NEW r \in Requests, EntryStatus(r) # "GO"
  PROVE  EntryStatus(r) \in CudnnStatus
BY DEF EntryStatus, bridge_validate_conv_shapes, CudnnStatus

LEMMA InitType == Init => TypeOK
<1> SUFFICES ASSUME Init PROVE TypeOK
  OBVIOUS
<1>1. req \in [Threads -> Requests]
  <2>1. (CHOOSE r \in Requests : TRUE) \in Requests
    BY ConstantsAssumption
  <2>2. QED
    BY <2>1 DEF Init
<1>2. pick \in [Threads -> Solution]
  BY DEF Init, Unselected, Solution, Families
<1>3. advert \in [Threads -> [dir : Dirs, clean : BOOLEAN,
                              perf : Seq(PerfResult)]]
  BY DEF Init, NoAdvert, Dirs
<1>4. /\ seen \in [Threads -> Seq(Solution)]
      /\ out \in [Threads -> Seq(PerfResult)]
  BY DEF Init
<1>5. /\ list \in Lists
      /\ changes \in 0 .. MaxChanges
  BY ConstantsAssumption DEF Init
<1>6. /\ slot \in [Threads -> Slots]
      /\ made \in [Threads -> SUBSET Slots]
      /\ live \in [Threads -> SUBSET Slots]
  BY DEF Init, Slots
<1>7. /\ pc \in [Threads -> {"idle", "make", "set", "count", "get", "scan", "check",
                             "launch", "cleanup"}]
      /\ cs \in [Threads -> CudnnStatus]
  BY DEF Init, CudnnStatus
<1>8. /\ quota \in [Threads -> Nat]
      /\ i \in [Threads -> Nat \ {0}]
      /\ launched \in [Threads -> BOOLEAN]
      /\ disturbed \in [Threads -> BOOLEAN]
  BY DEF Init
<1>9. QED
  BY <1>1, <1>2, <1>3, <1>4, <1>5, <1>6, <1>7, <1>8 DEF TypeOK

LEMMA RecordType ==
  ASSUME TypeOK, NEW t \in Threads, Scanning(t)
  PROVE  /\ Record(t) \in Solution
         /\ i[t] \in 1 .. Len(seen[t])
<1>1. seen[t] \in Seq(Solution) /\ i[t] \in Nat \ {0}
  BY DEF TypeOK
<1>2. ~(i[t] > Len(seen[t]))
  BY DEF Scanning, ScanOver
<1>3. Len(seen[t]) \in Nat
  BY <1>1
<1>4. i[t] \in 1 .. Len(seen[t])
  BY <1>1, <1>2, <1>3
<1>5. QED
  BY <1>1, <1>4 DEF Record

(* What a prologue leaves in the locals has their types. *)
LEMMA PrologueType ==
  ASSUME TypeOK, NEW t \in Threads, NEW r \in Requests, Prologue(t, r)
  PROVE  /\ req' \in [Threads -> Requests]
         /\ slot' \in [Threads -> Slots]
         /\ quota' \in [Threads -> Nat]
         /\ seen' \in [Threads -> Seq(Solution)]
         /\ i' \in [Threads -> Nat \ {0}]
         /\ out' \in [Threads -> Seq(PerfResult)]
         /\ pick' \in [Threads -> Solution]
         /\ launched' \in [Threads -> BOOLEAN]
         /\ disturbed' \in [Threads -> BOOLEAN]
<1>1. /\ seen' \in [Threads -> Seq(Solution)]
      /\ out' \in [Threads -> Seq(PerfResult)]
  BY DEF TypeOK, Prologue
<1>2. pick' \in [Threads -> Solution]
  <2>1. Unselected \in Solution
    BY DEF Unselected, Solution, Families
  <2>2. QED
    BY <2>1 DEF TypeOK, Prologue
<1>3. req' \in [Threads -> Requests] /\ slot' \in [Threads -> Slots]
  BY DEF TypeOK, Prologue, Slots
<1>4. quota' \in [Threads -> Nat] /\ i' \in [Threads -> Nat \ {0}]
  BY DEF TypeOK, Prologue
<1>5. launched' \in [Threads -> BOOLEAN] /\ disturbed' \in [Threads -> BOOLEAN]
  BY DEF TypeOK, Prologue
<1>6. QED
  BY <1>1, <1>2, <1>3, <1>4, <1>5

(* goto done and the next descriptor keep the types of what they change.     *)
LEMMA LeaveType ==
  ASSUME TypeOK, NEW t \in Threads, NEW s \in CudnnStatus, Leave(t, s)
  PROVE  /\ pc' \in [Threads -> {"idle", "make", "set", "count", "get", "scan", "check",
                                 "launch", "cleanup"}]
         /\ cs' \in [Threads -> CudnnStatus]
BY DEF TypeOK, Leave

LEMMA MakeReturnsType ==
  ASSUME TypeOK, NEW t \in Threads, NEW s \in CudnnStatus, MakeReturns(t, s)
  PROVE  /\ pc' \in [Threads -> {"idle", "make", "set", "count", "get", "scan", "check",
                                 "launch", "cleanup"}]
         /\ slot' \in [Threads -> Slots]
         /\ cs' \in [Threads -> CudnnStatus]
<1>1. CASE s = "SUCCESS"
  <2>1. Min2(slot[t] + 1, 4) \in Slots
    <3>1. slot[t] \in 1 .. 4
      BY DEF TypeOK, Slots
    <3>2. QED
      BY <3>1 DEF Min2, Slots
  <2>2. NextSlot(t)
    BY <1>1 DEF MakeReturns
  <2>3. slot' \in [Threads -> Slots]
    BY <2>1, <2>2 DEF NextSlot, TypeOK
  <2>4. QED
    BY <2>2, <2>3 DEF NextSlot, TypeOK
<1>2. CASE s # "SUCCESS"
  BY <1>2, LeaveType DEF TypeOK, MakeReturns
<1>3. QED
  BY <1>1, <1>2

LEMMA SelectedType ==
  ASSUME TypeOK, NEW t \in Threads, NEW s \in CudnnStatus, Selected(t, s)
  PROVE  /\ pc' \in [Threads -> {"idle", "make", "set", "count", "get", "scan", "check",
                                 "launch", "cleanup"}]
         /\ cs' \in [Threads -> CudnnStatus]
BY DEF TypeOK, Selected

LEMMA StepType == TypeOK /\ [Next]_vars => TypeOK'
<1> SUFFICES ASSUME TypeOK, [Next]_vars PROVE TypeOK'
  OBVIOUS
<1>1. ASSUME NEW t \in Threads, NEW r \in Requests, Reject(t, r)
      PROVE  TypeOK'
  <2>1. Prologue(t, r) /\ EntryStatus(r) \in CudnnStatus
    BY <1>1, EntryType DEF Reject
  <2>2. cs' \in [Threads -> CudnnStatus]
    BY <1>1, <2>1 DEF Reject, TypeOK
  <2>3. QED
    BY <1>1, <2>1, <2>2, PrologueType DEF Reject, TypeOK, backend
<1>2. ASSUME NEW t \in Threads, NEW r \in Requests, Call(t, r)
      PROVE  TypeOK'
  <2>1. Prologue(t, r)
    BY <1>2 DEF Call
  <2>2. /\ pc' \in [Threads -> {"idle", "make", "set", "count", "get", "scan", "check",
                                "launch", "cleanup"}]
        /\ cs' \in [Threads -> CudnnStatus]
    BY <1>2 DEF Call, TypeOK, CudnnStatus
  <2>3. QED
    BY <1>2, <2>1, <2>2, PrologueType DEF Call, TypeOK, backend
<1>3. ASSUME NEW t \in Threads, FilterTooWide(t)
      PROVE  TypeOK'
  BY <1>3, LeaveType DEF FilterTooWide, TypeOK, backend, CudnnStatus
<1>4. ASSUME NEW t \in Threads, NEW ms \in MakeStatuses, Create(t, ms)
      PROVE  TypeOK'
  <2>1. bridge_status(ms) \in CudnnStatus
    BY StatusType, ConstantsAssumption
  <2>2. disturbed' \in [Threads -> BOOLEAN]
    BY <1>4 DEF Create, Disturb, TypeOK
  <2>3. CASE ms = "SUCCESS"
    <3>1. /\ made' \in [Threads -> SUBSET Slots]
          /\ live' \in [Threads -> SUBSET Slots]
      <4>1. /\ made' = [made EXCEPT ![t] = @ \union {slot[t]}]
            /\ live' = [live EXCEPT ![t] = @ \union {slot[t]}]
        BY <1>4, <2>3 DEF Create
      <4>2. /\ made[t] \union {slot[t]} \in SUBSET Slots
            /\ live[t] \union {slot[t]} \in SUBSET Slots
        BY DEF TypeOK
      <4>3. QED
        BY <4>1, <4>2 DEF TypeOK
    <3>2. /\ pc' = [pc EXCEPT ![t] = "set"]
          /\ UNCHANGED <<slot, cs>>
      BY <1>4, <2>3 DEF Create
    <3>3. QED
      BY <1>4, <2>2, <3>1, <3>2 DEF Create, TypeOK, backend
  <2>4. CASE ms # "SUCCESS"
    BY <1>4, <2>1, <2>2, <2>4, MakeReturnsType DEF Create, TypeOK, backend
  <2>5. QED
    BY <2>3, <2>4
<1>5. ASSUME NEW t \in Threads, NEW ms \in MakeStatuses, SetUp(t, ms)
      PROVE  TypeOK'
  <2>1. bridge_status(ms) \in CudnnStatus
    BY StatusType, ConstantsAssumption
  <2>2. disturbed' \in [Threads -> BOOLEAN]
    BY <1>5 DEF SetUp, Disturb, TypeOK
  <2>3. CASE ms = "SUCCESS"
    <3>1. MakeReturns(t, "SUCCESS") /\ "SUCCESS" \in CudnnStatus
      BY <1>5, <2>3 DEF SetUp, MakeReturns, CudnnStatus
    <3>2. QED
      BY <1>5, <2>2, <2>3, <3>1, MakeReturnsType DEF SetUp, TypeOK, backend
  <2>4. CASE ms # "SUCCESS"
    <3>1. /\ made' \in [Threads -> SUBSET Slots]
          /\ live' \in [Threads -> SUBSET Slots]
      <4>1. /\ made' = [made EXCEPT ![t] = @ \ {slot[t]}]
            /\ live' = [live EXCEPT ![t] = @ \ {slot[t]}]
        BY <1>5, <2>4 DEF SetUp
      <4>2. /\ made[t] \ {slot[t]} \in SUBSET Slots
            /\ live[t] \ {slot[t]} \in SUBSET Slots
        BY DEF TypeOK
      <4>3. QED
        BY <4>1, <4>2 DEF TypeOK
    <3>2. MakeReturns(t, bridge_status(ms))
      BY <1>5, <2>4 DEF SetUp
    <3>3. QED
      BY <1>5, <2>1, <2>2, <3>1, <3>2, MakeReturnsType DEF SetUp, TypeOK, backend
  <2>5. QED
    BY <2>3, <2>4
<1>6. ASSUME NEW t \in Threads, RefuseSelection(t)
      PROVE  TypeOK'
  <2>1. PickRefusal(t) \in CudnnStatus
    BY <1>6 DEF RefuseSelection, PickRefusal, CudnnStatus
  <2>2. QED
    BY <1>6, <2>1, LeaveType DEF RefuseSelection, TypeOK, backend
<1>7. ASSUME NEW t \in Threads, NEW ms \in QueryStatuses, Count(t, ms)
      PROVE  TypeOK'
  <2> DEFINE n == Len(list[req[t].dir])
  <2>1. n \in Nat
    BY RequestType, ListType
  <2>2. bridge_status(ms) \in CudnnStatus /\ "NOT_SUPPORTED" \in CudnnStatus
    BY StatusType, ConstantsAssumption DEF CudnnStatus
  <2>3. disturbed' \in [Threads -> BOOLEAN]
    BY <1>7 DEF Count, Disturb, TypeOK
  <2>4. CASE ms # "SUCCESS"
    BY <1>7, <2>2, <2>3, <2>4, SelectedType DEF Count, TypeOK, backend
  <2>5. CASE ms = "SUCCESS" /\ n = 0
    <3>1. Leave(t, "NOT_SUPPORTED") /\ UNCHANGED quota
      BY <1>7, <2>5 DEF Count
    <3>2. QED
      BY <1>7, <2>2, <2>3, <3>1, LeaveType DEF Count, TypeOK, backend
  <2>6. CASE ms = "SUCCESS" /\ n > 0
    <3>1. Min2(n, QueryCap) \in Nat
      BY <2>1, ConstantsAssumption DEF Min2
    <3>2. quota' = [quota EXCEPT ![t] = Min2(n, QueryCap)]
      BY <1>7, <2>6 DEF Count
    <3>3. quota' \in [Threads -> Nat]
      BY <3>1, <3>2 DEF TypeOK
    <3>4. /\ pc' = [pc EXCEPT ![t] = "get"]
          /\ UNCHANGED cs
      BY <1>7, <2>6 DEF Count
    <3>5. QED
      BY <1>7, <2>3, <3>3, <3>4 DEF Count, TypeOK, backend
  <2>7. QED
    BY <2>1, <2>4, <2>5, <2>6
<1>8. ASSUME NEW t \in Threads, NoMemory(t)
      PROVE  TypeOK'
  BY <1>8, LeaveType DEF NoMemory, TypeOK, backend, CudnnStatus
<1>9. ASSUME NEW t \in Threads, NEW ms \in QueryStatuses, Get(t, ms)
      PROVE  TypeOK'
  <2>1. disturbed' \in [Threads -> BOOLEAN]
    BY <1>9 DEF Get, Disturb, TypeOK
  <2>2. CASE ms = "SUCCESS"
    <3> DEFINE l == list[req[t].dir]
               m == Min2(quota[t], Len(l))
    <3>1. l \in Seq(Solution)
      BY RequestType, ListType
    <3>2. m \in 0 .. Len(l)
      BY <3>1 DEF Min2, TypeOK
    <3>3. SubSeq(l, 1, m) \in Seq(Solution)
      BY <3>1, <3>2
    <3>4. seen' = [seen EXCEPT ![t] = SubSeq(l, 1, m)]
      BY <1>9, <2>2 DEF Get
    <3>5. seen' \in [Threads -> Seq(Solution)]
      BY <3>3, <3>4 DEF TypeOK
    <3>6. /\ pc' = [pc EXCEPT ![t] = "scan"]
          /\ UNCHANGED cs
      BY <1>9, <2>2 DEF Get
    <3>7. QED
      BY <1>9, <2>1, <3>5, <3>6 DEF Get, TypeOK, backend
  <2>3. CASE ms # "SUCCESS"
    <3>1. bridge_status(ms) \in CudnnStatus
      BY StatusType, ConstantsAssumption
    <3>2. QED
      BY <1>9, <2>1, <2>3, <3>1, SelectedType DEF Get, TypeOK, backend
  <2>4. QED
    BY <2>2, <2>3
<1>10. ASSUME NEW t \in Threads, PassOver(t)
       PROVE  TypeOK'
  <2>1. i' \in [Threads -> Nat \ {0}]
    BY <1>10 DEF PassOver, TypeOK
  <2>2. QED
    BY <1>10, <2>1 DEF PassOver, TypeOK, backend
<1>11. ASSUME NEW t \in Threads, Unusable(t)
       PROVE  TypeOK'
  <2>1. Record(t).ok \in BOOLEAN
    BY <1>11, RecordType DEF Unusable, Solution
  <2>2. i' \in [Threads -> Nat \ {0}] /\ disturbed' \in [Threads -> BOOLEAN]
    BY <1>11, <2>1 DEF Unusable, TypeOK
  <2>3. QED
    BY <1>11, <2>2 DEF Unusable, TypeOK, backend
<1>12. ASSUME NEW t \in Threads, Publish(t)
       PROVE  TypeOK'
  <2> DEFINE e == [algo   |-> PublishedAs(req[t].dir, Record(t).family),
                   memory |-> Record(t).ws]
  <2>1. Record(t) \in Solution
    BY <1>12, RecordType DEF Publish
  <2>2. Publishable(req[t].dir, Record(t).family)
    BY <1>12 DEF Publish, Wanted
  <2>3. PublishedAs(req[t].dir, Record(t).family) \in Algorithms
    BY <2>1, <2>2, RequestType, PublishedType DEF Solution
  <2>4. e \in PerfResult
    BY <2>1, <2>3 DEF Solution, PerfResult
  <2>5. Append(out[t], e) \in Seq(PerfResult)
    BY <2>4 DEF TypeOK
  <2>6. out' = [out EXCEPT ![t] = Append(out[t], e)]
    BY <1>12 DEF Publish, TypeOK
  <2>7. out' \in [Threads -> Seq(PerfResult)]
    BY <2>5, <2>6 DEF TypeOK
  <2>8. i' \in [Threads -> Nat \ {0}]
    BY <1>12 DEF Publish, TypeOK
  <2>9. QED
    BY <1>12, <2>7, <2>8 DEF Publish, TypeOK, backend
<1>13. ASSUME NEW t \in Threads, Select(t)
       PROVE  TypeOK'
  <2>1. Record(t) \in Solution /\ "SUCCESS" \in CudnnStatus
    BY <1>13, RecordType DEF Select, CudnnStatus
  <2>2. pick' \in [Threads -> Solution]
    BY <1>13, <2>1 DEF Select, TypeOK
  <2>3. QED
    BY <1>13, <2>1, <2>2, SelectedType DEF Select, TypeOK, backend
<1>14. ASSUME NEW t \in Threads, EndScan(t)
       PROVE  TypeOK'
  BY <1>14, LeaveType DEF EndScan, TypeOK, backend, CudnnStatus
<1>15. ASSUME NEW t \in Threads, CheckWorkspace(t)
       PROVE  TypeOK'
  BY <1>15 DEF CheckWorkspace, Leave, TypeOK, backend, CudnnStatus
<1>16. ASSUME NEW t \in Threads, NEW ms \in LaunchStatuses, Launch(t, ms)
       PROVE  TypeOK'
  <2>1. bridge_status(ms) \in CudnnStatus
    BY StatusType, ConstantsAssumption
  <2>2. QED
    BY <1>16, <2>1 DEF Launch, Leave, Disturb, TypeOK, backend
<1>17. ASSUME NEW t \in Threads, Cleanup(t)
       PROVE  TypeOK'
  <2>1. advert' \in [Threads -> [dir : Dirs, clean : BOOLEAN,
                                 perf : Seq(PerfResult)]]
    BY <1>17, RequestType DEF Cleanup, TypeOK
  <2>2. QED
    BY <1>17, <2>1 DEF Cleanup, TypeOK, backend
<1>18. ASSUME BackendChanges
       PROVE  TypeOK'
  <2>1. advert' \in [Threads -> [dir : Dirs, clean : BOOLEAN,
                                 perf : Seq(PerfResult)]]
    BY <1>18 DEF BackendChanges, TypeOK
  <2>2. changes' \in 0 .. MaxChanges
    BY <1>18, ConstantsAssumption DEF BackendChanges, TypeOK
  <2>3. QED
    BY <1>18, <2>1, <2>2 DEF BackendChanges, TypeOK
<1>19. CASE UNCHANGED vars
  BY <1>19 DEF vars, backend, TypeOK, Lists
<1>20. QED
  BY <1>1, <1>2, <1>3, <1>4, <1>5, <1>6, <1>7, <1>8, <1>9, <1>10, <1>11, <1>12, <1>13,
     <1>14, <1>15, <1>16, <1>17, <1>18, <1>19 DEF Next, Proceed

(* TypeOK holds of every reachable state, whatever MIOpen answers. *)
THEOREM TypeCorrect == Spec => []TypeOK
BY InitType, StepType, PTL DEF Spec

-----------------------------------------------------------------------------
(* What thread t does in one step, and the state no other thread touches.    *)
Acts(t) ==
  \/ \E r \in Requests : Reject(t, r) \/ Call(t, r)
  \/ Proceed(t)

Own(u) == <<pc[u], req[u], made[u], live[u], quota[u], seen[u], i[u], out[u], pick[u],
            launched[u], cs[u]>>

(* A thread's step leaves the calls of the others alone. *)
LEMMA OthersKept ==
  ASSUME TypeOK, NEW t \in Threads, NEW u \in Threads, u # t, Acts(t)
  PROVE  Own(u)' = Own(u)
<1>1. ASSUME NEW r \in Requests, Reject(t, r) \/ Call(t, r)
      PROVE  Own(u)' = Own(u)
  BY <1>1 DEF TypeOK, Own, Reject, Call, Prologue
<1>2. CASE FilterTooWide(t) \/ RefuseSelection(t) \/ NoMemory(t) \/ EndScan(t)
  BY <1>2 DEF TypeOK, Own, FilterTooWide, RefuseSelection, NoMemory, EndScan, Leave
<1>3. ASSUME NEW ms \in MakeStatuses, Create(t, ms)
      PROVE  Own(u)' = Own(u)
  BY <1>3 DEF TypeOK, Own, Create, MakeReturns, NextSlot, Leave
<1>4. ASSUME NEW ms \in MakeStatuses, SetUp(t, ms)
      PROVE  Own(u)' = Own(u)
  BY <1>4 DEF TypeOK, Own, SetUp, MakeReturns, NextSlot, Leave
<1>5. ASSUME NEW ms \in QueryStatuses, Count(t, ms)
      PROVE  Own(u)' = Own(u)
  BY <1>5 DEF TypeOK, Own, Count, Selected, Leave
<1>6. ASSUME NEW ms \in QueryStatuses, Get(t, ms)
      PROVE  Own(u)' = Own(u)
  BY <1>6 DEF TypeOK, Own, Get, Selected
<1>7. CASE PassOver(t) \/ Unusable(t) \/ Publish(t) \/ Select(t)
  BY <1>7 DEF TypeOK, Own, PassOver, Unusable, Publish, Select, Selected
<1>8. CASE CheckWorkspace(t) \/ Cleanup(t)
  BY <1>8 DEF TypeOK, Own, CheckWorkspace, Cleanup, Leave
<1>9. ASSUME NEW ms \in LaunchStatuses, Launch(t, ms)
      PROVE  Own(u)' = Own(u)
  BY <1>9 DEF TypeOK, Own, Launch, Leave
<1>10. QED
  BY <1>1, <1>2, <1>3, <1>4, <1>5, <1>6, <1>7, <1>8, <1>9 DEF Acts, Proceed

LEMMA BackendKeepsCalls ==
  ASSUME BackendChanges \/ UNCHANGED vars, NEW u \in Threads
  PROVE  Own(u)' = Own(u)
BY DEF BackendChanges, vars, Own

LEMMA NextActs ==
  ASSUME [Next]_vars
  PROVE  BackendChanges \/ UNCHANGED vars \/ \E t \in Threads : Acts(t)
BY DEF Next, Acts

-----------------------------------------------------------------------------
(* A call's pointers are non-NULL exactly for the objects it owns; an idle   *)
(* thread has neither.                                                       *)
Balance(t) ==
  /\ live[t] = made[t]
  /\ pc[t] = "idle" => made[t] = {}

LEMMA BalanceOwnStep ==
  ASSUME TypeOK, NEW t \in Threads, Balance(t), Acts(t)
  PROVE  Balance(t)'
<1>1. ASSUME NEW r \in Requests, Reject(t, r) \/ Call(t, r)
      PROVE  Balance(t)'
  BY <1>1 DEF TypeOK, Balance, Reject, Call
<1>2. CASE FilterTooWide(t) \/ RefuseSelection(t) \/ NoMemory(t) \/ EndScan(t)
  BY <1>2 DEF TypeOK, Balance, FilterTooWide, RefuseSelection, NoMemory, EndScan, Leave
<1>3. ASSUME NEW ms \in MakeStatuses, Create(t, ms)
      PROVE  Balance(t)'
  <2>1. pc'[t] # "idle"
    BY <1>3 DEF TypeOK, Create, MakeReturns, NextSlot, Leave
  <2>2. CASE ms = "SUCCESS"
    <3>1. made' = [made EXCEPT ![t] = @ \union {slot[t]}]
      BY <1>3, <2>2 DEF Create
    <3>2. live' = [live EXCEPT ![t] = @ \union {slot[t]}]
      BY <1>3, <2>2 DEF Create
    <3>3. QED
      BY <3>1, <3>2, <2>1 DEF TypeOK, Balance
  <2>3. CASE ms # "SUCCESS"
    <3>1. made' = made /\ live' = live
      BY <1>3, <2>3 DEF Create
    <3>2. QED
      BY <3>1, <2>1 DEF Balance
  <2>4. QED
    BY <2>2, <2>3
<1>4. ASSUME NEW ms \in MakeStatuses, SetUp(t, ms)
      PROVE  Balance(t)'
  <2>1. pc'[t] # "idle"
    BY <1>4 DEF TypeOK, SetUp, MakeReturns, NextSlot, Leave
  <2>2. CASE ms # "SUCCESS"
    <3>1. made' = [made EXCEPT ![t] = @ \ {slot[t]}]
      BY <1>4, <2>2 DEF SetUp
    <3>2. live' = [live EXCEPT ![t] = @ \ {slot[t]}]
      BY <1>4, <2>2 DEF SetUp
    <3>3. QED
      BY <3>1, <3>2, <2>1 DEF TypeOK, Balance
  <2>3. CASE ms = "SUCCESS"
    <3>1. made' = made /\ live' = live
      BY <1>4, <2>3 DEF SetUp
    <3>2. QED
      BY <3>1, <2>1 DEF Balance
  <2>4. QED
    BY <2>2, <2>3
<1>5. ASSUME NEW ms \in QueryStatuses, Count(t, ms) \/ Get(t, ms)
      PROVE  Balance(t)'
  BY <1>5 DEF TypeOK, Balance, Count, Get, Selected, Leave
<1>6. CASE PassOver(t) \/ Unusable(t) \/ Publish(t) \/ Select(t)
  BY <1>6 DEF TypeOK, Balance, PassOver, Unusable, Publish, Select, Selected, Scanning
<1>7. CASE CheckWorkspace(t)
  BY <1>7 DEF TypeOK, Balance, CheckWorkspace, Leave
<1>8. ASSUME NEW ms \in LaunchStatuses, Launch(t, ms)
      PROVE  Balance(t)'
  BY <1>8 DEF TypeOK, Balance, Launch, Leave
<1>9. CASE Cleanup(t)
  BY <1>9 DEF TypeOK, Balance, Cleanup
<1>10. QED
  BY <1>1, <1>2, <1>3, <1>4, <1>5, <1>6, <1>7, <1>8, <1>9 DEF Acts, Proceed

LEMMA BalanceStep ==
  ASSUME TypeOK, [Next]_vars, \A u \in Threads : Balance(u)
  PROVE  \A u \in Threads : Balance(u)'
<1> SUFFICES ASSUME NEW u \in Threads PROVE Balance(u)'
  OBVIOUS
<1>1. CASE BackendChanges \/ UNCHANGED vars
  BY <1>1, BackendKeepsCalls DEF Balance, Own
<1>2. ASSUME NEW t \in Threads, Acts(t), t # u
      PROVE  Balance(u)'
  BY <1>2, OthersKept DEF Balance, Own
<1>3. ASSUME Acts(u)
      PROVE  Balance(u)'
  BY <1>3, BalanceOwnStep
<1>4. QED
  BY <1>1, <1>2, <1>3, NextActs

(* Every return has destroyed what its call created, on every error path.    *)
THEOREM BalancedAlways == Spec => []DescriptorsBalanced
<1> DEFINE Inv == TypeOK /\ \A u \in Threads : Balance(u)
<1>1. Init => Inv
  BY InitType DEF Init, Balance
<1>2. Inv /\ [Next]_vars => Inv'
  BY StepType, BalanceStep
<1>3. Inv => DescriptorsBalanced
  BY DEF DescriptorsBalanced, Balance
<1>4. QED
  BY <1>1, <1>2, <1>3, PTL DEF Spec

-----------------------------------------------------------------------------
(* What a call that is about to launch, or has launched, has gone through.   *)
Bound(t) ==
  /\ (Picks(t) /\ pc[t] \in {"get", "scan", "check", "launch"}) => made[t] = Slots
  /\ pc[t] \in {"check", "launch"} =>
        /\ req[t].kind = "exec"
        /\ Serves(req[t].dir, pick[t].family, req[t].algo)
        /\ pick[t] # Unselected
  /\ pc[t] = "launch" => ~WorkspaceShort(t)
  /\ launched[t] => pick[t] # Unselected

(* What SUCCESS stands for. *)
Done(t) ==
  CASE req[t].kind = "exec" -> launched[t]
    [] req[t].kind = "v7"   -> out[t] # <<>>
    [] OTHER                -> pick[t] # Unselected

Earned(t) ==
  /\ Picks(t) => out[t] = <<>> \/ pc[t] = "idle"
  /\ (pc[t] \in {"cleanup", "idle"} /\ cs[t] = "SUCCESS" /\ EntryStatus(req[t]) = "GO")
        => Done(t)

(* The hypothesis: MIOpen does not answer a query with GPU_OPERATIONS_SKIPPED, *)
(* which bridge_status takes for SUCCESS although nothing was answered.        *)
NoSkippedQuery == "GPU_OPERATIONS_SKIPPED" \notin QueryStatuses

LEMMA FailedQuery ==
  ASSUME NoSkippedQuery, NEW ms \in QueryStatuses, ms # "SUCCESS"
  PROVE  bridge_status(ms) # "SUCCESS"
BY ConstantsAssumption DEF NoSkippedQuery, bridge_status, MiopenStatus

LEMMA RefusalFails ==
  ASSUME NEW t \in Threads
  PROVE  PickRefusal(t) # "SUCCESS"
BY DEF PickRefusal

(* A record that is selected is not the initial value of the locals. *)
LEMMA RecordIsSelected ==
  ASSUME NEW t \in Threads, Record(t).ok
  PROVE  Record(t) # Unselected
BY DEF Unselected

LEMMA BoundOwnStep ==
  ASSUME TypeOK, NoSkippedQuery, NEW t \in Threads, Bound(t), Acts(t)
  PROVE  Bound(t)'
<1>1. ASSUME NEW r \in Requests, Reject(t, r) \/ Call(t, r)
      PROVE  Bound(t)'
  <2>1. /\ pc'[t] \in {"idle", "make"}
        /\ launched'[t] = FALSE
    BY <1>1 DEF TypeOK, Reject, Call, Prologue
  <2>2. QED
    BY <2>1 DEF Bound
<1>2. CASE FilterTooWide(t) \/ RefuseSelection(t) \/ NoMemory(t) \/ EndScan(t)
  BY <1>2 DEF TypeOK, Bound, FilterTooWide, RefuseSelection, NoMemory, EndScan, Leave
<1>3. ASSUME NEW ms \in MakeStatuses, Create(t, ms) \/ SetUp(t, ms)
      PROVE  Bound(t)'
  <2>1. pc'[t] \in {"make", "set", "count", "cleanup"}
    BY <1>3 DEF TypeOK, Create, SetUp, MakeReturns, NextSlot, Leave
  <2>2. UNCHANGED <<launched, pick>>
    BY <1>3 DEF Create, SetUp
  <2>3. QED
    BY <2>1, <2>2 DEF Bound
<1>4. ASSUME NEW ms \in QueryStatuses, Count(t, ms)
      PROVE  Bound(t)'
  <2>1. UNCHANGED <<req, made, launched, pick>>
    BY <1>4 DEF Count
  <2>2. Picks(t) => made[t] = Slots
    BY <1>4 DEF Count, PickRefusal
  <2>3. pc'[t] \in {"get", "cleanup"}
    BY <1>4, FailedQuery DEF TypeOK, Count, Selected, Leave
  <2>4. QED
    BY <2>1, <2>2, <2>3 DEF Bound, Picks
<1>5. ASSUME NEW ms \in QueryStatuses, Get(t, ms)
      PROVE  Bound(t)'
  <2>1. UNCHANGED <<req, made, launched, pick>> /\ pc[t] = "get"
    BY <1>5 DEF Get
  <2>2. pc'[t] \in {"scan", "cleanup"}
    BY <1>5, FailedQuery DEF TypeOK, Get, Selected
  <2>3. QED
    BY <2>1, <2>2 DEF Bound, Picks
<1>6. CASE PassOver(t) \/ Unusable(t) \/ Publish(t)
  BY <1>6 DEF Bound, PassOver, Unusable, Publish, Picks, WorkspaceShort
<1>7. CASE Select(t)
  <2>1. /\ pick'[t] = Record(t)
        /\ Record(t) # Unselected
        /\ Serves(req[t].dir, Record(t).family, req[t].algo)
    BY <1>7, RecordIsSelected DEF TypeOK, Select, Wanted
  <2>2. /\ pc'[t] \in {"check", "cleanup"}
        /\ pc'[t] = "check" => req[t].kind = "exec"
    BY <1>7 DEF TypeOK, Select, Selected
  <2>3. UNCHANGED <<req, made>> /\ pc[t] = "scan" /\ Picks(t)
    BY <1>7 DEF Select, Scanning
  <2>4. QED
    BY <2>1, <2>2, <2>3 DEF Bound, Picks
<1>8. CASE CheckWorkspace(t)
  BY <1>8 DEF TypeOK, Bound, CheckWorkspace, Leave, WorkspaceShort, Picks
<1>9. ASSUME NEW ms \in LaunchStatuses, Launch(t, ms)
      PROVE  Bound(t)'
  <2>1. pc'[t] = "cleanup" /\ pick' = pick /\ pc[t] = "launch"
    BY <1>9 DEF TypeOK, Launch, Leave
  <2>2. QED
    BY <2>1 DEF Bound
<1>10. CASE Cleanup(t)
  BY <1>10 DEF TypeOK, Bound, Cleanup
<1>11. QED
  BY <1>1, <1>2, <1>3, <1>4, <1>5, <1>6, <1>7, <1>8, <1>9, <1>10 DEF Acts, Proceed

LEMMA EarnedOwnStep ==
  ASSUME TypeOK, NoSkippedQuery, NEW t \in Threads, Bound(t), Earned(t), Acts(t)
  PROVE  Earned(t)'
<1>1. ASSUME NEW r \in Requests, Reject(t, r) \/ Call(t, r)
      PROVE  Earned(t)'
  <2>1. /\ req'[t] = r /\ out'[t] = <<>>
        /\ pc'[t] \in {"cleanup", "idle"} => EntryStatus(r) # "GO"
    BY <1>1 DEF TypeOK, Reject, Call, Prologue
  <2>2. QED
    BY <2>1 DEF Earned, EntryStatus
<1>2. CASE FilterTooWide(t) \/ RefuseSelection(t) \/ NoMemory(t)
  <2>1. /\ pc'[t] = "cleanup" /\ cs'[t] # "SUCCESS"
        /\ UNCHANGED <<req, out>> /\ pc[t] # "idle"
    BY <1>2, RefusalFails DEF TypeOK, FilterTooWide, RefuseSelection, NoMemory, Leave
  <2>2. QED
    BY <2>1 DEF Earned, Picks
<1>3. ASSUME NEW ms \in MakeStatuses, Create(t, ms) \/ SetUp(t, ms)
      PROVE  Earned(t)'
  <2>1. \/ pc'[t] \in {"make", "set", "count"}
        \/ pc'[t] = "cleanup" /\ cs'[t] # "SUCCESS"
    BY <1>3 DEF TypeOK, Create, SetUp, MakeReturns, NextSlot, Leave
  <2>2. UNCHANGED <<req, out>> /\ pc[t] # "idle"
    BY <1>3 DEF Create, SetUp
  <2>3. QED
    BY <2>1, <2>2 DEF Earned, Picks
<1>4. ASSUME NEW ms \in QueryStatuses, Count(t, ms) \/ Get(t, ms)
      PROVE  Earned(t)'
  <2>1. \/ pc'[t] \in {"get", "scan"}
        \/ pc'[t] = "cleanup" /\ cs'[t] # "SUCCESS"
    BY <1>4, FailedQuery DEF TypeOK, Count, Get, Selected, Leave
  <2>2. UNCHANGED <<req, out>> /\ pc[t] # "idle"
    BY <1>4 DEF Count, Get
  <2>3. QED
    BY <2>1, <2>2 DEF Earned, Picks
<1>5. CASE PassOver(t) \/ Unusable(t)
  BY <1>5 DEF Earned, PassOver, Unusable, Scanning, Picks
<1>6. CASE Publish(t)
  BY <1>6 DEF Earned, Publish, Scanning, Picks
<1>7. CASE Select(t)
  <2>1. pick'[t] # Unselected
    BY <1>7, RecordIsSelected DEF TypeOK, Select
  <2>2. \/ pc'[t] = "check"
        \/ pc'[t] = "cleanup" /\ req[t].kind # "exec"
    BY <1>7 DEF TypeOK, Select, Selected
  <2>3. UNCHANGED <<req, out>> /\ pc[t] = "scan" /\ Picks(t)
    BY <1>7 DEF Select, Scanning
  <2>4. QED
    BY <2>1, <2>2, <2>3 DEF Earned, Done, Picks
<1>8. CASE EndScan(t)
  <2>1. /\ pc'[t] = "cleanup" /\ pc[t] = "scan"
        /\ cs'[t] = "SUCCESS" => Len(out[t]) > 0
        /\ UNCHANGED <<req, out>>
    BY <1>8 DEF TypeOK, EndScan, Leave
  <2>2. Len(out[t]) > 0 => out[t] # <<>>
    OBVIOUS
  <2>3. QED
    BY <2>1, <2>2 DEF Earned, Done, Picks
<1>9. CASE CheckWorkspace(t)
  <2>1. \/ pc'[t] = "launch"
        \/ pc'[t] = "cleanup" /\ cs'[t] # "SUCCESS"
    BY <1>9 DEF TypeOK, CheckWorkspace, Leave
  <2>2. UNCHANGED <<req, out>> /\ pc[t] = "check"
    BY <1>9 DEF CheckWorkspace
  <2>3. QED
    BY <2>1, <2>2 DEF Earned, Picks
<1>10. ASSUME NEW ms \in LaunchStatuses, Launch(t, ms)
       PROVE  Earned(t)'
  <2>1. /\ launched'[t] = TRUE /\ req[t].kind = "exec"
        /\ pc[t] = "launch" /\ UNCHANGED <<req, out>>
    BY <1>10 DEF TypeOK, Launch, Bound
  <2>2. QED
    BY <2>1 DEF Earned, Done, Picks
<1>11. CASE Cleanup(t)
  <2>1. /\ pc'[t] = "idle" /\ pc[t] = "cleanup"
        /\ UNCHANGED <<req, out, pick, launched, cs>>
    BY <1>11 DEF TypeOK, Cleanup
  <2>2. QED
    BY <2>1 DEF Earned, Done
<1>12. QED
  BY <1>1, <1>2, <1>3, <1>4, <1>5, <1>6, <1>7, <1>8, <1>9, <1>10, <1>11 DEF Acts, Proceed

(* The inductive invariant behind the next three theorems. *)
Promise(u) == Bound(u) /\ Earned(u)

LEMMA PromiseInit ==
  ASSUME Init, NEW u \in Threads
  PROVE  Promise(u)
BY DEF Init, Promise, Bound, Earned

LEMMA PromiseStep ==
  ASSUME TypeOK, NoSkippedQuery, [Next]_vars, \A u \in Threads : Promise(u)
  PROVE  \A u \in Threads : Promise(u)'
<1> SUFFICES ASSUME NEW u \in Threads PROVE Promise(u)'
  OBVIOUS
<1>1. ASSUME Own(u)' = Own(u)
      PROVE  Promise(u)'
  BY <1>1 DEF Promise, Own, Bound, Earned, Done, Picks, WorkspaceShort
<1>2. CASE BackendChanges \/ UNCHANGED vars
  BY <1>1, <1>2, BackendKeepsCalls
<1>3. ASSUME NEW t \in Threads, Acts(t), t # u
      PROVE  Promise(u)'
  BY <1>1, <1>3, OthersKept
<1>4. ASSUME Acts(u)
      PROVE  Promise(u)'
  BY <1>4, BoundOwnStep, EarnedOwnStep DEF Promise
<1>5. QED
  BY <1>2, <1>3, <1>4, NextActs

LEMMA PromiseAlways ==
  ASSUME NoSkippedQuery
  PROVE  Spec => [](TypeOK /\ \A u \in Threads : Promise(u))
<1> DEFINE Inv == TypeOK /\ \A u \in Threads : Promise(u)
<1>1. Init => Inv
  BY InitType, PromiseInit
<1>2. Inv /\ [Next]_vars => Inv'
  BY StepType, PromiseStep
<1>3. QED
  BY <1>1, <1>2, PTL DEF Spec

(* What is launched is what the caller asked for, with enough workspace. *)
THEOREM LaunchesHonourRequests ==
  ASSUME NoSkippedQuery
  PROVE  Spec => []LaunchHonoursRequest
<1>1. TypeOK /\ (\A u \in Threads : Promise(u)) => LaunchHonoursRequest
  <2> SUFFICES ASSUME TypeOK, \A u \in Threads : Promise(u),
                      NEW t \in Threads, pc[t] = "launch"
               PROVE  /\ made[t] = Slots
                      /\ Serves(req[t].dir, pick[t].family, req[t].algo)
                      /\ pick[t].ws <= req[t].given
                      /\ pick[t].ws > 0 => req[t].ptr
    BY DEF LaunchHonoursRequest
  <2>1. Bound(t)
    BY DEF Promise
  <2>2. pick[t].ws \in Nat /\ req[t].given \in Nat
    BY RequestType DEF TypeOK, Solution, Request
  <2>3. ~WorkspaceShort(t)
    BY <2>1 DEF Bound
  <2>4. QED
    BY <2>1, <2>2, <2>3 DEF Bound, Picks, WorkspaceShort
<1>2. QED
  BY <1>1, PromiseAlways, PTL

(* No Immediate call with a solution id that no query returned. *)
THEOREM LaunchesAreSelected ==
  ASSUME NoSkippedQuery
  PROVE  Spec => []LaunchIsSelected
<1>1. (\A u \in Threads : Promise(u)) => LaunchIsSelected
  BY DEF LaunchIsSelected, Promise, Bound
<1>2. QED
  BY <1>1, PromiseAlways, PTL

(* SUCCESS means the work was done. *)
THEOREM SuccessAlwaysEarned ==
  ASSUME NoSkippedQuery
  PROVE  Spec => []SuccessIsEarned
<1>1. (\A u \in Threads : Promise(u)) => SuccessIsEarned
  BY DEF SuccessIsEarned, Promise, Earned, Done
<1>2. QED
  BY <1>1, PromiseAlways, PTL

-----------------------------------------------------------------------------
(* What the refinement needs of a call, whatever MIOpen answers, SKIPPED     *)
(* included: a launch is still ahead until the Immediate call, only an       *)
(* execution with its four descriptors comes near it, and what an execution  *)
(* is about to answer is SUCCESS only behind it.                             *)
Faithful(t) ==
  /\ pc[t] \in {"make", "set", "count", "get", "scan", "check", "launch"} => ~launched[t]
  /\ (Picks(t) /\ pc[t] \in {"get", "scan", "check", "launch"}) => made[t] = Slots
  /\ pc[t] \in {"check", "launch"} => req[t].kind = "exec"
  /\ (pc[t] = "cleanup" /\ cs[t] = "SUCCESS" /\ req[t].kind = "exec") => launched[t]
  /\ pc[t] # "idle" => EntryStatus(req[t]) = "GO"
  /\ Picks(t) => out[t] = <<>> \/ pc[t] = "idle"

LEMMA FaithfulInit ==
  ASSUME Init, NEW t \in Threads
  PROVE  Faithful(t)
BY DEF Init, Faithful

LEMMA FaithfulOwnStep ==
  ASSUME TypeOK, NEW t \in Threads, Faithful(t), Acts(t)
  PROVE  Faithful(t)'
<1>1. ASSUME NEW r \in Requests, Reject(t, r) \/ Call(t, r)
      PROVE  Faithful(t)'
  <2>1. /\ pc'[t] \in {"idle", "make"} /\ req'[t] = r
        /\ launched'[t] = FALSE /\ out'[t] = <<>>
        /\ pc'[t] = "make" => EntryStatus(r) = "GO"
    BY <1>1 DEF TypeOK, Reject, Call, Prologue
  <2>2. QED
    BY <2>1 DEF Faithful, EntryStatus
<1>2. CASE FilterTooWide(t) \/ RefuseSelection(t) \/ NoMemory(t) \/ EndScan(t)
  <2>1. /\ pc'[t] = "cleanup" /\ pc[t] \in {"make", "count", "get", "scan"}
        /\ UNCHANGED <<req, out, launched>>
        /\ (cs'[t] = "SUCCESS" /\ Picks(t)) => Len(out[t]) > 0
    BY <1>2, RefusalFails
       DEF TypeOK, FilterTooWide, RefuseSelection, NoMemory, EndScan, Leave
  <2>2. Len(<<>>) = 0
    OBVIOUS
  <2>3. QED
    BY <2>1, <2>2 DEF Faithful, Picks, EntryStatus
<1>3. ASSUME NEW ms \in MakeStatuses, Create(t, ms) \/ SetUp(t, ms)
      PROVE  Faithful(t)'
  <2>1. /\ pc[t] \in {"make", "set"}
        /\ \/ pc'[t] \in {"make", "set", "count"}
           \/ pc'[t] = "cleanup" /\ cs'[t] # "SUCCESS"
    BY <1>3 DEF TypeOK, Create, SetUp, MakeReturns, NextSlot, Leave
  <2>2. UNCHANGED <<req, out, launched>>
    BY <1>3 DEF Create, SetUp
  <2>3. QED
    BY <2>1, <2>2 DEF Faithful, Picks, EntryStatus
<1>4. ASSUME NEW ms \in QueryStatuses, Count(t, ms) \/ Get(t, ms)
      PROVE  Faithful(t)'
  <2>1. UNCHANGED <<req, made, out, launched>> /\ pc[t] \in {"count", "get"}
    BY <1>4 DEF Count, Get
  <2>2. Picks(t) => made[t] = Slots
    BY <1>4 DEF Count, Get, PickRefusal, Faithful
  <2>3. \/ pc'[t] \in {"get", "scan"}
        \/ pc'[t] = "check" /\ req[t].kind = "exec"
        \/ pc'[t] = "cleanup" /\ (cs'[t] = "SUCCESS" => req[t].kind # "exec")
    BY <1>4 DEF TypeOK, Count, Get, Selected, Leave
  <2>4. QED
    BY <2>1, <2>2, <2>3 DEF Faithful, Picks, EntryStatus
<1>5. CASE PassOver(t) \/ Unusable(t) \/ Publish(t)
  <2>1. UNCHANGED <<pc, req, made, launched, cs>> /\ pc[t] = "scan"
    BY <1>5 DEF PassOver, Unusable, Publish, Scanning
  <2>2. Picks(t) => out' = out
    BY <1>5 DEF PassOver, Unusable, Publish
  <2>3. QED
    BY <2>1, <2>2 DEF Faithful, Picks, EntryStatus
<1>6. CASE Select(t)
  <2>1. UNCHANGED <<req, made, out, launched>> /\ pc[t] = "scan" /\ Picks(t)
    BY <1>6 DEF Select, Scanning
  <2>2. \/ pc'[t] = "check" /\ req[t].kind = "exec"
        \/ pc'[t] = "cleanup" /\ req[t].kind # "exec"
    BY <1>6 DEF TypeOK, Select, Selected
  <2>3. QED
    BY <2>1, <2>2 DEF Faithful, Picks, EntryStatus
<1>7. CASE CheckWorkspace(t)
  <2>1. UNCHANGED <<req, made, out, launched>> /\ pc[t] = "check"
    BY <1>7 DEF CheckWorkspace
  <2>2. \/ pc'[t] = "launch"
        \/ pc'[t] = "cleanup" /\ cs'[t] # "SUCCESS"
    BY <1>7 DEF TypeOK, CheckWorkspace, Leave
  <2>3. QED
    BY <2>1, <2>2 DEF Faithful, Picks, EntryStatus
<1>8. ASSUME NEW ms \in LaunchStatuses, Launch(t, ms)
      PROVE  Faithful(t)'
  <2>1. /\ UNCHANGED <<req, out>> /\ pc[t] = "launch"
        /\ pc'[t] = "cleanup" /\ launched'[t] = TRUE
    BY <1>8 DEF TypeOK, Launch, Leave
  <2>2. QED
    BY <2>1 DEF Faithful, Picks, EntryStatus
<1>9. CASE Cleanup(t)
  <2>1. pc'[t] = "idle"
    BY <1>9 DEF TypeOK, Cleanup
  <2>2. QED
    BY <2>1 DEF Faithful
<1>10. QED
  BY <1>1, <1>2, <1>3, <1>4, <1>5, <1>6, <1>7, <1>8, <1>9 DEF Acts, Proceed

LEMMA FaithfulStep ==
  ASSUME TypeOK, [Next]_vars, \A u \in Threads : Faithful(u)
  PROVE  \A u \in Threads : Faithful(u)'
<1> SUFFICES ASSUME NEW u \in Threads PROVE Faithful(u)'
  OBVIOUS
<1>1. ASSUME Own(u)' = Own(u)
      PROVE  Faithful(u)'
  BY <1>1 DEF Faithful, Own, Picks, EntryStatus
<1>2. CASE BackendChanges \/ UNCHANGED vars
  BY <1>1, <1>2, BackendKeepsCalls
<1>3. ASSUME NEW t \in Threads, Acts(t), t # u
      PROVE  Faithful(u)'
  BY <1>1, <1>3, OthersKept
<1>4. ASSUME Acts(u)
      PROVE  Faithful(u)'
  BY <1>4, FaithfulOwnStep
<1>5. QED
  BY <1>2, <1>3, <1>4, NextActs

(* The state of the contract, as the mapping reads it. *)
Phases  == [t \in Threads |-> Phase(t)]
Wishes  == [t \in Threads |-> Wants(t)]
Answers == [t \in Threads |-> Answer(t)]
Holders == {t \in Threads : live[t] # {}}

(* A step of t shows in the contract at t only. *)
LEMMA ShowsAtOne ==
  ASSUME TypeOK, NEW t \in Threads, Acts(t)
  PROVE  /\ Phases' = [Phases EXCEPT ![t] = Phase(t)']
         /\ Wishes' = [Wishes EXCEPT ![t] = Wants(t)']
         /\ Answers' = [Answers EXCEPT ![t] = Answer(t)']
         /\ Holders' = IF live'[t] # {} THEN Holders \union {t} ELSE Holders \ {t}
         /\ Phases[t] = Phase(t) /\ Wishes[t] = Wants(t) /\ Answers[t] = Answer(t)
<1>1. ASSUME NEW u \in Threads, u # t
      PROVE  /\ Phase(u)' = Phase(u) /\ Wants(u)' = Wants(u)
             /\ Answer(u)' = Answer(u) /\ live'[u] = live[u]
  <2>1. Own(u)' = Own(u)
    BY <1>1, OthersKept
  <2>2. QED
    BY <2>1 DEF Own, Phase, Wants, Answer
<1>2. Phases' = [Phases EXCEPT ![t] = Phase(t)']
  BY <1>1 DEF Phases
<1>3. Wishes' = [Wishes EXCEPT ![t] = Wants(t)']
  BY <1>1 DEF Wishes
<1>4. Answers' = [Answers EXCEPT ![t] = Answer(t)']
  BY <1>1 DEF Answers
<1>5. Holders' = IF live'[t] # {} THEN Holders \union {t} ELSE Holders \ {t}
  BY <1>1 DEF Holders
<1>6. Phases[t] = Phase(t) /\ Wishes[t] = Wants(t) /\ Answers[t] = Answer(t)
  BY DEF Phases, Wishes, Answers
<1>7. QED
  BY <1>2, <1>3, <1>4, <1>5, <1>6

(* Nothing of a step shows at t but, perhaps, what it holds. *)
Silent(t) ==
  /\ Phase(t)' = Phase(t) /\ Wants(t)' = Wants(t) /\ Answer(t)' = Answer(t)

LEMMA SilentStep ==
  ASSUME TypeOK, NEW t \in Threads, Acts(t), Silent(t),
         (live'[t] = {}) = (live[t] = {}) \/ Phase(t) = "open"
  PROVE  Contract!CNext \/ UNCHANGED Contract!cvars
<1>1. UNCHANGED <<Phases, Wishes, Answers>>
  BY ShowsAtOne DEF Silent, Phases, Wishes, Answers
<1>2. Holders' \in {Holders, Holders \union {t}, Holders \ {t}}
  BY ShowsAtOne
<1>3. CASE Holders' = Holders
  BY <1>1, <1>3 DEF Contract!cvars, Phases, Wishes, Answers, Holders
<1>4. CASE Holders' # Holders
  <2>1. Phase(t) = "open"
    BY <1>4, ShowsAtOne DEF Holders
  <2>2. Contract!Acquire(t) \/ Contract!GiveBack(t)
    BY <1>1, <1>2, <1>4, <2>1
       DEF Contract!Acquire, Contract!GiveBack, Phases, Wishes, Answers, Holders
  <2>3. QED
    BY <2>2 DEF Contract!CNext
<1>5. QED
  BY <1>3, <1>4

(* Every step of a call is a step of the contract or none of its business. *)
LEMMA ActsInContract ==
  ASSUME TypeOK, NEW t \in Threads, Balance(t), Faithful(t), Acts(t)
  PROVE  Contract!CNext \/ UNCHANGED Contract!cvars
<1>1. ASSUME NEW r \in Requests, Reject(t, r)
      PROVE  Contract!CNext
  <2>1. EntryStatus(r) \in CudnnStatus
    BY <1>1, EntryType DEF Reject
  <2>2. /\ Phase(t) = "idle" /\ Phase(t)' = "idle" /\ Answer(t)' = EntryStatus(r)
        /\ live' = live /\ Wants(t)' \in {"ask", "run"}
        /\ EntryStatus(r) = "SUCCESS" => Wants(t)' = "ask"
    BY <1>1 DEF TypeOK, Reject, Prologue, Phase, Answer, Wants, EntryStatus
  <2>3. Contract!Refuse(t, Wants(t)', EntryStatus(r))
    BY <2>2, <1>1, ShowsAtOne DEF Contract!Refuse, Phases, Wishes, Answers, Holders, Acts
  <2>4. QED
    BY <2>1, <2>2, <2>3 DEF Contract!CNext, Contract!CudnnStatus, CudnnStatus
<1>2. ASSUME NEW r \in Requests, Call(t, r)
      PROVE  Contract!CNext
  <2>1. /\ Phase(t) = "idle" /\ Phase(t)' = "open" /\ Answer(t)' = "PENDING"
        /\ live' = live /\ Wants(t)' \in {"ask", "run"}
    BY <1>2 DEF TypeOK, Call, Prologue, Phase, Answer, Wants
  <2>2. Contract!Open(t, Wants(t)')
    BY <2>1, <1>2, ShowsAtOne DEF Contract!Open, Phases, Wishes, Answers, Holders, Acts
  <2>3. QED
    BY <2>1, <2>2 DEF Contract!CNext
<1>3. ASSUME NEW ms \in MakeStatuses, Create(t, ms) \/ SetUp(t, ms)
      PROVE  Contract!CNext \/ UNCHANGED Contract!cvars
  <2>1. /\ pc[t] \in {"make", "set"} /\ pc'[t] # "idle"
        /\ UNCHANGED <<req, launched>>
    BY <1>3 DEF TypeOK, Create, SetUp, MakeReturns, NextSlot, Leave
  <2>2. Silent(t) /\ Phase(t) = "open"
    BY <2>1 DEF Silent, Phase, Wants, Answer, Faithful
  <2>3. QED
    BY <2>2, SilentStep
<1>4. ASSUME UNCHANGED <<req, launched, live>>, pc[t] # "idle", pc'[t] # "idle"
      PROVE  Contract!CNext \/ UNCHANGED Contract!cvars
  BY <1>4, SilentStep DEF Silent, Phase, Wants, Answer
<1>5. CASE \/ FilterTooWide(t) \/ RefuseSelection(t) \/ NoMemory(t)
           \/ \E ms \in QueryStatuses : Count(t, ms) \/ Get(t, ms)
           \/ PassOver(t) \/ Unusable(t) \/ Publish(t) \/ Select(t) \/ EndScan(t)
           \/ CheckWorkspace(t)
  <2>1. UNCHANGED <<req, launched, live>> /\ pc[t] # "idle" /\ pc'[t] # "idle"
    BY <1>5
       DEF TypeOK, FilterTooWide, RefuseSelection, NoMemory, Count, Get, PassOver,
           Unusable, Publish, Select, EndScan, CheckWorkspace, Leave, Selected, Scanning
  <2>2. QED
    BY <2>1, <1>4
<1>6. ASSUME NEW ms \in LaunchStatuses, Launch(t, ms)
      PROVE  Contract!CNext
  <2>1. /\ Phase(t) = "open" /\ Phase(t)' = "launched" /\ Wants(t) = "run"
        /\ Wants(t)' = "run" /\ Answer(t) = "PENDING" /\ Answer(t)' = "PENDING"
        /\ live' = live
    BY <1>6 DEF TypeOK, Launch, Leave, Phase, Answer, Wants, Faithful
  <2>2. t \in Holders
    BY <1>6 DEF Launch, Faithful, Picks, Balance, Slots, Holders
  <2>3. UNCHANGED <<Wishes, Answers, Holders>>
    <3>1. req' = req /\ \A u \in Threads : Answer(u)' = Answer(u)
      <4>1. \A u \in Threads : u # t => Own(u)' = Own(u)
        BY <1>6, OthersKept
      <4>2. QED
        BY <1>6, <2>1, <4>1 DEF Launch, Own, Answer
    <3>2. QED
      BY <2>1, <3>1 DEF Wishes, Wants, Answers, Holders
  <2>4. Contract!Launch(t)
    BY <2>1, <2>2, <2>3, ShowsAtOne DEF Contract!Launch, Phases, Wishes, Answers, Holders
  <2>5. QED
    BY <2>4 DEF Contract!CNext
<1>7. CASE Cleanup(t)
  <2>1. /\ Phase(t) # "idle" /\ Phase(t)' = "idle" /\ Wants(t)' = Wants(t)
        /\ Answer(t)' = cs[t] /\ live'[t] = {} /\ cs[t] \in CudnnStatus
        /\ (cs[t] = "SUCCESS" /\ Wants(t) = "run") => Phase(t) = "launched"
    BY <1>7 DEF TypeOK, Cleanup, Phase, Answer, Wants, Faithful, Balance
  <2>2. PICK s \in CudnnStatus : s = cs[t]
    BY <2>1
  <2>3. Contract!Answer(t, s)
    BY <2>1, <2>2, ShowsAtOne DEF Contract!Answer, Phases, Wishes, Answers, Holders
  <2>4. QED
    BY <2>3 DEF Contract!CNext, Contract!CudnnStatus, CudnnStatus
<1>8. QED
  BY <1>1, <1>2, <1>3, <1>5, <1>6, <1>7 DEF Acts, Proceed

(* The nine entry points implement the abstract contract: a call is refused  *)
(* at once or opened, launches at most one solver, is answered with SUCCESS  *)
(* for a convolution only behind the launch, and holds MIOpen objects only   *)
(* while it is open - whatever MIOpen answers, GPU_OPERATIONS_SKIPPED and    *)
(* changing solution lists included.                                         *)
THEOREM ContractKept == Spec => KeepsContract
<1> DEFINE Inv == TypeOK /\ \A u \in Threads : Balance(u) /\ Faithful(u)
<1>1. Init => Inv
  BY InitType, FaithfulInit DEF Init, Balance
<1>2. Inv /\ [Next]_vars => Inv'
  BY StepType, BalanceStep, FaithfulStep
<1>3. Init => Contract!CInit
  BY DEF Init, Contract!CInit, Phase, Wants, Answer
<1>4. Inv /\ [Next]_vars => Contract!CNext \/ UNCHANGED Contract!cvars
  <2> SUFFICES ASSUME Inv, [Next]_vars
               PROVE  Contract!CNext \/ UNCHANGED Contract!cvars
    OBVIOUS
  <2>1. CASE BackendChanges \/ UNCHANGED vars
    BY <2>1 DEF BackendChanges, vars, Contract!cvars, Phase, Wants, Answer
  <2>2. QED
    BY <2>1, NextActs, ActsInContract
<1>5. QED
  BY <1>1, <1>2, <1>3, <1>4, PTL DEF Spec, KeepsContract, Contract!ContractSpec
=============================================================================
