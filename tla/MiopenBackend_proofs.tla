------------------------- MODULE MiopenBackend_proofs -------------------------
(***************************************************************************)
(* The safety properties of MiopenBackend, for every set of threads,       *)
(* handles, symbols and installed libraries.                               *)
(***************************************************************************)
EXTENDS MiopenBackend, TLAPS

InRoutine(t) == pc[t] \in {"find", "bind"}
InCall(t)    == pc[t] \in {"alloc", "stream", "call"}

(* The routine behind g_miopen_once: one thread is in it, and only while the *)
(* once object says so; until it runs nothing is loaded; what it has bound   *)
(* so far is the beginning of the list of required symbols; and g_miopen_ready *)
(* is set over the complete list only.                                       *)
LoadedOnce ==
  /\ once = "fresh" => table = {} /\ library = "none"
  /\ ready => once = "done" /\ RequiredSet \subseteq table
  /\ \A t \in Threads : InRoutine(t) => once = "running"
  /\ \A t, u \in Threads : InRoutine(t) /\ InRoutine(u) => t = u
  /\ \A t \in Threads : pc[t] = "find" => library = "none"
  /\ \A t \in Threads : pc[t] = "bind" =>
        \A n \in 1 .. pos[t] - 1 : Required[n] \in table
  /\ ConfiguredPathBinds

(* Calls past bridge_backend_ready stand on a complete table.                *)
Backed ==
  /\ \A t \in Threads : InCall(t) => ready
  /\ \A t \in Threads : pc[t] = "call" => op[t] \in table
  /\ \A t \in Threads : pc[t] \in {"alloc", "stream"} => op[t] = "create"

(* A create makes a handle nobody else works on, any other call uses a valid *)
(* handle; and no two calls share one.                                       *)
Held ==
  /\ \A t \in Threads : pc[t] # "idle" => (op[t] = "create" <=> arg[t] \notin valid)
  /\ \A t, u \in Threads : pc[t] # "idle" /\ pc[u] # "idle" /\ t # u => arg[t] # arg[u]

(* Valid handles are usable, and every MIOpen handle belongs to one of them  *)
(* or to the create that is attaching its stream.                            *)
Owned ==
  /\ \A t \in Threads : pc[t] = "stream" => arg[t] \in backed /\ stream[arg[t]] = "default"
  /\ \A h \in valid : ready /\ h \in backed /\ stream[h] = "default"
  /\ \A h \in backed : h \in valid \/ \E t \in Threads : pc[t] = "stream" /\ arg[t] = h

Inv == TypeOK /\ LoadedOnce /\ Backed /\ Held /\ Owned

-----------------------------------------------------------------------------
LEMMA Start == Init => Inv
<1> SUFFICES ASSUME Init PROVE Inv
  OBVIOUS
<1>1. (CHOOSE h \in Handles : TRUE) \in Handles
  BY BackendAssumption
<1>2. 1 \in 1 .. Len(Required) + 1
  BY BackendAssumption
<1>3. TypeOK
  BY <1>1, <1>2 DEF Init, TypeOK, Envs, CudnnStatus
<1>4. LoadedOnce
  BY DEF Init, LoadedOnce, InRoutine, ConfiguredPathBinds
<1>5. Backed /\ Held /\ Owned
  BY DEF Init, Backed, Held, Owned, InCall
<1>6. QED
  BY <1>3, <1>4, <1>5 DEF Inv

LEMMA Statuses == MiopenReturns \subseteq MiopenStatus /\ "SUCCESS" \in MiopenStatus
BY BackendAssumption DEF MiopenStatus

(* Every status bridge_status returns is one of cuDNN's. *)
LEMMA StatusIsCudnn == \A ms \in MiopenStatus : bridge_status(ms) \in CudnnStatus
BY DEF bridge_status, CudnnStatus, MiopenStatus

(* The required symbols, by position. *)
LEMMA Positions ==
  /\ Len(Required) \in Nat
  /\ \A n \in 1 .. Len(Required) : Required[n] \in Symbols /\ Required[n] \in RequiredSet
  /\ RequiredSet = {Required[n] : n \in 1 .. Len(Required)}
  /\ {"create", "set_stream", "destroy"} \subseteq RequiredSet
BY BackendAssumption DEF Symbols, RequiredSet

LEMMA EnvironmentStep ==
  ASSUME Inv, NEW e \in Envs, SetEnvironment(e)
  PROVE  Inv'
BY DEF SetEnvironment, loader, handles, Inv, TypeOK, LoadedOnce, InRoutine,
       ConfiguredPathBinds, Backed, Held, Owned, InCall, RequiredSet

LEMMA BeginStep ==
  ASSUME Inv, NEW t \in Threads, NEW h \in Handles,
         NEW o \in {"create"} \union Optional, Begin(t, o, h)
  PROVE  Inv'
<1>1. TypeOK'
  BY DEF Begin, Goto, loader, handles, Inv, TypeOK
<1>2. LoadedOnce'
  BY DEF Begin, Goto, loader, handles, Inv, TypeOK, LoadedOnce, InRoutine,
         ConfiguredPathBinds, RequiredSet
<1>3. Backed' /\ Held' /\ Owned'
  BY DEF Begin, Goto, loader, handles, Unused, Inv, TypeOK, Backed, Held, Owned, InCall
<1>4. QED
  BY <1>1, <1>2, <1>3 DEF Inv

(* What the routine does to the table and the once object.                   *)
LEMMA LoadStep ==
  ASSUME Inv, NEW t \in Threads, Load(t)
  PROVE  Inv'
<1> USE DEF Inv, TypeOK, LoadedOnce, InRoutine, ConfiguredPathBinds, Goto,
            LoaderReturns, handles
<1>1. TypeOK' /\ LoadedOnce'
  <2>1. CASE Elect(t)
    BY <2>1 DEF Elect
  <2>2. CASE FindLibrary(t)
    <3>1. /\ pc[t] = "find" /\ once = "running" /\ library = "none"
          /\ envRead' = env /\ env \in Envs
          /\ UNCHANGED <<machine, env, table, op, arg, cs, handles>>
          /\ \A u \in Threads : pc[u] \in {"find", "bind"} => u = t
          /\ \/ /\ LoaderReturns(t, FALSE)
                /\ UNCHANGED <<library, pos>>
             \/ /\ library' \in {"configured", "onPath"}
                /\ library' = "onPath" => env = "unset"
                /\ pos' = [pos EXCEPT ![t] = 1]
                /\ Goto(t, "bind")
                /\ UNCHANGED <<once, ready>>
      BY <2>2 DEF FindLibrary
    <3>2. CASE LoaderReturns(t, FALSE) /\ UNCHANGED <<library, pos>>
      BY <3>1, <3>2
    <3>3. CASE /\ library' \in {"configured", "onPath"}
               /\ library' = "onPath" => env = "unset"
               /\ pos' = [pos EXCEPT ![t] = 1]
               /\ Goto(t, "bind")
               /\ UNCHANGED <<once, ready>>
      <4>1. TypeOK'
        BY <3>1, <3>3, Positions
      <4>2. pos'[t] = 1 /\ pc'[t] = "bind" /\ 1 .. pos'[t] - 1 = {}
        BY <3>3
      <4>3. /\ once' = "running" /\ ready' = ready /\ table' = table
            /\ \A u \in Threads : u # t => pc'[u] = pc[u]
        BY <3>1, <3>3
      <4>4. \A u \in Threads : pc'[u] \in {"find", "bind"} => u = t
        BY <3>1, <4>3
      <4>5. LoadedOnce'
        BY <3>1, <3>3, <4>2, <4>3, <4>4
      <4>6. QED
        BY <4>1, <4>5
    <3>4. QED
      BY <3>1, <3>2, <3>3
  <2>3. CASE BindRequired(t)
    <3>1. CASE LoaderReturns(t, FALSE) /\ UNCHANGED <<table, pos>>
      BY <2>3, <3>1 DEF BindRequired
    <3>2. CASE /\ table' = table \union {Required[pos[t]]}
               /\ pos' = [pos EXCEPT ![t] = @ + 1]
               /\ UNCHANGED <<once, ready, pc>>
      <4>1. /\ pos[t] \in 1 .. Len(Required) /\ pos'[t] = pos[t] + 1
            /\ pos'[t] \in 1 .. Len(Required) + 1
            /\ 1 .. pos'[t] - 1 = (1 .. pos[t] - 1) \union {pos[t]}
            /\ \A u \in Threads : pc[u] = "bind" => u = t
        BY <2>3, <3>2, Positions, SMTT(30) DEF BindRequired
      <4>2. TypeOK'
        BY <2>3, <3>2, <4>1, Positions DEF BindRequired
      <4>3. LoadedOnce'
        BY <2>3, <3>2, <4>1 DEF BindRequired
      <4>4. QED
        BY <4>2, <4>3
    <3>3. QED
      BY <2>3, <3>1, <3>2 DEF BindRequired
  <2>4. CASE BindOptional(t)
    BY <2>4, Positions DEF BindOptional, Symbols
  <2>5. QED
    BY <2>1, <2>2, <2>3, <2>4 DEF Load
<1>2. /\ UNCHANGED <<handles, op, arg>>
      /\ pc[t] \in {"once", "find", "bind"}
      /\ pc'[t] \in {"once", "find", "bind"}
      /\ \A u \in Threads : u # t => pc'[u] = pc[u]
      /\ ~ready
  BY DEF Load, Elect, FindLibrary, BindRequired, BindOptional
<1> USE DEF handles
<1>3. \A u \in Threads : ~InCall(u) /\ ~InCall(u)'
  BY <1>2 DEF Backed, InCall
<1>4. Backed'
  BY <1>3 DEF Backed, InCall
<1>5. Held'
  BY <1>2 DEF Held
<1>6. Owned'
  <2>1. valid = {} /\ valid' = {}
    BY <1>2 DEF Owned
  <2>2. backed = {} /\ backed' = {}
    BY <1>2, <1>3, <2>1 DEF Owned, InCall
  <2>3. QED
    BY <1>3, <2>1, <2>2 DEF Owned, InCall
<1>7. QED
  BY <1>1, <1>4, <1>5, <1>6

(* A call past the once object leaves the loader alone. *)
LEMMA CallStep ==
  ASSUME Inv, NEW t \in Threads, NEW ms \in MiopenStatus,
         \/ BackendReady(t) \/ NoMemory(t) \/ RefuseScalar(t)
         \/ CreateBacking(t, ms) \/ AttachStream(t, ms) \/ CallOptional(t, ms)
  PROVE  Inv'
<1>1. /\ UNCHANGED <<machine, env, loader, op, arg, pos>>
      /\ ~InRoutine(t) /\ ~InRoutine(t)'
      /\ \A u \in Threads : u # t => pc'[u] = pc[u]
  BY DEF BackendReady, NoMemory, RefuseScalar, CreateBacking, AttachStream,
         CallOptional, Return, Goto, Inv, TypeOK, InRoutine, handles
<1>2. /\ pc' \in [Threads -> {"idle", "once", "find", "bind", "alloc", "stream", "call"}]
      /\ cs' \in [Threads -> CudnnStatus]
  BY StatusIsCudnn, SMTT(30)
     DEF BackendReady, NoMemory, RefuseScalar, CreateBacking, AttachStream,
         CallOptional, Return, Goto, Inv, TypeOK, CudnnStatus
<1>3. /\ valid' \subseteq Handles /\ backed' \subseteq Handles
      /\ stream' \in [Handles -> {"default", "other"}]
  BY DEF BackendReady, NoMemory, RefuseScalar, CreateBacking, AttachStream,
         CallOptional, Inv, TypeOK, handles
<1>4. TypeOK'
  BY <1>1, <1>2, <1>3 DEF loader, Inv, TypeOK
<1>5. LoadedOnce'
  BY <1>1 DEF loader, Inv, LoadedOnce, InRoutine, ConfiguredPathBinds, RequiredSet
<1>6. ASSUME UNCHANGED handles, pc[t] \in {"once", "alloc", "call"},
             pc'[t] \in {"idle", "alloc", "call"},
             pc'[t] = "alloc" => ready /\ op[t] = "create",
             pc'[t] = "call" => ready /\ op[t] \in table
      PROVE  Backed' /\ Held' /\ Owned'
  <2>1. Backed'
    BY <1>1, <1>6 DEF Inv, Backed, InCall, loader
  <2>2. Held'
    BY <1>1, <1>6 DEF Inv, Held, handles
  <2>3. Owned'
    BY <1>1, <1>6 DEF Inv, Owned, loader, handles
  <2>4. QED
    BY <2>1, <2>2, <2>3
<1>7. CASE BackendReady(t) \/ NoMemory(t) \/ RefuseScalar(t) \/ CallOptional(t, ms)
  <2>1. /\ UNCHANGED handles /\ pc[t] \in {"once", "alloc", "call"}
        /\ pc'[t] \in {"idle", "alloc", "call"}
        /\ pc'[t] = "alloc" => ready /\ op[t] = "create"
        /\ pc'[t] = "call" => ready /\ op[t] \in table
    BY <1>7
       DEF BackendReady, NoMemory, RefuseScalar, CallOptional, Return, Goto, Inv, TypeOK
  <2>2. QED
    BY <1>4, <1>5, <1>6, <2>1 DEF Inv
<1>8. CASE CreateBacking(t, ms) /\ ms # "SUCCESS"
  <2>1. UNCHANGED handles /\ pc[t] = "alloc" /\ pc'[t] = "idle"
    BY <1>8 DEF CreateBacking, Return, Goto, Inv, TypeOK, handles
  <2>2. QED
    BY <1>4, <1>5, <1>6, <2>1 DEF Inv
<1>9. CASE CreateBacking(t, ms) /\ ms = "SUCCESS"
  <2>1. /\ pc[t] = "alloc" /\ pc'[t] = "stream" /\ valid' = valid
        /\ arg[t] \in Handles /\ arg[t] \notin valid
        /\ backed' = backed \union {arg[t]}
        /\ stream'[arg[t]] = "default"
        /\ \A h \in Handles : h # arg[t] => stream'[h] = stream[h]
        /\ op[t] = "create" /\ ready
    BY <1>9 DEF CreateBacking, Goto, Inv, TypeOK, Backed, InCall, Held
  <2>2. Backed'
    BY <1>1, <2>1 DEF Inv, Backed, InCall, loader
  <2>3. Held'
    BY <1>1, <2>1 DEF Inv, Held
  <2>4. Owned'
    <3>1. (\A u \in Threads : pc[u] = "stream" =>
             arg[u] \in backed /\ stream[arg[u]] = "default")'
      BY <1>1, <2>1 DEF Inv, TypeOK, Held, Owned
    <3>2. (\A h \in valid : ready /\ h \in backed /\ stream[h] = "default")'
      BY <1>1, <2>1 DEF Inv, TypeOK, Owned, loader
    <3>3. (\A h \in backed :
             h \in valid \/ \E u \in Threads : pc[u] = "stream" /\ arg[u] = h)'
      BY <1>1, <2>1 DEF Inv, Owned
    <3>4. QED
      BY <3>1, <3>2, <3>3 DEF Owned
  <2>5. QED
    BY <1>4, <1>5, <2>2, <2>3, <2>4 DEF Inv
<1>10. CASE AttachStream(t, ms)
  <2>1. /\ pc[t] = "stream" /\ pc'[t] = "idle" /\ stream' = stream
        /\ arg[t] \in Handles /\ arg[t] \notin valid
        /\ arg[t] \in backed /\ stream[arg[t]] = "default" /\ ready
        /\ \/ valid' = valid \union {arg[t]} /\ backed' = backed
           \/ valid' = valid /\ backed' = backed \ {arg[t]}
    BY <1>10 DEF AttachStream, Return, Goto, Inv, TypeOK, Backed, InCall, Held, Owned
  <2>2. Backed'
    BY <1>1, <2>1 DEF Inv, Backed, InCall, loader
  <2>3. Held'
    BY <1>1, <2>1 DEF Inv, Held
  <2>4. Owned'
    BY <1>1, <2>1 DEF Inv, TypeOK, Held, Owned, loader
  <2>5. QED
    BY <1>4, <1>5, <2>2, <2>3, <2>4 DEF Inv
<1>11. QED
  BY <1>4, <1>5, <1>7, <1>8, <1>9, <1>10 DEF Inv

LEMMA HandleStep ==
  ASSUME Inv, NEW t \in Threads, NEW h \in Handles, NEW ms \in MiopenStatus,
         NEW s \in {"default", "other"},
         Destroy(t, h, ms) \/ SetStream(t, h, s, ms)
  PROVE  Inv'
<1>1. /\ UNCHANGED <<machine, env, loader, op, arg, pos, pc>>
      /\ h \in valid /\ h \in Unused
  BY DEF Destroy, SetStream, Return, Goto, Inv, TypeOK
<1>2. TypeOK'
  BY <1>1, StatusIsCudnn
     DEF Destroy, SetStream, Return, Inv, TypeOK, loader, CudnnStatus
<1>3. LoadedOnce'
  BY <1>1 DEF loader, Inv, LoadedOnce, InRoutine, ConfiguredPathBinds, RequiredSet
<1>4. Backed' /\ Held' /\ Owned'
  BY <1>1
     DEF Destroy, SetStream, Unused, Inv, TypeOK, Backed, Held, Owned, InCall, loader
<1>5. QED
  BY <1>2, <1>3, <1>4 DEF Inv

(* The strengthened invariant of the backend. *)
LEMMA Invariance == ASSUME Inv, [Next]_vars PROVE Inv'
<1>1. CASE UNCHANGED vars
  BY <1>1
     DEF vars, loader, handles, Inv, TypeOK, LoadedOnce, InRoutine,
         ConfiguredPathBinds, Backed, Held, Owned, InCall, RequiredSet
<1>2. CASE \E e \in Envs : SetEnvironment(e)
  BY <1>2, EnvironmentStep
<1>3. ASSUME NEW t \in Threads, Proceed(t)
      PROVE  Inv'
  <2>1. CASE Load(t)
    BY <2>1, LoadStep
  <2>2. CASE BackendReady(t) \/ NoMemory(t) \/ RefuseScalar(t)
    BY <2>2, CallStep, Statuses
  <2>3. QED
    BY <1>3, <2>1, <2>2, CallStep, Statuses DEF Proceed
<1>4. QED
  BY <1>1, <1>2, <1>3, BeginStep, HandleStep, Statuses DEF Next

LEMMA Invariant == Spec => []Inv
BY Start, Invariance, PTL DEF Spec

-----------------------------------------------------------------------------
(* Every reachable state of the backend is well typed: in particular every   *)
(* status a call returns is one of cuDNN's.                                  *)
THEOREM Typing == Spec => []TypeOK
<1>1. Inv => TypeOK
  BY DEF Inv
<1>2. QED
  BY <1>1, Invariant, PTL

(* What the other entry points take for granted about a handle whose magic   *)
(* is set (cudnnCreate's exits): the backend is complete, the MIOpen handle  *)
(* exists and works on the default stream.                                   *)
THEOREM ValidHandlesAreUsable == Spec => []HandleIsUsable
<1>1. Inv => HandleIsUsable
  BY DEF Inv, LoadedOnce, Owned, HandleIsUsable
<1>2. QED
  BY <1>1, Invariant, PTL

(* No call goes through a function pointer the loader has not bound, in the  *)
(* middle of another thread's bridge_load_miopen_once or after a load that   *)
(* stopped half way.                                                         *)
THEOREM PointersAreBound == Spec => []NoNullCall
<1>1. Inv => NoNullCall
  BY Positions DEF Inv, LoadedOnce, Backed, InCall, NoNullCall
<1>2. QED
  BY <1>1, Invariant, PTL

(* A configured CUDA_AMD_MIOPEN_DLL never falls through to the library on    *)
(* PATH, whenever the variable is changed.                                   *)
THEOREM ConfiguredPathIsBinding == Spec => []ConfiguredPathBinds
<1>1. Inv => ConfiguredPathBinds
  BY DEF Inv, LoadedOnce
<1>2. QED
  BY <1>1, Invariant, PTL

(* A MIOpen handle always has an owner who will destroy it, on the failure   *)
(* paths of cudnnCreate too.                                                 *)
THEOREM NoBackingLeaks == Spec => []BackingReachable
<1>1. Inv => BackingReachable
  BY DEF Inv, Owned, BackingReachable
<1>2. QED
  BY <1>1, Invariant, PTL

(* Once the routine of InitOnceExecuteOnce has returned, the library, its    *)
(* table and the verdict never change again, whoever calls afterwards.       *)
THEOREM LoadedForGood == Spec => BackendFixed
<1>1. ASSUME Inv, [Next]_vars, once = "done"
      PROVE  UNCHANGED <<library, table, ready>>
  <2>1. CASE UNCHANGED vars
    BY <2>1 DEF vars, loader
  <2>2. CASE \E e \in Envs : SetEnvironment(e)
    BY <2>2 DEF SetEnvironment, loader
  <2>3. CASE \E t \in Threads : Load(t)
    BY <1>1, <2>3
       DEF Load, Elect, FindLibrary, BindRequired, BindOptional, Inv, LoadedOnce, InRoutine
  <2>4. ASSUME NEW t \in Threads,
               \/ \E h \in Handles :
                    \/ \E o \in {"create"} \union Optional : Begin(t, o, h)
                    \/ \E ms \in MiopenReturns :
                         \/ Destroy(t, h, ms)
                         \/ \E s \in {"default", "other"} : SetStream(t, h, s, ms)
               \/ BackendReady(t) \/ NoMemory(t) \/ RefuseScalar(t)
               \/ \E ms \in MiopenReturns :
                     CreateBacking(t, ms) \/ AttachStream(t, ms) \/ CallOptional(t, ms)
        PROVE  UNCHANGED <<library, table, ready>>
    <3>1. UNCHANGED loader
      BY <2>4
         DEF Begin, Destroy, SetStream, BackendReady, NoMemory, RefuseScalar,
             CreateBacking, AttachStream, CallOptional
    <3>2. QED
      BY <3>1 DEF loader
  <2>5. QED
    <3>1. Next \/ UNCHANGED vars
      BY <1>1
    <3>2. QED
      BY <2>1, <2>2, <2>3, <2>4, <3>1 DEF Next, Proceed
<1>2. QED
  BY <1>1, Invariant, PTL DEF Spec, BackendFixed
=============================================================================
