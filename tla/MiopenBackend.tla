---------------------------- MODULE MiopenBackend ----------------------------
(***************************************************************************)
(* How the cuDNN bridge finds its MIOpen library, once per process, and    *)
(* the life of cuDNN handles on top of it: bridge_load_miopen_once under   *)
(* InitOnceExecuteOnce, cudnnCreate, cudnnDestroy, cudnnSetStream and the  *)
(* calls through an optional function pointer.  Threads of the application *)
(* make these calls concurrently, and the application may change the       *)
(* environment variable CUDA_AMD_MIOPEN_DLL at any time.                   *)
(*                                                                         *)
(* InitOnceExecuteOnce is Windows': the first caller runs the routine, the *)
(* others wait until it returns, later callers pass.                       *)
(***************************************************************************)
EXTENDS ConvAlgorithms, Integers, Sequences

CONSTANTS
  Threads,        (* application threads                                     *)
  Handles,        (* the cuDNN handles that may exist at the same time       *)
  Required,       (* the LOAD_REQ symbols in their order (25 in the code)    *)
  Optional,       (* the LOAD_OPTIONAL symbols (14 in the code)              *)
  Machines,       (* what is installed: exports of the configured and of     *)
                  (* the PATH library, {} standing for "does not load"       *)
  MiopenReturns   (* statuses miopenCreate, SetStream, Destroy may return    *)

Symbols == {Required[n] : n \in DOMAIN Required} \union Optional

ASSUME BackendAssumption ==
  /\ Required \in Seq(STRING)
  /\ {"create", "destroy", "set_stream"} \subseteq {Required[n] : n \in DOMAIN Required}
  /\ Optional \subseteq STRING \ {"create"}
  /\ Handles # {}
  /\ Machines \subseteq [configured : SUBSET Symbols, onPath : SUBSET Symbols]
  /\ MiopenReturns \subseteq MiopenStatus

VARIABLES
  machine,    (* the installed libraries                                     *)
  env,        (* CUDA_AMD_MIOPEN_DLL: "unset" (or empty), "path", "overlong" *)
  once,       (* g_miopen_once: "fresh", "running", "done"                   *)
  envRead,    (* history: the value of env the loader saw                    *)
  library,    (* g_miopen.module: "none", "configured", "onPath"             *)
  table,      (* the non-NULL function pointers of g_miopen                  *)
  ready,      (* g_miopen_ready                                              *)
  pc,         (* pc[t]: the next step of thread t's call                     *)
  op,         (* op[t]: "create", or the optional symbol t's call needs      *)
  arg,        (* arg[t]: the handle the call makes or uses                   *)
  pos,        (* pos[t]: the next symbol the loader resolves                 *)
  cs,         (* cs[t]: the status of t's last call                          *)
  valid,      (* handles with their magic set                                *)
  backed,     (* handles whose MIOpen handle exists                          *)
  stream      (* stream[h]: handle->cuda_stream                              *)

loader == <<once, envRead, library, table, ready>>
handles == <<valid, backed, stream>>
vars == <<machine, env, loader, pc, op, arg, pos, cs, handles>>

Envs == {"unset", "path", "overlong"}

(* The exports of the library the loader opened. *)
Exports == IF library = "none" THEN {} ELSE machine[library]

(* Handles no thread is working on: the application neither destroys a      *)
(* handle in use nor makes two handles at one address.                       *)
Unused == {h \in Handles : \A t \in Threads : pc[t] # "idle" => arg[t] # h}

Init ==
  /\ machine \in Machines
  /\ env \in Envs
  /\ once = "fresh" /\ envRead = "unset"
  /\ library = "none" /\ table = {} /\ ready = FALSE
  /\ pc = [t \in Threads |-> "idle"]
  /\ op = [t \in Threads |-> "create"]
  /\ arg = [t \in Threads |-> CHOOSE h \in Handles : TRUE]
  /\ pos = [t \in Threads |-> 1]
  /\ cs = [t \in Threads |-> "SUCCESS"]
  /\ valid = {} /\ backed = {}
  /\ stream = [h \in Handles |-> "default"]

Goto(t, label) == pc' = [pc EXCEPT ![t] = label]

Return(t, s) ==
  /\ Goto(t, "idle")
  /\ cs' = [cs EXCEPT ![t] = s]

(* os.environ or SetEnvironmentVariable in the application. *)
SetEnvironment(e) ==
  /\ env' = e
  /\ UNCHANGED <<machine, loader, pc, op, arg, pos, cs, handles>>

-----------------------------------------------------------------------------
(* A call that needs the backend: cudnnCreate into h, or an operation with   *)
(* an optional backend function on the valid handle h.                       *)
Begin(t, o, h) ==
  /\ pc[t] = "idle"
  /\ h \in Unused
  /\ (o = "create") = (h \notin valid)
  /\ op' = [op EXCEPT ![t] = o]
  /\ arg' = [arg EXCEPT ![t] = h]
  /\ Goto(t, "once")
  /\ UNCHANGED <<machine, env, loader, pos, cs, handles>>

(* Mutant: the routine runs again for later callers. *)
Elect_Again(t) ==
  /\ pc[t] = "once" /\ once # "running"
  /\ once' = "running"
  /\ table' = {}
  /\ Goto(t, "find")
  /\ UNCHANGED <<machine, env, envRead, library, ready, op, arg, pos, cs, handles>>

(* InitOnceExecuteOnce elects t; the routine clears the table first. *)
Elect(t) ==
  /\ pc[t] = "once" /\ once = "fresh"
  /\ once' = "running"
  /\ table' = {}
  /\ Goto(t, "find")
  /\ UNCHANGED <<machine, env, envRead, library, ready, op, arg, pos, cs, handles>>

(* Mutant: a load that failed is not marked done. *)
LoaderReturns_ForgetsDone(t, r) ==
  /\ once' = IF r THEN "done" ELSE once
  /\ ready' = r
  /\ Goto(t, "once")

(* The routine returns, with g_miopen_ready as it then is. *)
LoaderReturns(t, r) ==
  /\ once' = "done"
  /\ ready' = r
  /\ Goto(t, "once")

(* Mutant: a configured path that does not load falls through to PATH. *)
FindLibrary_FallsThrough(t) ==
  /\ pc[t] = "find"
  /\ envRead' = env
  /\ LET candidate == IF env = "path" /\ machine["configured"] # {}
                        THEN "configured" ELSE "onPath"
     IN  IF machine[candidate] = {}
           THEN /\ LoaderReturns(t, FALSE)
                /\ UNCHANGED <<library, pos>>
           ELSE /\ library' = candidate
                /\ pos' = [pos EXCEPT ![t] = 1]
                /\ Goto(t, "bind")
                /\ UNCHANGED <<once, ready>>
  /\ UNCHANGED <<machine, env, table, op, arg, cs, handles>>

(* A configured path is the only candidate, even when it is too long or does *)
(* not load; otherwise MIOpen.dll is looked up on PATH.                      *)
FindLibrary(t) ==
  /\ pc[t] = "find"
  /\ envRead' = env
  /\ LET candidate == CASE env = "path"  -> "configured"
                        [] env = "unset" -> "onPath"
                        [] OTHER         -> "none"
     IN  IF candidate = "none" \/ machine[candidate] = {}
           THEN /\ LoaderReturns(t, FALSE)
                /\ UNCHANGED <<library, pos>>
           ELSE /\ library' = candidate
                /\ pos' = [pos EXCEPT ![t] = 1]
                /\ Goto(t, "bind")
                /\ UNCHANGED <<once, ready>>
  /\ UNCHANGED <<machine, env, table, op, arg, cs, handles>>

(* LOAD_REQ: a missing symbol ends the routine with a partial table. *)
BindRequired(t) ==
  /\ pc[t] = "bind"
  /\ pos[t] <= Len(Required)
  /\ IF Required[pos[t]] \in Exports
       THEN /\ table' = table \union {Required[pos[t]]}
            /\ pos' = [pos EXCEPT ![t] = @ + 1]
            /\ UNCHANGED <<once, ready, pc>>
       ELSE /\ LoaderReturns(t, FALSE)
            /\ UNCHANGED <<table, pos>>
  /\ UNCHANGED <<machine, env, envRead, library, op, arg, cs, handles>>

(* LOAD_OPTIONAL for all of them, then g_miopen_ready = 1. *)
BindOptional(t) ==
  /\ pc[t] = "bind"
  /\ pos[t] > Len(Required)
  /\ table' = table \union (Optional \intersect Exports)
  /\ LoaderReturns(t, TRUE)
  /\ UNCHANGED <<machine, env, envRead, library, op, arg, pos, cs, handles>>

(* Mutant: the optional function pointer is not looked at. *)
BackendReady_Unchecked(t) ==
  /\ pc[t] = "once" /\ once = "done"
  /\ IF ~ready THEN Return(t, "NOT_INITIALIZED")
     ELSE Goto(t, IF op[t] = "create" THEN "alloc" ELSE "call") /\ UNCHANGED cs
  /\ UNCHANGED <<machine, env, loader, op, arg, pos, handles>>

(* bridge_backend_ready() returns to its caller, which for an operation on   *)
(* an optional symbol looks at the function pointer next.                    *)
BackendReady(t) ==
  /\ pc[t] = "once" /\ once = "done"
  /\ IF ~ready THEN Return(t, "NOT_INITIALIZED")
     ELSE IF op[t] = "create" THEN Goto(t, "alloc") /\ UNCHANGED cs
     ELSE IF op[t] \in table THEN Goto(t, "call") /\ UNCHANGED cs
     ELSE Return(t, "NOT_SUPPORTED")
  /\ UNCHANGED <<machine, env, loader, op, arg, pos, handles>>

-----------------------------------------------------------------------------
(* calloc of the cuDNN handle fails. *)
NoMemory(t) ==
  /\ pc[t] = "alloc"
  /\ Return(t, "ALLOC_FAILED")
  /\ UNCHANGED <<machine, env, loader, op, arg, pos, handles>>

(* miopenCreate *)
CreateBacking(t, ms) ==
  /\ pc[t] = "alloc"
  /\ IF ms = "SUCCESS"
       THEN /\ backed' = backed \union {arg[t]}
            /\ stream' = [stream EXCEPT ![arg[t]] = "default"]
            /\ Goto(t, "stream")
            /\ UNCHANGED cs
       ELSE /\ Return(t, bridge_status(ms))
            /\ UNCHANGED <<backed, stream>>
  /\ UNCHANGED <<machine, env, loader, op, arg, pos, valid>>

(* Mutant: the MIOpen handle is not destroyed on failure. *)
AttachStream_Leaks(t, ms) ==
  /\ pc[t] = "stream"
  /\ valid' = IF ms = "SUCCESS" THEN valid \union {arg[t]} ELSE valid
  /\ Return(t, bridge_status(ms))
  /\ UNCHANGED <<machine, env, loader, op, arg, pos, stream, backed>>

(* miopenSetStream(NULL), and the handle is handed out or torn down again. *)
AttachStream(t, ms) ==
  /\ pc[t] = "stream"
  /\ IF ms = "SUCCESS"
       THEN /\ valid' = valid \union {arg[t]}
            /\ Return(t, "SUCCESS")
            /\ UNCHANGED backed
       ELSE /\ backed' = backed \ {arg[t]}
            /\ Return(t, bridge_status(ms))
            /\ UNCHANGED valid
  /\ UNCHANGED <<machine, env, loader, op, arg, pos, stream>>

(* Mutant: the MIOpen status is returned as it is. *)
CallOptional_RawStatus(t, ms) ==
  /\ pc[t] = "call"
  /\ Return(t, ms)
  /\ UNCHANGED <<machine, env, loader, op, arg, pos, handles>>

(* The scalar of a HALF tensor has no exact binary16 value. *)
RefuseScalar(t) ==
  /\ pc[t] = "call"
  /\ Return(t, "NOT_SUPPORTED")
  /\ UNCHANGED <<machine, env, loader, op, arg, pos, handles>>

(* A temporary MIOpen tensor and the call through the optional pointer, on   *)
(* the valid handle arg[t]; ms is the first status that is not SUCCESS.      *)
CallOptional(t, ms) ==
  /\ pc[t] = "call"
  /\ Return(t, bridge_status(ms))
  /\ UNCHANGED <<machine, env, loader, op, arg, pos, handles>>

(* cudnnDestroy: the cuDNN handle is freed whatever miopenDestroy returns.   *)
Destroy(t, h, ms) ==
  /\ pc[t] = "idle"
  /\ h \in valid \intersect Unused
  /\ backed' = backed \ {h}
  /\ valid' = valid \ {h}
  /\ Return(t, bridge_status(ms))
  /\ UNCHANGED <<machine, env, loader, op, arg, pos, stream>>

(* Mutant: any stream is attached. *)
SetStream_AnyStream(t, h, s, ms) ==
  /\ pc[t] = "idle"
  /\ h \in valid \intersect Unused
  /\ stream' = IF ms = "SUCCESS" THEN [stream EXCEPT ![h] = s] ELSE stream
  /\ Return(t, bridge_status(ms))
  /\ UNCHANGED <<machine, env, loader, op, arg, pos, valid, backed>>

(* cudnnSetStream: only the NULL stream reaches MIOpen. *)
SetStream(t, h, s, ms) ==
  /\ pc[t] = "idle"
  /\ h \in valid \intersect Unused
  /\ IF s # "default" THEN /\ Return(t, "NOT_SUPPORTED")
                           /\ UNCHANGED stream
     ELSE IF ms # "SUCCESS" THEN /\ Return(t, "EXECUTION_FAILED")
                                 /\ UNCHANGED stream
     ELSE /\ stream' = [stream EXCEPT ![h] = s]
          /\ Return(t, "SUCCESS")
  /\ UNCHANGED <<machine, env, loader, op, arg, pos, valid, backed>>

Load(t) ==
  Elect(t) \/ FindLibrary(t) \/ BindRequired(t) \/ BindOptional(t)

Proceed(t) ==
  \/ Load(t)
  \/ BackendReady(t)
  \/ NoMemory(t) \/ RefuseScalar(t)
  \/ \E ms \in MiopenReturns :
        CreateBacking(t, ms) \/ AttachStream(t, ms) \/ CallOptional(t, ms)

Next ==
  \/ \E e \in Envs : SetEnvironment(e)
  \/ \E t \in Threads :
       \/ \E h \in Handles :
            \/ \E o \in {"create"} \union Optional : Begin(t, o, h)
            \/ \E ms \in MiopenReturns :
                 \/ Destroy(t, h, ms)
                 \/ \E s \in {"default", "other"} : SetStream(t, h, s, ms)
       \/ Proceed(t)

(* A thread inside a call is scheduled; library calls return.  A thread that *)
(* waits in InitOnceExecuteOnce is not enabled until the routine returns.    *)
Spec == Init /\ [][Next]_vars /\ \A t \in Threads : WF_vars(Proceed(t))

-----------------------------------------------------------------------------
TypeOK ==
  /\ machine \in Machines
  /\ env \in Envs /\ envRead \in Envs
  /\ once \in {"fresh", "running", "done"}
  /\ library \in {"none", "configured", "onPath"}
  /\ table \subseteq Symbols
  /\ ready \in BOOLEAN
  /\ pc \in [Threads -> {"idle", "once", "find", "bind", "alloc", "stream", "call"}]
  /\ op \in [Threads -> {"create"} \union Optional]
  /\ arg \in [Threads -> Handles]
  /\ pos \in [Threads -> 1 .. Len(Required) + 1]
  /\ cs \in [Threads -> CudnnStatus]
  /\ valid \subseteq Handles /\ backed \subseteq Handles
  /\ stream \in [Handles -> {"default", "other"}]

RequiredSet == {Required[n] : n \in DOMAIN Required}

(* What every other entry point takes for granted about a handle whose magic *)
(* is set: the backend is ready with all required functions, the MIOpen      *)
(* handle exists, and work goes to the default stream.                       *)
HandleIsUsable ==
  \A h \in valid : /\ ready /\ RequiredSet \subseteq table
                   /\ h \in backed
                   /\ stream[h] = "default"

(* No thread calls through a function pointer that is still NULL, in the     *)
(* middle of another thread's load or after a load that failed half way.     *)
NoNullCall ==
  \A t \in Threads :
     /\ pc[t] \in {"alloc", "stream"} => {"create", "set_stream", "destroy"} \subseteq table
     /\ pc[t] = "call" => op[t] \in table

(* The comment at the head of bridge_load_miopen_once: a wrong or truncated  *)
(* configured path must not fall through to a library found on PATH, also    *)
(* when the variable changes while the library is being loaded.              *)
ConfiguredPathBinds ==
  envRead # "unset" => library # "onPath"

(* Nothing is loaded twice: once the routine has returned, the library, its  *)
(* function table and the verdict stay as they are.                          *)
BackendFixed ==
  [][once = "done" => UNCHANGED <<library, table, ready>>]_vars

(* A MIOpen handle always has an owner who will destroy it: a valid cuDNN    *)
(* handle or a cudnnCreate still running (no leak on its failure paths).     *)
BackingReachable ==
  backed \subseteq valid \union {arg[t] : t \in {u \in Threads : pc[u] = "stream"}}

(* Every call returns; in particular no thread waits for ever in             *)
(* InitOnceExecuteOnce, whatever the loader finds.                           *)
CallsReturn == \A t \in Threads : pc[t] # "idle" ~> pc[t] = "idle"
=============================================================================
