----------------------------- MODULE ConvContract -----------------------------
(***************************************************************************)
(* What a caller of the bridge's convolution entry points is promised,     *)
(* whatever MIOpen answers: a call is refused at once, or it is open,      *)
(* launches at most one solver and is answered; a convolution is answered  *)
(* with SUCCESS only after its launch; MIOpen objects are held only while  *)
(* the call that made them is open.  BridgeConv implements this module.    *)
(***************************************************************************)
EXTENDS ConvAlgorithms

CONSTANT Threads    (* caller threads, each with at most one call open *)

VARIABLES
  phase,    (* phase[t]: where thread t's call stands                  *)
  wants,    (* wants[t]: "run" for an execution, "ask" for a query     *)
  answer,   (* answer[t]: the status of t's last call, or "PENDING"    *)
  held      (* threads whose call owns MIOpen objects at this moment   *)

cvars == <<phase, wants, answer, held>>

CInit ==
  /\ phase = [t \in Threads |-> "idle"]
  /\ wants \in [Threads -> {"ask", "run"}]      (* nothing has been asked yet *)
  /\ answer = [t \in Threads |-> "NOT_INITIALIZED"]
  /\ held = {}

(* A call turned away before MIOpen is involved. *)
Refuse(t, w, s) ==
  /\ phase[t] = "idle"
  /\ s = "SUCCESS" => w = "ask"
  /\ wants' = [wants EXCEPT ![t] = w]
  /\ answer' = [answer EXCEPT ![t] = s]
  /\ UNCHANGED <<phase, held>>

Open(t, w) ==
  /\ phase[t] = "idle"
  /\ phase' = [phase EXCEPT ![t] = "open"]
  /\ wants' = [wants EXCEPT ![t] = w]
  /\ answer' = [answer EXCEPT ![t] = "PENDING"]
  /\ UNCHANGED held

Acquire(t) ==
  /\ phase[t] = "open"
  /\ held' = held \union {t}
  /\ UNCHANGED <<phase, wants, answer>>

(* The only object made so far is given back because its setup failed. *)
GiveBack(t) ==
  /\ phase[t] = "open"
  /\ held' = held \ {t}
  /\ UNCHANGED <<phase, wants, answer>>

Launch(t) ==
  /\ phase[t] = "open"
  /\ wants[t] = "run"
  /\ t \in held
  /\ phase' = [phase EXCEPT ![t] = "launched"]
  /\ UNCHANGED <<wants, answer, held>>

Answer(t, s) ==
  /\ phase[t] # "idle"
  /\ (s = "SUCCESS" /\ wants[t] = "run") => phase[t] = "launched"
  /\ phase' = [phase EXCEPT ![t] = "idle"]
  /\ answer' = [answer EXCEPT ![t] = s]
  /\ held' = held \ {t}
  /\ UNCHANGED wants

CNext ==
  \E t \in Threads :
     \/ \E w \in {"ask", "run"} :
           \/ \E s \in CudnnStatus : Refuse(t, w, s)
           \/ Open(t, w)
     \/ Acquire(t)
     \/ GiveBack(t)
     \/ Launch(t)
     \/ \E s \in CudnnStatus : Answer(t, s)

ContractSpec == CInit /\ [][CNext]_cvars
=============================================================================
