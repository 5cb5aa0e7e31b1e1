------------------------------ MODULE RunCalls ------------------------------
(***************************************************************************)
(* What the run_wasi* calls on one WasiRuntime promise: one at a time has  *)
(* a store and a guest, a request is refused before there is a guest or    *)
(* not at all, and Cancelled is the answer of a call whose handle somebody *)
(* cancelled.  It says nothing of how a run is ended, its threads, its     *)
(* epochs and the pipes; RunEpochs implements it.                          *)
(***************************************************************************)
CONSTANTS
  Runs,      \* the calls
  MayPanic   \* whether the backend may panic on a guest

VARIABLES
  phase,     \* of each call: waiting, preparing, guest, returned
  cancelled, \* the calls whose handle was cancelled
  result     \* what each call returned, or "None"

calls == <<phase, cancelled, result>>

Idle == \A r \in Runs : phase[r] \notin {"preparing", "guest"}

Init ==
  /\ phase = [r \in Runs |-> "waiting"]
  /\ cancelled = {}
  /\ result = [r \in Runs |-> "None"]

\* A handle stays cancelled, and can be before its call is.
Cancel(r) ==
  /\ cancelled' = cancelled \cup {r}
  /\ UNCHANGED <<phase, result>>

Start(r) ==
  /\ phase[r] = "waiting" /\ Idle
  /\ phase' = [phase EXCEPT ![r] = "preparing"]
  /\ UNCHANGED <<cancelled, result>>

Return(r, from, res) ==
  /\ phase[r] = from
  /\ phase' = [phase EXCEPT ![r] = "returned"]
  /\ result' = [result EXCEPT ![r] = res]
  /\ UNCHANGED cancelled

Refuse(r) == Return(r, "preparing", "Refused")

Enter(r) ==
  /\ phase[r] = "preparing"
  /\ phase' = [phase EXCEPT ![r] = "guest"]
  /\ UNCHANGED <<cancelled, result>>

\* A cancelled guest may have finished, or failed, of its own accord.
Finish(r)    == \E res \in {"Output", "Wasi"} : Return(r, "guest", res)
Cancelled(r) == r \in cancelled /\ Return(r, "guest", "Cancelled")
Panic(r)     == MayPanic /\ Return(r, "guest", "Panicked")

Next == \E r \in Runs : \/ Cancel(r) \/ Start(r) \/ Refuse(r) \/ Enter(r)
                        \/ Finish(r) \/ Cancelled(r) \/ Panic(r)

Spec == Init /\ [][Next]_calls
=============================================================================
