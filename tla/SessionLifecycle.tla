-------------------------- MODULE SessionLifecycle --------------------------
(***************************************************************************)
(* The session state machine of command.rs: which `SessionEvent`s          *)
(* `SessionState::accept` takes in each `Lifecycle` state.  The broker     *)
(* keeps one such machine inside every job and ignores its verdicts; a     *)
(* client is meant to run another one over the events it receives.         *)
(***************************************************************************)

EXTENDS Naturals

\* enum Lifecycle
Lifecycles == {"Created", "WaitingApproval", "Running", "Finished"}

\* enum SessionEvent, payloads dropped
SessionEvents == {"Started", "PendingApproval", "Output", "Exited",
                  "Cancelled", "Denied", "Unsupported"}

\* The (lifecycle, event) arms of `accept` that return Ok.
Accepted ==
  [ Created         |-> {"Started", "PendingApproval", "Denied", "Unsupported"},
    WaitingApproval |-> {"Started", "Denied", "Unsupported"},
    Running         |-> {"Output", "Exited", "Cancelled"},
    Finished        |-> {} ]

\* The lifecycle an accepted event leads to; it depends on the event alone.
After(e) ==
  CASE e \in {"Started", "Output"} -> "Running"
    [] e = "PendingApproval"       -> "WaitingApproval"
    [] OTHER                       -> "Finished"

\* `SessionState::accept` on the lifecycle: a rejected event changes nothing.
Accept(l, e) == IF e \in Accepted[l] THEN After(e) ELSE l

\* The Output arm of `accept` on the byte count of a running session: a chunk
\* that would exceed max_output_bytes is rejected whole.
AcceptOutputBelow(bytes, n, limit) == IF bytes + n < limit THEN bytes + n ELSE bytes   \* mistaken variant
AcceptOutput(bytes, n, limit) == IF bytes + n <= limit THEN bytes + n ELSE bytes
=============================================================================
