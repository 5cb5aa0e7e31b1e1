--------------------------- MODULE SessionContract ---------------------------
(***************************************************************************)
(* What the broker promises of each session, whatever ids its callers      *)
(* pick: which signals the receiver gets and in which order, what has to   *)
(* come before the guest runs, and which sessions may end unanswered.      *)
(* There are no threads, maps, queues or handles here; Broker, which has   *)
(* them, implements this specification.                                    *)
(***************************************************************************)
EXTENDS Sequences

CONSTANTS Sessions, Id, Risky, Streaming

VARIABLES
  phase,     \* how far each session is
  approved,  \* sessions that a human approved
  stream,    \* what each session's receiver was sent
  hungup,    \* sessions whose receiver was dropped
  open       \* whether the broker can still be called

vars == <<phase, approved, stream, hungup, open>>

\* What a session may be told at its end: that it was closed, or how it ran.
Closings == {"Cancelled", "Denied"}
Results(s) == Closings \cup (IF s \in Streaming THEN {"Exited", "Unsupported"}
                                                ELSE {"Completed", "Failed"})

Told(s, e) == \E k \in DOMAIN stream[s] : stream[s][k] = e

Tell(s, e) == stream' = IF s \in hungup THEN stream
                        ELSE [stream EXCEPT ![s] = Append(@, e)]

Enter(s, p) == phase' = [phase EXCEPT ![s] = p]

\* Another session goes, or went, by the same id.
Crowded(s) == \E r \in Sessions \ {s} : Id[r] = Id[s] /\ phase[r] # "new"

Init ==
  /\ phase = [s \in Sessions |-> "new"]
  /\ approved = {}
  /\ stream = [s \in Sessions |-> <<>>]
  /\ hungup = {}
  /\ open = TRUE
-----------------------------------------------------------------------------
Submit(s) ==
  /\ open /\ phase[s] = "new" /\ Enter(s, "waiting")
  /\ UNCHANGED <<approved, stream, hungup, open>>

\* A human is asked once, before the session runs.  The question may come
\* late, when the session is already closed.
Ask(s) ==
  /\ s \in Risky /\ ~Told(s, "PendingApproval") /\ Tell(s, "PendingApproval")
  /\ phase[s] \in {"waiting", "over"}
  /\ UNCHANGED <<phase, approved, hungup, open>>

Approve(s) ==
  /\ open /\ s \in Risky \ approved /\ approved' = approved \cup {s}
  /\ phase[s] = "waiting"
  /\ UNCHANGED <<phase, stream, hungup, open>>

\* One session runs at a time, and a risky one only once its caller, unless
\* gone, was asked and a human approved.
Begin(s) ==
  /\ s \in Risky => s \in approved /\ (Told(s, "PendingApproval") \/ s \in hungup)
  /\ IF s \in Streaming THEN Tell(s, "Started") ELSE UNCHANGED stream
  /\ phase[s] = "waiting" /\ \A r \in Sessions : phase[r] # "running"
  /\ Enter(s, "running")
  /\ UNCHANGED <<approved, hungup, open>>

\* The guest's output, one chunk within the client's budget and then one past it.
\* It may outlast the session only when its run broke down: the guest had started
\* and its caller was told that it is denied.
Emit(s, e) ==
  /\ s \in Streaming /\ ~Told(s, e) /\ Tell(s, e)
  /\ e = "Overrun" => Told(s, "Output")
  /\ \/ phase[s] = "running"
     \/ phase[s] = "over" /\ Told(s, "Started") /\ Told(s, "Denied")
  /\ UNCHANGED <<phase, approved, hungup, open>>

\* What is over stays so: this is the only terminal signal.
End(s, e) ==
  /\ Tell(s, e)
  /\ \/ phase[s] = "waiting" /\ e \in Closings
     \/ phase[s] = "running" /\ e \in Results(s)
  /\ Enter(s, "over")
  /\ UNCHANGED <<approved, hungup, open>>

\* A session is given up without a signal only if it needs a decision and has
\* none, and only if nobody is there to hear of it, its id is not its own, or
\* the broker goes.
GiveUp(given) ==
  /\ \A s \in given : /\ phase[s] = "waiting" /\ s \in Risky \ approved
                      /\ s \in hungup \/ Crowded(s) \/ ~open
  /\ phase' = [s \in Sessions |-> IF s \in given THEN "over" ELSE phase[s]]
  /\ UNCHANGED <<approved, stream, hungup, open>>

HangUp(s) ==
  /\ hungup' = hungup \cup {s} /\ phase[s] # "new"
  /\ UNCHANGED <<phase, approved, stream, open>>

Close ==
  /\ open' = FALSE
  /\ UNCHANGED <<phase, approved, stream, hungup>>

Next ==
  \/ \E s \in Sessions : Submit(s) \/ Ask(s) \/ Approve(s) \/ Begin(s) \/ HangUp(s)
  \/ \E s \in Sessions : \E e \in Results(s) : End(s, e)
  \/ \E s \in Sessions : \E e \in {"Output", "Overrun"} : Emit(s, e)
  \/ \E given \in SUBSET Sessions : GiveUp(given)
  \/ Close

Spec == Init /\ [][Next]_vars
=============================================================================
