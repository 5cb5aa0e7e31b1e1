----------------------------- MODULE OutputPipe -----------------------------
(***************************************************************************)
(* StreamOutputPipe of pipe.rs, as the operations its mutex makes atomic.  *)
(* The buffer is append-only and read_pos only moves forward, so a pipe is *)
(* its two lengths and two flags; which bytes they are does not matter.    *)
(***************************************************************************)
EXTENDS Naturals

CONSTANT Budget   \* StreamOutputPipe::capacity, the session's output budget

ASSUME BudgetAssumption == Budget \in Nat \ {0}

\* StreamState
Pipes == [written: 0..Budget, read: 0..Budget, eof: BOOLEAN, closed: BOOLEAN]

NewPipe == [written |-> 0, read |-> 0, eof |-> FALSE, closed |-> FALSE]

\* Mistaken variants: a pipe that was cut off still grants what capacity is
\* left; a pipe that grants one byte too many.
PermitClosed(p) == Budget - p.written
PermitOver(p)   == IF p.closed THEN 0 ELSE Budget + 1 - p.written

\* check_write: how much may be written; 0 stands for Err(Closed), which the
\* guest gets from a pipe that is cut off or full.
Permit(p) == IF p.closed THEN 0 ELSE Budget - p.written

\* write, within the permit
Write(p, n) == [p EXCEPT !.written = @ + n]

\* wait_and_drain: the bytes since the last call, and the end-of-stream flag
Unread(p) == p.written - p.read
Drain(p)  == [p EXCEPT !.read = p.written]

SetEof(p) == [p EXCEPT !.eof = TRUE]
Close(p)  == [p EXCEPT !.closed = TRUE]
=============================================================================
