---------------------------- MODULE StreamingRun ----------------------------
(***************************************************************************)
(* One streaming run, run_wasi_events_impl of lib.rs: the guest writes to  *)
(* two bounded pipes on the host thread, a reader thread drains them into  *)
(* Output events and enforces the budget the two streams share, and the    *)
(* host thread ends the run.  What makes the guest stop, the epoch and the *)
(* fuel, is in RunEpochs; here a running guest may stop at any time.       *)
(***************************************************************************)
EXTENDS OutputPipe, SessionLifecycle

VARIABLES
  pipes,    \* the stdout and stderr pipes
  guest,    \* whether the guest is being instantiated, runs, or is over
  host,     \* the host thread
  reader,   \* the reader thread: pc, what it saw, and its `budget_closed`
  client    \* bytes the client's SessionState accepted from the Output events

vars == <<pipes, guest, host, reader, client>>

Streams == {"stdout", "stderr"}

\* Both streams together.
Both(count) == count["stdout"] + count["stderr"]
Written     == Both([st \in Streams |-> pipes[st].written])

TypeOK ==
  /\ pipes \in [Streams -> Pipes]
  /\ guest \in {"instantiate", "run", "over"}
  /\ host \in {"guest", "eof_stdout", "eof_stderr", "join", "done"}
  /\ reader \in [pc: Streams \cup {"close_stdout", "close_stderr", "exit"},
                 total: [Streams -> 0..Budget], eof: [Streams -> BOOLEAN], cut: BOOLEAN]
  /\ client \in 0..Budget

\* The pipes are made before the reader starts; the client has seen Started.
Init ==
  /\ pipes = [st \in Streams |-> NewPipe]
  /\ guest = "instantiate"
  /\ host = "guest"
  /\ reader = [pc |-> "stdout", total |-> [st \in Streams |-> 0],
               eof |-> [st \in Streams |-> FALSE], cut |-> FALSE]
  /\ client = 0
-----------------------------------------------------------------------------
(* The guest, on the host thread.  Start functions may write too.          *)

\* It writes no more than the pipe grants.  A write to a pipe that is closed or
\* full changes nothing: the guest gets an error and may well go on.
GuestWrite(st, n) ==
  /\ guest # "over" /\ n <= Permit(pipes[st])
  /\ pipes' = [pipes EXCEPT ![st] = Write(@, n)]
  /\ UNCHANGED <<guest, host, reader, client>>

\* Command::instantiate succeeded
GuestStart ==
  /\ guest = "instantiate" /\ guest' = "run"
  /\ UNCHANGED <<pipes, host, reader, client>>

\* It exits, or fails to start, or traps: by a write beyond the grant, fuel,
\* memory, or the epoch.  The store goes, and with it the writers.
GuestEnd ==
  /\ guest # "over" /\ guest' = "over"
  /\ host' = "eof_stdout"
  /\ UNCHANGED <<pipes, reader, client>>
-----------------------------------------------------------------------------
(* The host thread: set_eof on both pipes, then join the reader.           *)

\* Mistaken variant: only the first pipe is told.
HostEofOnce(st) ==
  /\ host = "eof_stdout" /\ st = "stdout"
  /\ pipes' = [pipes EXCEPT ![st] = SetEof(@)]
  /\ host' = "join"
  /\ UNCHANGED <<guest, reader, client>>

HostEof(st) ==
  /\ \/ st = "stdout" /\ host = "eof_stdout" /\ host' = "eof_stderr"
     \/ st = "stderr" /\ host = "eof_stderr" /\ host' = "join"
  /\ pipes' = [pipes EXCEPT ![st] = SetEof(@)]
  /\ UNCHANGED <<guest, reader, client>>

HostJoin ==
  /\ host = "join" /\ reader.pc = "exit"
  /\ host' = "done"
  /\ UNCHANGED <<pipes, guest, reader, client>>
-----------------------------------------------------------------------------
(* The reader thread.                                                      *)

\* Where the loop goes from its end: out once both pipes were at their end.
\* Mistaken variant: one of them suffices.
LoopAnyEof(eof) == IF \E st \in Streams : eof[st] THEN "exit" ELSE "stdout"
Loop(eof)       == IF \A st \in Streams : eof[st] THEN "exit" ELSE "stdout"

\* wait_and_drain, which may also time out empty-handed, and the Output event
\* for what it returned.  After stderr the reader looks at the shared budget.
ReaderDrain(st) ==
  LET n     == Unread(pipes[st])
      total == [reader.total EXCEPT ![st] = @ + n]
      eof   == [reader.eof EXCEPT ![st] = pipes[st].eof]
      over  == ~reader.cut /\ Both(total) > Budget
  IN  /\ reader.pc = st
      /\ pipes' = [pipes EXCEPT ![st] = Drain(@)]
      /\ reader' = [reader EXCEPT !.total = total, !.eof = eof,
                      !.pc = IF st = "stdout" THEN "stderr"
                             ELSE IF over THEN "close_stdout" ELSE Loop(eof)]
      /\ client' = AcceptOutput(client, n, Budget)
      /\ UNCHANGED <<guest, host>>

\* The budget is exceeded: cut both streams off.
ReaderClose(st) ==
  /\ \/ st = "stdout" /\ reader.pc = "close_stdout" /\ reader' = [reader EXCEPT !.pc = "close_stderr"]
     \/ /\ st = "stderr" /\ reader.pc = "close_stderr"
        /\ reader' = [reader EXCEPT !.pc = Loop(reader.eof), !.cut = TRUE]
  /\ pipes' = [pipes EXCEPT ![st] = Close(@)]
  /\ UNCHANGED <<guest, host, client>>

Reader == \E st \in Streams : ReaderDrain(st) \/ ReaderClose(st)
Host   == HostJoin \/ \E st \in Streams : HostEof(st)

Finished == host = "done" /\ UNCHANGED vars

Next ==
  \/ \E st \in Streams, n \in 1..Budget : GuestWrite(st, n)
  \/ GuestStart \/ GuestEnd
  \/ Host \/ Reader \/ Finished

\* Both threads are scheduled; the guest owes nothing.
Spec == Init /\ [][Next]_vars /\ WF_vars(Host) /\ WF_vars(Reader)
-----------------------------------------------------------------------------
(* Properties.                                                             *)

\* However the reader's passes fall between the last writes and the two
\* set_eofs, the totals it returns to the host that joins it have every byte that
\* was written.  (The host passes them on unless the run ended in an error.)
NothingLost ==
  host = "done" => \A st \in Streams : reader.total[st] = pipes[st].written

\* Once the reader has cut the guest off, no byte gets through any more.
CutOffHolds == [][reader.cut => Written' = Written]_vars

\* The client's own byte count rejects a chunk only if the run as a whole went
\* beyond its budget: chunking never makes a legal session look illegal.
ClientTakesLegalOutput ==
  Both(reader.total) <= Budget => client = Both(reader.total)

\* The run returns once its guest is over: the reader always meets both ends.
RunReturns == guest = "over" ~> host = "done"

\* "cut the guest off once stdout+stderr exceed it, so a guest that splits its
\* output cannot write 2x the budget"
NotTwiceTheBudget == Written < 2 * Budget
=============================================================================
