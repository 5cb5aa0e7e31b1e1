------------------------- MODULE StreamingRunProofs -------------------------
(***************************************************************************)
(* For any budget: a streaming run's result has every byte written to its  *)
(* pipes, nothing is written once the reader has cut the guest off, and a  *)
(* client that counts for itself agrees with the reader until the run goes *)
(* beyond its budget.  The argument: what the reader has counted of a pipe *)
(* is what it drained of it, and a pipe is at its end only after the last  *)
(* write to it.                                                            *)
(***************************************************************************)
EXTENDS StreamingRun, TLAPS

\* The reader has counted what it drained, and no more was drained than written.
Counted ==
  \A st \in Streams : /\ reader.total[st] = pipes[st].read
                      /\ pipes[st].read <= pipes[st].written

\* A pipe's end is announced after its last write, and the reader that met it has
\* drained the pipe for good; so has the reader that left, whom the host waits for.
Ended ==
  /\ guest = "over" <=> host # "guest"
  /\ \A st \in Streams :
       /\ pipes[st].eof => guest = "over"
       /\ reader.eof[st] => pipes[st].eof /\ pipes[st].read = pipes[st].written
  /\ reader.pc = "exit" => \A st \in Streams : reader.eof[st]
  /\ host = "done" => reader.pc = "exit"

\* Both pipes are closed before the reader calls the guest cut off.
Closing ==
  /\ reader.cut => \A st \in Streams : pipes[st].closed
  /\ reader.pc = "close_stderr" => pipes["stdout"].closed

StreamInv == TypeOK /\ Counted /\ Ended /\ Closing /\ ClientTakesLegalOutput

\* A streaming run begins with two empty pipes.
LEMMA StreamInit == Init => StreamInv
<1> SUFFICES ASSUME Init PROVE StreamInv
  OBVIOUS
<1>1. TypeOK
  BY BudgetAssumption DEF Init, TypeOK, Streams, Pipes, NewPipe
<1>2. Counted /\ Ended /\ Closing /\ ClientTakesLegalOutput
  BY DEF Init, Counted, Ended, Closing, ClientTakesLegalOutput, Both, Streams, NewPipe
<1> QED
  BY <1>1, <1>2 DEF StreamInv

-----------------------------------------------------------------------------
(* The guest and the host.                                                 *)

\* A write within the permit of a pipe that is not closed.
LEMMA Writing ==
  ASSUME StreamInv, NEW st \in Streams, NEW n \in 1..Budget, GuestWrite(st, n)
  PROVE  /\ StreamInv'
         /\ ~reader.cut
<1>1. pipes[st] \in Pipes /\ pipes \in [Streams -> Pipes]
  BY DEF StreamInv, TypeOK
<1>2. ~pipes[st].closed /\ n <= Budget - pipes[st].written
  BY <1>1, BudgetAssumption DEF GuestWrite, Permit
<1>3. pipes' = [pipes EXCEPT ![st] = [pipes[st] EXCEPT !.written = pipes[st].written + n]]
  BY DEF GuestWrite, Write
<1>4. pipes[st].written + n \in 0..Budget
  BY <1>1, <1>2, BudgetAssumption DEF Pipes
<1>5. /\ pipes' \in [Streams -> Pipes]
      /\ pipes'[st].written = pipes[st].written + n /\ pipes'[st].read = pipes[st].read
      /\ pipes'[st].eof = pipes[st].eof /\ pipes'[st].closed = pipes[st].closed
      /\ \A other \in Streams : other # st => pipes'[other] = pipes[other]
  BY <1>1, <1>3, <1>4 DEF Pipes
<1>6. guest # "over" /\ UNCHANGED <<guest, host, reader, client>>
  BY DEF GuestWrite
<1>7. TypeOK'
  BY <1>5, <1>6 DEF StreamInv, TypeOK
<1>8. Counted'
  BY <1>1, <1>5, <1>6 DEF StreamInv, Counted, Pipes
<1>9. Ended'
  BY <1>5, <1>6 DEF StreamInv, Ended
<1>10. Closing'
  BY <1>5, <1>6 DEF StreamInv, Closing, Streams
<1>11. ~reader.cut
  BY <1>2 DEF StreamInv, Closing
<1>12. ClientTakesLegalOutput'
  BY <1>6 DEF StreamInv, ClientTakesLegalOutput, Both
<1> QED
  BY <1>7, <1>8, <1>9, <1>10, <1>11, <1>12 DEF StreamInv

\* The guest's beginning and end, and the host's join.
LEMMA Turning ==
  ASSUME StreamInv, GuestStart \/ GuestEnd \/ HostJoin
  PROVE  StreamInv'
<1>1. UNCHANGED <<pipes, reader, client>>
  BY DEF GuestStart, GuestEnd, HostJoin
<1>2. TypeOK'
  BY <1>1 DEF StreamInv, TypeOK, GuestStart, GuestEnd, HostJoin
<1>3. Ended'
  BY <1>1 DEF StreamInv, Ended, GuestStart, GuestEnd, HostJoin
<1>4. Counted' /\ Closing' /\ ClientTakesLegalOutput'
  BY <1>1 DEF StreamInv, Counted, Closing, ClientTakesLegalOutput, Both
<1> QED
  BY <1>2, <1>3, <1>4 DEF StreamInv

\* The host announces the end of a pipe, whose writer is gone.
LEMMA EndingPipe ==
  ASSUME StreamInv, NEW st \in Streams, HostEof(st)
  PROVE  StreamInv'
<1>1. pipes[st] \in Pipes /\ pipes \in [Streams -> Pipes]
  BY DEF StreamInv, TypeOK
<1>2. /\ pipes' \in [Streams -> Pipes]
      /\ pipes'[st].written = pipes[st].written /\ pipes'[st].read = pipes[st].read
      /\ pipes'[st].eof = TRUE /\ pipes'[st].closed = pipes[st].closed
      /\ \A other \in Streams : other # st => pipes'[other] = pipes[other]
  BY <1>1 DEF HostEof, SetEof, Pipes
<1>3. /\ UNCHANGED <<guest, reader, client>>
      /\ host \in {"eof_stdout", "eof_stderr"} /\ host' \in {"eof_stderr", "join"}
  BY DEF HostEof
<1>4. TypeOK'
  BY <1>2, <1>3 DEF StreamInv, TypeOK
<1>5. Ended'
  BY <1>2, <1>3 DEF StreamInv, Ended
<1>6. Counted' /\ Closing'
  BY <1>2, <1>3 DEF StreamInv, Counted, Closing, Streams
<1>7. ClientTakesLegalOutput'
  BY <1>3 DEF StreamInv, ClientTakesLegalOutput, Both
<1> QED
  BY <1>4, <1>5, <1>6, <1>7 DEF StreamInv

-----------------------------------------------------------------------------
(* The reader.                                                             *)

\* The reader drains a pipe and reports what it found.
LEMMA Draining ==
  ASSUME StreamInv, NEW st \in Streams, ReaderDrain(st)
  PROVE  StreamInv'
<1> DEFINE n     == pipes[st].written - pipes[st].read
           total == [reader.total EXCEPT ![st] = reader.total[st] + n]
           eof   == [reader.eof EXCEPT ![st] = pipes[st].eof]
<1>1. /\ pipes[st] \in Pipes /\ pipes \in [Streams -> Pipes]
      /\ reader.total \in [Streams -> 0..Budget] /\ reader.eof \in [Streams -> BOOLEAN]
      /\ client \in 0..Budget
  BY DEF StreamInv, TypeOK
<1>2. n \in Nat /\ reader.total[st] + n = pipes[st].written /\ pipes[st].written \in 0..Budget
  BY <1>1, BudgetAssumption DEF StreamInv, Counted, Pipes
<1>3. /\ pipes' \in [Streams -> Pipes]
      /\ pipes'[st].written = pipes[st].written /\ pipes'[st].read = pipes[st].written
      /\ pipes'[st].eof = pipes[st].eof /\ pipes'[st].closed = pipes[st].closed
      /\ \A other \in Streams : other # st => pipes'[other] = pipes[other]
  BY <1>1 DEF ReaderDrain, Drain, Pipes
<1>4. /\ total \in [Streams -> 0..Budget] /\ total[st] = pipes[st].written
      /\ \A other \in Streams : other # st => total[other] = reader.total[other]
      /\ eof \in [Streams -> BOOLEAN] /\ eof[st] = pipes[st].eof
      /\ \A other \in Streams : other # st => eof[other] = reader.eof[other]
  BY <1>1, <1>2 DEF Pipes
<1>5. /\ reader' \in [pc: Streams \cup {"close_stdout", "close_stderr", "exit"},
                      total: [Streams -> 0..Budget], eof: [Streams -> BOOLEAN], cut: BOOLEAN]
      /\ reader'.total = total /\ reader'.eof = eof /\ reader'.cut = reader.cut
      /\ reader'.pc \in {"stdout", "stderr", "close_stdout", "exit"}
      /\ reader'.pc = "exit" => \A any \in Streams : eof[any]
  <2> DEFINE next == IF st = "stdout" THEN "stderr"
                     ELSE IF ~reader.cut /\ Both(total) > Budget THEN "close_stdout"
                     ELSE Loop(eof)
  <2>1. reader' = [reader EXCEPT !.total = total, !.eof = eof, !.pc = next]
    BY DEF ReaderDrain, Unread
  <2>2. /\ next \in {"stdout", "stderr", "close_stdout", "exit"}
        /\ next = "exit" => \A any \in Streams : eof[any]
    BY DEF Loop
  <2> HIDE DEF next, total, eof
  <2> QED
    BY <1>4, <2>1, <2>2 DEF StreamInv, TypeOK, Streams
<1>6. /\ UNCHANGED <<guest, host>> /\ reader.pc = st
      /\ client' = AcceptOutput(client, n, Budget)
  BY DEF ReaderDrain, Unread
<1>7. client' \in 0..Budget
  BY <1>1, <1>2, <1>6, BudgetAssumption DEF AcceptOutput
<1> HIDE DEF total, eof
<1>8. TypeOK'
  BY <1>3, <1>5, <1>6, <1>7 DEF StreamInv, TypeOK
<1>9. Counted'
  BY <1>1, <1>3, <1>4, <1>5 DEF StreamInv, Counted, Pipes
<1>10. Ended'
  BY <1>3, <1>4, <1>5, <1>6 DEF StreamInv, Ended, Streams
<1>11. Closing'
  BY <1>3, <1>5 DEF StreamInv, Closing, Streams
<1>12. ClientTakesLegalOutput'
  <2> SUFFICES ASSUME Both(total) <= Budget PROVE client' = Both(total)
    BY <1>5 DEF ClientTakesLegalOutput, Both
  <2>1. Both(total) = Both(reader.total) + n
    BY <1>1, <1>2, <1>4 DEF Both, Streams
  <2>2. Both(reader.total) \in Nat
    BY <1>1, BudgetAssumption DEF Both, Streams
  <2>3. client = Both(reader.total)
    BY <1>2, <2>1, <2>2, BudgetAssumption DEF StreamInv, ClientTakesLegalOutput
  <2> QED
    BY <1>6, <2>1, <2>3 DEF AcceptOutput
<1> QED
  BY <1>8, <1>9, <1>10, <1>11, <1>12 DEF StreamInv

\* The reader cuts the guest off, one pipe after the other.
LEMMA CuttingOff ==
  ASSUME StreamInv, NEW st \in Streams, ReaderClose(st)
  PROVE  StreamInv'
<1>1. pipes[st] \in Pipes /\ pipes \in [Streams -> Pipes]
  BY DEF StreamInv, TypeOK
<1>2. /\ pipes' \in [Streams -> Pipes]
      /\ pipes'[st].written = pipes[st].written /\ pipes'[st].read = pipes[st].read
      /\ pipes'[st].eof = pipes[st].eof /\ pipes'[st].closed = TRUE
      /\ \A other \in Streams : other # st => pipes'[other] = pipes[other]
  BY <1>1 DEF ReaderClose, Close, Pipes
<1>3. /\ Loop(reader.eof) \in {"stdout", "exit"}
      /\ Loop(reader.eof) = "exit" => \A any \in Streams : reader.eof[any]
  BY DEF Loop
<1>4. UNCHANGED <<guest, host, client>>
  BY DEF ReaderClose
<1>5. /\ reader'.total = reader.total /\ reader'.eof = reader.eof
      /\ \/ st = "stdout" /\ reader'.pc = "close_stderr" /\ reader'.cut = reader.cut
         \/ /\ st = "stderr" /\ reader.pc = "close_stderr"
            /\ reader'.pc = Loop(reader.eof) /\ reader'.cut
      /\ reader.pc # "exit"
  BY DEF ReaderClose, StreamInv, TypeOK
<1>6. TypeOK'
  BY <1>2, <1>3, <1>4 DEF ReaderClose, StreamInv, TypeOK, Streams
<1>7. Counted'
  BY <1>2, <1>5 DEF StreamInv, Counted
<1>8. Ended'
  BY <1>2, <1>3, <1>4, <1>5 DEF StreamInv, Ended
<1>9. Closing'
  BY <1>2, <1>3, <1>5 DEF StreamInv, Closing, Streams
<1>10. ClientTakesLegalOutput'
  BY <1>4, <1>5 DEF StreamInv, ClientTakesLegalOutput, Both
<1> QED
  BY <1>6, <1>7, <1>8, <1>9, <1>10 DEF StreamInv

-----------------------------------------------------------------------------

\* Every step of either thread keeps the invariants.
LEMMA StreamStep == StreamInv /\ [Next]_vars => StreamInv'
<1> SUFFICES ASSUME StreamInv, [Next]_vars PROVE StreamInv'
  OBVIOUS
<1>1. CASE UNCHANGED vars
  BY <1>1 DEF vars, StreamInv, TypeOK, Counted, Ended, Closing, ClientTakesLegalOutput, Both
<1>2. CASE \E st \in Streams, n \in 1..Budget : GuestWrite(st, n)
  BY <1>2, Writing
<1>3. CASE GuestStart \/ GuestEnd
  BY <1>3, Turning
<1>4. CASE Host
  BY <1>4, Turning, EndingPipe DEF Host
<1>5. CASE Reader
  BY <1>5, Draining, CuttingOff DEF Reader
<1> QED
  BY <1>1, <1>2, <1>3, <1>4, <1>5 DEF Next, Finished

LEMMA StreamAlways == Spec => []StreamInv
  BY StreamInit, StreamStep, PTL DEF Spec

\* Type correctness: no pipe holds, no reader counts and no client accepts more
\* than the budget from one stream.
THEOREM StreamTypes == Spec => []TypeOK
<1>1. StreamInv => TypeOK
  BY DEF StreamInv
<1> QED
  BY <1>1, StreamAlways, PTL

\* However the reader's passes fall between the last writes and the two set_eofs
\* of run_wasi_events_impl, the totals the reader returns to the host that joins it
\* have every byte that was written.
THEOREM EveryByteKept == Spec => []NothingLost
<1>1. StreamInv => NothingLost
  BY DEF StreamInv, Counted, Ended, NothingLost
<1> QED
  BY <1>1, StreamAlways, PTL

\* The client's SessionState::accept counts as the reader does as long as the run
\* keeps to its budget, however the output is cut into chunks.
THEOREM ClientAgrees == Spec => []ClientTakesLegalOutput
<1>1. StreamInv => ClientTakesLegalOutput
  BY DEF StreamInv
<1> QED
  BY <1>1, StreamAlways, PTL

\* StreamOutputPipe::close ends a guest's output for good: once the reader has
\* closed both pipes nothing is written, whatever capacity they have left.
THEOREM CutOff == Spec => CutOffHolds
<1>1. StreamInv /\ [Next]_vars => [reader.cut => Written' = Written]_vars
  <2> SUFFICES ASSUME StreamInv, Next, reader.cut PROVE Written' = Written
    OBVIOUS
  <2>1. ~(\E st \in Streams, n \in 1..Budget : GuestWrite(st, n))
    BY Writing
  <2>2. \A st \in Streams : pipes'[st].written = pipes[st].written
    <3>1. pipes \in [Streams -> Pipes]
      BY DEF StreamInv, TypeOK
    <3>2. CASE UNCHANGED pipes
      BY <3>2
    <3>3. ASSUME NEW st \in Streams, HostEof(st) \/ ReaderDrain(st) \/ ReaderClose(st)
          PROVE  \A other \in Streams : pipes'[other].written = pipes[other].written
      BY <3>1, <3>3 DEF HostEof, ReaderDrain, ReaderClose, SetEof, Drain, Close, Pipes
    <3> QED
      BY <2>1, <3>2, <3>3 DEF Next, Finished, vars, GuestStart, GuestEnd, Host, HostJoin, Reader
  <2> QED
    BY <2>2 DEF Written, Both, Streams
<1> QED
  BY <1>1, StreamAlways, PTL DEF Spec, CutOffHolds
=============================================================================
