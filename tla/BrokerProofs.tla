---------------------------- MODULE BrokerProofs ----------------------------
(***************************************************************************)
(* Proofs about Broker, for any number of sessions, ids and callers, any   *)
(* assignment of ids to sessions and any capacity.                         *)
(***************************************************************************)
EXTENDS Broker, SequenceTheorems, TLAPS

USE IdAssumption, ClassAssumption, ThreadAssumption, CapacityAssumption,
    AuditAssumption, FlagAssumption, NoneAssumption

-----------------------------------------------------------------------------
(* What the helpers return.                                                *)

\* A session's end, as reported and as recorded, is a signal and an outcome.
LEMMA EndingTypes ==
  ASSUME NEW s \in Sessions, NEW e \in Endings \cup Verdicts
  PROVE  Signal(s, e) \in Signals /\ Outcome(e) \in Outcomes
BY DEF Endings, Verdicts, Outcomes, Signal, Signals, Terminals, Outcome

\* The session machine stays in its four states.
LEMMA AcceptType ==
  ASSUME NEW l \in Lifecycles, NEW e
  PROVE  Accept(l, e) \in Lifecycles
BY DEF Lifecycles, Accept, After

\* Sending keeps the streams streams.
LEMMA SendType ==
  ASSUME stream \in [Sessions -> Seq(Signals)],
         NEW s \in Sessions, NEW e \in Signals, Send(s, e)
  PROVE  stream' \in [Sessions -> Seq(Signals)]
BY DEF Send

\* Recording keeps the trail a trail, and within its bound.
LEMMA RecordType ==
  ASSUME audit \in Seq(AuditEntries), Len(audit) <= MaxAudit,
         NEW s \in Sessions, NEW d \in Admissions \cup Verdicts,
         NEW e \in Endings \cup Verdicts, Record(s, d, e)
  PROVE  audit' \in Seq(AuditEntries) /\ Len(audit') <= MaxAudit
<1> DEFINE x == [job |-> s, decision |-> d, outcome |-> Outcome(e)]
           grown == Append(audit, x)
<1>1. x \in AuditEntries
  BY EndingTypes DEF AuditEntries
<1>2. grown \in Seq(AuditEntries) /\ Len(grown) = Len(audit) + 1
  BY <1>1
<1>3. Tail(grown) \in Seq(AuditEntries) /\ Len(Tail(grown)) = Len(grown) - 1
  <2> HIDE DEF grown
  <2>1. grown # << >> BY <1>2
  <2> QED BY <1>2, <2>1
<1> QED BY <1>2, <1>3 DEF Record

\* The channel carries sessions.
LEMMA QueueType ==
  ASSUME queue \in Seq(Sessions)
  PROVE  /\ \A s \in Sessions : Append(queue, s) \in Seq(Sessions)
         /\ queue # << >> => Head(queue) \in Sessions /\ Tail(queue) \in Seq(Sessions)
OBVIOUS
-----------------------------------------------------------------------------
(* How a thread's task changes.                                            *)

ThreadsOK == th \in [Threads -> Tasks] /\ ThreadsInHand

\* A session's machine moves, or none does.
LEMMA SessionType ==
  ASSUME session \in [Sessions -> Lifecycles], NEW s \in Sessions, NEW v \in Lifecycles,
         session' = session \/ session' = [session EXCEPT ![s] = v]
  PROVE  session' \in [Sessions -> Lifecycles]
OBVIOUS

\* A thread that moves on with its job still knows it: the rest of approve, deny,
\* cancel and of the sweeper works on the job the call began with.
LEMMA MoveOK ==
  ASSUME ThreadsOK, NEW t \in Threads, th[t].pc \in Carrying,
         NEW pc \in Carrying, Move(t, pc)
  PROVE  ThreadsOK'
BY DEF ThreadsOK, ThreadsInHand, Tasks, Carrying, Move

\* So does a thread that takes a job: submit, and whatever removes one from
\* `pending` or looks a handle up under its id.
LEMMA TakeOK ==
  ASSUME ThreadsOK, NEW t \in Threads, NEW s \in Sessions,
         NEW pc \in Carrying, NEW why \in Verdicts, Take(t, pc, s, why)
  PROVE  ThreadsOK'
BY DEF ThreadsOK, ThreadsInHand, Tasks, Carrying, Take

\* A call that returns, or goes on to look for a handle, carries nothing.
LEMMA RestOK ==
  ASSUME ThreadsOK, NEW t \in Threads,
         \/ th' = [th EXCEPT ![t] = Idle]
         \/ \E i \in Ids : th' = [th EXCEPT ![t] = [Idle EXCEPT !.pc = "find", !.id = i]]
         \/ \E pc \in {"idle", "sleep", "exit"} : Move(t, pc)
         \/ UNCHANGED th
  PROVE  ThreadsOK'
<1> USE DEF ThreadsOK, ThreadsInHand, Tasks, Carrying, ThreadPCs
<1>1. CASE th' = [th EXCEPT ![t] = Idle]
  BY <1>1 DEF Idle, Verdicts
<1>2. ASSUME NEW i \in Ids, th' = [th EXCEPT ![t] = [Idle EXCEPT !.pc = "find", !.id = i]]
      PROVE  ThreadsOK'
  BY <1>2 DEF Idle, Verdicts
<1>3. ASSUME NEW pc \in {"idle", "sleep", "exit"}, Move(t, pc) PROVE ThreadsOK'
  <2>1. th' = [th EXCEPT ![t] = [th[t] EXCEPT !.pc = pc]]
    BY <1>3 DEF Move
  <2>2. [th[t] EXCEPT !.pc = pc] \in Tasks
    <3>1. th[t] \in Tasks /\ pc \in ThreadPCs
      BY <1>3
    <3> QED BY <3>1
  <2> QED BY <1>3, <2>1, <2>2
<1>4. CASE UNCHANGED th
  BY <1>4
<1> QED BY <1>1, <1>2, <1>3, <1>4

\* The task of a thread that carries a session.
LEMMA CarryOK ==
  ASSUME ThreadsOK, NEW t \in Threads, th[t].pc \in Carrying
  PROVE  /\ th[t].job \in Sessions
         /\ th[t].id = Id[th[t].job] /\ th[t].id \in Ids
         /\ th[t].why \in Verdicts
BY DEF ThreadsOK, ThreadsInHand, Tasks

\* Where a thread carries a job, and what it may close one with.
LEMMA CarryingPCs ==
  /\ {"enqueue", "approve", "report", "record", "release", "flag"} = Carrying
  /\ {"Denied", "TimedOut", "Cancelled"} = Verdicts
  /\ Callers \subseteq Threads /\ Sweeper \in Threads
BY DEF Carrying, ThreadPCs, Verdicts, Threads
-----------------------------------------------------------------------------
(* Type correctness.                                                       *)

\* A broker fresh from with_config is well typed.
LEMMA TypeInit == Init => TypeInv
BY DEF Init, TypeInv, TypeOK, InHand, ThreadsInHand, Carrying, Tasks, Threads, Idle,
       Rest, Admissions, Lifecycles, ThreadPCs, WorkerPCs, Verdicts, Endings, Outcomes

\* Every step of every thread keeps the broker well typed, and every job in the
\* hands of the thread whose call or loop is at it.
LEMMA TypeStep == TypeInv /\ [Next]_vars => TypeInv'
<1> SUFFICES ASSUME TypeInv, [Next]_vars PROVE TypeInv'
  OBVIOUS
<1> USE DEF TypeInv, TypeOK, InHand, world, jobs, maps
<1>a. ThreadsOK
  BY DEF ThreadsOK
<1>b. ThreadsOK' => th' \in [Threads -> Tasks] /\ ThreadsInHand'
  BY DEF ThreadsOK
<1>1. ASSUME NEW t \in Callers, NEW s \in Sessions, Submit(t, s) PROVE TypeInv'
  <2>1. ThreadsOK'
    BY <1>1, <1>a, TakeOK, CarryingPCs DEF Submit
  <2> QED BY <1>1, <2>1, <1>b DEF Submit
<1>2. ASSUME NEW t \in Threads, Enqueue(t) PROVE TypeInv'
  <2>1. th[t].job \in Sessions /\ th[t].id = Id[th[t].job] /\ th[t].id \in Ids
         /\ th[t].why \in Verdicts /\ th[t].pc \in Carrying
    BY <1>2, <1>a, CarryOK, CarryingPCs DEF Enqueue
  <2>2. queue' \in Seq(Sessions)
    BY <1>2, <1>a, <2>1, QueueType DEF Enqueue
  <2>3. ThreadsOK'
    BY <1>2, <1>a, <2>1, <2>2, RestOK DEF Enqueue
  <2> QED BY <1>2, <2>1, <2>2, <2>3, <1>b DEF Enqueue
<1>3. ASSUME NEW t \in Callers, NEW i \in Ids, Approve(t, i) PROVE TypeInv'
  <2>1. ThreadsOK'
    BY <1>3, <1>a, TakeOK, CarryingPCs DEF Approve
  <2> QED BY <1>3, <2>1, <1>b DEF Approve
<1>4. ASSUME NEW t \in Threads, ApproveCheck(t) PROVE TypeInv'
  <2>1. th[t].job \in Sessions /\ th[t].id = Id[th[t].job] /\ th[t].id \in Ids
         /\ th[t].why \in Verdicts /\ th[t].pc \in Carrying
    BY <1>4, <1>a, CarryOK, CarryingPCs DEF ApproveCheck
  <2>2. ThreadsOK'
    BY <1>4, <1>a, <2>1, MoveOK, CarryingPCs DEF ApproveCheck
  <2> QED BY <1>4, <2>1, <2>2, <1>b DEF ApproveCheck, Admissions
<1>5. ASSUME NEW t \in Callers, NEW i \in Ids, Deny(t, i) PROVE TypeInv'
  <2>1. ThreadsOK'
    BY <1>5, <1>a, TakeOK, CarryingPCs DEF Deny
  <2> QED BY <1>5, <2>1, <1>b DEF Deny
<1>6. ASSUME NEW t \in Callers, NEW i \in Ids, Cancel(t, i) PROVE TypeInv'
  <2>1. ThreadsOK'
    BY <1>6, <1>a, TakeOK, RestOK, CarryingPCs DEF Cancel
  <2> QED BY <1>6, <2>1, <1>b DEF Cancel
<1>7. ASSUME NEW t \in Threads, CancelFind(t) PROVE TypeInv'
  <2>1. th[t].id \in Ids
    BY <1>7, <1>a, CarryOK DEF CancelFind, ThreadsOK, ThreadsInHand
  <2>2. ThreadsOK'
    <3>1. CASE th' = [th EXCEPT ![t] = Idle]
      BY <3>1, <1>a, RestOK
    <3>2. ASSUME handles[th[t].id] # None, Take(t, "flag", handles[th[t].id], "Cancelled")
          PROVE  ThreadsOK'
      <4>1. handles[th[t].id] \in Sessions
        BY <2>1, <3>2
      <4>2. "flag" \in Carrying /\ "Cancelled" \in Verdicts
        BY CarryingPCs
      <4> QED BY <3>2, <4>1, <4>2, <1>a, TakeOK
    <3> QED BY <1>7, <3>1, <3>2 DEF CancelFind
  <2> QED BY <1>7, <2>1, <2>2, <1>b DEF CancelFind
<1>8. ASSUME NEW t \in Threads, CancelFlag(t) PROVE TypeInv'
  <2>1. th[t].job \in Sessions /\ th[t].id = Id[th[t].job] /\ th[t].id \in Ids
         /\ th[t].why \in Verdicts /\ th[t].pc \in Carrying
    BY <1>8, <1>a, CarryOK, CarryingPCs DEF CancelFlag
  <2>2. ThreadsOK'
    BY <1>8, <1>a, <2>1, RestOK DEF CancelFlag
  <2> QED BY <1>8, <2>1, <2>2, <1>b DEF CancelFlag
<1>9. ASSUME NEW s \in Sessions, HangUp(s) PROVE TypeInv'
  <2>1. ThreadsOK'
    BY <1>9, <1>a, RestOK, CarryingPCs DEF HangUp
  <2> QED BY <1>9, <2>1, <1>b DEF HangUp
<1>10. ASSUME NEW t \in Threads, CloseReport(t) PROVE TypeInv'
  <2>1. th[t].job \in Sessions /\ th[t].id = Id[th[t].job] /\ th[t].id \in Ids
         /\ th[t].why \in Verdicts /\ th[t].pc \in Carrying
    BY <1>10, <1>a, CarryOK, CarryingPCs DEF CloseReport
  <2>2. stream' \in [Sessions -> Seq(Signals)]
    BY <1>10, <1>a, <2>1, EndingTypes, SendType DEF CloseReport
  <2>3. ThreadsOK'
    BY <1>10, <1>a, <2>1, <2>2, MoveOK, CarryingPCs DEF CloseReport
  <2> QED BY <1>10, <2>1, <2>2, <2>3, <1>b DEF CloseReport
<1>11. ASSUME NEW t \in Threads, CloseRecord(t) PROVE TypeInv'
  <2>1. th[t].job \in Sessions /\ th[t].id = Id[th[t].job] /\ th[t].id \in Ids
         /\ th[t].why \in Verdicts /\ th[t].pc \in Carrying
    BY <1>11, <1>a, CarryOK, CarryingPCs DEF CloseRecord
  <2>2. audit' \in Seq(AuditEntries) /\ Len(audit') <= MaxAudit
    BY <1>11, <1>a, <2>1, RecordType DEF CloseRecord
  <2>3. ThreadsOK'
    BY <1>11, <1>a, <2>1, <2>2, MoveOK, CarryingPCs DEF CloseRecord
  <2> QED BY <1>11, <2>1, <2>2, <2>3, <1>b DEF CloseRecord
<1>12. ASSUME NEW t \in Threads, CloseRelease(t) PROVE TypeInv'
  <2>1. th[t].job \in Sessions /\ th[t].id = Id[th[t].job] /\ th[t].id \in Ids
         /\ th[t].why \in Verdicts /\ th[t].pc \in Carrying
    BY <1>12, <1>a, CarryOK, CarryingPCs DEF CloseRelease
  <2>2. ThreadsOK'
    BY <1>12, <1>a, <2>1, RestOK DEF CloseRelease
  <2> QED BY <1>12, <2>1, <2>2, <1>b DEF CloseRelease, Release
<1>13. ASSUME WorkerRecv PROVE TypeInv'
  <2>1. Head(queue) \in Sessions /\ queue' \in Seq(Sessions)
    BY <1>13, <1>a, QueueType DEF WorkerRecv
  <2>2. ThreadsOK'
    BY <1>13, <1>a, <2>1, RestOK, CarryingPCs DEF WorkerRecv
  <2> QED BY <1>13, <2>1, <2>2, <1>b DEF WorkerRecv, Rest, WorkerPCs, Endings, Outcomes
<1>14. ASSUME WorkerExit PROVE TypeInv'
  <2>1. ThreadsOK'
    BY <1>14, <1>a, RestOK, CarryingPCs DEF WorkerExit
  <2> QED BY <1>14, <2>1, <1>b DEF WorkerExit, Work, WorkerPCs
<1>15. ASSUME WorkerLookup PROVE TypeInv'
  <2>1. worker.job \in Sessions /\ Id[worker.job] \in Ids
    BY <1>15, <1>a, CarryingPCs DEF WorkerLookup
  <2>2. session' \in [Sessions -> Lifecycles]
    BY <1>15, <1>a, <2>1, AcceptType DEF WorkerLookup
  <2>3. ThreadsOK'
    BY <1>15, <1>a, <2>1, <2>2, RestOK, CarryingPCs DEF WorkerLookup
  <2> QED BY <1>15, <2>1, <2>2, <2>3, <1>b DEF WorkerLookup, WorkerPCs
<1>16. ASSUME WorkerLost PROVE TypeInv'
  <2>1. worker.job \in Sessions /\ Id[worker.job] \in Ids
    BY <1>16, <1>a, CarryingPCs DEF WorkerLost
  <2>2. stream' \in [Sessions -> Seq(Signals)]
    BY <1>16, <1>a, <2>1, SendType DEF WorkerLost, Signals, Terminals
  <2>3. ThreadsOK'
    BY <1>16, <1>a, <2>1, <2>2, RestOK, CarryingPCs DEF WorkerLost
  <2> QED BY <1>16, <2>1, <2>2, <2>3, <1>b DEF WorkerLost, Work, WorkerPCs
<1>17. ASSUME WorkerPark PROVE TypeInv'
  <2>1. worker.job \in Sessions /\ Id[worker.job] \in Ids
    BY <1>17, <1>a, CarryingPCs DEF WorkerPark
  <2>2. ThreadsOK'
    BY <1>17, <1>a, <2>1, RestOK, CarryingPCs DEF WorkerPark
  <2> QED BY <1>17, <2>1, <2>2, <1>b DEF WorkerPark, Work, WorkerPCs
<1>18. ASSUME WorkerNotify PROVE TypeInv'
  <2>1. worker.job \in Sessions /\ Id[worker.job] \in Ids
    BY <1>18, <1>a, CarryingPCs DEF WorkerNotify
  <2>2. stream' \in [Sessions -> Seq(Signals)]
    BY <1>18, <1>a, <2>1, SendType DEF WorkerNotify, Signals
  <2>3. ThreadsOK'
    BY <1>18, <1>a, <2>1, <2>2, RestOK, CarryingPCs DEF WorkerNotify
  <2> QED BY <1>18, <2>1, <2>2, <2>3, <1>b DEF WorkerNotify, Rest, WorkerPCs, Endings, Outcomes
<1>19. ASSUME WorkerUnpark PROVE TypeInv'
  <2>1. worker.job \in Sessions /\ Id[worker.job] \in Ids
    BY <1>19, <1>a, CarryingPCs DEF WorkerUnpark
  <2>2. ThreadsOK'
    BY <1>19, <1>a, <2>1, RestOK, CarryingPCs DEF WorkerUnpark
  <2> QED BY <1>19, <2>1, <2>2, <1>b DEF WorkerUnpark, Work, WorkerPCs
<1>20. ASSUME WorkerStart PROVE TypeInv'
  <2>1. worker.job \in Sessions /\ Id[worker.job] \in Ids
    BY <1>20, <1>a, CarryingPCs DEF WorkerStart
  <2>2. Accept(session[worker.job], "Cancelled") \in Lifecycles
    BY <1>20, <1>a, <2>1, AcceptType
  <2>3. session' = session \/ session' = [session EXCEPT ![worker.job] = Accept(session[worker.job], "Cancelled")]
    BY <1>20, <1>a, <2>1, <2>2, CarryingPCs DEF WorkerStart
  <2>4. session' \in [Sessions -> Lifecycles]
    BY <2>1, <2>2, <2>3, SessionType
  <2>5. ThreadsOK'
    BY <1>20, <1>a, <2>1, <2>2, <2>3, <2>4, RestOK, CarryingPCs DEF WorkerStart
  <2> QED BY <1>20, <2>1, <2>2, <2>3, <2>4, <2>5, <1>b DEF WorkerStart, Work, WorkerPCs, Endings, Outcomes
<1>21. ASSUME WorkerBegin PROVE TypeInv'
  <2>1. worker.job \in Sessions /\ Id[worker.job] \in Ids
    BY <1>21, <1>a, CarryingPCs DEF WorkerBegin
  <2>2. session' \in [Sessions -> Lifecycles]
    BY <1>21, <1>a, <2>1, AcceptType DEF WorkerBegin
  <2>3. stream' \in [Sessions -> Seq(Signals)]
    BY <1>21, <1>a, <2>1, <2>2, SendType DEF WorkerBegin, Signals
  <2>4. ThreadsOK'
    BY <1>21, <1>a, <2>1, <2>2, <2>3, RestOK, CarryingPCs DEF WorkerBegin
  <2> QED BY <1>21, <2>1, <2>2, <2>3, <2>4, <1>b DEF WorkerBegin, WorkerPCs, Endings, Outcomes
<1>22. ASSUME NEW end \in {"Completed", "Cancelled", "Failed", "Panicked"}, WorkerRun(end) PROVE TypeInv'
  <2>1. worker.job \in Sessions /\ Id[worker.job] \in Ids
    BY <1>22, <1>a, CarryingPCs DEF WorkerRun
  <2>2. session' \in [Sessions -> Lifecycles]
    BY <1>22, <1>a, <2>1, AcceptType DEF WorkerRun
  <2>3. ThreadsOK'
    BY <1>22, <1>a, <2>1, <2>2, RestOK, CarryingPCs DEF WorkerRun
  <2> QED BY <1>22, <2>1, <2>2, <2>3, <1>b DEF WorkerRun, WorkerPCs, Endings, Outcomes
<1>23. ASSUME WorkerReport PROVE TypeInv'
  <2>1. worker.job \in Sessions /\ Id[worker.job] \in Ids
    BY <1>23, <1>a, CarryingPCs DEF WorkerReport
  <2>2. Signal(worker.job, worker.end) \in Signals
    BY <1>23, <1>a, <2>1, EndingTypes DEF WorkerReport
  <2>3. stream' \in [Sessions -> Seq(Signals)]
    BY <1>23, <1>a, <2>1, <2>2, SendType DEF WorkerReport
  <2>4. ThreadsOK'
    BY <1>23, <1>a, <2>1, <2>2, <2>3, RestOK, CarryingPCs DEF WorkerReport
  <2> QED BY <1>23, <2>1, <2>2, <2>3, <2>4, <1>b DEF WorkerReport, Work, WorkerPCs
<1>24. ASSUME WorkerRecord PROVE TypeInv'
  <2>1. worker.job \in Sessions /\ Id[worker.job] \in Ids
    BY <1>24, <1>a, CarryingPCs DEF WorkerRecord
  <2>2. audit' \in Seq(AuditEntries) /\ Len(audit') <= MaxAudit
    BY <1>24, <1>a, <2>1, RecordType DEF WorkerRecord
  <2>3. ThreadsOK'
    BY <1>24, <1>a, <2>1, <2>2, RestOK, CarryingPCs DEF WorkerRecord
  <2> QED BY <1>24, <2>1, <2>2, <2>3, <1>b DEF WorkerRecord, Work, WorkerPCs
<1>25. ASSUME WorkerRelease PROVE TypeInv'
  <2>1. worker.job \in Sessions /\ Id[worker.job] \in Ids
    BY <1>25, <1>a, CarryingPCs DEF WorkerRelease
  <2>2. ThreadsOK'
    BY <1>25, <1>a, <2>1, RestOK, CarryingPCs DEF WorkerRelease
  <2> QED BY <1>25, <2>1, <2>2, <1>b DEF WorkerRelease, Rest, WorkerPCs, Endings, Outcomes, Release
<1>26. ASSUME NEW s \in Sessions, DeadlinePasses(s) PROVE TypeInv'
  <2>1. ThreadsOK'
    BY <1>26, <1>a, RestOK, CarryingPCs DEF DeadlinePasses
  <2> QED BY <1>26, <2>1, <1>b DEF DeadlinePasses
<1>27. ASSUME SweepNext PROVE TypeInv'
  <2>1. ThreadsOK'
    BY <1>27, <1>a, RestOK, CarryingPCs DEF SweepNext
  <2> QED BY <1>27, <2>1, <1>b DEF SweepNext
<1>28. ASSUME SweepScan PROVE TypeInv'
  <2>1. ThreadsOK'
    BY <1>28, <1>a, RestOK, CarryingPCs DEF SweepScan
  <2> QED BY <1>28, <2>1, <1>b DEF SweepScan
<1>29. ASSUME NEW i \in Ids, SweepTake(i) PROVE TypeInv'
  <2>1. ThreadsOK'
    BY <1>29, <1>a, TakeOK, RestOK, CarryingPCs DEF SweepTake
  <2> QED BY <1>29, <2>1, <1>b DEF SweepTake
<1>30. ASSUME DropStop PROVE TypeInv'
  <2>1. ThreadsOK'
    BY <1>30, <1>a, RestOK, CarryingPCs DEF DropStop
  <2> QED BY <1>30, <2>1, <1>b DEF DropStop
<1>31. ASSUME DropCancel PROVE TypeInv'
  <2>1. ThreadsOK'
    BY <1>31, <1>a, RestOK, CarryingPCs DEF DropCancel
  <2> QED BY <1>31, <2>1, <1>b DEF DropCancel
<1>32. ASSUME DropClose PROVE TypeInv'
  <2>1. ThreadsOK'
    BY <1>32, <1>a, RestOK, CarryingPCs DEF DropClose
  <2> QED BY <1>32, <2>1, <1>b DEF DropClose
<1>33. ASSUME DropJoin PROVE TypeInv'
  <2>1. ThreadsOK'
    BY <1>33, <1>a, RestOK, CarryingPCs DEF DropJoin
  <2> QED BY <1>33, <2>1, <1>b DEF DropJoin
<1>40. ASSUME WorkerParkFails PROVE TypeInv'
  <2>1. worker.job \in Sessions
    BY <1>40, <1>a, CarryingPCs DEF WorkerParkFails
  <2>2. ThreadsOK'
    BY <1>40, <1>a, <2>1, RestOK, CarryingPCs DEF WorkerParkFails
  <2> QED BY <1>40, <2>1, <2>2, <1>b DEF WorkerParkFails, WorkerPCs, Endings
<1>41. ASSUME NEW s \in Streaming, NEW e \in Outputs, ReaderSend(s, e) PROVE TypeInv'
  <2>1. s \in Sessions /\ e \in Signals
    BY ClassAssumption DEF Signals
  <2>2. stream' \in [Sessions -> Seq(Signals)]
    BY <1>41, <1>a, <2>1, SendType DEF ReaderSend
  <2>3. ThreadsOK'
    BY <1>41, <1>a, <2>2, RestOK, CarryingPCs DEF ReaderSend
  <2> QED BY <1>41, <2>2, <2>3, <1>b DEF ReaderSend
<1>34. CASE UNCHANGED vars
  <2>1. ThreadsOK'
    BY <1>34, <1>a DEF vars, ThreadsOK, ThreadsInHand
  <2> QED BY <1>34, <2>1, <1>b DEF vars
<1> HIDE DEF TypeInv, TypeOK, InHand, world, jobs, maps
<1>35. CASE \E t \in Callers : Call(t)
  BY <1>35, <1>1, <1>3, <1>5, <1>6 DEF Call
<1>36. CASE \E t \in Threads : Continue(t)
  BY <1>36, <1>2, <1>4, <1>7, <1>8, <1>10, <1>11, <1>12 DEF Continue
<1>37. CASE \E s \in Sessions : HangUp(s) \/ DeadlinePasses(s)
  BY <1>37, <1>9, <1>26
<1>38. CASE Worker
  BY <1>38, <1>13, <1>14, <1>15, <1>16, <1>17, <1>18, <1>19, <1>20, <1>21, <1>22, <1>23, <1>24, <1>25, <1>40 DEF Worker
<1>39. CASE Sweep \/ Dropping \/ DropStop
  BY <1>39, <1>27, <1>28, <1>29, <1>30, <1>31, <1>32, <1>33 DEF Sweep, Dropping
<1>42. CASE \E s \in Streaming, e \in Outputs : ReaderSend(s, e)
  BY <1>41, <1>42
<1> QED
  BY <1>34, <1>35, <1>36, <1>37, <1>38, <1>39, <1>42 DEF Next, Finished

\* Type correctness of the broker's maps, channel, trail and threads, with the
\* trail never longer than DEFAULT_MAX_AUDIT_ENTRIES (BrokerState::record).
THEOREM TypeCorrect == Spec => []TypeOK
<1>1. TypeInv => TypeOK
  BY DEF TypeInv
<1> QED BY TypeInit, TypeStep, <1>1, PTL DEF Spec
-----------------------------------------------------------------------------
(* Where jobs are.                                                         *)

\* Nothing new happens to r in this step.
Shrinks(r) ==
  /\ r \in submitted => r \in submitted'
  /\ InQueue(r)' => InQueue(r)
  /\ Parked(r)' => Parked(r)
  /\ AtWorker(r)' => AtWorker(r)
  /\ \A t \in Threads : AtThread(t, r)' => AtThread(t, r)
  /\ HasEnded(r)' => HasEnded(r)

\* A step that puts a job nowhere new and ends no session keeps what is known of
\* where the job is: jobs are moved, not copied.
LEMMA ShrinkingIsSafe ==
  ASSUME OwnerInv, NEW r \in Sessions, Shrinks(r)
  PROVE  (OnePlace(r) /\ Nowhere(r))'
BY DEF OwnerInv, Shrinks, OnePlace, Nowhere, Unsettled

\* One more job in the channel.
LEMMA Queueing ==
  ASSUME TypeInv, QueuedOnce, NEW s \in Sessions, ~InQueue(s), queue' = Append(queue, s)
  PROVE  QueuedOnce' /\ \A r \in Sessions : InQueue(r)' <=> InQueue(r) \/ r = s
<1>1. queue \in Seq(Sessions)
  BY DEF TypeInv, TypeOK
<1>2. /\ DOMAIN queue = 1..Len(queue) /\ DOMAIN queue' = 1..(Len(queue) + 1)
      /\ Len(queue) \in Nat
      /\ \A k \in 1..Len(queue) : queue'[k] = queue[k]
      /\ queue'[Len(queue) + 1] = s
  BY <1>1
<1> QED BY <1>2 DEF QueuedOnce, InQueue

\* One job less.
LEMMA Dequeueing ==
  ASSUME TypeInv, QueuedOnce, queue # << >>, queue' = Tail(queue)
  PROVE  /\ QueuedOnce' /\ InQueue(Head(queue))
         /\ \A r \in Sessions : InQueue(r)' => InQueue(r) /\ r # Head(queue)
<1>1. queue \in Seq(Sessions)
  BY DEF TypeInv, TypeOK
<1>2. /\ DOMAIN queue = 1..Len(queue) /\ DOMAIN queue' = 1..(Len(queue) - 1)
      /\ Len(queue) \in Nat \ {0}
      /\ \A k \in 1..(Len(queue) - 1) : queue'[k] = queue[k + 1]
      /\ Head(queue) = queue[1]
  BY <1>1
<1> QED BY <1>2 DEF QueuedOnce, InQueue

\* A signal that is not terminal ends nothing.
LEMMA Telling ==
  ASSUME TypeInv, AtMostOneTerminal, NEW s \in Sessions, NEW e \in Signals \ Terminals,
         Send(s, e)
  PROVE  AtMostOneTerminal' /\ \A r \in Sessions : HasEnded(r)' => HasEnded(r)
<1> DEFINE q == stream[s]
<1>1. stream \in [Sessions -> Seq(Signals)]
  BY DEF TypeInv, TypeOK
<1>2. CASE s \in hungup
  BY <1>2 DEF Send, AtMostOneTerminal, HasEnded
<1>3. CASE s \notin hungup
  <2>1. q \in Seq(Signals)
    BY <1>1
  <2>2. /\ DOMAIN q = 1..Len(q) /\ DOMAIN Append(q, e) = 1..(Len(q) + 1)
        /\ Len(q) \in Nat
        /\ \A k \in 1..Len(q) : Append(q, e)[k] = q[k]
        /\ Append(q, e)[Len(q) + 1] = e
    BY <2>1
  <2>3. stream' = [stream EXCEPT ![s] = Append(q, e)]
    BY <1>3 DEF Send
  <2>4. stream'[s] = Append(q, e) /\ \A r \in Sessions \ {s} : stream'[r] = stream[r]
    BY <1>1, <2>3
  <2> HIDE DEF q
  <2>5. q = stream[s]
    BY DEF q
  <2>6. \A r \in Sessions : HasEnded(r)' => HasEnded(r)
    BY <2>2, <2>4, <2>5 DEF HasEnded
  <2>7. ASSUME NEW j \in DOMAIN stream'[s], NEW k \in DOMAIN stream'[s],
               stream'[s][j] \in Terminals, stream'[s][k] \in Terminals
        PROVE  j = k
    <3>1. j \in 1..Len(q) /\ k \in 1..Len(q)
      BY <2>2, <2>4, <2>7
    <3>2. q[j] \in Terminals /\ q[k] \in Terminals
      BY <2>2, <2>4, <2>7, <3>1
    <3> QED BY <2>2, <2>5, <3>1, <3>2 DEF AtMostOneTerminal
  <2>8. ASSUME NEW r \in Sessions \ {s}, NEW j \in DOMAIN stream'[r], NEW k \in DOMAIN stream'[r],
               stream'[r][j] \in Terminals, stream'[r][k] \in Terminals
        PROVE  j = k
    BY <2>4, <2>8 DEF AtMostOneTerminal
  <2> QED BY <2>6, <2>7, <2>8 DEF AtMostOneTerminal
<1> QED BY <1>2, <1>3

\* A terminal signal to a session that has not ended ends that one.
LEMMA Ending ==
  ASSUME TypeInv, AtMostOneTerminal, NEW s \in Sessions, NEW e \in Signals,
         ~HasEnded(s), Send(s, e)
  PROVE  AtMostOneTerminal' /\ \A r \in Sessions : HasEnded(r)' => HasEnded(r) \/ r = s
<1> DEFINE q == stream[s]
<1>1. stream \in [Sessions -> Seq(Signals)]
  BY DEF TypeInv, TypeOK
<1>2. CASE s \in hungup
  BY <1>2 DEF Send, AtMostOneTerminal, HasEnded
<1>3. CASE s \notin hungup
  <2>1. q \in Seq(Signals)
    BY <1>1
  <2>2. /\ DOMAIN q = 1..Len(q) /\ DOMAIN Append(q, e) = 1..(Len(q) + 1)
        /\ Len(q) \in Nat
        /\ \A k \in 1..Len(q) : Append(q, e)[k] = q[k]
    BY <2>1
  <2>3. stream' = [stream EXCEPT ![s] = Append(q, e)]
    BY <1>3 DEF Send
  <2>4. stream'[s] = Append(q, e) /\ \A r \in Sessions \ {s} : stream'[r] = stream[r]
    BY <1>1, <2>3
  <2> HIDE DEF q
  <2>5. q = stream[s]
    BY DEF q
  <2>6. \A r \in Sessions : HasEnded(r)' => HasEnded(r) \/ r = s
    BY <2>2, <2>4, <2>5 DEF HasEnded
  <2>7. ASSUME NEW j \in DOMAIN stream'[s], NEW k \in DOMAIN stream'[s],
               stream'[s][j] \in Terminals, stream'[s][k] \in Terminals
        PROVE  j = k
    <3>1. \A i \in 1..Len(q) : q[i] \notin Terminals
      BY <2>2, <2>5 DEF HasEnded
    <3>2. j \notin 1..Len(q) /\ k \notin 1..Len(q)
      BY <2>2, <2>4, <2>7, <3>1
    <3> QED BY <2>2, <2>4, <2>7, <3>2
  <2>8. ASSUME NEW r \in Sessions \ {s}, NEW j \in DOMAIN stream'[r], NEW k \in DOMAIN stream'[r],
               stream'[r][j] \in Terminals, stream'[r][k] \in Terminals
        PROVE  j = k
    BY <2>4, <2>8 DEF AtMostOneTerminal
  <2> QED BY <2>6, <2>7, <2>8 DEF AtMostOneTerminal
<1> QED BY <1>2, <1>3
-----------------------------------------------------------------------------
\* A fresh broker holds no job.
LEMMA OwnerInit == Init => OwnerInv
BY DEF Init, OwnerInv, QueuedOnce, OnePlace, Nowhere, AtMostOneTerminal, Unsettled,
       HasEnded, InQueue, Parked, AtWorker, AtThread, Idle, Rest

\* Every step keeps each job in one place at most, and in none once its session
\* has ended: a remove from `pending`, a receive and a send are each atomic, and
\* each hands the job on.
LEMMA OwnerStep == TypeInv /\ OwnerInv /\ [Next]_vars => OwnerInv'
<1> SUFFICES ASSUME TypeInv, OwnerInv, [Next]_vars PROVE OwnerInv'
  OBVIOUS
<1> USE DEF InQueue, Parked, AtWorker, AtThread, world, jobs, maps
<1>a. /\ th \in [Threads -> Tasks]
      /\ pending \in [Ids -> Sessions \cup {None}]
      /\ worker \in [pc: WorkerPCs, job: Sessions \cup {None},
                     handle: Sessions \cup {None}, end: Endings]
  BY DEF TypeInv, TypeOK
<1>b. ASSUME QueuedOnce', AtMostOneTerminal', \A r \in Sessions : Shrinks(r)
      PROVE  OwnerInv'
  BY <1>b, ShrinkingIsSafe DEF OwnerInv
<1>c. ASSUME QueuedOnce', AtMostOneTerminal', NEW s \in Sessions,
             \A r \in Sessions \ {s} : Shrinks(r), OnePlace(s)', Nowhere(s)'
      PROVE  OwnerInv'
  BY <1>c, ShrinkingIsSafe DEF OwnerInv
<1>d. /\ QueuedOnce /\ AtMostOneTerminal
      /\ \A s \in Sessions : OnePlace(s) /\ Nowhere(s)
  BY DEF OwnerInv
<1>e. ASSUME UNCHANGED <<queue, stream>> PROVE QueuedOnce' /\ AtMostOneTerminal'
  BY <1>d, <1>e DEF QueuedOnce, AtMostOneTerminal
<1>f. /\ ThreadsOK
      /\ worker.pc \notin {"recv", "exit"} => worker.job \in Sessions
      /\ \A i \in Ids : pending[i] # None => pending[i] \in Sessions /\ Id[pending[i]] = i
  BY <1>a DEF TypeInv, InHand, ThreadsOK
<1>g. queue \in Seq(Sessions)
  BY DEF TypeInv, TypeOK
<1>1. ASSUME NEW t \in Callers, NEW s \in Sessions, Submit(t, s) PROVE OwnerInv'
  <2>1. \A r \in Sessions \ {s} : Shrinks(r)
    BY <1>1, <1>a, <1>f, CarryingPCs DEF Submit, Shrinks, HasEnded, Take
  <2>2. OnePlace(s)' /\ Nowhere(s)'
    BY <1>1, <1>a, <1>f, <2>1, <1>d, CarryingPCs DEF Submit, OnePlace, Nowhere, Unsettled, HasEnded, Take
  <2>3. QueuedOnce' /\ AtMostOneTerminal'
    BY <1>1, <1>a, <1>f, <2>1, <2>2, <1>d, <1>e DEF Submit, QueuedOnce, AtMostOneTerminal
  <2> QED BY <1>c, <2>1, <2>2, <2>3
<1>2. ASSUME NEW t \in Threads, Enqueue(t) PROVE OwnerInv'
  <2>1. PICK s \in Sessions : s = th[t].job
    BY <1>2, <1>a, <1>f, CarryOK, CarryingPCs DEF Enqueue
  <2>2. ~InQueue(s)
    BY <1>2, <1>a, <1>f, <2>1, <1>d, CarryingPCs DEF Enqueue, OnePlace
  <2>3. QueuedOnce' /\ \A r \in Sessions : InQueue(r)' <=> InQueue(r) \/ r = s
    BY <1>2, <1>a, <1>f, <2>1, <2>2, <1>d, Queueing DEF Enqueue
  <2>4. \A r \in Sessions \ {s} : Shrinks(r)
    BY <1>2, <1>a, <1>f, <2>1, <2>2, <2>3, CarryingPCs DEF Enqueue, Shrinks, HasEnded, Idle
  <2>5. OnePlace(s)' /\ Nowhere(s)'
    BY <1>2, <1>a, <1>f, <2>1, <2>2, <2>3, <2>4, <1>d, CarryingPCs DEF Enqueue, OnePlace, Nowhere, Unsettled, HasEnded, Idle
  <2>6. QueuedOnce' /\ AtMostOneTerminal'
    BY <1>2, <1>a, <1>f, <2>1, <2>2, <2>3, <2>4, <2>5, <1>d, <1>e DEF Enqueue, QueuedOnce, AtMostOneTerminal
  <2> QED BY <1>c, <2>1, <2>2, <2>3, <2>4, <2>5, <2>6
<1>3. ASSUME NEW t \in Callers, NEW i \in Ids, Approve(t, i) PROVE OwnerInv'
  <2>1. PICK s \in Sessions : s = pending[i]
    BY <1>3, <1>a, <1>f, CarryOK, CarryingPCs DEF Approve
  <2>2. \A r \in Sessions \ {s} : Shrinks(r)
    BY <1>3, <1>a, <1>f, <2>1, CarryingPCs DEF Approve, Shrinks, HasEnded, Take
  <2>3. OnePlace(s)' /\ Nowhere(s)'
    BY <1>3, <1>a, <1>f, <2>1, <2>2, <1>d, CarryingPCs DEF Approve, OnePlace, Nowhere, Unsettled, HasEnded, Take
  <2>4. QueuedOnce' /\ AtMostOneTerminal'
    BY <1>3, <1>a, <1>f, <2>1, <2>2, <2>3, <1>d, <1>e DEF Approve, QueuedOnce, AtMostOneTerminal
  <2> QED BY <1>c, <2>1, <2>2, <2>3, <2>4
<1>4. ASSUME NEW t \in Threads, ApproveCheck(t) PROVE OwnerInv'
  <2>1. th[t].pc = "approve" /\ \E pc \in {"report", "enqueue"} : th' = [th EXCEPT ![t].pc = pc]
    BY <1>4, <1>a, CarryingPCs DEF ApproveCheck, Move
  <2>2. \A r \in Sessions : Shrinks(r)
    BY <1>4, <1>a, <2>1, CarryingPCs DEF ApproveCheck, Shrinks, HasEnded
  <2> QED BY <1>4, <1>b, <1>e, <2>2 DEF ApproveCheck
<1>5. ASSUME NEW t \in Callers, NEW i \in Ids, Deny(t, i) PROVE OwnerInv'
  <2>1. PICK s \in Sessions : s = pending[i]
    BY <1>5, <1>a, <1>f, CarryOK, CarryingPCs DEF Deny
  <2>2. \A r \in Sessions \ {s} : Shrinks(r)
    BY <1>5, <1>a, <1>f, <2>1, CarryingPCs DEF Deny, Shrinks, HasEnded, Take
  <2>3. OnePlace(s)' /\ Nowhere(s)'
    BY <1>5, <1>a, <1>f, <2>1, <2>2, <1>d, CarryingPCs DEF Deny, OnePlace, Nowhere, Unsettled, HasEnded, Take
  <2>4. QueuedOnce' /\ AtMostOneTerminal'
    BY <1>5, <1>a, <1>f, <2>1, <2>2, <2>3, <1>d, <1>e DEF Deny, QueuedOnce, AtMostOneTerminal
  <2> QED BY <1>c, <2>1, <2>2, <2>3, <2>4
<1>6. ASSUME NEW t \in Callers, NEW i \in Ids, Cancel(t, i) PROVE OwnerInv'
  <2>1. CASE pending[i] = None
    <3>a. t \in Threads /\ th' = [th EXCEPT ![t] = [Idle EXCEPT !.pc = "find", !.id = i]]
      BY <1>6, <2>1, CarryingPCs DEF Cancel
    <3>b. [Idle EXCEPT !.pc = "find", !.id = i].pc = "find"
      BY DEF Idle
    <3>1. th'[t].pc = "find" /\ \A u \in Threads \ {t} : th'[u] = th[u]
      BY <1>a, <3>a, <3>b
    <3>2. \A r \in Sessions : Shrinks(r)
      BY <1>6, <1>a, <1>f, <2>1, <3>1 DEF Cancel, Shrinks, HasEnded
    <3> QED BY <1>6, <1>b, <1>e, <3>2 DEF Cancel
  <2>2. CASE pending[i] # None
    <3>1. PICK s \in Sessions : s = pending[i]
      BY <1>f, <2>2
    <3>2. \A r \in Sessions \ {s} : Shrinks(r)
      BY <1>6, <1>a, <1>f, <2>2, <3>1, CarryingPCs DEF Cancel, Shrinks, HasEnded, Take
    <3>3. OnePlace(s)' /\ Nowhere(s)'
      BY <1>6, <1>a, <1>d, <1>f, <2>2, <3>1, CarryingPCs
         DEF Cancel, OnePlace, Nowhere, Unsettled, HasEnded, Take
    <3> QED BY <1>6, <1>c, <1>e, <3>1, <3>2, <3>3 DEF Cancel
  <2> QED BY <2>1, <2>2
<1>7. ASSUME NEW t \in Threads, CancelFind(t) PROVE OwnerInv'
  <2>1. \A r \in Sessions : Shrinks(r)
    BY <1>7, <1>a, CarryingPCs DEF CancelFind, Shrinks, HasEnded, Take, Idle
  <2> QED BY <1>7, <1>b, <1>e, <2>1 DEF CancelFind
<1>8. ASSUME NEW t \in Threads, CancelFlag(t) PROVE OwnerInv'
  <2>1. \A r \in Sessions : Shrinks(r)
    BY <1>8, <1>a, CarryingPCs DEF CancelFlag, Shrinks, HasEnded, Idle
  <2> QED BY <1>8, <1>b, <1>e, <2>1 DEF CancelFlag
<1>9. ASSUME NEW s \in Sessions, HangUp(s) PROVE OwnerInv'
  <2>1. \A r \in Sessions : Shrinks(r)
    BY <1>9, <1>a, CarryingPCs DEF HangUp, Shrinks, HasEnded
  <2> QED BY <1>9, <1>b, <1>e, <2>1 DEF HangUp
<1>10. ASSUME NEW t \in Threads, CloseReport(t) PROVE OwnerInv'
  <2>1. PICK s \in Sessions : s = th[t].job
    BY <1>10, <1>a, <1>f, CarryOK, CarryingPCs DEF CloseReport
  <2>2. ~HasEnded(s)
    BY <1>10, <1>a, <1>f, <2>1, <1>d, CarryingPCs DEF CloseReport, Nowhere, Unsettled
  <2>3. Signal(s, th[t].why) \in Signals
    BY <1>10, <1>a, <1>f, <2>1, <2>2, CarryOK, CarryingPCs, EndingTypes DEF CloseReport
  <2>4. AtMostOneTerminal' /\ \A r \in Sessions : HasEnded(r)' => HasEnded(r) \/ r = s
    BY <1>10, <1>a, <1>f, <2>1, <2>2, <2>3, <1>d, Ending DEF CloseReport
  <2>5. \A r \in Sessions \ {s} : Shrinks(r)
    BY <1>10, <1>a, <1>f, <2>1, <2>2, <2>3, <2>4, CarryingPCs DEF CloseReport, Shrinks, HasEnded, Move
  <2>6. OnePlace(s)' /\ Nowhere(s)'
    BY <1>10, <1>a, <1>f, <2>1, <2>2, <2>3, <2>4, <2>5, <1>d, CarryingPCs DEF CloseReport, OnePlace, Nowhere, Unsettled, HasEnded, Move
  <2>7. QueuedOnce' /\ AtMostOneTerminal'
    BY <1>10, <1>a, <1>f, <2>1, <2>2, <2>3, <2>4, <2>5, <2>6, <1>d, <1>e DEF CloseReport, QueuedOnce, AtMostOneTerminal
  <2> QED BY <1>c, <2>1, <2>2, <2>3, <2>4, <2>5, <2>6, <2>7
<1>11. ASSUME NEW t \in Threads, CloseRecord(t) PROVE OwnerInv'
  <2>1. \A r \in Sessions : Shrinks(r)
    BY <1>11, <1>a, CarryingPCs DEF CloseRecord, Shrinks, HasEnded, Move
  <2> QED BY <1>11, <1>b, <1>e, <2>1 DEF CloseRecord
<1>12. ASSUME NEW t \in Threads, CloseRelease(t) PROVE OwnerInv'
  <2>1. \A r \in Sessions : Shrinks(r)
    BY <1>12, <1>a, CarryingPCs DEF CloseRelease, Shrinks, HasEnded, Idle
  <2> QED BY <1>12, <1>b, <1>e, <2>1 DEF CloseRelease
<1>13. ASSUME WorkerRecv PROVE OwnerInv'
  <2>1. PICK s \in Sessions : s = Head(queue)
    BY <1>13, <1>a, <1>f, <1>g, QueueType DEF WorkerRecv
  <2>2. QueuedOnce' /\ InQueue(s) /\ \A r \in Sessions : InQueue(r)' => InQueue(r) /\ r # s
    BY <1>13, <1>a, <1>f, <2>1, <1>d, Dequeueing DEF WorkerRecv
  <2>3. \A r \in Sessions \ {s} : Shrinks(r)
    BY <1>13, <1>a, <1>f, <2>1, <2>2, CarryingPCs DEF WorkerRecv, Shrinks, HasEnded, Rest
  <2>4. OnePlace(s)' /\ Nowhere(s)'
    BY <1>13, <1>a, <1>f, <2>1, <2>2, <2>3, <1>d, CarryingPCs DEF WorkerRecv, OnePlace, Nowhere, Unsettled, HasEnded, Rest
  <2>5. QueuedOnce' /\ AtMostOneTerminal'
    BY <1>13, <1>a, <1>f, <2>1, <2>2, <2>3, <2>4, <1>d, <1>e DEF WorkerRecv, QueuedOnce, AtMostOneTerminal
  <2> QED BY <1>c, <2>1, <2>2, <2>3, <2>4, <2>5
<1>14. ASSUME WorkerExit PROVE OwnerInv'
  <2>1. \A r \in Sessions : Shrinks(r)
    BY <1>14, <1>a, CarryingPCs DEF WorkerExit, Shrinks, HasEnded, Work
  <2> QED BY <1>14, <1>b, <1>e, <2>1 DEF WorkerExit
<1>15. ASSUME WorkerLookup PROVE OwnerInv'
  <2>1. \A r \in Sessions : Shrinks(r)
    BY <1>15, <1>a, CarryingPCs DEF WorkerLookup, Shrinks, HasEnded
  <2> QED BY <1>15, <1>b, <1>e, <2>1 DEF WorkerLookup
<1>16. ASSUME WorkerLost PROVE OwnerInv'
  <2>1. PICK s \in Sessions : s = worker.job
    BY <1>16, <1>a, <1>f, CarryOK, CarryingPCs DEF WorkerLost
  <2>2. ~HasEnded(s)
    BY <1>16, <1>a, <1>f, <2>1, <1>d DEF WorkerLost, Nowhere, Unsettled
  <2>3. AtMostOneTerminal' /\ \A r \in Sessions : HasEnded(r)' => HasEnded(r) \/ r = s
    BY <1>16, <1>a, <1>f, <2>1, <2>2, <1>d, Ending DEF WorkerLost, Signals, Terminals
  <2>4. \A r \in Sessions \ {s} : Shrinks(r)
    BY <1>16, <1>a, <1>f, <2>1, <2>2, <2>3, CarryingPCs DEF WorkerLost, Shrinks, HasEnded, Work
  <2>5. OnePlace(s)' /\ Nowhere(s)'
    BY <1>16, <1>a, <1>f, <2>1, <2>2, <2>3, <2>4, <1>d, CarryingPCs DEF WorkerLost, OnePlace, Nowhere, Unsettled, HasEnded, Work
  <2>6. QueuedOnce' /\ AtMostOneTerminal'
    BY <1>16, <1>a, <1>f, <2>1, <2>2, <2>3, <2>4, <2>5, <1>d, <1>e DEF WorkerLost, QueuedOnce, AtMostOneTerminal
  <2> QED BY <1>c, <2>1, <2>2, <2>3, <2>4, <2>5, <2>6
<1>17. ASSUME WorkerPark PROVE OwnerInv'
  <2>1. PICK s \in Sessions : s = worker.job
    BY <1>17, <1>a, <1>f, CarryOK, CarryingPCs DEF WorkerPark
  <2>2. \A r \in Sessions \ {s} : Shrinks(r)
    BY <1>17, <1>a, <1>f, <2>1, CarryingPCs DEF WorkerPark, Shrinks, HasEnded, Work
  <2>3. OnePlace(s)' /\ Nowhere(s)'
    BY <1>17, <1>a, <1>f, <2>1, <2>2, <1>d, CarryingPCs DEF WorkerPark, OnePlace, Nowhere, Unsettled, HasEnded, Work
  <2>4. QueuedOnce' /\ AtMostOneTerminal'
    BY <1>17, <1>a, <1>f, <2>1, <2>2, <2>3, <1>d, <1>e DEF WorkerPark, QueuedOnce, AtMostOneTerminal
  <2> QED BY <1>c, <2>1, <2>2, <2>3, <2>4
<1>18. ASSUME WorkerNotify PROVE OwnerInv'
  <2>1. worker.job \in Sessions
    BY <1>18, <1>a, <1>f DEF WorkerNotify
  <2>2. AtMostOneTerminal' /\ \A r \in Sessions : HasEnded(r)' => HasEnded(r)
    BY <1>18, <1>a, <2>1, <1>d, Telling DEF WorkerNotify, Signals, Terminals
  <2>3. QueuedOnce'
    BY <1>18, <1>a, <2>1, <2>2, <1>d DEF QueuedOnce, WorkerNotify
  <2>4. \A r \in Sessions : Shrinks(r)
    BY <1>18, <1>a, <2>1, <2>2, <2>3, CarryingPCs DEF WorkerNotify, Shrinks, HasEnded, Rest
  <2> QED BY <1>18, <1>b, <2>2, <2>3, <2>4 DEF WorkerNotify
<1>19. ASSUME WorkerUnpark PROVE OwnerInv'
  <2>1. worker.job \in Sessions
    BY <1>19, <1>a, <1>f DEF WorkerUnpark
  <2>2. \A r \in Sessions : Shrinks(r)
    BY <1>19, <1>a, <2>1, CarryingPCs DEF WorkerUnpark, Shrinks, HasEnded, Work
  <2> QED BY <1>19, <1>b, <1>e, <2>2 DEF WorkerUnpark
<1>20. ASSUME WorkerStart PROVE OwnerInv'
  <2>1. \A r \in Sessions : Shrinks(r)
    BY <1>20, <1>a, CarryingPCs DEF WorkerStart, Shrinks, HasEnded, Work
  <2> QED BY <1>20, <1>b, <1>e, <2>1 DEF WorkerStart
<1>21. ASSUME WorkerBegin PROVE OwnerInv'
  <2>1. worker.job \in Sessions
    BY <1>21, <1>a, <1>f DEF WorkerBegin
  <2>2. AtMostOneTerminal' /\ \A r \in Sessions : HasEnded(r)' => HasEnded(r)
    BY <1>21, <1>a, <2>1, <1>d, Telling DEF WorkerBegin, Signals, Terminals, AtMostOneTerminal, HasEnded
  <2>3. QueuedOnce'
    BY <1>21, <1>a, <2>1, <2>2, <1>d DEF QueuedOnce, WorkerBegin
  <2>4. \A r \in Sessions : Shrinks(r)
    BY <1>21, <1>a, <2>1, <2>2, <2>3, CarryingPCs DEF WorkerBegin, Shrinks, HasEnded
  <2> QED BY <1>21, <1>b, <2>2, <2>3, <2>4 DEF WorkerBegin
<1>22. ASSUME NEW end \in {"Completed", "Cancelled", "Failed", "Panicked"}, WorkerRun(end) PROVE OwnerInv'
  <2>1. \A r \in Sessions : Shrinks(r)
    BY <1>22, <1>a, CarryingPCs DEF WorkerRun, Shrinks, HasEnded
  <2> QED BY <1>22, <1>b, <1>e, <2>1 DEF WorkerRun
<1>23. ASSUME WorkerReport PROVE OwnerInv'
  <2>1. PICK s \in Sessions : s = worker.job
    BY <1>23, <1>a, <1>f, CarryOK, CarryingPCs DEF WorkerReport
  <2>2. ~HasEnded(s)
    BY <1>23, <1>a, <1>f, <2>1, <1>d DEF WorkerReport, Nowhere, Unsettled
  <2>3. Signal(s, worker.end) \in Signals
    BY <1>23, <1>a, <1>f, <2>1, <2>2, EndingTypes DEF WorkerReport
  <2>4. AtMostOneTerminal' /\ \A r \in Sessions : HasEnded(r)' => HasEnded(r) \/ r = s
    BY <1>23, <1>a, <1>f, <2>1, <2>2, <2>3, <1>d, Ending DEF WorkerReport
  <2>5. \A r \in Sessions \ {s} : Shrinks(r)
    BY <1>23, <1>a, <1>f, <2>1, <2>2, <2>3, <2>4, CarryingPCs DEF WorkerReport, Shrinks, HasEnded, Work
  <2>6. OnePlace(s)' /\ Nowhere(s)'
    BY <1>23, <1>a, <1>f, <2>1, <2>2, <2>3, <2>4, <2>5, <1>d, CarryingPCs DEF WorkerReport, OnePlace, Nowhere, Unsettled, HasEnded, Work
  <2>7. QueuedOnce' /\ AtMostOneTerminal'
    BY <1>23, <1>a, <1>f, <2>1, <2>2, <2>3, <2>4, <2>5, <2>6, <1>d, <1>e DEF WorkerReport, QueuedOnce, AtMostOneTerminal
  <2> QED BY <1>c, <2>1, <2>2, <2>3, <2>4, <2>5, <2>6, <2>7
<1>24. ASSUME WorkerRecord PROVE OwnerInv'
  <2>1. \A r \in Sessions : Shrinks(r)
    BY <1>24, <1>a, CarryingPCs DEF WorkerRecord, Shrinks, HasEnded, Work
  <2> QED BY <1>24, <1>b, <1>e, <2>1 DEF WorkerRecord
<1>25. ASSUME WorkerRelease PROVE OwnerInv'
  <2>1. \A r \in Sessions : Shrinks(r)
    BY <1>25, <1>a, CarryingPCs DEF WorkerRelease, Shrinks, HasEnded, Rest
  <2> QED BY <1>25, <1>b, <1>e, <2>1 DEF WorkerRelease
<1>26. ASSUME NEW s \in Sessions, DeadlinePasses(s) PROVE OwnerInv'
  <2>1. \A r \in Sessions : Shrinks(r)
    BY <1>26, <1>a, CarryingPCs DEF DeadlinePasses, Shrinks, HasEnded
  <2> QED BY <1>26, <1>b, <1>e, <2>1 DEF DeadlinePasses
<1>27. ASSUME SweepNext PROVE OwnerInv'
  <2>1. \A r \in Sessions : Shrinks(r)
    BY <1>27, <1>a, CarryingPCs DEF SweepNext, Shrinks, HasEnded, Move
  <2> QED BY <1>27, <1>b, <1>e, <2>1 DEF SweepNext
<1>28. ASSUME SweepScan PROVE OwnerInv'
  <2>1. \A r \in Sessions : Shrinks(r)
    BY <1>28, <1>a, CarryingPCs DEF SweepScan, Shrinks, HasEnded, Move
  <2> QED BY <1>28, <1>b, <1>e, <2>1 DEF SweepScan
<1>29. ASSUME NEW i \in Ids, SweepTake(i) PROVE OwnerInv'
  <2>1. CASE pending[i] = None
    <3>1. \A r \in Sessions : Shrinks(r)
      BY <1>29, <1>a, <1>f, <2>1 DEF SweepTake, Shrinks, HasEnded
    <3> QED BY <1>29, <1>b, <1>e, <3>1 DEF SweepTake
  <2>2. CASE pending[i] # None
    <3>1. PICK s \in Sessions : s = pending[i]
      BY <1>f, <2>2
    <3>2. \A r \in Sessions \ {s} : Shrinks(r)
      BY <1>29, <1>a, <1>f, <2>2, <3>1, CarryingPCs DEF SweepTake, Shrinks, HasEnded, Take
    <3>3. OnePlace(s)' /\ Nowhere(s)'
      BY <1>29, <1>a, <1>d, <1>f, <2>2, <3>1, CarryingPCs
         DEF SweepTake, OnePlace, Nowhere, Unsettled, HasEnded, Take
    <3> QED BY <1>29, <1>c, <1>e, <3>1, <3>2, <3>3 DEF SweepTake
  <2> QED BY <2>1, <2>2
<1>30. ASSUME DropStop PROVE OwnerInv'
  <2>1. \A r \in Sessions : Shrinks(r)
    BY <1>30, <1>a, CarryingPCs DEF DropStop, Shrinks, HasEnded
  <2> QED BY <1>30, <1>b, <1>e, <2>1 DEF DropStop
<1>31. ASSUME DropCancel PROVE OwnerInv'
  <2>1. \A r \in Sessions : Shrinks(r)
    BY <1>31, <1>a, CarryingPCs DEF DropCancel, Shrinks, HasEnded
  <2> QED BY <1>31, <1>b, <1>e, <2>1 DEF DropCancel
<1>32. ASSUME DropClose PROVE OwnerInv'
  <2>1. \A r \in Sessions : Shrinks(r)
    BY <1>32, <1>a, CarryingPCs DEF DropClose, Shrinks, HasEnded
  <2> QED BY <1>32, <1>b, <1>e, <2>1 DEF DropClose
<1>33. ASSUME DropJoin PROVE OwnerInv'
  <2>1. \A r \in Sessions : Shrinks(r)
    BY <1>33, <1>a, CarryingPCs DEF DropJoin, Shrinks, HasEnded
  <2> QED BY <1>33, <1>b, <1>e, <2>1 DEF DropJoin
<1>40. ASSUME WorkerParkFails PROVE OwnerInv'
  <2>1. \A r \in Sessions : Shrinks(r)
    BY <1>40, <1>a, CarryingPCs DEF WorkerParkFails, Shrinks, HasEnded
  <2> QED BY <1>40, <1>b, <1>e, <2>1 DEF WorkerParkFails
<1>41. ASSUME NEW s \in Streaming, NEW e \in Outputs, ReaderSend(s, e) PROVE OwnerInv'
  <2>1. s \in Sessions /\ e \in Signals \ Terminals
    BY ClassAssumption DEF Signals, Terminals, Outputs
  <2>2. AtMostOneTerminal' /\ \A r \in Sessions : HasEnded(r)' => HasEnded(r)
    BY <1>41, <1>d, <2>1, Telling DEF ReaderSend
  <2>3. QueuedOnce'
    BY <1>41, <1>d DEF QueuedOnce, ReaderSend
  <2>4. \A r \in Sessions : Shrinks(r)
    BY <1>41, <2>2 DEF ReaderSend, Shrinks
  <2> QED BY <1>b, <2>2, <2>3, <2>4
<1>34. CASE UNCHANGED vars
  <2>1. \A r \in Sessions : Shrinks(r)
    BY <1>34 DEF vars, Shrinks, HasEnded
  <2> QED BY <1>34, <1>b, <1>e, <2>1 DEF vars
<1> HIDE DEF InQueue, Parked, AtWorker, AtThread, world, jobs, maps
<1>35. CASE \E t \in Callers : Call(t)
  BY <1>35, <1>1, <1>3, <1>5, <1>6 DEF Call
<1>36. CASE \E t \in Threads : Continue(t)
  BY <1>36, <1>2, <1>4, <1>7, <1>8, <1>10, <1>11, <1>12 DEF Continue
<1>37. CASE \E s \in Sessions : HangUp(s) \/ DeadlinePasses(s)
  BY <1>37, <1>9, <1>26
<1>38. CASE Worker
  BY <1>38, <1>13, <1>14, <1>15, <1>16, <1>17, <1>18, <1>19, <1>20, <1>21, <1>22, <1>23, <1>24, <1>25, <1>40 DEF Worker
<1>39. CASE Sweep \/ Dropping \/ DropStop
  BY <1>39, <1>27, <1>28, <1>29, <1>30, <1>31, <1>32, <1>33 DEF Sweep, Dropping
<1>42. CASE \E s \in Streaming, e \in Outputs : ReaderSend(s, e)
  BY <1>41, <1>42
<1> QED
  BY <1>34, <1>35, <1>36, <1>37, <1>38, <1>39, <1>42 DEF Next, Finished

\* However approve, deny, cancel, the sweeper, the worker and Drop race, for any
\* number of callers and sessions and for any ids, even shared ones, a receiver is
\* told at most one ending (JobSink: "exactly one BrokerOutcome at the end").
THEOREM OneTerminal == Spec => []AtMostOneTerminal
<1>1. OwnerInv => AtMostOneTerminal
  BY DEF OwnerInv
<1> QED BY TypeInit, TypeStep, OwnerInit, OwnerStep, <1>1, PTL DEF Spec
=============================================================================
