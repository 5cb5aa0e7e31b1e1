------------------------- MODULE BrokerHandleProofs -------------------------
(***************************************************************************)
(* What the broker promises through its map of handles.  For any ids: no   *)
(* handle stays without a session that will release it.  With unique ids:  *)
(* a session owns the handle under its id until it ends, so that a session *)
(* cancelled before the worker looks never runs.                           *)
(***************************************************************************)
EXTENDS BrokerContractProofs, FiniteSetTheorems, FunctionTheorems

\* Somebody will take the id of s off the books.
Backs(s) == Unsettled(s) \/ Unreleased(s)

LEMMA LeakInit == Init => NoHandleLeak
  BY DEF Init, NoHandleLeak

\* A step after which each registered id still has who had backed it, or another.
LEMMA StillBacked ==
  ASSUME NoHandleLeak,
         \A i \in Ids : handles'[i] # None => handles[i] # None,
         \A s \in Sessions : Backs(s) /\ handles'[Id[s]] # None =>
            \E r \in Sessions : Id[r] = Id[s] /\ Backs(r)'
  PROVE  NoHandleLeak'
  BY DEF NoHandleLeak, Backs

\* Every step that takes a job away leaves it with somebody who will release its id.
LEMMA LeakStep == TypeInv /\ NoHandleLeak /\ [Next]_vars => NoHandleLeak'
<1> SUFFICES ASSUME TypeInv, NoHandleLeak, [Next]_vars PROVE NoHandleLeak'
  OBVIOUS
<1> USE DEF Parked, AtWorker, AtThread, Unreleased, world, jobs, maps
<1>a. /\ th \in [Threads -> Tasks]
      /\ handles \in [Ids -> Sessions \cup {None}]
      /\ pending \in [Ids -> Sessions \cup {None}]
      /\ queue \in Seq(Sessions)
      /\ Id \in [Sessions -> Ids]
      /\ worker \in [pc: WorkerPCs, job: Sessions \cup {None},
                     handle: Sessions \cup {None}, end: Endings]
  BY IdAssumption DEF TypeInv, TypeOK
<1>b. /\ worker.pc \notin {"recv", "exit"} => worker.job \in Sessions
      /\ \A i \in Ids : pending[i] # None => Id[pending[i]] = i
      /\ \A t \in Threads : th[t].pc \in Carrying => th[t].job \in Sessions /\ th[t].id = Id[th[t].job]
      /\ None \notin Sessions /\ Callers \subseteq Threads /\ Sweeper \in Threads
  BY NoneAssumption, CarryingPCs DEF TypeInv, InHand, ThreadsInHand
<1>c. ASSUME \A s \in Sessions : Backs(s) => Backs(s)', UNCHANGED handles
      PROVE  NoHandleLeak'
  BY <1>c, StillBacked
<1>1. ASSUME NEW t \in Callers, NEW s \in Sessions, Submit(t, s) PROVE NoHandleLeak'
  <2>1. \A r \in Sessions : Backs(r) => Backs(r)'
    BY <1>1, <1>a, <1>b DEF Submit, Take, Backs, Unsettled, InQueue, Tasks
  <2>2. Id[s] \in Ids /\ Backs(s)'
    BY <1>1, <1>a, <1>b DEF Submit, Take, Backs, Unsettled, Tasks
  <2>3. \A i \in Ids : i # Id[s] => handles'[i] = handles[i]
    BY <1>1, <1>a DEF Submit
  <2> QED BY <2>1, <2>2, <2>3 DEF NoHandleLeak, Backs
<1>2. ASSUME NEW t \in Threads, Enqueue(t) PROVE NoHandleLeak'
  <2>1. \A r \in Sessions : InQueue(r)' <=> InQueue(r) \/ r = th[t].job
    <3>1. /\ DOMAIN queue = 1..Len(queue) /\ DOMAIN queue' = 1..(Len(queue) + 1)
          /\ Len(queue) \in Nat
          /\ \A k \in 1..Len(queue) : queue'[k] = queue[k]
          /\ queue'[Len(queue) + 1] = th[t].job
      BY <1>2, <1>a, <1>b, CarryingPCs DEF Enqueue
    <3> QED BY <3>1 DEF InQueue
  <2>2. \A r \in Sessions : Backs(r) => Backs(r)'
    BY <1>2, <1>a, <1>b, <2>1 DEF Enqueue, Idle, Backs, Unsettled, Tasks
  <2> QED BY <1>2, <1>c, <2>2 DEF Enqueue
<1>3. ASSUME NEW t \in Callers, NEW i \in Ids, Approve(t, i) \/ Deny(t, i) \/ Cancel(t, i)
      PROVE  NoHandleLeak'
  <2>1. CASE pending[i] = None
    <3>1. \A r \in Sessions : Backs(r) => Backs(r)'
      BY <1>3, <1>a, <1>b, <2>1 DEF Approve, Deny, Cancel, Idle, Backs, Unsettled, InQueue,
         Tasks
    <3> QED BY <1>3, <1>c, <3>1 DEF Approve, Deny, Cancel
  <2>2. CASE pending[i] # None
    <3>1. /\ pending[i] \in Sessions /\ th'[t].job = pending[i] /\ th'[t].pc \in {"approve", "report"}
          /\ \A u \in Threads \ {t} : th'[u] = th[u]
          /\ th[t].pc = "idle" /\ UNCHANGED <<handles, queue, worker>>
          /\ pending' = [pending EXCEPT ![i] = None]
      BY <1>3, <1>a, <1>b, <2>2 DEF Approve, Deny, Cancel, Take
    <3>2. \A r \in Sessions : Backs(r) => Backs(r)'
      BY <1>a, <1>b, <3>1 DEF Backs, Unsettled, InQueue
    <3> QED BY <1>c, <3>1, <3>2
  <2> QED BY <2>1, <2>2
<1>4. ASSUME NEW t \in Threads,
             ApproveCheck(t) \/ CancelFind(t) \/ CancelFlag(t) \/ CloseReport(t) \/ CloseRecord(t)
      PROVE  NoHandleLeak'
  <2>1. /\ UNCHANGED <<queue, pending, worker, handles>>
        /\ \A u \in Threads \ {t} : th'[u] = th[u]
    BY <1>4, <1>a DEF ApproveCheck, CancelFind, CancelFlag, CloseReport, CloseRecord, Take,
       Move
  <2>2. /\ th[t].pc \in {"approve", "report"} => th'[t].job = th[t].job
                                           /\ th'[t].pc \in {"report", "enqueue", "record"}
        /\ th[t].pc = "record" => th'[t].job = th[t].job /\ th'[t].pc = "release"
        /\ th[t].pc \in {"approve", "find", "flag", "report", "record"}
    BY <1>4, <1>a DEF ApproveCheck, CancelFind, CancelFlag, CloseReport, CloseRecord, Take,
       Move, Tasks
  <2>3. \A r \in Sessions : Backs(r) => Backs(r)'
    BY <2>1, <2>2 DEF Backs, Unsettled, InQueue
  <2> QED BY <1>c, <2>1, <2>3
<1>5. ASSUME NEW t \in Threads, CloseRelease(t) PROVE NoHandleLeak'
  <2>1. \A r \in Sessions : Backs(r) => Backs(r)' \/ r = th[t].job
    BY <1>5, <1>a, <1>b DEF CloseRelease, Idle, Backs, Unsettled, InQueue, Tasks
  <2>2. /\ handles'[Id[th[t].job]] = None
        /\ \A i \in Ids : handles'[i] # None => handles[i] # None
    BY <1>5, <1>a, <1>b, CarryingPCs DEF CloseRelease, Release
  <2> QED BY <2>1, <2>2, StillBacked
<1>6. ASSUME WorkerRecv PROVE NoHandleLeak'
  <2>1. /\ Head(queue) \in Sessions
        /\ \A r \in Sessions : InQueue(r) => InQueue(r)' \/ r = Head(queue)
    <3>1. /\ DOMAIN queue = 1..Len(queue) /\ DOMAIN queue' = 1..(Len(queue) - 1)
          /\ Len(queue) \in Nat \ {0} /\ Head(queue) = queue[1] /\ Head(queue) \in Sessions
          /\ \A k \in 1..(Len(queue) - 1) : queue'[k] = queue[k + 1]
      BY <1>6, <1>a DEF WorkerRecv
    <3>2. \A k \in 2..Len(queue) : k - 1 \in DOMAIN queue' /\ queue'[k - 1] = queue[k]
      BY <3>1
    <3> QED BY <3>1, <3>2 DEF InQueue
  <2>2. \A r \in Sessions : Backs(r) => Backs(r)'
    BY <1>6, <1>a, <1>b, <2>1 DEF WorkerRecv, Rest, Backs, Unsettled
  <2> QED BY <1>6, <1>c, <2>2 DEF WorkerRecv
<1>7. CASE WorkerExit \/ WorkerLookup \/ WorkerLost
  <2>1. \A r \in Sessions : Backs(r) => Backs(r)'
    BY <1>7, <1>a, <1>b DEF WorkerExit, WorkerLookup, WorkerLost, Work, Backs, Unsettled,
       InQueue
  <2> QED BY <1>7, <1>c, <2>1 DEF WorkerExit, WorkerLookup, WorkerLost
<1>8. CASE WorkerPark
  <2>1. \A r \in Sessions : Backs(r) => Backs(r)' \/ Id[r] = Id[worker.job]
    BY <1>8, <1>a, <1>b DEF WorkerPark, Work, Backs, Unsettled, InQueue
  <2>2. worker.job \in Sessions /\ \A q \in Sessions : q = worker.job => Backs(q)'
    BY <1>8, <1>a, <1>b DEF WorkerPark, Work, Backs, Unsettled
  <2>3. UNCHANGED handles
    BY <1>8 DEF WorkerPark
  <2>4. \A r \in Sessions : Backs(r) => \E q \in Sessions : Id[q] = Id[r] /\ Backs(q)'
    BY <2>1, <2>2
  <2> QED BY <2>3, <2>4, StillBacked
<1>9. CASE WorkerNotify
  <2>1. \A r \in Sessions : Backs(r) => Backs(r)'
    BY <1>9, <1>a, <1>b DEF WorkerNotify, Rest, Backs, Unsettled, InQueue
  <2> QED BY <1>9, <1>c, <2>1 DEF WorkerNotify
<1>10. CASE WorkerUnpark
  <2>1. \A r \in Sessions : Backs(r) => Backs(r)' \/ Id[r] = Id[worker.job]
    BY <1>10, <1>a, <1>b DEF WorkerUnpark, Work, Backs, Unsettled, InQueue
  <2>2. worker.job \in Sessions /\ \A q \in Sessions : q = worker.job => Backs(q)'
    BY <1>10, <1>a, <1>b DEF WorkerUnpark, Work, Backs, Unsettled
  <2>3. UNCHANGED handles
    BY <1>10 DEF WorkerUnpark
  <2>4. \A r \in Sessions : Backs(r) => \E q \in Sessions : Id[q] = Id[r] /\ Backs(q)'
    BY <2>1, <2>2
  <2> QED BY <2>3, <2>4, StillBacked
<1>11. ASSUME \/ WorkerStart \/ WorkerBegin
              \/ \E end \in {"Completed", "Cancelled", "Failed", "Panicked"} : WorkerRun(end)
              \/ WorkerReport \/ WorkerRecord \/ WorkerParkFails
       PROVE  NoHandleLeak'
  <2>1. \A r \in Sessions : Backs(r) => Backs(r)'
    BY <1>11, <1>a, <1>b DEF WorkerParkFails, WorkerStart, WorkerBegin, WorkerRun,
       WorkerReport, WorkerRecord, Work, Backs, Unsettled, InQueue
  <2> QED BY <1>11, <1>c, <2>1 DEF WorkerParkFails, WorkerStart, WorkerBegin, WorkerRun,
             WorkerReport, WorkerRecord
<1>12. CASE WorkerRelease
  <2>1. \A r \in Sessions : Backs(r) => Backs(r)' \/ r = worker.job
    BY <1>12, <1>a, <1>b DEF WorkerRelease, Rest, Backs, Unsettled, InQueue
  <2>2. /\ handles'[Id[worker.job]] = None
        /\ \A i \in Ids : handles'[i] # None => handles[i] # None
    BY <1>12, <1>a, <1>b DEF WorkerRelease, Release
  <2> QED BY <2>1, <2>2, StillBacked
<1>13. ASSUME NEW s \in Sessions, HangUp(s) \/ DeadlinePasses(s) PROVE NoHandleLeak'
  <2>1. \A r \in Sessions : Backs(r) => Backs(r)'
    BY <1>13 DEF HangUp, DeadlinePasses, Backs, Unsettled, InQueue
  <2> QED BY <1>13, <1>c, <2>1 DEF HangUp, DeadlinePasses
<1>14. CASE SweepNext \/ SweepScan
  <2>1. \A r \in Sessions : Backs(r) => Backs(r)'
    BY <1>14, <1>a, <1>b DEF SweepNext, SweepScan, Move, Backs, Unsettled, InQueue, Tasks
  <2> QED BY <1>14, <1>c, <2>1 DEF SweepNext, SweepScan
<1>15. ASSUME NEW i \in Ids, SweepTake(i) PROVE NoHandleLeak'
  <2>1. \A r \in Sessions : Backs(r) => Backs(r)'
    <3>1. /\ UNCHANGED <<handles, queue, worker>> /\ pending' = [pending EXCEPT ![i] = None]
          /\ th[Sweeper].pc = "idle" /\ \A u \in Threads \ {Sweeper} : th'[u] = th[u]
          /\ IF pending[i] # None THEN th'[Sweeper].job = pending[i] /\ th'[Sweeper].pc = "report"
                                  ELSE UNCHANGED th
      BY <1>15, <1>a, <1>b DEF SweepTake, Take
    <3> QED BY <1>a, <1>b, <3>1 DEF Backs, Unsettled, InQueue
  <2> QED BY <1>15, <1>c, <2>1 DEF SweepTake
<1>16. CASE DropStop \/ DropCancel \/ DropClose \/ UNCHANGED vars
  <2>1. \A r \in Sessions : Backs(r) => Backs(r)'
    BY <1>16 DEF DropStop, DropCancel, DropClose, vars, Backs, Unsettled, InQueue
  <2> QED BY <1>16, <1>c, <2>1 DEF DropStop, DropCancel, DropClose, vars
<1>17. CASE DropJoin
  BY <1>17 DEF DropJoin, NoHandleLeak
<1>22. ASSUME NEW s \in Streaming, NEW e \in Outputs, ReaderSend(s, e) PROVE NoHandleLeak'
  <2>1. \A r \in Sessions : Backs(r) => Backs(r)'
    BY <1>22 DEF ReaderSend, Backs, Unsettled, InQueue
  <2> QED BY <1>22, <1>c, <2>1 DEF ReaderSend
<1> HIDE DEF Parked, AtWorker, AtThread, Unreleased, world, jobs, maps
<1>18. CASE Worker
  BY <1>18, <1>6, <1>7, <1>8, <1>9, <1>10, <1>11, <1>12 DEF Worker
<1>19. CASE Sweep \/ Dropping \/ DropStop
  BY <1>19, <1>14, <1>15, <1>16, <1>17 DEF Sweep, Dropping
<1>20. CASE \E t \in Callers : Call(t)
  BY <1>20, <1>1, <1>3 DEF Call
<1>21. CASE \E t \in Threads : Continue(t)
  BY <1>21, <1>2, <1>4, <1>5 DEF Continue
<1> QED
  BY <1>13, <1>16, <1>18, <1>19, <1>20, <1>21, <1>22 DEF Next, ReaderSend, Finished

\* Whatever ids the callers pick and wherever jobs are taken, parked over or given
\* up, a registered handle has a session of its id that will release it: the
\* capacity of enqueue is never used up by the dead.
THEOREM NoLeak == Spec => []NoHandleLeak
BY TypeInit, TypeStep, LeakInit, LeakStep, PTL DEF Spec
-----------------------------------------------------------------------------
(* With unique ids: cancelled is cancelled.                                *)

\* Only the worker moves the worker.
LEMMA OthersLeaveWorker == [Next]_vars /\ ~Worker => UNCHANGED worker
BY OthersLeaveRun

\* It gets near the guest by the three actions that lead there, and by no other.
LEMMA WorkerElsewhere ==
  ASSUME Worker, ~WorkerLookup, ~WorkerStart, ~WorkerBegin,
         worker \in [pc: WorkerPCs, job: Sessions \cup {None},
                     handle: Sessions \cup {None}, end: Endings]
  PROVE  worker'.pc \notin {"start", "begin", "run"}
<1>1. CASE WorkerRecv \/ WorkerExit \/ WorkerLost \/ WorkerPark \/ WorkerParkFails
  BY <1>1 DEF WorkerRecv, WorkerExit, WorkerLost, WorkerPark, WorkerParkFails, Work, Rest
<1>2. CASE WorkerNotify \/ WorkerUnpark \/ WorkerRelease
  BY <1>2 DEF WorkerNotify, WorkerUnpark, WorkerRelease, Work, Rest
<1>3. ASSUME NEW end \in {"Completed", "Cancelled", "Failed", "Panicked"}, WorkerRun(end)
      PROVE  worker'.pc = "report"
  BY <1>3 DEF WorkerRun
<1>4. CASE WorkerReport \/ WorkerRecord
  BY <1>4 DEF WorkerReport, WorkerRecord, Work
<1> QED BY <1>1, <1>2, <1>3, <1>4 DEF Worker

\* Under a job's own id there is no handle but its own.
LEMMA RightHandleStep ==
  ASSUME UniqueIds, TypeInv, RightHandle, [Next]_vars
  PROVE  RightHandle'
<1>a. /\ worker \in [pc: WorkerPCs, job: Sessions \cup {None},
                     handle: Sessions \cup {None}, end: Endings]
      /\ worker.pc \notin {"recv", "exit"} => worker.job \in Sessions
  BY DEF TypeInv, TypeOK, InHand
<1>1. CASE ~Worker
  BY <1>1, OthersLeaveWorker DEF RightHandle
<1>2. CASE WorkerLookup
  <2>1. worker.job \in Sessions /\ Id[worker.job] \in Ids
    BY <1>2, <1>a, IdAssumption DEF WorkerLookup
  <2>2. handles[Id[worker.job]] # None => handles[Id[worker.job]] = worker.job
    <3>1. handles[Id[worker.job]] \in Sessions \cup {None}
      BY <2>1 DEF TypeInv, TypeOK
    <3>2. handles[Id[worker.job]] # None => Id[handles[Id[worker.job]]] = Id[worker.job]
      BY <2>1 DEF TypeInv, InHand
    <3> QED BY <2>1, <3>1, <3>2 DEF UniqueIds
  <2> QED BY <1>2, <1>a, <2>2 DEF WorkerLookup, RightHandle
<1>3. CASE WorkerStart \/ WorkerBegin
  BY <1>3, <1>a DEF WorkerStart, WorkerBegin, Work, RightHandle
<1>4. CASE Worker /\ ~WorkerLookup /\ ~WorkerStart /\ ~WorkerBegin
  <2>1. worker'.pc \notin {"start", "begin", "run"}
    BY <1>4, <1>a, WorkerElsewhere
  <2> QED BY <2>1 DEF RightHandle
<1> QED BY <1>1, <1>2, <1>3, <1>4

\* The worker begins a session only after it saw that session's handle unset.
LEMMA BeginsUncancelled ==
  ASSUME UniqueIds, TypeInv, RightHandle, [Next]_vars,
         NEW s \in cancelled, Begun(s)'
  PROVE  Begun(s)
<1>a. worker \in [pc: WorkerPCs, job: Sessions \cup {None},
                  handle: Sessions \cup {None}, end: Endings]
  BY DEF TypeInv, TypeOK
<1>1. CASE ~Worker
  BY <1>1, OthersLeaveWorker DEF Begun
<1>2. CASE WorkerStart
  <2>1. worker'.job = worker.job /\ worker'.pc \in {"begin", "report"} /\ worker.pc = "start"
        /\ (worker'.pc = "begin" => worker.handle \notin cancelled)
    BY <1>2, <1>a DEF WorkerStart, Work
  <2> QED BY <2>1 DEF RightHandle, Begun
<1>3. CASE WorkerBegin
  BY <1>3, <1>a DEF WorkerBegin, Begun
<1>4. CASE Worker /\ ~WorkerStart /\ ~WorkerBegin
  <2>1. WorkerLookup => worker'.pc \notin {"begin", "run"}
    BY <1>a DEF WorkerLookup
  <2>2. worker'.pc \notin {"begin", "run"}
    BY <1>4, <1>a, <2>1, WorkerElsewhere
  <2> QED BY <2>2 DEF Begun
<1> QED BY <1>1, <1>2, <1>3, <1>4

\* With unique ids a session that is cancelled before the worker looked at its
\* handle never reaches the runtime, nor does one that Drop cancels: the check of
\* execute_capturing and execute_streaming is on the right handle.
THEOREM StaysCancelled == ASSUME UniqueIds PROVE Spec => CancelledNeverRuns
<1>1. Init => RightHandle
  BY DEF Init, Rest, RightHandle
<1>2. TypeInv /\ RightHandle /\ [Next]_vars => RightHandle'
  BY RightHandleStep
<1>3. TypeInv /\ RightHandle /\ [Next]_vars => [\A s \in cancelled : Begun(s)' => Begun(s)]_vars
  BY BeginsUncancelled
<1> QED BY TypeInit, TypeStep, <1>1, <1>2, <1>3, PTL DEF Spec, CancelledNeverRuns
-----------------------------------------------------------------------------
(* With unique ids: a session owns its handle until it ends.               *)

\* The contract lets no session come back, no signal be unsaid and no receiver be
\* picked up again.
LEMMA NothingComesBack ==
  ASSUME BrokerInv, [Next]_vars, NEW s \in Sessions
  PROVE  /\ s \in submitted /\ Unsettled(s)' => Unsettled(s)
         /\ s \in hungup => s \in hungup'
         /\ HasEnded(s) => HasEnded(s)'
<1> DEFINE phase == [r \in Sessions |-> Phase(r)]
<1>1. Contract!Next \/ UNCHANGED Contract!vars
  BY StepKeeps DEF BrokerInv
<1>2. stream \in [Sessions -> Seq(Signals)]
  BY DEF BrokerInv, TypeInv, TypeOK
<1>3. submitted \subseteq submitted'
  BY DEF Next, ReaderSend, Call, Continue, Worker, Sweep, Dropping, Finished, vars, world,
     Submit, Enqueue, Approve, ApproveCheck, Deny, Cancel, CancelFind, CancelFlag, HangUp,
     CloseReport, CloseRecord, CloseRelease, DeadlinePasses, SweepNext, SweepScan,
     SweepTake, DropStop, DropCancel, DropClose, DropJoin, WorkerRecv, WorkerExit,
     WorkerLookup, WorkerLost, WorkerPark, WorkerParkFails, WorkerNotify, WorkerUnpark,
     WorkerStart, WorkerBegin, WorkerRun, WorkerReport, WorkerRecord, WorkerRelease
<1>4. Phase(s) = "over" => Phase(s)' = "over"
  <2>1. ASSUME NEW r \in Sessions, NEW p, Contract!Enter(r, p), r = s => p = "over" \/ Phase(s) # "over"
        PROVE  Phase(s) = "over" => Phase(s)' = "over"
    BY <2>1 DEF Contract!Enter
  <2>2. ASSUME UNCHANGED phase PROVE Phase(s)' = Phase(s)
    BY <2>2
  <2>3. ASSUME NEW r \in Sessions,
               Contract!Submit(r) \/ Contract!Begin(r)
               \/ \E e \in Contract!Results(r) : Contract!End(r, e)
        PROVE  Phase(s) = "over" => Phase(s)' = "over"
    BY <2>1, <2>3 DEF Contract!Submit, Contract!Begin, Contract!End
  <2>4. ASSUME NEW r \in Sessions, Contract!Ask(r) \/ Contract!Approve(r) \/ Contract!HangUp(r)
        PROVE  Phase(s)' = Phase(s)
    BY <2>2, <2>4 DEF Contract!Ask, Contract!Approve, Contract!HangUp
  <2>5. ASSUME NEW given \in SUBSET Sessions, Contract!GiveUp(given)
        PROVE  Phase(s) = "over" => Phase(s)' = "over"
    BY <2>5 DEF Contract!GiveUp
  <2>6. CASE Contract!Close \/ UNCHANGED Contract!vars
    BY <2>2, <2>6 DEF Contract!Close, Contract!vars
  <2>7. ASSUME NEW r \in Sessions, NEW e, Contract!Emit(r, e) PROVE Phase(s)' = Phase(s)
    BY <2>2, <2>7 DEF Contract!Emit
  <2> QED BY <1>1, <2>3, <2>4, <2>5, <2>6, <2>7 DEF Contract!Next
<1>5. s \in hungup => s \in hungup'
  BY <1>1 DEF Contract!Next, Contract!vars, Contract!Submit, Contract!Ask, Contract!Approve,
     Contract!Begin, Contract!Emit, Contract!HangUp, Contract!End, Contract!GiveUp,
     Contract!Close
<1>6. UNCHANGED stream \/ \E r \in Sessions : \E e : Contract!Tell(r, e)
  BY <1>1 DEF Contract!Next, Contract!vars, Contract!Submit, Contract!Ask, Contract!Approve,
     Contract!Begin, Contract!Emit, Contract!HangUp, Contract!End, Contract!GiveUp,
     Contract!Close
<1>7. HasEnded(s) => HasEnded(s)'
  <2>1. ASSUME NEW r \in Sessions, NEW e, Contract!Tell(r, e)
        PROVE  HasEnded(s) => HasEnded(s)'
    <3>1. CASE stream' = stream
      BY <3>1 DEF HasEnded
    <3>2. CASE stream' = [stream EXCEPT ![r] = Append(@, e)]
      <4>1. \A q \in Seq(Signals) : /\ DOMAIN q = 1..Len(q) /\ Len(q) \in Nat
                                    /\ DOMAIN Append(q, e) = 1..(Len(q) + 1)
                                    /\ \A k \in 1..Len(q) : Append(q, e)[k] = q[k]
        OBVIOUS
      <4>2. \A k \in DOMAIN stream[s] : k \in DOMAIN stream'[s] /\ stream'[s][k] = stream[s][k]
        BY <1>2, <3>2, <4>1
      <4> QED BY <4>2 DEF HasEnded
    <3> QED BY <2>1, <3>1, <3>2 DEF Contract!Tell
  <2> QED BY <1>6, <2>1 DEF HasEnded
<1>8. s \in submitted /\ Unsettled(s)' => Unsettled(s)
  <2>1. s \in submitted /\ ~Unsettled(s) => Phase(s) = "over"
    BY DEF Phase
  <2>2. Phase(s)' = "over" => ~Unsettled(s)'
    BY DEF Phase
  <2> QED BY <1>4, <2>1, <2>2
<1> QED BY <1>5, <1>7, <1>8

\* Whoever records an end or releases an id has just reported, or has no one to.
LEMMA ReleasedAfter ==
  ASSUME TypeInv, [Next]_vars, NEW s \in Sessions, Unreleased(s)', ~Unreleased(s)
  PROVE  \/ \E t \in Threads : CloseReport(t) /\ th[t].job = s
         \/ WorkerReport /\ worker.job = s
         \/ WorkerLost /\ worker.job = s
         \/ WorkerNotify /\ worker.job = s /\ s \in hungup
<1>a. /\ th \in [Threads -> Tasks] /\ Sweeper \in Threads /\ Callers \subseteq Threads
      /\ worker \in [pc: WorkerPCs, job: Sessions \cup {None},
                     handle: Sessions \cup {None}, end: Endings]
      /\ None \notin Sessions
  BY CarryingPCs, NoneAssumption DEF TypeInv, TypeOK
<1> DEFINE W(w)  == w.job = s /\ w.pc \in {"record", "unpark", "release"}
           T(k)  == k.job = s /\ k.pc \in {"record", "release"}
<1>1. Unreleased(s) <=> W(worker) \/ \E t \in Threads : T(th[t])
  BY DEF Unreleased
<1>2. Unreleased(s)' <=> W(worker') \/ \E t \in Threads : T(th'[t])
  BY DEF Unreleased
<1> HIDE DEF T
<1>3. CASE W(worker')
  <2>1. ~W(worker)
    BY <1>1
  <2>2. Worker
    BY <1>3, <2>1, OthersLeaveWorker
  <2>3. CASE WorkerRecv \/ WorkerExit \/ WorkerLookup \/ WorkerPark \/ WorkerParkFails
    BY <1>a, <1>3, <2>3 DEF WorkerRecv, WorkerExit, WorkerLookup, WorkerPark, WorkerParkFails,
       Work, Rest
  <2>4. CASE WorkerStart \/ WorkerBegin \/ WorkerRelease
    <3>1. worker'.pc \in {"report", "begin", "run", "recv"}
      <4>1. CASE WorkerStart
        BY <1>a, <4>1 DEF WorkerStart, Work
      <4>2. CASE WorkerBegin
        BY <1>a, <4>2 DEF WorkerBegin
      <4> QED BY <2>4, <4>1, <4>2 DEF WorkerRelease, Rest
    <3> QED BY <1>3, <3>1
  <2>5. CASE WorkerUnpark \/ WorkerRecord
    BY <1>a, <1>3, <2>1, <2>5 DEF WorkerUnpark, WorkerRecord, Work
  <2>6. ~\E end \in {"Completed", "Cancelled", "Failed", "Panicked"} : WorkerRun(end)
    BY <1>a, <1>3 DEF WorkerRun
  <2>7. CASE WorkerLost \/ WorkerReport
    BY <1>a, <1>3, <2>7 DEF WorkerLost, WorkerReport, Work
  <2>8. CASE WorkerNotify
    BY <1>a, <1>3, <2>8 DEF WorkerNotify, Rest
  <2> HIDE DEF W
  <2> QED BY <2>2, <2>3, <2>4, <2>5, <2>6, <2>7, <2>8 DEF Worker
<1> HIDE DEF W
<1>4. ASSUME NEW t \in Threads, T(th'[t])
      PROVE  \E u \in Threads : CloseReport(u) /\ th[u].job = s
  <2>1. ~T(th[t])
    BY <1>1
  <2> USE DEF T
  <2>2. ~(\E u \in Callers : Call(u))
    <3>1. ASSUME NEW u \in Callers, NEW r \in Sessions, Submit(u, r) PROVE FALSE
      BY <1>a, <1>4, <2>1, <3>1 DEF Submit, Take
    <3>2. ASSUME NEW u \in Callers, NEW i \in Ids, Approve(u, i) \/ Deny(u, i) PROVE FALSE
      BY <1>a, <1>4, <2>1, <3>2 DEF Approve, Deny, Take
    <3>3. ASSUME NEW u \in Callers, NEW i \in Ids, Cancel(u, i) PROVE FALSE
      <4>1. th'[u].pc \in {"report", "find"} /\ \A v \in Threads \ {u} : th'[v] = th[v]
        <5>1. CASE pending[i] # None
          BY <1>a, <3>3, <5>1 DEF Cancel, Take
        <5>2. CASE pending[i] = None
          BY <1>a, <3>3, <5>2 DEF Cancel, Idle
        <5> QED BY <5>1, <5>2
      <4> QED BY <1>4, <2>1, <4>1
    <3> QED BY <3>1, <3>2, <3>3 DEF Call
  <2>3. ~Sweep
    BY <1>a, <1>4, <2>1 DEF Sweep, SweepScan, SweepTake, SweepNext, Take, Move, Tasks
  <2>4. \/ \E u \in Threads : Continue(u)
        \/ \E r \in Sessions : HangUp(r) \/ DeadlinePasses(r)
        \/ \E r \in Streaming, e \in Outputs : ReaderSend(r, e)
        \/ Worker \/ DropStop \/ Dropping \/ UNCHANGED vars
    BY <2>2, <2>3 DEF Next, ReaderSend, Finished
  <2>5. th' # th
    BY <1>4, <2>1
  <2>6. PICK u \in Threads : Continue(u)
    BY <2>4, <2>5 DEF ReaderSend, WorkerParkFails, HangUp, DeadlinePasses, DropStop,
       Dropping, DropCancel, DropClose, DropJoin, vars, Worker, WorkerRecv, WorkerExit,
       WorkerLookup, WorkerLost, WorkerPark, WorkerNotify, WorkerUnpark, WorkerStart,
       WorkerBegin, WorkerRun, WorkerReport, WorkerRecord, WorkerRelease
  <2>7. CASE Enqueue(u) \/ CancelFlag(u) \/ CloseRelease(u)
    BY <1>a, <1>4, <2>1, <2>7 DEF Enqueue, CancelFlag, CloseRelease, Idle
  <2>8. CASE ApproveCheck(u)
    BY <1>a, <1>4, <2>1, <2>8 DEF ApproveCheck, Move, Tasks
  <2>9. CASE CancelFind(u)
    BY <1>a, <1>4, <2>1, <2>9 DEF CancelFind, Take, Idle
  <2>10. CASE CloseRecord(u)
    BY <1>a, <1>4, <2>1, <2>10 DEF CloseRecord, Move, Tasks
  <2>11. CASE CloseReport(u)
    <3>1. t = u /\ th'[t].job = th[t].job
      BY <1>a, <1>4, <2>1, <2>11 DEF CloseReport, Move, Tasks
    <3> QED BY <1>4, <2>11, <3>1
  <2> QED BY <2>6, <2>7, <2>8, <2>9, <2>10, <2>11 DEF Continue
<1> QED BY <1>2, <1>3, <1>4

\* A send of a terminal signal is heard as an end.
LEMMA EndIsHeard ==
  ASSUME TypeInv, NEW s \in Sessions \ hungup, NEW e \in Terminals, Send(s, e)
  PROVE  HasEnded(s)'
<1>1. e \in Signals
  BY DEF Signals
<1>2. Heard(s, e)'
  BY <1>1, SendHeard
<1> QED BY <1>2 DEF Heard, HasEnded

LEMMA EndingsAreTerminal ==
  ASSUME NEW s \in Sessions, NEW e \in Endings \cup Verdicts
  PROVE  Signal(s, e) \in Terminals
BY DEF Endings, Outcomes, Verdicts, Signal, Terminals

\* Nobody's id is released before they have been told.
LEMMA ReportedStep ==
  ASSUME BrokerInv, Reported, [Next]_vars
  PROVE  Reported'
<1>a. /\ TypeInv
      /\ th \in [Threads -> Tasks]
      /\ worker \in [pc: WorkerPCs, job: Sessions \cup {None},
                     handle: Sessions \cup {None}, end: Endings]
      /\ \A t \in Threads : th[t].pc \in Carrying => th[t].job \in Sessions
  BY DEF BrokerInv, TypeInv, TypeOK, InHand, ThreadsInHand
<1> SUFFICES ASSUME NEW s \in Sessions, Unreleased(s)' PROVE HasEnded(s)' \/ s \in hungup'
  BY DEF Reported
<1>1. CASE Unreleased(s) \/ s \in hungup
  BY <1>1, NothingComesBack DEF Reported
<1>2. ASSUME s \notin hungup, NEW e \in Terminals, Send(s, e) PROVE HasEnded(s)'
  BY <1>a, <1>2, EndIsHeard
<1>3. ASSUME s \notin hungup, NEW t \in Threads, CloseReport(t), th[t].job = s
      PROVE  HasEnded(s)'
  <2>1. th[t].why \in Endings \cup Verdicts
    BY <1>a DEF Tasks
  <2>2. Signal(s, th[t].why) \in Terminals
    BY <2>1, EndingsAreTerminal
  <2> QED BY <1>2, <1>3, <2>2 DEF CloseReport
<1>4. ASSUME s \notin hungup, WorkerReport, worker.job = s
      PROVE  HasEnded(s)'
  <2>1. Signal(s, worker.end) \in Terminals
    BY <1>a, EndingsAreTerminal
  <2> QED BY <1>2, <1>4, <2>1 DEF WorkerReport
<1>5. ASSUME s \notin hungup, WorkerLost, worker.job = s
      PROVE  HasEnded(s)'
  <2>1. "Denied" \in Terminals
    BY DEF Terminals
  <2> QED BY <1>2, <1>5, <2>1 DEF WorkerLost
<1> QED BY <1>a, <1>1, <1>3, <1>4, <1>5, ReleasedAfter

\* Only these steps touch the registered handles.
LEMMA HandlesMove ==
  ASSUME [Next]_vars
  PROVE  \/ UNCHANGED handles
         \/ \E t \in Callers, s \in Sessions : Submit(t, s)
         \/ \E t \in Threads : CloseRelease(t)
         \/ WorkerRelease \/ DropJoin
BY DEF Next, ReaderSend, Call, Continue, Worker, Sweep, Dropping, Finished, vars, maps,
   Enqueue, Approve, ApproveCheck, Deny, Cancel, CancelFind, CancelFlag, HangUp,
   CloseReport, CloseRecord, DeadlinePasses, SweepNext, SweepScan, SweepTake, DropStop,
   DropCancel, DropClose, WorkerRecv, WorkerExit, WorkerLookup, WorkerLost, WorkerPark,
   WorkerParkFails, WorkerNotify, WorkerUnpark, WorkerStart, WorkerBegin, WorkerRun,
   WorkerReport, WorkerRecord

LEMMA StaysGone == [Next]_vars /\ drop = "gone" => drop' = "gone"
  BY DEF Next, ReaderSend, Call, Continue, Worker, Sweep, Dropping, Finished, vars, Open,
     Submit, Enqueue, Approve, ApproveCheck, Deny, Cancel, CancelFind, CancelFlag, HangUp,
     CloseReport, CloseRecord, CloseRelease, DeadlinePasses, SweepNext, SweepScan,
     SweepTake, DropStop, DropCancel, DropClose, DropJoin, WorkerRecv, WorkerExit,
     WorkerLookup, WorkerLost, WorkerPark, WorkerParkFails, WorkerNotify, WorkerUnpark,
     WorkerStart, WorkerBegin, WorkerRun, WorkerReport, WorkerRecord, WorkerRelease

LEMMA OnlySubmitted ==
  ASSUME [Next]_vars, NEW s \in submitted'
  PROVE  s \in submitted \/ \E t \in Callers : Submit(t, s)
BY DEF Next, ReaderSend, Call, Continue, Worker, Sweep, Dropping, Finished, vars, world,
   Submit, Enqueue, Approve, ApproveCheck, Deny, Cancel, CancelFind, CancelFlag, HangUp,
   CloseReport, CloseRecord, CloseRelease, DeadlinePasses, SweepNext, SweepScan, SweepTake,
   DropStop, DropCancel, DropClose, DropJoin, WorkerRecv, WorkerExit, WorkerLookup,
   WorkerLost, WorkerPark, WorkerParkFails, WorkerNotify, WorkerUnpark, WorkerStart,
   WorkerBegin, WorkerRun, WorkerReport, WorkerRecord, WorkerRelease

\* Who is still to be reported keeps the handle: it is under its own id only, and
\* the only one to release that id is the one who reported its end.
LEMMA OwnsStep ==
  ASSUME UniqueIds, BrokerInv, Reported, OwnsHandle, [Next]_vars
  PROVE  OwnsHandle'
<1>a. /\ handles \in [Ids -> Sessions \cup {None}] /\ Id \in [Sessions -> Ids]
      /\ \A t \in Threads : th[t].pc \in Carrying => th[t].job \in Sessions /\ th[t].id = Id[th[t].job]
      /\ worker.pc = "release" => worker.job \in Sessions
      /\ Callers \subseteq Threads /\ "release" \in Carrying
  BY IdAssumption, CarryingPCs DEF BrokerInv, TypeInv, TypeOK, InHand, ThreadsInHand
<1> SUFFICES ASSUME NEW s \in Sessions, s \notin hungup', Unsettled(s)', drop' # "gone"
             PROVE  handles'[Id[s]] = s
  BY DEF OwnsHandle
<1>1. s \notin hungup /\ drop # "gone"
  BY NothingComesBack, StaysGone
<1>2. s \notin submitted \/ handles[Id[s]] = s
  BY <1>1, NothingComesBack DEF OwnsHandle
<1>3. s \notin submitted => ~Unsettled(s)
  BY DEF BrokerInv, OwnerInv, Nowhere
<1>4. Unsettled(s) => ~Unreleased(s)
  BY <1>1 DEF Reported, BrokerInv, OwnerInv, Nowhere
<1>5. s \in submitted \/ \E t \in Callers : Submit(t, s)
  BY <1>3, OwnerStep, OnlySubmitted DEF BrokerInv, OwnerInv, Nowhere
<1>6. CASE \E t \in Callers : Submit(t, s)
  BY <1>a, <1>6 DEF Submit
<1>7. CASE s \in submitted
  <2>1. Id[s] \in Ids /\ handles[Id[s]] = s /\ Unsettled(s) /\ ~Unreleased(s)
    BY <1>a, <1>1, <1>2, <1>4, <1>7, NothingComesBack
  <2>2. \A r \in Sessions : r # s => Id[r] # Id[s]
    BY DEF UniqueIds
  <2>3. ASSUME NEW t \in Callers, NEW r \in Sessions, Submit(t, r) PROVE handles'[Id[s]] = s
    <3>1. r # s
      BY <1>7, <2>3 DEF Submit
    <3> QED BY <1>a, <2>1, <2>2, <2>3, <3>1 DEF Submit
  <2>4. ASSUME NEW t \in Threads, CloseRelease(t) PROVE handles'[Id[s]] = s
    <3>1. th[t].job \in Sessions /\ th[t].id = Id[th[t].job] /\ th[t].job # s
      BY <1>a, <2>1, <2>4 DEF CloseRelease, Unreleased
    <3>2. handles' = [handles EXCEPT ![th[t].id] = None] /\ th[t].id # Id[s]
      BY <2>2, <2>4, <3>1 DEF CloseRelease, Release
    <3> QED BY <1>a, <2>1, <3>2
  <2>5. CASE WorkerRelease
    <3>1. worker.job \in Sessions /\ worker.job # s
      BY <1>a, <2>1, <2>5 DEF WorkerRelease, Unreleased
    <3>2. handles' = [handles EXCEPT ![Id[worker.job]] = None] /\ Id[worker.job] # Id[s]
      BY <2>2, <2>5, <3>1 DEF WorkerRelease, Release
    <3> QED BY <1>a, <2>1, <3>2
  <2>6. ~DropJoin
    BY DEF DropJoin
  <2> QED BY <2>1, <2>3, <2>4, <2>5, <2>6, HandlesMove
<1> QED BY <1>5, <1>6, <1>7

\* With unique ids, cancel(id) finds the handle of its session wherever the session
\* is: submitted and not yet ended, a session keeps its handle registered.
THEOREM OwnsItsHandle == ASSUME UniqueIds PROVE Spec => []OwnsHandle
<1>1. Init => Reported /\ OwnsHandle
  BY DEF Init, Reported, OwnsHandle, Unreleased, Unsettled, InQueue, Parked, AtWorker,
     AtThread, Idle, Rest
<1>2. BrokerInv /\ BrokerInv' /\ Reported /\ [Next]_vars => Reported'
  BY ReportedStep
<1>3. BrokerInv /\ BrokerInv' /\ Reported /\ OwnsHandle /\ [Next]_vars => OwnsHandle'
  BY OwnsStep
<1> QED BY BrokerInvHolds, <1>1, <1>2, <1>3, PTL DEF Spec
-----------------------------------------------------------------------------
(* With unique ids: no more than `capacity` sessions at a time.            *)

Registered  == {i \in Ids : handles[i] # None}
Outstanding == {s \in Sessions \ hungup : Unsettled(s)}

\* What the check of enqueue guards; for any ids.
CapacityInv == IsFiniteSet(Registered) /\ Cardinality(Registered) <= Capacity

\* Drop joins two threads that left nothing behind.
Emptied ==
  /\ th[Sweeper].pc \notin {"approve", "enqueue"}
  /\ worker.pc = "exit" => queue = <<>> /\ drop \in {"closed", "gone"}
  /\ drop = "gone" => /\ worker.pc = "exit" /\ th[Sweeper].pc = "exit"
                      /\ \A i \in Ids : pending[i] = None

\* The length check and the insertion are under one lock, and an insertion adds at
\* most the one id; nothing else registers any.
LEMMA CapacityStep ==
  ASSUME TypeInv, CapacityInv, [Next]_vars
  PROVE  CapacityInv'
<1>a. handles \in [Ids -> Sessions \cup {None}] /\ None \notin Sessions /\ Capacity \in Nat
  BY NoneAssumption, CapacityAssumption DEF TypeInv, TypeOK
<1>1. ASSUME Registered' \subseteq Registered PROVE CapacityInv'
  <2>1. IsFiniteSet(Registered') /\ Cardinality(Registered') <= Cardinality(Registered)
    BY <1>1, FS_Subset DEF CapacityInv
  <2>2. Cardinality(Registered) \in Nat /\ Cardinality(Registered') \in Nat
    BY <2>1, FS_CardinalityType DEF CapacityInv
  <2> QED BY <1>a, <2>1, <2>2 DEF CapacityInv
<1>2. ASSUME NEW t \in Callers, NEW s \in Sessions, Submit(t, s) PROVE CapacityInv'
  <2>1. Registered' = Registered \cup {Id[s]}
    BY <1>a, <1>2, IdAssumption DEF Submit, Registered
  <2>2. IsFiniteSet(Registered') /\ Cardinality(Registered') <= Cardinality(Registered) + 1
    <3>1. Cardinality(Registered) \in Nat
      BY FS_CardinalityType DEF CapacityInv
    <3>2. /\ IsFiniteSet(Registered \cup {Id[s]})
          /\ Cardinality(Registered \cup {Id[s]}) =
               IF Id[s] \in Registered THEN Cardinality(Registered) ELSE Cardinality(Registered) + 1
      BY FS_AddElement DEF CapacityInv
    <3> QED BY <2>1, <3>1, <3>2
  <2>3. Cardinality(Registered) \in Nat /\ Cardinality(Registered') \in Nat
    BY <2>2, FS_CardinalityType DEF CapacityInv
  <2>4. Cardinality(Registered) < Capacity
    BY <1>2 DEF Submit, Registered
  <2> QED BY <1>a, <2>2, <2>3, <2>4 DEF CapacityInv
<1>3. UNCHANGED handles \/ (\E t \in Threads : CloseRelease(t)) \/ WorkerRelease \/ DropJoin
      => Registered' \subseteq Registered
  BY <1>a DEF Registered, CloseRelease, WorkerRelease, Release, DropJoin
<1> QED BY <1>1, <1>2, <1>3, HandlesMove

\* Nothing is queued once the worker has left, and nothing parked once the broker is gone.
LEMMA EmptiedStep ==
  ASSUME BrokerInv, Emptied, [Next]_vars
  PROVE  Emptied'
<1>a. /\ th \in [Threads -> Tasks] /\ Sweeper \in Threads /\ Sweeper \notin Callers
      /\ Threads = Callers \cup {Sweeper}
      /\ \A t \in Callers : th[t].pc # "idle" => Open
      /\ worker \in [pc: WorkerPCs, job: Sessions \cup {None},
                     handle: Sessions \cup {None}, end: Endings]
  BY CarryingPCs, ThreadAssumption
     DEF Threads, BrokerInv, TypeInv, TypeOK, ContractInv, CallsWhileOpen
<1>1. th'[Sweeper].pc \notin {"approve", "enqueue"} /\ (th[Sweeper].pc = "exit" => th'[Sweeper].pc = "exit")
  <2>1. ASSUME NEW t \in Callers, Call(t) \/ Continue(t) PROVE th'[Sweeper] = th[Sweeper]
    BY <2>1, <1>a DEF Call, Continue, Submit, Enqueue, Approve, ApproveCheck, Deny, Cancel,
       CancelFind, CancelFlag, CloseReport, CloseRecord, CloseRelease, Take, Move
  <2>2. CASE Continue(Sweeper)
    <3>1. th[Sweeper].pc # "exit"
      BY <2>2 DEF Continue, Enqueue, ApproveCheck, CancelFind, CancelFlag, CloseReport,
         CloseRecord, CloseRelease
    <3>2. CASE Enqueue(Sweeper) \/ CancelFlag(Sweeper) \/ CloseRelease(Sweeper)
      BY <3>1, <3>2, <1>a DEF Enqueue, CancelFlag, CloseRelease, Idle
    <3>3. CASE CancelFind(Sweeper)
      BY <3>1, <3>3, <1>a DEF CancelFind, Take, Idle
    <3>4. CASE CloseReport(Sweeper) \/ CloseRecord(Sweeper)
      BY <3>1, <3>4, <1>a DEF CloseReport, CloseRecord, Move, Tasks
    <3>5. ~ApproveCheck(Sweeper)
      BY DEF ApproveCheck, Emptied
    <3> QED BY <2>2, <3>2, <3>3, <3>4, <3>5 DEF Continue
  <2>3. CASE Sweep
    BY <2>3, <1>a DEF Sweep, SweepNext, SweepScan, SweepTake, Take, Move, Tasks, Emptied
  <2>4. CASE Worker \/ DropStop \/ Dropping \/ UNCHANGED vars
    BY <2>4 DEF Emptied, Worker, DropStop, Dropping, DropCancel, DropClose, DropJoin, vars,
       WorkerRecv, WorkerExit, WorkerLookup, WorkerLost, WorkerPark, WorkerParkFails,
       WorkerNotify, WorkerUnpark, WorkerStart, WorkerBegin, WorkerRun, WorkerReport,
       WorkerRecord, WorkerRelease
  <2>5. ASSUME NEW s \in Sessions, HangUp(s) \/ DeadlinePasses(s) PROVE UNCHANGED th
    BY <2>5 DEF HangUp, DeadlinePasses
  <2> QED BY <1>a, <2>1, <2>2, <2>3, <2>4, <2>5 DEF Next, ReaderSend, Finished, Emptied
<1>2. worker'.pc = "exit" => queue' = <<>> /\ drop' \in {"closed", "gone"}
  <2>1. CASE ~Worker
    <3>1. UNCHANGED worker
      BY <2>1, OthersLeaveWorker
    <3>2. worker.pc = "exit" => queue' = queue /\ drop' \in {"closed", "gone"}
      <4>1. ASSUME NEW t \in Threads, Enqueue(t), worker.pc = "exit" PROVE FALSE
        BY <1>a, <4>1 DEF Enqueue, Emptied, Open
      <4> QED
        BY <2>1, <4>1 DEF Emptied, Next, ReaderSend, Call, Continue, Sweep, Dropping,
           Finished, vars, maps, Open, Submit, Approve, ApproveCheck, Deny, Cancel,
           CancelFind, CancelFlag, HangUp, CloseReport, CloseRecord, CloseRelease,
           DeadlinePasses, SweepNext, SweepScan, SweepTake, DropStop, DropCancel, DropClose,
           DropJoin
    <3> QED BY <3>1, <3>2 DEF Emptied
  <2>2. CASE WorkerExit
    BY <2>2 DEF WorkerExit, maps
  <2>3. CASE WorkerLookup \/ WorkerStart \/ WorkerBegin
    <3>1. worker'.pc \in {"lost", "park", "start", "begin", "report", "run"}
      <4>1. CASE WorkerLookup
        BY <1>a, <4>1 DEF WorkerLookup
      <4>2. CASE WorkerStart
        BY <1>a, <4>2 DEF WorkerStart, Work
      <4>3. CASE WorkerBegin
        BY <1>a, <4>3 DEF WorkerBegin
      <4> QED BY <2>3, <4>1, <4>2, <4>3
    <3> QED BY <3>1
  <2>4. CASE WorkerRecv \/ WorkerNotify
    <3>1. worker'.pc \in {"lookup", "unpark", "recv"}
      <4>1. CASE WorkerRecv
        BY <4>1 DEF WorkerRecv, Rest
      <4>2. CASE WorkerNotify
        BY <1>a, <4>2 DEF WorkerNotify, Rest
      <4> QED BY <2>4, <4>1, <4>2
    <3> QED BY <3>1
  <2>5. CASE WorkerLost \/ WorkerPark \/ WorkerParkFails \/ WorkerUnpark
    BY <1>a, <2>5 DEF WorkerLost, WorkerPark, WorkerParkFails, WorkerUnpark, Work
  <2>6. CASE WorkerReport \/ WorkerRecord \/ WorkerRelease
    BY <1>a, <2>6 DEF WorkerReport, WorkerRecord, WorkerRelease, Work, Rest
  <2>7. ASSUME NEW end \in {"Completed", "Cancelled", "Failed", "Panicked"}, WorkerRun(end)
        PROVE  worker'.pc = "report"
    BY <1>a, <2>7 DEF WorkerRun
  <2> QED BY <2>1, <2>2, <2>3, <2>4, <2>5, <2>6, <2>7 DEF Worker
<1>3. drop' = "gone" => /\ worker'.pc = "exit" /\ th'[Sweeper].pc = "exit"
                        /\ \A i \in Ids : pending'[i] = None
  <2>1. CASE DropJoin
    BY <2>1 DEF DropJoin
  <2>2. CASE ~DropJoin
    <3>1. drop' = "gone" => drop = "gone"
      BY <2>2 DEF Next, ReaderSend, Call, Continue, Worker, Sweep, Dropping, Finished, vars,
         Submit, Enqueue, Approve, ApproveCheck, Deny, Cancel, CancelFind, CancelFlag,
         HangUp, CloseReport, CloseRecord, CloseRelease, DeadlinePasses, SweepNext,
         SweepScan, SweepTake, DropStop, DropCancel, DropClose, WorkerRecv, WorkerExit,
         WorkerLookup, WorkerLost, WorkerPark, WorkerParkFails, WorkerNotify, WorkerUnpark,
         WorkerStart, WorkerBegin, WorkerRun, WorkerReport, WorkerRecord, WorkerRelease
    <3>2. drop = "gone" => ~Worker /\ ~Sweep /\ ~\E t \in Callers : Call(t)
      BY DEF Emptied, Worker, Sweep, SweepNext, SweepScan, SweepTake, Call, Open, Submit,
         Approve, Deny, Cancel, WorkerRecv, WorkerExit, WorkerLookup, WorkerLost,
         WorkerPark, WorkerParkFails, WorkerNotify, WorkerUnpark, WorkerStart, WorkerBegin,
         WorkerRun, WorkerReport, WorkerRecord, WorkerRelease
    <3>3. drop = "gone" => UNCHANGED <<pending, worker>>
      BY <2>2, <3>2, OthersLeaveWorker DEF Next, ReaderSend, Continue, Dropping, Finished,
         vars, maps, Enqueue, ApproveCheck, CancelFind, CancelFlag, HangUp, CloseReport,
         CloseRecord, CloseRelease, DeadlinePasses, DropStop, DropCancel, DropClose
    <3> QED BY <1>1, <3>1, <3>3 DEF Emptied
  <2> QED BY <2>1, <2>2
<1> QED BY <1>1, <1>2, <1>3 DEF Emptied

\* A session that is to be answered holds an id of its own in the map that
\* enqueue counts.
LEMMA OutstandingFit ==
  ASSUME UniqueIds, BrokerInv, OwnsHandle, CapacityInv, Emptied
  PROVE  OutstandingBounded
<1>a. /\ Id \in [Sessions -> Ids] /\ Capacity \in Nat /\ None \notin Sessions
      /\ Cardinality(Registered) \in Nat
  BY IdAssumption, CapacityAssumption, NoneAssumption, FS_CardinalityType DEF CapacityInv
<1>1. CASE drop = "gone"
  <2>1. \A s \in Sessions : ~Unsettled(s)
    BY <1>1, <1>a DEF Emptied, Unsettled, InQueue, Parked, AtWorker, AtThread, BrokerInv,
       ContractInv, CallsWhileOpen, Open, Threads
  <2>2. Outstanding = {}
    BY <2>1 DEF Outstanding
  <2> QED BY <1>a, <2>2, FS_EmptySet DEF Outstanding, OutstandingBounded
<1>2. CASE drop # "gone"
  <2> DEFINE f == [s \in Outstanding |-> Id[s]]
  <2>1. f \in [Outstanding -> Registered]
    BY <1>a, <1>2 DEF Outstanding, Registered, OwnsHandle
  <2>2. \A r, s \in Outstanding : f[r] = f[s] => r = s
    BY DEF UniqueIds, Outstanding
  <2>3. f \in Injection(Outstanding, Registered)
    BY <2>1, <2>2 DEF Injection, IsInjective
  <2>4. IsFiniteSet(Outstanding) /\ Cardinality(Outstanding) <= Cardinality(Registered)
    BY <2>3, FS_Injection DEF CapacityInv
  <2>5. Cardinality(Outstanding) \in Nat
    BY <2>4, FS_CardinalityType
  <2> QED BY <1>a, <2>4, <2>5 DEF CapacityInv, Outstanding, OutstandingBounded
<1> QED BY <1>1, <1>2

\* With unique ids, at most `capacity` sessions are queued, parked or running,
\* although the queue itself is unbounded: the map of handles stands for them.
THEOREM CapacityHolds == ASSUME UniqueIds PROVE Spec => []OutstandingBounded
<1>1. Init => CapacityInv /\ Emptied
  <2>1. ASSUME Init PROVE CapacityInv
    <3>1. Registered = {}
      BY <2>1 DEF Init, Registered
    <3> QED BY <3>1, FS_EmptySet, CapacityAssumption DEF CapacityInv
  <2>2. Init => Emptied
    BY CarryingPCs DEF Emptied, Init, Idle, Rest
  <2> QED BY <2>1, <2>2
<1>2. TypeInv /\ CapacityInv /\ [Next]_vars => CapacityInv'
  BY CapacityStep
<1>3. BrokerInv /\ Emptied /\ [Next]_vars => Emptied'
  BY EmptiedStep
<1>4. BrokerInv /\ OwnsHandle /\ CapacityInv /\ Emptied => OutstandingBounded
  BY OutstandingFit
<1>5. BrokerInv => TypeInv
  BY DEF BrokerInv
<1> QED BY BrokerInvHolds, OwnsItsHandle, <1>1, <1>2, <1>3, <1>4, <1>5, PTL DEF Spec
=============================================================================
