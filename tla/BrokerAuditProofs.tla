-------------------------- MODULE BrokerAuditProofs --------------------------
(***************************************************************************)
(* The audit trail tells what happened, for any ids the callers pick: an   *)
(* entry is appended two steps after the signal it records was sent, by    *)
(* whichever thread closed the session, and still agrees with it.          *)
(***************************************************************************)
EXTENDS BrokerHandleProofs

\* What an entry of the trail says is what the receiver got.
Truthful(s, decision, outcome) ==
  s \notin hungup =>
    /\ HasEnded(s)
    /\ decision \in Verdicts => /\ ~Heard(s, "Started") /\ outcome = Outcome(decision)
                                /\ Heard(s, Signal(s, decision))
    /\ decision \in Admissions => \/ Heard(s, Signal(s, outcome))
                                  \/ outcome = "Failed" /\ Heard(s, "Denied")
    /\ decision = "AutoApproved" /\ s \in Risky =>
         outcome = "Failed" /\ Heard(s, "Denied") /\ ~Heard(s, "Started")

\* It is so for the entries of the trail, and for those about to be appended; no
\* session has heard that it started before it runs; and none gets past the
\* worker's lookup without an admission, unless it cannot be parked.
AuditInv ==
  /\ \A k \in DOMAIN audit : Truthful(audit[k].job, audit[k].decision, audit[k].outcome)
  /\ \A t \in Threads : th[t].pc = "record" => Truthful(th[t].job, th[t].why, Outcome(th[t].why))
  /\ worker.pc = "record" => Truthful(worker.job, admission[worker.job], Outcome(worker.end))
  /\ \A s \in Sessions : Phase(s) \in {"new", "waiting"} => ~Heard(s, "Started")
  /\ worker.pc = "report" /\ Undecided(worker.job) =>
       worker.end = "Panicked" /\ ~HasRun(worker.job)

LEMMA AuditSuffices == AuditInv => AuditAgrees
  BY DEF AuditInv, Truthful, AuditAgrees

\* By the contract, a session that is over hears at most a late question.
LEMMA OverHearsNothing ==
  ASSUME BrokerInv, [Next]_vars, NEW s \in Sessions
  PROVE  /\ \A x \in Signals : Heard(s, x) => Heard(s, x)'
         /\ Phase(s) = "over" /\ Heard(s, "Started")' => Heard(s, "Started")
         /\ Phase(s)' \in {"new", "waiting"} =>
              Phase(s) \in {"new", "waiting"} /\ (Heard(s, "Started")' => Heard(s, "Started"))
<1> DEFINE phase == [r \in Sessions |-> Phase(r)]
<1>1. Contract!Next \/ UNCHANGED Contract!vars
  BY StepKeeps DEF BrokerInv
<1>2. stream \in [Sessions -> Seq(Signals)]
  BY DEF BrokerInv, TypeInv, TypeOK
<1>3. ASSUME NEW r \in Sessions, NEW e, Contract!Tell(r, e)
      PROVE  \A x : /\ Heard(s, x) => Heard(s, x)'
                    /\ Heard(s, x)' => Heard(s, x) \/ (r = s /\ x = e)
  <2>1. CASE stream' = stream
    BY <2>1 DEF Heard
  <2>2. CASE stream' = [stream EXCEPT ![r] = Append(@, e)]
    <3>1. \A q \in Seq(Signals) : /\ DOMAIN q = 1..Len(q) /\ Len(q) \in Nat
                                  /\ DOMAIN Append(q, e) = 1..(Len(q) + 1)
                                  /\ \A k \in 1..Len(q) : Append(q, e)[k] = q[k]
                                  /\ Append(q, e)[Len(q) + 1] = e
      OBVIOUS
    <3>2. \A k \in DOMAIN stream[s] : k \in DOMAIN stream'[s] /\ stream'[s][k] = stream[s][k]
      BY <1>2, <2>2, <3>1
    <3>3. \A k \in DOMAIN stream'[s] : \/ k \in DOMAIN stream[s] /\ stream'[s][k] = stream[s][k]
                                       \/ r = s /\ stream'[s][k] = e
      BY <1>2, <2>2, <3>1
    <3> QED BY <3>2, <3>3 DEF Heard
  <2> QED BY <1>3, <2>1, <2>2 DEF Contract!Tell
<1>4. ASSUME UNCHANGED stream
      PROVE  \A x : Heard(s, x)' <=> Heard(s, x)
  BY <1>4 DEF Heard
<1>5. ASSUME UNCHANGED phase PROVE Phase(s)' = Phase(s)
  BY <1>5
<1>6. ASSUME NEW r \in Sessions, NEW p, Contract!Enter(r, p)
      PROVE  Phase(s)' = IF r = s THEN p ELSE Phase(s)
  BY <1>6 DEF Contract!Enter
<1> HIDE DEF phase
<1> DEFINE Goal == /\ \A x \in Signals : Heard(s, x) => Heard(s, x)'
                   /\ Phase(s) = "over" /\ Heard(s, "Started")' => Heard(s, "Started")
                   /\ Phase(s)' \in {"new", "waiting"} =>
                        Phase(s) \in {"new", "waiting"} /\ (Heard(s, "Started")' => Heard(s, "Started"))
<1>7. ASSUME NEW r \in Sessions, Contract!Submit(r) PROVE Goal
  BY <1>4, <1>6, <1>7 DEF Contract!Submit, phase
<1>8. ASSUME NEW r \in Sessions, Contract!Ask(r) PROVE Goal
  BY <1>3, <1>5, <1>8 DEF Contract!Ask
<1>9. ASSUME NEW r \in Sessions, Contract!Approve(r) \/ Contract!HangUp(r) PROVE Goal
  BY <1>4, <1>5, <1>9 DEF Contract!Approve, Contract!HangUp
<1>10. ASSUME NEW r \in Sessions, Contract!Begin(r) PROVE Goal
  <2>1. Phase(r) = "waiting" /\ Phase(s)' = IF r = s THEN "running" ELSE Phase(s)
    BY <1>6, <1>10 DEF Contract!Begin, phase
  <2>2. \A x : /\ Heard(s, x) => Heard(s, x)'
               /\ Heard(s, x)' => Heard(s, x) \/ r = s
    BY <1>3, <1>4, <1>10 DEF Contract!Begin
  <2> QED BY <2>1, <2>2
<1>11. ASSUME NEW r \in Sessions, NEW e \in Contract!Results(r), Contract!End(r, e) PROVE Goal
  <2>1. Phase(s)' = (IF r = s THEN "over" ELSE Phase(s)) /\ e # "Started"
    BY <1>6, <1>11 DEF Contract!End, Contract!Results, Contract!Closings
  <2>2. \A x : /\ Heard(s, x) => Heard(s, x)'
               /\ Heard(s, x)' => Heard(s, x) \/ (r = s /\ x = e)
    BY <1>3, <1>11 DEF Contract!End
  <2> QED BY <2>1, <2>2
<1>14. ASSUME NEW r \in Sessions, NEW e \in {"Output", "Overrun"}, Contract!Emit(r, e) PROVE Goal
  BY <1>3, <1>5, <1>14 DEF Contract!Emit
<1>12. ASSUME NEW given \in SUBSET Sessions, Contract!GiveUp(given) PROVE Goal
  <2>1. Phase(s)' = IF s \in given THEN "over" ELSE Phase(s)
    BY <1>12 DEF Contract!GiveUp, phase
  <2> QED BY <1>4, <1>12, <2>1 DEF Contract!GiveUp
<1>13. CASE Contract!Close \/ UNCHANGED Contract!vars
  BY <1>4, <1>5, <1>13 DEF Contract!Close, Contract!vars, phase
<1> QED
  BY <1>1, <1>7, <1>8, <1>9, <1>10, <1>11, <1>12, <1>13, <1>14 DEF Contract!Next
-----------------------------------------------------------------------------
(* How the steps get to an entry.                                          *)

LEMMA ThreadRecords ==
  ASSUME TypeInv, [Next]_vars, NEW t \in Threads, th'[t].pc = "record"
  PROVE  \/ th'[t] = th[t]
         \/ /\ CloseReport(t) /\ th'[t].job = th[t].job /\ th'[t].why = th[t].why
            /\ \A u \in Threads \ {t} : th'[u] = th[u]
<1>a. /\ th \in [Threads -> Tasks] /\ Sweeper \in Threads /\ Callers \subseteq Threads
  BY CarryingPCs DEF TypeInv, TypeOK
<1>1. ASSUME NEW u \in Callers, NEW r \in Sessions, Submit(u, r) PROVE th'[t] = th[t]
  BY <1>a, <1>1 DEF Submit, Take
<1>2. ASSUME NEW u \in Callers, NEW i \in Ids, Approve(u, i) \/ Deny(u, i) \/ Cancel(u, i)
      PROVE  th'[t] = th[t]
  <2>1. /\ \A v \in Threads \ {u} : th'[v] = th[v]
        /\ th'[u].pc # "record"
    <3>1. CASE Approve(u, i) \/ Deny(u, i)
      BY <1>a, <3>1 DEF Approve, Deny, Take
    <3>2. CASE Cancel(u, i) /\ pending[i] # None
      BY <1>a, <3>2 DEF Cancel, Take
    <3>3. CASE Cancel(u, i) /\ pending[i] = None
      BY <1>a, <3>3 DEF Cancel, Idle
    <3> QED BY <1>2, <3>1, <3>2, <3>3
  <2> QED BY <2>1
<1>3. CASE Sweep
  BY <1>a, <1>3 DEF Sweep, SweepScan, SweepTake, SweepNext, Take, Move, Tasks
<1>4. CASE \/ \E r \in Sessions : HangUp(r) \/ DeadlinePasses(r)
           \/ \E r \in Streaming, e \in Outputs : ReaderSend(r, e)
           \/ Worker \/ DropStop \/ Dropping \/ UNCHANGED vars
  BY <1>4 DEF HangUp, DeadlinePasses, ReaderSend, DropStop, Dropping, DropCancel, DropClose,
     DropJoin, vars, Worker, WorkerRecv, WorkerExit, WorkerLookup, WorkerLost, WorkerPark,
     WorkerParkFails, WorkerNotify, WorkerUnpark, WorkerStart, WorkerBegin, WorkerRun,
     WorkerReport, WorkerRecord, WorkerRelease
<1>5. ASSUME NEW u \in Threads, Continue(u), ~CloseReport(u) PROVE th'[t] = th[t]
  <2>1. CASE Enqueue(u) \/ CancelFlag(u) \/ CloseRelease(u)
    BY <1>a, <2>1 DEF Enqueue, CancelFlag, CloseRelease, Idle
  <2>2. CASE ApproveCheck(u)
    BY <1>a, <2>2 DEF ApproveCheck, Move, Tasks
  <2>3. CASE CancelFind(u)
    BY <1>a, <2>3 DEF CancelFind, Take, Idle
  <2>4. CASE CloseRecord(u)
    BY <1>a, <2>4 DEF CloseRecord, Move, Tasks
  <2> QED BY <1>5, <2>1, <2>2, <2>3, <2>4 DEF Continue
<1>6. ASSUME NEW u \in Threads, CloseReport(u)
      PROVE  /\ \A v \in Threads \ {u} : th'[v] = th[v]
             /\ th'[u].job = th[u].job /\ th'[u].why = th[u].why
  BY <1>a, <1>6 DEF CloseReport, Move, Tasks
<1> QED BY <1>1, <1>2, <1>3, <1>4, <1>5, <1>6 DEF Next, ReaderSend, Call, Finished

LEMMA WorkerRecords ==
  ASSUME TypeInv, [Next]_vars
  PROVE  /\ worker'.pc = "record" =>
              UNCHANGED worker \/ (WorkerReport /\ worker'.job = worker.job /\ worker'.end = worker.end)
         /\ worker'.pc = "report" =>
              \/ UNCHANGED worker
              \/ worker.pc \in {"start", "begin", "run"} /\ worker'.job = worker.job
              \/ WorkerParkFails /\ worker'.job = worker.job /\ worker'.end = "Panicked"
<1>a. worker \in [pc: WorkerPCs, job: Sessions \cup {None},
                  handle: Sessions \cup {None}, end: Endings]
  BY DEF TypeInv, TypeOK
<1>1. CASE ~Worker
  BY <1>1, OthersLeaveWorker
<1>2. CASE WorkerLookup
  BY <1>a, <1>2 DEF WorkerLookup
<1>3. CASE WorkerStart
  BY <1>a, <1>3 DEF WorkerStart, Work
<1>4. CASE WorkerBegin
  BY <1>a, <1>4 DEF WorkerBegin
<1>5. ASSUME NEW end \in {"Completed", "Cancelled", "Failed", "Panicked"}, WorkerRun(end)
      PROVE  worker'.pc = "report" /\ worker.pc = "run" /\ worker'.job = worker.job
  BY <1>a, <1>5 DEF WorkerRun
<1>6. CASE WorkerReport
  BY <1>a, <1>6 DEF WorkerReport, Work
<1>7. CASE WorkerRecv \/ WorkerRelease
  <2>1. worker'.pc \in {"lookup", "recv"}
    <3>1. CASE WorkerRecv
      BY <3>1 DEF WorkerRecv, Rest
    <3> QED BY <1>7, <3>1 DEF WorkerRelease, Rest
  <2> QED BY <2>1
<1>8. CASE WorkerNotify
  BY <1>a, <1>8 DEF WorkerNotify, Rest
<1>9. CASE WorkerExit \/ WorkerLost \/ WorkerPark \/ WorkerUnpark \/ WorkerRecord
  BY <1>a, <1>9 DEF WorkerExit, WorkerLost, WorkerPark, WorkerUnpark, WorkerRecord, Work
<1>10. ASSUME WorkerParkFails
       PROVE  worker'.pc = "report" /\ worker'.job = worker.job /\ worker'.end = "Panicked"
  BY <1>a, <1>10 DEF WorkerParkFails
<1> QED BY <1>1, <1>2, <1>3, <1>4, <1>5, <1>6, <1>7, <1>8, <1>9, <1>10 DEF Worker

LEMMA AuditMoves ==
  ASSUME [Next]_vars
  PROVE  UNCHANGED audit \/ (\E t \in Threads : CloseRecord(t)) \/ WorkerRecord
BY DEF Next, ReaderSend, Call, Continue, Worker, Sweep, Dropping, Finished, vars, Submit,
   Enqueue, Approve, ApproveCheck, Deny, Cancel, CancelFind, CancelFlag, HangUp,
   CloseReport, CloseRelease, DeadlinePasses, SweepNext, SweepScan, SweepTake, DropStop,
   DropCancel, DropClose, DropJoin, WorkerRecv, WorkerExit, WorkerLookup, WorkerLost,
   WorkerPark, WorkerParkFails, WorkerNotify, WorkerUnpark, WorkerStart, WorkerBegin,
   WorkerRun, WorkerReport, WorkerRelease

\* An admission is given, never taken back.
LEMMA AdmissionMoves ==
  ASSUME TypeInv, [Next]_vars, NEW s \in Sessions
  PROVE  admission'[s] = admission[s] \/ admission'[s] = "Approved"
<1>1. admission \in [Sessions -> Admissions]
  BY DEF TypeInv, TypeOK
<1>2. UNCHANGED admission \/ \E t \in Threads : ApproveCheck(t)
  BY DEF Next, ReaderSend, Call, Continue, Worker, Sweep, Dropping, Finished, vars, jobs,
     Submit, Enqueue, Approve, Deny, Cancel, CancelFind, CancelFlag, HangUp, CloseReport,
     CloseRecord, CloseRelease, DeadlinePasses, SweepNext, SweepScan, SweepTake, DropStop,
     DropCancel, DropClose, DropJoin, WorkerRecv, WorkerExit, WorkerLookup, WorkerLost,
     WorkerPark, WorkerParkFails, WorkerNotify, WorkerUnpark, WorkerStart, WorkerBegin,
     WorkerRun, WorkerReport, WorkerRecord, WorkerRelease
<1> QED BY <1>1, <1>2 DEF ApproveCheck

\* Appending and evicting leave entries as they were.
LEMMA RecordAdds ==
  ASSUME audit \in Seq(AuditEntries), NEW s \in Sessions, NEW d \in Admissions \cup Verdicts,
         NEW e \in Endings \cup Verdicts, Record(s, d, e), NEW k \in DOMAIN audit'
  PROVE  \/ \E j \in DOMAIN audit : audit'[k] = audit[j]
         \/ audit'[k] = [job |-> s, decision |-> d, outcome |-> Outcome(e)]
<1> DEFINE x     == [job |-> s, decision |-> d, outcome |-> Outcome(e)]
           grown == Append(audit, x)
<1>1. x \in AuditEntries
  BY EndingTypes DEF AuditEntries
<1> HIDE DEF x
<1>2. /\ grown \in Seq(AuditEntries) /\ DOMAIN grown = 1..Len(grown)
      /\ DOMAIN audit = 1..Len(audit) /\ Len(audit) \in Nat /\ Len(grown) = Len(audit) + 1
      /\ \A j \in 1..Len(audit) : grown[j] = audit[j]
      /\ grown[Len(audit) + 1] = x
  BY <1>1
<1>3. audit' = grown \/ audit' = Tail(grown)
  BY DEF Record, x
<1> HIDE DEF grown
<1>4. \E j \in DOMAIN grown : audit'[k] = grown[j]
  <2>1. CASE audit' = grown
    BY <2>1
  <2>2. CASE audit' = Tail(grown)
    <3>1. /\ DOMAIN Tail(grown) = 1..(Len(grown) - 1)
          /\ \A j \in 1..(Len(grown) - 1) : Tail(grown)[j] = grown[j + 1]
      BY <1>2
    <3>2. k \in 1..(Len(grown) - 1) /\ audit'[k] = grown[k + 1]
      BY <2>2, <3>1
    <3> QED BY <1>2, <3>2
  <2> QED BY <1>3, <2>1, <2>2
<1>5. \A j \in DOMAIN grown : (j \in DOMAIN audit /\ grown[j] = audit[j]) \/ grown[j] = x
  BY <1>2
<1> QED BY <1>4, <1>5 DEF x

\* What was true of a session that is over stays so.
LEMMA TruthKept ==
  ASSUME BrokerInv, [Next]_vars, NEW s \in Sessions, NEW d \in Admissions \cup Verdicts,
         NEW o \in Outcomes, Truthful(s, d, o)
  PROVE  Truthful(s, d, o)'
<1> SUFFICES ASSUME s \notin hungup' PROVE Truthful(s, d, o)'
  BY DEF Truthful
<1>1. s \notin hungup /\ HasEnded(s) /\ HasEnded(s)'
  BY NothingComesBack DEF Truthful
<1>2. s \in submitted /\ ~Unsettled(s)
  BY <1>1 DEF BrokerInv, OwnerInv, Nowhere
<1>3. Phase(s) = "over"
  BY <1>2 DEF Phase
<1>4. Heard(s, "Started")' => Heard(s, "Started")
  BY <1>3, OverHearsNothing
<1>5. d \in Verdicts => (Heard(s, Signal(s, d)) => Heard(s, Signal(s, d))')
  BY EndingTypes, OverHearsNothing
<1>6. /\ Heard(s, Signal(s, o)) => Heard(s, Signal(s, o))'
      /\ Heard(s, "Denied") => Heard(s, "Denied")'
  BY EndingTypes, OverHearsNothing, Questions DEF Endings
<1> QED BY <1>1, <1>4, <1>5, <1>6 DEF Truthful

\* Whoever closes a session tells it so first; a guest that ran is not closed.
LEMMA AuditStep == BrokerInv /\ AuditInv /\ [Next]_vars => AuditInv'
<1> SUFFICES ASSUME BrokerInv, AuditInv, [Next]_vars PROVE AuditInv'
  OBVIOUS
<1>a. /\ TypeInv
      /\ th \in [Threads -> Tasks] /\ audit \in Seq(AuditEntries)
      /\ admission \in [Sessions -> Admissions]
      /\ admission' \in [Sessions -> Admissions]
      /\ worker \in [pc: WorkerPCs, job: Sessions \cup {None},
                     handle: Sessions \cup {None}, end: Endings]
  BY TypeStep DEF BrokerInv, TypeInv, TypeOK
<1>b. /\ \A t \in Threads : th[t].pc \in Carrying => th[t].job \in Sessions
      /\ worker.pc \notin {"recv", "exit"} => worker.job \in Sessions
  BY DEF BrokerInv, TypeInv, InHand, ThreadsInHand
<1>c. \A e \in Endings \cup Verdicts : Outcome(e) \in Outcomes
  BY DEF Endings, Verdicts, Outcomes, Outcome
<1>1. ASSUME NEW k \in DOMAIN audit'
      PROVE  Truthful(audit[k].job, audit[k].decision, audit[k].outcome)'
  <2>1. ASSUME NEW s \in Sessions, NEW d \in Admissions \cup Verdicts, NEW o \in Outcomes,
               Truthful(s, d, o), audit'[k] = [job |-> s, decision |-> d, outcome |-> o]
        PROVE  Truthful(audit[k].job, audit[k].decision, audit[k].outcome)'
    <3>1. Truthful(s, d, o)'
      BY <2>1, TruthKept
    <3>2. audit'[k].job = s /\ audit'[k].decision = d /\ audit'[k].outcome = o
      BY <2>1
    <3> QED BY <3>1, <3>2
  <2>2. ASSUME NEW j \in DOMAIN audit, audit'[k] = audit[j]
        PROVE  Truthful(audit[k].job, audit[k].decision, audit[k].outcome)'
    <3>1. /\ audit[j].job \in Sessions /\ audit[j].decision \in Admissions \cup Verdicts
          /\ audit[j].outcome \in Outcomes
          /\ audit[j] = [job |-> audit[j].job, decision |-> audit[j].decision, outcome |-> audit[j].outcome]
      <4>1. audit[j] \in AuditEntries
        BY <1>a
      <4> QED BY <4>1 DEF AuditEntries
    <3> QED BY <2>1, <2>2, <3>1 DEF AuditInv
  <2>3. CASE UNCHANGED audit
    BY <2>2, <2>3
  <2>4. ASSUME NEW t \in Threads, CloseRecord(t)
        PROVE  Truthful(audit[k].job, audit[k].decision, audit[k].outcome)'
    <3>1. /\ th[t].job \in Sessions /\ th[t].why \in Verdicts
          /\ Record(th[t].job, th[t].why, th[t].why) /\ th[t].pc = "record"
      BY <1>a, <1>b, <2>4, CarryingPCs DEF CloseRecord, Tasks
    <3>2. \/ \E j \in DOMAIN audit : audit'[k] = audit[j]
          \/ audit'[k] = [job |-> th[t].job, decision |-> th[t].why, outcome |-> Outcome(th[t].why)]
      BY <1>a, <3>1, RecordAdds
    <3>3. Truthful(th[t].job, th[t].why, Outcome(th[t].why)) /\ Outcome(th[t].why) \in Outcomes
      BY <1>c, <3>1 DEF AuditInv
    <3> QED BY <2>1, <2>2, <3>1, <3>2, <3>3
  <2>5. ASSUME WorkerRecord
        PROVE  Truthful(audit[k].job, audit[k].decision, audit[k].outcome)'
    <3>1. /\ worker.job \in Sessions /\ worker.end \in Endings /\ worker.pc = "record"
          /\ Record(worker.job, admission[worker.job], worker.end)
      BY <1>a, <1>b, <2>5 DEF WorkerRecord
    <3>2. admission[worker.job] \in Admissions
      BY <1>a, <3>1
    <3>3. \/ \E j \in DOMAIN audit : audit'[k] = audit[j]
          \/ audit'[k] = [job |-> worker.job, decision |-> admission[worker.job],
                          outcome |-> Outcome(worker.end)]
      BY <1>a, <3>1, <3>2, RecordAdds
    <3>4. Truthful(worker.job, admission[worker.job], Outcome(worker.end)) /\ Outcome(worker.end) \in Outcomes
      BY <1>c, <3>1 DEF AuditInv
    <3> QED BY <2>1, <2>2, <3>1, <3>2, <3>3, <3>4
  <2> QED BY <2>3, <2>4, <2>5, AuditMoves
<1>2. ASSUME NEW t \in Threads, th'[t].pc = "record"
      PROVE  Truthful(th[t].job, th[t].why, Outcome(th[t].why))'
  <2>1. PICK s \in Sessions : s = th[t].job
    <3>1. th[t].pc \in {"report", "record"}
      BY <1>a, <1>2, ThreadRecords DEF CloseReport
    <3> QED BY <1>b, <3>1, CarryingPCs
  <2>2. PICK why \in Verdicts : why = th[t].why
    BY <1>a DEF Tasks
  <2>3. th'[t].job = s /\ th'[t].why = why /\ Outcome(why) \in Outcomes
    <3>1. th'[t].job = th[t].job /\ th'[t].why = th[t].why
      BY <1>a, <1>2, ThreadRecords
    <3>2. why \in Endings \cup Verdicts
      OBVIOUS
    <3> QED BY <1>c, <2>1, <2>2, <3>1, <3>2
  <2>4. CASE th'[t] = th[t]
    <3>1. Truthful(s, why, Outcome(why))
      BY <1>2, <2>1, <2>2, <2>4 DEF AuditInv
    <3>2. ASSUME NEW o \in Outcomes, o = Outcome(why) PROVE Truthful(s, why, o)'
      BY <3>1, <3>2, TruthKept
    <3> QED BY <2>3, <3>2
  <2>5. CASE CloseReport(t)
    <3>1. AtThread(t, s) /\ Send(s, Signal(s, why))
      BY <2>1, <2>2, <2>5 DEF CloseReport, AtThread
    <3>2. s \in submitted /\ Unsettled(s) /\ ~AtWorker(s)
      BY <3>1 DEF BrokerInv, OwnerInv, OnePlace, Nowhere, Unsettled
    <3>3. ~HasRun(s)
      BY <3>1, <3>2 DEF BrokerInv, ContractInv, NotRunYet
    <3>4. ~Heard(s, "Started")
      BY <3>1, <3>2, <3>3 DEF AuditInv, Phase
    <3>5. Signal(s, why) \in Signals /\ Signal(s, why) \in Terminals /\ Signal(s, why) # "Started"
      BY EndingTypes, EndingsAreTerminal DEF Terminals
    <3>6. s \notin hungup => /\ HasEnded(s)' /\ ~Heard(s, "Started")'
                             /\ \A x \in Signals : x = Signal(s, why) => Heard(s, x)'
      BY <1>a, <3>1, <3>4, <3>5, SendHeard, EndIsHeard, Questions
    <3>7. s \notin hungup' => s \notin hungup
      BY NothingComesBack
    <3>8. why \notin Admissions
      BY DEF Verdicts, Admissions
    <3>9. ASSUME NEW o \in Outcomes, o = Outcome(why) PROVE Truthful(s, why, o)'
      BY <3>5, <3>6, <3>7, <3>8, <3>9 DEF Truthful, Admissions
    <3>10. \A o \in Outcomes : o = Outcome(why) => Truthful(s, why, o)'
      BY <3>9
    <3> QED BY <2>3, <3>10
  <2> QED BY <1>a, <1>2, <2>4, <2>5, ThreadRecords
<1>3. ASSUME worker'.pc = "record"
      PROVE  Truthful(worker.job, admission[worker.job], Outcome(worker.end))'
  <2>1. PICK s \in Sessions : s = worker.job
    BY <1>a, <1>b, <1>3, WorkerRecords DEF WorkerReport
  <2>2. PICK end \in Endings : end = worker.end
    BY <1>a
  <2>3. worker'.job = s /\ worker'.end = end
    BY <1>a, <1>3, <2>1, <2>2, WorkerRecords
  <2>4. admission[s] \in Admissions /\ admission'[s] \in Admissions
    BY <1>a
  <2>5. CASE UNCHANGED worker
    <3>1. Truthful(s, admission[s], Outcome(end))
      BY <1>3, <2>1, <2>2, <2>5 DEF AuditInv
    <3>2. Truthful(s, admission'[s], Outcome(end))
      BY <1>a, <2>4, <3>1, AdmissionMoves DEF Truthful, Admissions, Verdicts
    <3>3. ASSUME NEW d \in Admissions, d = admission'[s], NEW o \in Outcomes, o = Outcome(end)
          PROVE  Truthful(s, d, o)'
      BY <3>2, <3>3, TruthKept
    <3> QED BY <1>c, <2>3, <2>4, <3>3
  <2>6. CASE WorkerReport
    <3>1. Send(s, Signal(s, end)) /\ UNCHANGED admission
      BY <2>1, <2>2, <2>6 DEF WorkerReport, jobs
    <3>2. s \in Risky => \/ admission[s] = "Approved"
                         \/ end = "Panicked" /\ ~HasRun(s)
      BY <2>1, <2>2, <2>6 DEF AuditInv, WorkerReport, Undecided, Approved
    <3>9. ~HasRun(s) => ~Heard(s, "Started")
      <4>1. AtWorker(s)
        BY <2>1, <2>6 DEF WorkerReport, AtWorker
      <4>2. s \in submitted /\ Unsettled(s)
        BY <4>1 DEF BrokerInv, OwnerInv, Nowhere, Unsettled
      <4> QED BY <4>2 DEF AuditInv, Phase
    <3>3. Signal(s, end) \in Signals /\ Signal(s, end) \in Terminals
      BY EndingTypes, EndingsAreTerminal
    <3>10. Signal(s, end) # "Started"
      BY <3>3 DEF Terminals
    <3>4. s \notin hungup => /\ HasEnded(s)'
                             /\ \A x \in Signals : x = Signal(s, end) => Heard(s, x)'
                             /\ Heard(s, "Started")' => Heard(s, "Started")
      BY <1>a, <3>1, <3>3, <3>10, SendHeard, EndIsHeard, Questions
    <3>5. s \notin hungup' => s \notin hungup
      BY NothingComesBack
    <3>6. \/ Signal(s, Outcome(end)) = Signal(s, end)
          \/ Outcome(end) = "Failed" /\ Signal(s, end) = "Denied"
      BY DEF Signal, Outcome, Endings, Outcomes
    <3>7. /\ admission'[s] \notin Verdicts
          /\ admission'[s] = "AutoApproved" /\ s \in Risky => end = "Panicked" /\ ~Heard(s, "Started")
      BY <2>4, <3>1, <3>2, <3>9 DEF Admissions, Verdicts
    <3>11. end = "Panicked" => Outcome(end) = "Failed" /\ Signal(s, end) = "Denied"
      BY DEF Signal, Outcome
    <3>8. ASSUME NEW d \in Admissions, d = admission'[s], NEW o \in Outcomes, o = Outcome(end)
          PROVE  Truthful(s, d, o)'
      <4>1. s \notin hungup' /\ d = "AutoApproved" /\ s \in Risky =>
              o = "Failed" /\ Heard(s, "Denied")' /\ ~Heard(s, "Started")'
        BY <3>3, <3>4, <3>5, <3>7, <3>8, <3>11
      <4> QED BY <3>3, <3>4, <3>5, <3>6, <3>7, <3>8, <4>1 DEF Truthful
    <3> QED BY <1>c, <2>3, <2>4, <3>8
  <2> QED BY <1>3, <1>a, <2>5, <2>6, WorkerRecords
<1>4. \A s \in Sessions : Phase(s)' \in {"new", "waiting"} => ~Heard(s, "Started")'
  BY OverHearsNothing DEF AuditInv
<1>5. ASSUME worker'.pc = "report", worker'.job \in Risky \ Approved'
      PROVE  worker'.end = "Panicked" /\ ~HasRun(worker.job)'
  <2>1. PICK s \in Sessions : s = worker.job /\ s = worker'.job
    BY <1>a, <1>b, <1>5, WorkerRecords DEF WorkerParkFails
  <2>2. s \in Risky \ Approved
    BY <1>a, <1>5, <2>1, AdmissionMoves DEF Approved
  <2>3. CASE UNCHANGED worker
    <3>1. worker.end = "Panicked" /\ ~HasRun(s)
      BY <1>5, <2>1, <2>2, <2>3 DEF AuditInv, Undecided
    <3>2. ~Worker
      <4>1. worker.pc = "report" /\ worker'.pc = "report"
        BY <1>5, <2>3
      <4>2. ~WorkerReport
        BY <1>a, <4>1 DEF WorkerReport, Work
      <4> QED BY <4>1, <4>2 DEF Worker, WorkerRecv, WorkerExit, WorkerLookup, WorkerLost,
                 WorkerPark, WorkerParkFails, WorkerNotify, WorkerUnpark, WorkerStart,
                 WorkerBegin, WorkerRun, WorkerRecord, WorkerRelease
    <3>3. ~HasRun(s)'
      BY <3>1, <3>2, OthersLeaveRun DEF HasRun
    <3> QED BY <2>1, <2>3, <3>1, <3>3
  <2>4. CASE WorkerParkFails /\ worker'.job = worker.job /\ worker'.end = "Panicked"
    <3>1. AtWorker(s) /\ worker.pc = "park"
      BY <2>1, <2>4 DEF WorkerParkFails, AtWorker
    <3>2. ~HasRun(s)
      BY <3>1 DEF BrokerInv, ContractInv, NotRunYet, Unsettled
    <3>3. ~HasRun(s)'
      BY <2>4, <3>2 DEF WorkerParkFails, jobs, HasRun
    <3> QED BY <2>1, <2>4, <3>3
  <2>5. worker.pc \notin {"start", "begin", "run"}
    BY <2>1, <2>2 DEF BrokerInv, ContractInv, WorkerKnows, Undecided
  <2> QED BY <1>a, <1>5, <2>3, <2>4, <2>5, WorkerRecords
<1> QED BY <1>1, <1>2, <1>3, <1>4, <1>5 DEF AuditInv, Undecided

\* Whatever ids the callers pick and whoever closes a session, what the trail says
\* of it is what its receiver was told: nobody is recorded as denied who ran, nor
\* as approved who was denied.
THEOREM TrailIsTrue == Spec => []AuditAgrees
<1>1. Init => AuditInv
  BY DEF Init, AuditInv, Heard, Idle, Rest
<1> QED BY BrokerInvHolds, <1>1, AuditStep, AuditSuffices, PTL DEF Spec
=============================================================================
