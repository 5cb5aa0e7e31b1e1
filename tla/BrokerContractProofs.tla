------------------------ MODULE BrokerContractProofs ------------------------
(***************************************************************************)
(* Broker implements SessionContract, for any number of sessions, ids and  *)
(* callers and any assignment of ids to sessions.                          *)
(***************************************************************************)
EXTENDS BrokerProofs

USE IdAssumption, ClassAssumption, ThreadAssumption, CapacityAssumption,
    AuditAssumption, FlagAssumption, NoneAssumption

-----------------------------------------------------------------------------
(* What the receivers have heard.                                          *)

\* A send is heard by its receiver, unless that is gone, and by nobody else.
LEMMA SendHeard ==
  ASSUME TypeInv, NEW s \in Sessions, NEW e \in Signals, Send(s, e)
  PROVE  /\ \A r \in Sessions \ {s} : stream'[r] = stream[r]
         /\ \A r \in Sessions, x \in Signals :
              Heard(r, x)' <=> Heard(r, x) \/ (r = s /\ x = e /\ s \notin hungup)
<1> DEFINE q == stream[s]
<1>1. stream \in [Sessions -> Seq(Signals)]
  BY DEF TypeInv, TypeOK
<1>2. CASE s \in hungup
  BY <1>2 DEF Send, Heard
<1>3. CASE s \notin hungup
  <2>1. q \in Seq(Signals)
    BY <1>1
  <2>2. /\ DOMAIN q = 1..Len(q) /\ DOMAIN Append(q, e) = 1..(Len(q) + 1)
        /\ Len(q) \in Nat
        /\ \A k \in 1..Len(q) : Append(q, e)[k] = q[k]
        /\ Append(q, e)[Len(q) + 1] = e
    BY <2>1
  <2>3. stream'[s] = Append(q, e) /\ \A r \in Sessions \ {s} : stream'[r] = stream[r]
    BY <1>1, <1>3 DEF Send
  <2> HIDE DEF q
  <2>4. q = stream[s]
    BY DEF q
  <2>5. \A x \in Signals : Heard(s, x)' <=> Heard(s, x) \/ x = e
    BY <2>2, <2>3, <2>4 DEF Heard
  <2>6. \A r \in Sessions \ {s}, x \in Signals : Heard(r, x)' <=> Heard(r, x)
    BY <2>3 DEF Heard
  <2> QED BY <1>3, <2>3, <2>5, <2>6
<1> QED BY <1>2, <1>3

LEMMA HeardSame ==
  ASSUME UNCHANGED stream
  PROVE  \A r \in Sessions, x \in Signals : Heard(r, x)' <=> Heard(r, x)
BY DEF Heard

LEMMA QueueSame ==
  ASSUME UNCHANGED queue
  PROVE  \A r \in Sessions : InQueue(r)' <=> InQueue(r)
BY DEF InQueue

LEMMA Questions == "PendingApproval" \in Signals /\ "Started" \in Signals /\ "Denied" \in Signals
BY DEF Signals, Terminals

\* A step that brings r no nearer to an approval, the queue or the worker keeps
\* the order of question, decision and run.
Undisturbed(r) ==
  /\ Parked(r)' => Parked(r)
  /\ InQueue(r)' => InQueue(r)
  /\ \A t \in Threads : \A pc \in {"approve", "enqueue"} :
       th'[t].job = r /\ th'[t].pc = pc => th[t].job = r /\ th[t].pc = pc
  /\ worker'.job = r /\ worker'.pc \in {"lookup", "park"}
       => worker.job = r /\ worker.pc \in {"lookup", "park"}
  /\ Asking(r)' <=> Asking(r)
  /\ admission'[r] = admission[r]
  /\ Heard(r, "PendingApproval")' <=> Heard(r, "PendingApproval")
  /\ r \in hungup => r \in hungup'

LEMMA OrderKept ==
  ASSUME NEW r \in Sessions, AskedInOrder(r), Undisturbed(r)
  PROVE  AskedInOrder(r)'
<1> USE DEF Undisturbed, AskedInOrder, Undecided, Approved
<1>1. (Parked(r) => Undecided(r))'
  OBVIOUS
<1>2. (\A t \in Threads : th[t].job = r /\ th[t].pc = "approve" => t \in Callers /\ Undecided(r))'
  OBVIOUS
<1>3. (\/ Parked(r) \/ r \in Approved
       \/ \E t \in Threads : th[t].job = r /\ th[t].pc = "approve"
       => Heard(r, "PendingApproval") \/ r \in hungup \/ Asking(r))'
  OBVIOUS
<1>4. (/\ Asking(r) \/ FirstPass(r) => ~Heard(r, "PendingApproval")
       /\ ~(Asking(r) /\ FirstPass(r)))'
  BY DEF FirstPass
<1> QED BY <1>1, <1>2, <1>3, <1>4

\* Nor does a step make r run that leaves its machine and stream alone.
LEMMA StillNotRun ==
  ASSUME NEW r \in Sessions, NotRunYet(r), r \in submitted => r \in submitted',
         session'[r] = session[r], stream'[r] = stream[r], admission'[r] = admission[r],
         HasRun(r) /\ Unsettled(r)' => Unsettled(r),
         AtWorker(r) /\ worker.pc \in {"run", "report"} /\ Unsettled(r)'
           => AtWorker(r)' /\ worker'.pc \in {"run", "report"}
  PROVE  NotRunYet(r)'
BY DEF NotRunYet, HasRun, Approved
-----------------------------------------------------------------------------
(* The steps of the broker keep what the contract rests on.                *)

LEMMA ContractStep ==
  TypeInv /\ OwnerInv /\ ContractInv /\ OutputInv /\ [Next]_vars => ContractInv'
<1> SUFFICES ASSUME TypeInv, OwnerInv, ContractInv, OutputInv, [Next]_vars PROVE ContractInv'
  OBVIOUS
<1> USE DEF Parked, AtWorker, AtThread, Undecided, Asking, FirstPass, HasRun, Approved, world, jobs, maps
<1>a. /\ th \in [Threads -> Tasks]
      /\ pending \in [Ids -> Sessions \cup {None}]
      /\ admission \in [Sessions -> Admissions]
      /\ session \in [Sessions -> Lifecycles]
      /\ stream \in [Sessions -> Seq(Signals)]
      /\ worker \in [pc: WorkerPCs, job: Sessions \cup {None},
                     handle: Sessions \cup {None}, end: Endings]
  BY DEF TypeInv, TypeOK
<1>b. /\ ThreadsOK
      /\ worker.pc \notin {"recv", "exit"} => worker.job \in Sessions
      /\ \A i \in Ids : pending[i] # None => pending[i] \in Sessions /\ Id[pending[i]] = i
      /\ \A s \in Sessions : Id[s] \in Ids
  BY <1>a DEF TypeInv, InHand, ThreadsOK
<1>c. QueuedOnce /\ \A s \in Sessions : OnePlace(s) /\ Nowhere(s)
  BY DEF OwnerInv
<1>d. WorkerKnows /\ CallsWhileOpen /\ \A s \in Sessions : NotRunYet(s) /\ AskedInOrder(s)
  BY DEF ContractInv
<1>f. OutputInv
  OBVIOUS
<1>e. ASSUME WorkerKnows', CallsWhileOpen', \A r \in Sessions : NotRunYet(r)' /\ AskedInOrder(r)'
      PROVE  ContractInv'
  BY <1>e DEF ContractInv
<1>1. ASSUME NEW t \in Callers, NEW s \in Sessions, Submit(t, s) PROVE ContractInv'
  <2>1. \A r \in Sessions : InQueue(r)' <=> InQueue(r)
    BY <1>1, QueueSame DEF Submit
  <2>2. \A r \in Sessions : Heard(r, "PendingApproval")' <=> Heard(r, "PendingApproval")
    BY <1>1, Questions, HeardSame DEF Submit
  <2>3. /\ th'[t].pc = "enqueue" /\ th'[t].job = s
        /\ \A u \in Threads \ {t} : th'[u] = th[u]
    BY <1>1, <1>a, CarryingPCs DEF Submit, Take
  <2>4. \A r \in Sessions : NotRunYet(r)'
    BY <1>1, <1>a, <1>b, <1>c, <1>d, <2>1, <2>2, CarryOK, CarryingPCs DEF Submit, Take,
       NotRunYet, Unsettled, OnePlace, Nowhere
  <2>5. \A r \in Sessions \ {s} : AskedInOrder(r)'
    BY <1>1, <1>d, <2>1, <2>2, <2>3, OrderKept DEF Submit, Undisturbed
  <2>6. /\ ~InQueue(s) /\ ~Parked(s) /\ ~AtWorker(s) /\ s \notin Approved
        /\ \A u \in Threads : ~AtThread(u, s)
        /\ ~Heard(s, "PendingApproval") /\ ~Asking(s)
    BY <1>1, <1>c, <1>d DEF Submit, Nowhere, Unsettled, NotRunYet, WorkerKnows, Heard
  <2>7. AskedInOrder(s)'
    BY <1>1, <2>1, <2>2, <2>3, <2>6 DEF Submit, AskedInOrder
  <2>8. WorkerKnows' /\ CallsWhileOpen'
    BY <1>1, <1>a, <1>d, <2>3 DEF Submit, WorkerKnows, CallsWhileOpen, Open
  <2> QED BY <1>e, <2>4, <2>5, <2>7, <2>8
<1>2. ASSUME NEW t \in Threads, Enqueue(t) PROVE ContractInv'
  <2>1. PICK s \in Sessions : s = th[t].job /\ ~InQueue(s)
    BY <1>2, <1>a, <1>b, <1>c, <1>d, CarryOK, CarryingPCs DEF Enqueue, OnePlace
  <2>2. \A r \in Sessions : InQueue(r)' <=> InQueue(r) \/ r = s
    BY <1>2, <1>a, <1>b, <1>c, <1>d, <2>1, Queueing DEF Enqueue
  <2>3. \A r \in Sessions : Heard(r, "PendingApproval")' <=> Heard(r, "PendingApproval")
    BY <1>2, Questions, HeardSame DEF Enqueue
  <2>4. \A r \in Sessions : NotRunYet(r)'
    BY <1>2, <1>a, <1>b, <1>d, <2>1, <2>2, <2>3, StillNotRun, CarryingPCs DEF Enqueue, Idle,
       Unsettled
  <2>5. \A r \in Sessions : AskedInOrder(r)'
    BY <1>2, <1>a, <1>b, <1>c, <1>d, <2>1, <2>2, <2>3, CarryOK, CarryingPCs DEF Enqueue,
       Take, Move, Work, Idle, Rest, AskedInOrder, OnePlace, Nowhere, Unsettled, NotRunYet
  <2>6. WorkerKnows' /\ CallsWhileOpen'
    BY <1>2, <1>a, <1>d, <2>1, <2>2, <2>3, CarryingPCs DEF Enqueue, Idle, WorkerKnows,
       CallsWhileOpen, Open
  <2> QED BY <1>e, <2>4, <2>5, <2>6
<1>3. ASSUME NEW t \in Callers, NEW i \in Ids, Approve(t, i) PROVE ContractInv'
  <2>1. \A r \in Sessions : InQueue(r)' <=> InQueue(r)
    BY <1>3, QueueSame DEF Approve
  <2>2. \A r \in Sessions : Heard(r, "PendingApproval")' <=> Heard(r, "PendingApproval")
    BY <1>3, Questions, HeardSame DEF Approve
  <2>3. \A r \in Sessions : NotRunYet(r)'
    BY <1>3, <1>a, <1>b, <1>d, <2>1, <2>2, StillNotRun, CarryingPCs DEF Approve, Take, Unsettled
  <2>4. \A r \in Sessions : AskedInOrder(r)'
    BY <1>3, <1>a, <1>b, <1>c, <1>d, <2>1, <2>2, CarryOK, CarryingPCs DEF Approve, Take,
       Move, Work, Idle, Rest, AskedInOrder, OnePlace, Nowhere, Unsettled, NotRunYet
  <2>5. WorkerKnows' /\ CallsWhileOpen'
    BY <1>3, <1>a, <1>d, <2>1, <2>2, CarryingPCs DEF Approve, Take, WorkerKnows,
       CallsWhileOpen, Open
  <2> QED BY <1>e, <2>3, <2>4, <2>5
<1>4. ASSUME NEW t \in Threads, ApproveCheck(t) PROVE ContractInv'
  <2>1. \A r \in Sessions : InQueue(r)' <=> InQueue(r)
    BY <1>4, QueueSame DEF ApproveCheck
  <2>2. \A r \in Sessions : Heard(r, "PendingApproval")' <=> Heard(r, "PendingApproval")
    BY <1>4, Questions, HeardSame DEF ApproveCheck
  <2>3. PICK s \in Sessions : s = th[t].job /\ AtThread(t, s) /\ th[t].pc = "approve"
    BY <1>4, <1>b, CarryOK, CarryingPCs DEF ApproveCheck
  <2>4. PICK pc \in {"report", "enqueue"} :
          Move(t, pc) /\ IF pc = "report" THEN UNCHANGED admission
                         ELSE admission' = [admission EXCEPT ![s] = "Approved"]
    BY <1>4, <2>3 DEF ApproveCheck
  <2>5. /\ th'[t].pc = pc /\ th'[t].job = s
        /\ \A u \in Threads \ {t} : th'[u] = th[u]
    BY <1>a, <2>3, <2>4 DEF Move, Tasks
  <2>6. \A r \in Sessions \ {s} : admission'[r] = admission[r]
    BY <1>a, <2>4
  <2>7. UNCHANGED <<queue, pending, session, submitted, hungup, stream, worker, drop>>
    BY <1>4 DEF ApproveCheck
  <2>8. s \in submitted /\ t \in Callers /\ s \in Risky /\ ~Parked(s) /\ ~InQueue(s) /\ ~AtWorker(s)
    BY <1>c, <1>d, <2>3 DEF OnePlace, Nowhere, Unsettled, AskedInOrder
  <2>9. \A r \in Sessions \ {s} : NotRunYet(r)'
    BY <1>d, <2>1, <2>5, <2>6, <2>7, StillNotRun DEF Unsettled
  <2>10. NotRunYet(s)'
    BY <1>d, <2>3, <2>7, <2>8 DEF NotRunYet, Unsettled
  <2>11. \A r \in Sessions \ {s} : AskedInOrder(r)'
    BY <1>d, <2>1, <2>2, <2>5, <2>6, <2>7, OrderKept DEF Undisturbed
  <2>12. CASE pc = "report"
    <3>1. AskedInOrder(s)'
      BY <1>d, <2>1, <2>2, <2>4, <2>5, <2>7, <2>12, OrderKept DEF Undisturbed
    <3>2. WorkerKnows' /\ CallsWhileOpen'
      BY <1>d, <2>3, <2>4, <2>5, <2>7, <2>8, <2>12, CarryingPCs DEF WorkerKnows,
         CallsWhileOpen, Open
    <3> QED BY <1>e, <2>9, <2>10, <2>11, <3>1, <3>2
  <2>13. CASE pc = "enqueue"
    <3>1. admission'[s] = "Approved"
      BY <1>a, <2>4, <2>13
    <3>2. \A u \in Threads : ~(th'[u].job = s /\ th'[u].pc = "approve")
      BY <1>c, <2>3, <2>5, <2>13 DEF OnePlace
    <3>3. Heard(s, "PendingApproval") \/ s \in hungup \/ Asking(s)
      BY <1>d, <2>3 DEF AskedInOrder
    <3>4. Asking(s) => ~Heard(s, "PendingApproval")
      BY <1>d DEF AskedInOrder
    <3>5. AskedInOrder(s)'
      BY <2>2, <2>7, <2>8, <3>1, <3>2, <3>3, <3>4 DEF AskedInOrder
    <3>6. WorkerKnows' /\ CallsWhileOpen'
      BY <1>a, <1>d, <2>3, <2>5, <2>6, <2>7, <2>8, <3>1, CarryingPCs DEF WorkerKnows,
         CallsWhileOpen, Open
    <3> QED BY <1>e, <2>9, <2>10, <2>11, <3>5, <3>6
  <2> QED BY <2>12, <2>13
<1>5. ASSUME NEW t \in Callers, NEW i \in Ids, Deny(t, i) PROVE ContractInv'
  <2>1. \A r \in Sessions : InQueue(r)' <=> InQueue(r)
    BY <1>5, QueueSame DEF Deny
  <2>2. \A r \in Sessions : Heard(r, "PendingApproval")' <=> Heard(r, "PendingApproval")
    BY <1>5, Questions, HeardSame DEF Deny
  <2>3. \A r \in Sessions : NotRunYet(r)'
    BY <1>5, <1>a, <1>b, <1>d, <2>1, <2>2, StillNotRun, CarryingPCs DEF Deny, Take, Unsettled
  <2>4. \A r \in Sessions : AskedInOrder(r)'
    BY <1>5, <1>a, <1>b, <1>d, <2>1, <2>2, OrderKept, CarryingPCs DEF Deny, Take, Undisturbed
  <2>5. WorkerKnows' /\ CallsWhileOpen'
    BY <1>5, <1>a, <1>d, <2>1, <2>2, CarryingPCs DEF Deny, Take, WorkerKnows,
       CallsWhileOpen, Open
  <2> QED BY <1>e, <2>3, <2>4, <2>5
<1>6. ASSUME NEW t \in Callers, NEW i \in Ids, Cancel(t, i) PROVE ContractInv'
  <2>1. \A r \in Sessions : InQueue(r)' <=> InQueue(r)
    BY <1>6, QueueSame DEF Cancel
  <2>2. \A r \in Sessions : Heard(r, "PendingApproval")' <=> Heard(r, "PendingApproval")
    BY <1>6, Questions, HeardSame DEF Cancel
  <2>3. UNCHANGED <<queue, admission, session, submitted, hungup, stream, worker, drop>>
    BY <1>6 DEF Cancel
  <2>4. t \in Threads /\ th[t].pc = "idle" /\ \A r \in Sessions : Parked(r)' => Parked(r)
    BY <1>6, <1>a, <1>b, CarryingPCs DEF Cancel
  <2>5. \A u \in Threads \ {t} : th'[u] = th[u]
    BY <1>6, <1>a DEF Cancel, Take
  <2>6. WorkerKnows' /\ CallsWhileOpen'
    BY <1>6, <1>d, <2>3, <2>4, <2>5, CarryingPCs DEF Cancel, WorkerKnows, CallsWhileOpen, Open
  <2>7. CASE pending[i] # None
    <3>1. th'[t].pc = "report" /\ th'[t].job = pending[i] /\ Parked(pending[i])
      BY <1>6, <1>a, <1>b, <2>4, <2>7 DEF Cancel, Take
    <3>2. \A r \in Sessions : NotRunYet(r)'
      BY <1>d, <2>1, <2>3, <2>4, <2>5, <3>1, StillNotRun DEF Unsettled
    <3>3. \A r \in Sessions : AskedInOrder(r)'
      BY <1>d, <2>1, <2>2, <2>3, <2>4, <2>5, <3>1, OrderKept DEF Undisturbed
    <3> QED BY <1>e, <2>6, <3>2, <3>3
  <2>8. CASE pending[i] = None
    <3>1. th'[t].pc = "find"
      <4>1. th' = [th EXCEPT ![t] = [Idle EXCEPT !.pc = "find", !.id = i]]
        BY <1>6, <2>8 DEF Cancel
      <4> QED BY <1>a, <2>4, <4>1 DEF Idle
    <3>2. \A r \in Sessions : NotRunYet(r)'
      BY <1>d, <2>1, <2>3, <2>4, <2>5, <3>1, StillNotRun DEF Unsettled
    <3>3. \A r \in Sessions : AskedInOrder(r)'
      BY <1>d, <2>1, <2>2, <2>3, <2>4, <2>5, <3>1, OrderKept DEF Undisturbed
    <3> QED BY <1>e, <2>6, <3>2, <3>3
  <2> QED BY <2>7, <2>8
<1>7. ASSUME NEW t \in Threads, CancelFind(t) PROVE ContractInv'
  <2>1. \A r \in Sessions : InQueue(r)' <=> InQueue(r)
    BY <1>7, QueueSame DEF CancelFind
  <2>2. \A r \in Sessions : Heard(r, "PendingApproval")' <=> Heard(r, "PendingApproval")
    BY <1>7, Questions, HeardSame DEF CancelFind
  <2>3. UNCHANGED <<queue, pending, admission, session, submitted, hungup, stream, worker, drop>>
    BY <1>7 DEF CancelFind
  <2>4. /\ th[t].pc = "find" /\ th'[t].pc \in {"idle", "flag"}
        /\ \A u \in Threads \ {t} : th'[u] = th[u]
    BY <1>7, <1>a DEF CancelFind, Take, Idle
  <2>5. \A r \in Sessions : NotRunYet(r)'
    BY <1>d, <2>1, <2>3, <2>4, StillNotRun DEF Unsettled
  <2>6. \A r \in Sessions : AskedInOrder(r)'
    BY <1>d, <2>1, <2>2, <2>3, <2>4, OrderKept DEF Undisturbed
  <2>7. WorkerKnows' /\ CallsWhileOpen'
    BY <1>d, <2>3, <2>4, CarryingPCs DEF WorkerKnows, CallsWhileOpen, Open
  <2> QED BY <1>e, <2>5, <2>6, <2>7
<1>8. ASSUME NEW t \in Threads, CancelFlag(t) PROVE ContractInv'
  <2>1. \A r \in Sessions : InQueue(r)' <=> InQueue(r)
    BY <1>8, QueueSame DEF CancelFlag
  <2>2. \A r \in Sessions : Heard(r, "PendingApproval")' <=> Heard(r, "PendingApproval")
    BY <1>8, Questions, HeardSame DEF CancelFlag
  <2>3. \A r \in Sessions : NotRunYet(r)'
    BY <1>8, <1>a, <1>b, <1>d, <2>1, <2>2, StillNotRun, CarryingPCs DEF CancelFlag, Idle,
       Unsettled
  <2>4. \A r \in Sessions : AskedInOrder(r)'
    BY <1>8, <1>a, <1>b, <1>d, <2>1, <2>2, OrderKept, CarryingPCs DEF CancelFlag, Idle,
       Undisturbed
  <2>5. WorkerKnows' /\ CallsWhileOpen'
    BY <1>8, <1>a, <1>d, <2>1, <2>2, CarryingPCs DEF CancelFlag, Idle, WorkerKnows,
       CallsWhileOpen, Open
  <2> QED BY <1>e, <2>3, <2>4, <2>5
<1>9. ASSUME NEW s \in Sessions, HangUp(s) PROVE ContractInv'
  <2>1. \A r \in Sessions : InQueue(r)' <=> InQueue(r)
    BY <1>9, QueueSame DEF HangUp
  <2>2. \A r \in Sessions : Heard(r, "PendingApproval")' <=> Heard(r, "PendingApproval")
    BY <1>9, Questions, HeardSame DEF HangUp
  <2>3. \A r \in Sessions : NotRunYet(r)'
    BY <1>9, <1>a, <1>b, <1>d, <2>1, <2>2, StillNotRun, CarryingPCs DEF HangUp, Unsettled
  <2>4. \A r \in Sessions : AskedInOrder(r)'
    BY <1>9, <1>a, <1>b, <1>d, <2>1, <2>2, OrderKept, CarryingPCs DEF HangUp, Undisturbed
  <2>5. WorkerKnows' /\ CallsWhileOpen'
    BY <1>9, <1>a, <1>d, <2>1, <2>2, CarryingPCs DEF HangUp, WorkerKnows, CallsWhileOpen, Open
  <2> QED BY <1>e, <2>3, <2>4, <2>5
<1>10. ASSUME NEW t \in Threads, CloseReport(t) PROVE ContractInv'
  <2>1. \A r \in Sessions : InQueue(r)' <=> InQueue(r)
    BY <1>10, QueueSame DEF CloseReport
  <2>2. PICK s \in Sessions : s = th[t].job /\ Signal(s, th[t].why) \in Signals
    BY <1>10, <1>a, <1>b, <1>c, <1>d, CarryOK, CarryingPCs, EndingTypes DEF CloseReport
  <2>3. \A r \in Sessions \ {s} : stream'[r] = stream[r]
    BY <1>10, <1>a, <1>b, <1>c, <1>d, <2>2, Questions, SendHeard DEF CloseReport
  <2>4. Signal(s, th[t].why) # "PendingApproval"
    BY <1>10, <1>a, <1>b, <1>c, <1>d, <2>2, CarryOK, CarryingPCs DEF CloseReport, Signal,
       Verdicts, Endings, Outcomes
  <2>5. \A r \in Sessions : Heard(r, "PendingApproval")' <=> Heard(r, "PendingApproval")
    BY <1>10, <1>a, <1>b, <1>c, <1>d, <2>1, <2>2, <2>3, <2>4, Questions, SendHeard
       DEF CloseReport
  <2>6. \A r \in Sessions : NotRunYet(r)'
    BY <1>10, <1>a, <1>b, <1>c, <1>d, <2>1, <2>2, <2>3, <2>4, <2>5, CarryOK, CarryingPCs
       DEF CloseReport, Take, Move, Work, Idle, Rest, NotRunYet, Unsettled, OnePlace,
       Nowhere
  <2>7. \A r \in Sessions : AskedInOrder(r)'
    BY <1>10, <1>a, <1>b, <1>d, <2>1, <2>2, <2>3, <2>4, <2>5, OrderKept, CarryingPCs
       DEF CloseReport, Move, Undisturbed
  <2>8. WorkerKnows' /\ CallsWhileOpen'
    BY <1>10, <1>a, <1>d, <2>1, <2>2, <2>3, <2>4, <2>5, CarryingPCs DEF CloseReport, Move,
       WorkerKnows, CallsWhileOpen, Open
  <2> QED BY <1>e, <2>6, <2>7, <2>8
<1>11. ASSUME NEW t \in Threads, CloseRecord(t) PROVE ContractInv'
  <2>1. \A r \in Sessions : InQueue(r)' <=> InQueue(r)
    BY <1>11, QueueSame DEF CloseRecord
  <2>2. \A r \in Sessions : Heard(r, "PendingApproval")' <=> Heard(r, "PendingApproval")
    BY <1>11, Questions, HeardSame DEF CloseRecord
  <2>3. \A r \in Sessions : NotRunYet(r)'
    BY <1>11, <1>a, <1>b, <1>d, <2>1, <2>2, StillNotRun, CarryingPCs DEF CloseRecord, Move,
       Unsettled
  <2>4. \A r \in Sessions : AskedInOrder(r)'
    BY <1>11, <1>a, <1>b, <1>d, <2>1, <2>2, OrderKept, CarryingPCs DEF CloseRecord, Move,
       Undisturbed
  <2>5. WorkerKnows' /\ CallsWhileOpen'
    BY <1>11, <1>a, <1>d, <2>1, <2>2, CarryingPCs DEF CloseRecord, Move, WorkerKnows,
       CallsWhileOpen, Open
  <2> QED BY <1>e, <2>3, <2>4, <2>5
<1>12. ASSUME NEW t \in Threads, CloseRelease(t) PROVE ContractInv'
  <2>1. \A r \in Sessions : InQueue(r)' <=> InQueue(r)
    BY <1>12, QueueSame DEF CloseRelease
  <2>2. \A r \in Sessions : Heard(r, "PendingApproval")' <=> Heard(r, "PendingApproval")
    BY <1>12, Questions, HeardSame DEF CloseRelease
  <2>3. \A r \in Sessions : NotRunYet(r)'
    BY <1>12, <1>a, <1>b, <1>d, <2>1, <2>2, StillNotRun, CarryingPCs DEF CloseRelease, Idle,
       Unsettled
  <2>4. \A r \in Sessions : AskedInOrder(r)'
    BY <1>12, <1>a, <1>b, <1>d, <2>1, <2>2, OrderKept, CarryingPCs DEF CloseRelease, Idle,
       Undisturbed
  <2>5. WorkerKnows' /\ CallsWhileOpen'
    BY <1>12, <1>a, <1>d, <2>1, <2>2, CarryingPCs DEF CloseRelease, Idle, WorkerKnows,
       CallsWhileOpen, Open
  <2> QED BY <1>e, <2>3, <2>4, <2>5
<1>13. ASSUME WorkerRecv PROVE ContractInv'
  <2>1. PICK s \in Sessions : s = Head(queue)
    BY <1>13, <1>a, <1>b, <1>c, <1>d, QueueType DEF WorkerRecv, TypeInv, TypeOK
  <2>2. InQueue(s) /\ \A r \in Sessions : InQueue(r)' => InQueue(r) /\ r # s
    BY <1>13, <1>a, <1>b, <1>c, <1>d, <2>1, Dequeueing DEF WorkerRecv
  <2>3. \A r \in Sessions : Heard(r, "PendingApproval")' <=> Heard(r, "PendingApproval")
    BY <1>13, Questions, HeardSame DEF WorkerRecv
  <2>4. \A r \in Sessions : NotRunYet(r)'
    BY <1>13, <1>a, <1>b, <1>d, <2>1, <2>2, <2>3, StillNotRun, CarryingPCs DEF WorkerRecv,
       Rest, Unsettled
  <2>5. \A r \in Sessions : AskedInOrder(r)'
    BY <1>13, <1>a, <1>b, <1>c, <1>d, <2>1, <2>2, <2>3, CarryOK, CarryingPCs
       DEF WorkerRecv, Take, Move, Work, Idle, Rest, AskedInOrder, OnePlace, Nowhere,
       Unsettled, NotRunYet
  <2>6. WorkerKnows' /\ CallsWhileOpen'
    BY <1>13, <1>a, <1>b, <1>c, <1>d, <2>1, <2>2, <2>3, CarryOK, CarryingPCs
       DEF WorkerRecv, Take, Move, Work, Idle, Rest, WorkerKnows, CallsWhileOpen, Open,
       AskedInOrder, NotRunYet, Nowhere, Unsettled
  <2> QED BY <1>e, <2>4, <2>5, <2>6
<1>14. ASSUME WorkerExit PROVE ContractInv'
  <2>1. \A r \in Sessions : InQueue(r)' <=> InQueue(r)
    BY <1>14, QueueSame DEF WorkerExit
  <2>2. \A r \in Sessions : Heard(r, "PendingApproval")' <=> Heard(r, "PendingApproval")
    BY <1>14, Questions, HeardSame DEF WorkerExit
  <2>3. \A r \in Sessions : NotRunYet(r)'
    BY <1>14, <1>a, <1>b, <1>d, <2>1, <2>2, StillNotRun, CarryingPCs DEF WorkerExit, Work,
       Unsettled
  <2>4. \A r \in Sessions : AskedInOrder(r)'
    BY <1>14, <1>a, <1>b, <1>d, <2>1, <2>2, OrderKept, CarryingPCs DEF WorkerExit, Work,
       Undisturbed
  <2>5. WorkerKnows' /\ CallsWhileOpen'
    BY <1>14, <1>a, <1>d, <2>1, <2>2, CarryingPCs DEF WorkerExit, Work, WorkerKnows,
       CallsWhileOpen, Open
  <2> QED BY <1>e, <2>3, <2>4, <2>5
<1>15. ASSUME WorkerLookup PROVE ContractInv'
  <2>1. \A r \in Sessions : InQueue(r)' <=> InQueue(r)
    BY <1>15, QueueSame DEF WorkerLookup
  <2>2. \A r \in Sessions : Heard(r, "PendingApproval")' <=> Heard(r, "PendingApproval")
    BY <1>15, Questions, HeardSame DEF WorkerLookup
  <2>3. PICK s \in Sessions : s = worker.job
    BY <1>15, <1>a, <1>b, <1>c, <1>d DEF WorkerLookup
  <2>4. worker'.job = s /\ worker'.pc \in {"lost", "park", "start"} /\ worker'.end = worker.end
    BY <1>15, <1>a, <1>b, <1>c, <1>d, <2>3 DEF WorkerLookup
  <2>5. HasRun(s)' => HasRun(s)
    BY <1>15, <1>a, <1>b, <1>c, <1>d, <2>3 DEF WorkerLookup, Accept, After, Accepted, Lifecycles
  <2>6. \A r \in Sessions : r # s => session'[r] = session[r]
    BY <1>15, <1>a, <1>b, <1>c, <1>d, <2>3 DEF WorkerLookup
  <2>7. \A r \in Sessions : NotRunYet(r)'
    BY <1>15, <1>a, <1>b, <1>c, <1>d, <2>1, <2>2, <2>3, <2>4, <2>5, <2>6, CarryOK,
       CarryingPCs DEF WorkerLookup, Take, Move, Work, Idle, Rest, NotRunYet, Unsettled,
       OnePlace, Nowhere
  <2>8. \A r \in Sessions : AskedInOrder(r)'
    BY <1>15, <1>a, <1>b, <1>d, <2>1, <2>2, <2>3, <2>4, <2>5, <2>6, OrderKept, CarryingPCs
       DEF WorkerLookup, Undisturbed
  <2>9. WorkerKnows' /\ CallsWhileOpen'
    BY <1>15, <1>a, <1>d, <2>1, <2>2, <2>3, <2>4, <2>5, <2>6, CarryingPCs DEF WorkerLookup,
       WorkerKnows, CallsWhileOpen, Open
  <2> QED BY <1>e, <2>7, <2>8, <2>9
<1>16. ASSUME WorkerLost PROVE ContractInv'
  <2>1. \A r \in Sessions : InQueue(r)' <=> InQueue(r)
    BY <1>16, QueueSame DEF WorkerLost
  <2>2. PICK s \in Sessions : s = worker.job
    BY <1>16, <1>a, <1>b, <1>c, <1>d DEF WorkerLost
  <2>3. \A r \in Sessions \ {s} : stream'[r] = stream[r]
    BY <1>16, <1>a, <1>b, <1>c, <1>d, <2>2, Questions, SendHeard DEF WorkerLost
  <2>4. \A r \in Sessions : Heard(r, "PendingApproval")' <=> Heard(r, "PendingApproval")
    BY <1>16, <1>a, <1>b, <1>c, <1>d, <2>1, <2>2, <2>3, Questions, SendHeard DEF WorkerLost
  <2>5. \A r \in Sessions : NotRunYet(r)'
    BY <1>16, <1>a, <1>b, <1>c, <1>d, <2>1, <2>2, <2>3, <2>4, CarryOK, CarryingPCs
       DEF WorkerLost, Take, Move, Work, Idle, Rest, NotRunYet, Unsettled, OnePlace, Nowhere
  <2>6. \A r \in Sessions : AskedInOrder(r)'
    BY <1>16, <1>a, <1>b, <1>d, <2>1, <2>2, <2>3, <2>4, OrderKept, CarryingPCs
       DEF WorkerLost, Work, Undisturbed
  <2>7. WorkerKnows' /\ CallsWhileOpen'
    BY <1>16, <1>a, <1>d, <2>1, <2>2, <2>3, <2>4, CarryingPCs DEF WorkerLost, Work,
       WorkerKnows, CallsWhileOpen, Open
  <2> QED BY <1>e, <2>5, <2>6, <2>7
<1>17. ASSUME WorkerPark PROVE ContractInv'
  <2>1. \A r \in Sessions : InQueue(r)' <=> InQueue(r)
    BY <1>17, QueueSame DEF WorkerPark
  <2>2. \A r \in Sessions : Heard(r, "PendingApproval")' <=> Heard(r, "PendingApproval")
    BY <1>17, Questions, HeardSame DEF WorkerPark
  <2>3. PICK s \in Sessions : s = worker.job /\ AtWorker(s) /\ worker.pc = "park"
    BY <1>17, <1>b DEF WorkerPark
  <2>4. UNCHANGED <<queue, th, admission, session, submitted, hungup, stream, drop>>
    BY <1>17 DEF WorkerPark
  <2>5. worker'.pc = "notify" /\ worker'.job = s
    BY <1>17, <1>a, <2>3 DEF WorkerPark, Work
  <2>6. Parked(s)' /\ \A r \in Sessions \ {s} : Parked(r)' => Parked(r)
    BY <1>17, <1>a, <1>b, <2>3 DEF WorkerPark
  <2>7. Undecided(s) /\ s \in submitted
    BY <1>d, <2>3 DEF WorkerKnows
  <2>8. \A r \in Sessions \ {s} : NotRunYet(r)'
    BY <1>d, <2>1, <2>3, <2>4, <2>5, <2>6, StillNotRun DEF Unsettled
  <2>9. NotRunYet(s)'
    BY <1>d, <2>3, <2>4, <2>7 DEF NotRunYet, Unsettled
  <2>10. \A r \in Sessions \ {s} : AskedInOrder(r)'
    BY <1>d, <2>1, <2>2, <2>3, <2>4, <2>5, <2>6, OrderKept DEF Undisturbed
  <2>11. AskedInOrder(s)'
    BY <1>c, <1>d, <2>1, <2>2, <2>3, <2>4, <2>5, <2>6, <2>7 DEF AskedInOrder, OnePlace
  <2>12. WorkerKnows' /\ CallsWhileOpen'
    BY <1>d, <2>4, <2>5, <2>7 DEF WorkerKnows, CallsWhileOpen, Open
  <2> QED BY <1>e, <2>8, <2>9, <2>10, <2>11, <2>12
<1>18. ASSUME WorkerNotify PROVE ContractInv'
  <2>1. \A r \in Sessions : InQueue(r)' <=> InQueue(r)
    BY <1>18, QueueSame DEF WorkerNotify
  <2>2. PICK s \in Sessions : s = worker.job /\ worker.pc = "notify"
    BY <1>18, <1>b DEF WorkerNotify
  <2>3. /\ \A r \in Sessions \ {s} : stream'[r] = stream[r]
        /\ \A r \in Sessions : Heard(r, "PendingApproval")'
                                 <=> Heard(r, "PendingApproval") \/ (r = s /\ s \notin hungup)
    BY <1>18, <2>2, Questions, SendHeard DEF WorkerNotify
  <2>4. UNCHANGED <<queue, th, pending, admission, session, submitted, hungup, drop>>
    BY <1>18 DEF WorkerNotify
  <2>5. \/ s \in hungup /\ worker'.pc = "unpark" /\ worker'.job = s
        \/ s \notin hungup /\ worker'.pc = "recv" /\ worker'.job = None
    BY <1>18, <1>a, <2>2 DEF WorkerNotify, Rest
  <2>6. s \in submitted /\ s \in Risky /\ (HasRun(s) => ~Unsettled(s))
    BY <1>d, <2>2 DEF WorkerKnows, NotRunYet
  <2>7. \A r \in Sessions : Unsettled(r)' <=> Unsettled(r)
    BY <2>1, <2>2, <2>4, <2>5 DEF Unsettled
  <2>8. \A r \in Sessions \ {s} : NotRunYet(r)'
    BY <1>d, <2>2, <2>3, <2>4, <2>7, StillNotRun
  <2>9. NotRunYet(s)'
    BY <2>4, <2>6, <2>7 DEF NotRunYet
  <2>10. \A r \in Sessions \ {s} : AskedInOrder(r)'
    BY <1>d, <2>1, <2>2, <2>3, <2>4, <2>5, OrderKept DEF Undisturbed
  <2>11. AskedInOrder(s)'
    <3>1. Heard(s, "PendingApproval")' \/ s \in hungup'
      BY <2>2, <2>3, <2>4
    <3>2. worker'.pc \notin {"notify", "lookup", "park"}
      BY <2>5
    <3> QED BY <1>c, <1>d, <2>1, <2>2, <2>3, <2>4, <2>5, <3>1, <3>2 DEF AskedInOrder
  <2>12. WorkerKnows' /\ CallsWhileOpen'
    BY <1>d, <2>4, <2>5, <2>6 DEF WorkerKnows, CallsWhileOpen, Open
  <2> QED BY <1>e, <2>8, <2>9, <2>10, <2>11, <2>12
<1>19. ASSUME WorkerUnpark PROVE ContractInv'
  <2>1. \A r \in Sessions : InQueue(r)' <=> InQueue(r)
    BY <1>19, QueueSame DEF WorkerUnpark
  <2>2. \A r \in Sessions : Heard(r, "PendingApproval")' <=> Heard(r, "PendingApproval")
    BY <1>19, Questions, HeardSame DEF WorkerUnpark
  <2>3. \A r \in Sessions : NotRunYet(r)'
    BY <1>19, <1>a, <1>b, <1>d, <2>1, <2>2, StillNotRun, CarryingPCs DEF WorkerUnpark, Work,
       Unsettled
  <2>4. \A r \in Sessions : AskedInOrder(r)'
    BY <1>19, <1>a, <1>b, <1>d, <2>1, <2>2, OrderKept, CarryingPCs DEF WorkerUnpark, Work,
       Undisturbed
  <2>5. WorkerKnows' /\ CallsWhileOpen'
    BY <1>19, <1>a, <1>d, <2>1, <2>2, CarryingPCs DEF WorkerUnpark, Work, WorkerKnows,
       CallsWhileOpen, Open
  <2> QED BY <1>e, <2>3, <2>4, <2>5
<1>20. ASSUME WorkerStart PROVE ContractInv'
  <2>1. \A r \in Sessions : InQueue(r)' <=> InQueue(r)
    BY <1>20, QueueSame DEF WorkerStart
  <2>2. \A r \in Sessions : Heard(r, "PendingApproval")' <=> Heard(r, "PendingApproval")
    BY <1>20, Questions, HeardSame DEF WorkerStart
  <2>3. PICK s \in Sessions : s = worker.job /\ AtWorker(s) /\ worker.pc = "start"
    BY <1>20, <1>b DEF WorkerStart
  <2>4. UNCHANGED <<queue, th, pending, admission, submitted, hungup, stream, drop>>
    BY <1>20 DEF WorkerStart
  <2>5. /\ worker'.pc \in {"report", "begin"} /\ worker'.job = s
        /\ worker'.pc = "report" => worker'.end = "Cancelled"
        /\ worker'.pc = "begin" => session' = session
        /\ \A r \in Sessions \ {s} : session'[r] = session[r]
    BY <1>20, <1>a, <2>3 DEF WorkerStart, Work
  <2>6. s \in submitted /\ ~Undecided(s) /\ ~HasRun(s)
    BY <1>d, <2>3 DEF WorkerKnows, NotRunYet, Unsettled
  <2>7. \A r \in Sessions \ {s} : NotRunYet(r)'
    BY <1>d, <2>1, <2>3, <2>4, <2>5, StillNotRun DEF Unsettled
  <2>8. NotRunYet(s)'
    BY <2>4, <2>5, <2>6 DEF NotRunYet
  <2>9. \A r \in Sessions : AskedInOrder(r)'
    BY <1>d, <2>1, <2>2, <2>3, <2>4, <2>5, OrderKept DEF Undisturbed
  <2>10. WorkerKnows' /\ CallsWhileOpen'
    BY <1>d, <2>4, <2>5, <2>6 DEF WorkerKnows, CallsWhileOpen, Open
  <2> QED BY <1>e, <2>7, <2>8, <2>9, <2>10
<1>21. ASSUME WorkerBegin PROVE ContractInv'
  <2>1. \A r \in Sessions : InQueue(r)' <=> InQueue(r)
    BY <1>21, QueueSame DEF WorkerBegin
  <2>2. PICK s \in Sessions : s = worker.job
    BY <1>21, <1>a, <1>b, <1>c, <1>d DEF WorkerBegin
  <2>3. \A r \in Sessions \ {s} : stream'[r] = stream[r]
    BY <1>21, <1>a, <1>b, <1>c, <1>d, <2>2, Questions, SendHeard DEF WorkerBegin
  <2>4. \A r \in Sessions : Heard(r, "PendingApproval")' <=> Heard(r, "PendingApproval")
    BY <1>21, <1>a, <1>b, <1>c, <1>d, <2>2, Questions, SendHeard, HeardSame DEF WorkerBegin
  <2>5. \A r \in Sessions : NotRunYet(r)'
    BY <1>21, <1>a, <1>b, <1>c, <1>d, <2>1, <2>2, <2>3, <2>4, CarryOK, CarryingPCs
       DEF WorkerBegin, Take, Move, Work, Idle, Rest, NotRunYet, Unsettled, OnePlace,
       Nowhere
  <2>6. \A r \in Sessions : AskedInOrder(r)'
    BY <1>21, <1>a, <1>b, <1>d, <2>1, <2>2, <2>3, <2>4, OrderKept, CarryingPCs
       DEF WorkerBegin, Undisturbed
  <2>7. WorkerKnows' /\ CallsWhileOpen'
    BY <1>21, <1>a, <1>b, <1>c, <1>d, <2>1, <2>2, <2>3, <2>4, CarryOK, CarryingPCs
       DEF WorkerBegin, Take, Move, Work, Idle, Rest, WorkerKnows, CallsWhileOpen, Open,
       AskedInOrder, NotRunYet, Accept, After, Accepted, Lifecycles, Unsettled, Nowhere
  <2> QED BY <1>e, <2>5, <2>6, <2>7
<1>22. ASSUME NEW end \in {"Completed", "Cancelled", "Failed", "Panicked"}, WorkerRun(end) PROVE ContractInv'
  <2>1. \A r \in Sessions : InQueue(r)' <=> InQueue(r)
    BY <1>22, QueueSame DEF WorkerRun
  <2>2. \A r \in Sessions : Heard(r, "PendingApproval")' <=> Heard(r, "PendingApproval")
    BY <1>22, Questions, HeardSame DEF WorkerRun
  <2>3. \A r \in Sessions : NotRunYet(r)'
    BY <1>22, <1>a, <1>b, <1>c, <1>d, <2>1, <2>2, CarryOK, CarryingPCs DEF WorkerRun, Take,
       Move, Work, Idle, Rest, NotRunYet, Unsettled, OnePlace, Nowhere
  <2>4. \A r \in Sessions : AskedInOrder(r)'
    BY <1>22, <1>a, <1>b, <1>d, <2>1, <2>2, OrderKept, CarryingPCs DEF WorkerRun, Undisturbed
  <2>5. WorkerKnows' /\ CallsWhileOpen'
    BY <1>22, <1>a, <1>b, <1>c, <1>d, <2>1, <2>2, CarryOK, CarryingPCs DEF WorkerRun, Take,
       Move, Work, Idle, Rest, WorkerKnows, CallsWhileOpen, Open, AskedInOrder, NotRunYet,
       Accept, After, Accepted, Lifecycles
  <2> QED BY <1>e, <2>3, <2>4, <2>5
<1>23. ASSUME WorkerReport PROVE ContractInv'
  <2>1. \A r \in Sessions : InQueue(r)' <=> InQueue(r)
    BY <1>23, QueueSame DEF WorkerReport
  <2>2. PICK s \in Sessions : s = worker.job /\ Signal(s, worker.end) \in Signals
    BY <1>23, <1>a, <1>b, <1>c, <1>d, EndingTypes DEF WorkerReport
  <2>3. \A r \in Sessions \ {s} : stream'[r] = stream[r]
    BY <1>23, <1>a, <1>b, <1>c, <1>d, <2>2, Questions, SendHeard DEF WorkerReport
  <2>4. Signal(s, worker.end) # "PendingApproval"
    BY <1>23, <1>a, <1>b, <1>c, <1>d, <2>2, CarryOK, CarryingPCs DEF WorkerReport, Signal,
       Verdicts, Endings, Outcomes
  <2>5. \A r \in Sessions : Heard(r, "PendingApproval")' <=> Heard(r, "PendingApproval")
    BY <1>23, <1>a, <1>b, <1>c, <1>d, <2>1, <2>2, <2>3, <2>4, Questions, SendHeard
       DEF WorkerReport
  <2>6. \A r \in Sessions : NotRunYet(r)'
    BY <1>23, <1>a, <1>b, <1>c, <1>d, <2>1, <2>2, <2>3, <2>4, <2>5, CarryOK, CarryingPCs
       DEF WorkerReport, Take, Move, Work, Idle, Rest, NotRunYet, Unsettled, OnePlace,
       Nowhere
  <2>7. \A r \in Sessions : AskedInOrder(r)'
    BY <1>23, <1>a, <1>b, <1>d, <2>1, <2>2, <2>3, <2>4, <2>5, OrderKept, CarryingPCs
       DEF WorkerReport, Work, Undisturbed
  <2>8. WorkerKnows' /\ CallsWhileOpen'
    BY <1>23, <1>a, <1>d, <2>1, <2>2, <2>3, <2>4, <2>5, CarryingPCs DEF WorkerReport, Work,
       WorkerKnows, CallsWhileOpen, Open
  <2> QED BY <1>e, <2>6, <2>7, <2>8
<1>24. ASSUME WorkerRecord PROVE ContractInv'
  <2>1. \A r \in Sessions : InQueue(r)' <=> InQueue(r)
    BY <1>24, QueueSame DEF WorkerRecord
  <2>2. \A r \in Sessions : Heard(r, "PendingApproval")' <=> Heard(r, "PendingApproval")
    BY <1>24, Questions, HeardSame DEF WorkerRecord
  <2>3. \A r \in Sessions : NotRunYet(r)'
    BY <1>24, <1>a, <1>b, <1>d, <2>1, <2>2, StillNotRun, CarryingPCs DEF WorkerRecord, Work,
       Unsettled
  <2>4. \A r \in Sessions : AskedInOrder(r)'
    BY <1>24, <1>a, <1>b, <1>d, <2>1, <2>2, OrderKept, CarryingPCs DEF WorkerRecord, Work,
       Undisturbed
  <2>5. WorkerKnows' /\ CallsWhileOpen'
    BY <1>24, <1>a, <1>d, <2>1, <2>2, CarryingPCs DEF WorkerRecord, Work, WorkerKnows,
       CallsWhileOpen, Open
  <2> QED BY <1>e, <2>3, <2>4, <2>5
<1>25. ASSUME WorkerRelease PROVE ContractInv'
  <2>1. \A r \in Sessions : InQueue(r)' <=> InQueue(r)
    BY <1>25, QueueSame DEF WorkerRelease
  <2>2. \A r \in Sessions : Heard(r, "PendingApproval")' <=> Heard(r, "PendingApproval")
    BY <1>25, Questions, HeardSame DEF WorkerRelease
  <2>3. \A r \in Sessions : NotRunYet(r)'
    BY <1>25, <1>a, <1>b, <1>d, <2>1, <2>2, StillNotRun, CarryingPCs DEF WorkerRelease,
       Rest, Unsettled
  <2>4. \A r \in Sessions : AskedInOrder(r)'
    BY <1>25, <1>a, <1>b, <1>d, <2>1, <2>2, OrderKept, CarryingPCs DEF WorkerRelease, Rest,
       Undisturbed
  <2>5. WorkerKnows' /\ CallsWhileOpen'
    BY <1>25, <1>a, <1>d, <2>1, <2>2, CarryingPCs DEF WorkerRelease, Rest, WorkerKnows,
       CallsWhileOpen, Open
  <2> QED BY <1>e, <2>3, <2>4, <2>5
<1>26. ASSUME NEW s \in Sessions, DeadlinePasses(s) PROVE ContractInv'
  <2>1. \A r \in Sessions : InQueue(r)' <=> InQueue(r)
    BY <1>26, QueueSame DEF DeadlinePasses
  <2>2. \A r \in Sessions : Heard(r, "PendingApproval")' <=> Heard(r, "PendingApproval")
    BY <1>26, Questions, HeardSame DEF DeadlinePasses
  <2>3. \A r \in Sessions : NotRunYet(r)'
    BY <1>26, <1>a, <1>b, <1>d, <2>1, <2>2, StillNotRun, CarryingPCs DEF DeadlinePasses,
       Unsettled
  <2>4. \A r \in Sessions : AskedInOrder(r)'
    BY <1>26, <1>a, <1>b, <1>d, <2>1, <2>2, OrderKept, CarryingPCs DEF DeadlinePasses,
       Undisturbed
  <2>5. WorkerKnows' /\ CallsWhileOpen'
    BY <1>26, <1>a, <1>d, <2>1, <2>2, CarryingPCs DEF DeadlinePasses, WorkerKnows,
       CallsWhileOpen, Open
  <2> QED BY <1>e, <2>3, <2>4, <2>5
<1>27. ASSUME SweepNext PROVE ContractInv'
  <2>1. \A r \in Sessions : InQueue(r)' <=> InQueue(r)
    BY <1>27, QueueSame DEF SweepNext
  <2>2. \A r \in Sessions : Heard(r, "PendingApproval")' <=> Heard(r, "PendingApproval")
    BY <1>27, Questions, HeardSame DEF SweepNext
  <2>3. \A r \in Sessions : NotRunYet(r)'
    BY <1>27, <1>a, <1>b, <1>d, <2>1, <2>2, StillNotRun, CarryingPCs DEF SweepNext, Move,
       Unsettled
  <2>4. \A r \in Sessions : AskedInOrder(r)'
    BY <1>27, <1>a, <1>b, <1>d, <2>1, <2>2, OrderKept, CarryingPCs DEF SweepNext, Move,
       Undisturbed
  <2>5. WorkerKnows' /\ CallsWhileOpen'
    BY <1>27, <1>a, <1>d, <2>1, <2>2, CarryingPCs DEF SweepNext, Move, WorkerKnows,
       CallsWhileOpen, Open
  <2> QED BY <1>e, <2>3, <2>4, <2>5
<1>28. ASSUME SweepScan PROVE ContractInv'
  <2>1. \A r \in Sessions : InQueue(r)' <=> InQueue(r)
    BY <1>28, QueueSame DEF SweepScan
  <2>2. \A r \in Sessions : Heard(r, "PendingApproval")' <=> Heard(r, "PendingApproval")
    BY <1>28, Questions, HeardSame DEF SweepScan
  <2>3. \A r \in Sessions : NotRunYet(r)'
    BY <1>28, <1>a, <1>b, <1>d, <2>1, <2>2, StillNotRun, CarryingPCs DEF SweepScan, Move,
       Unsettled
  <2>4. \A r \in Sessions : AskedInOrder(r)'
    BY <1>28, <1>a, <1>b, <1>d, <2>1, <2>2, OrderKept, CarryingPCs DEF SweepScan, Move,
       Undisturbed
  <2>5. WorkerKnows' /\ CallsWhileOpen'
    BY <1>28, <1>a, <1>d, <2>1, <2>2, CarryingPCs DEF SweepScan, Move, WorkerKnows,
       CallsWhileOpen, Open
  <2> QED BY <1>e, <2>3, <2>4, <2>5
<1>29. ASSUME NEW i \in Ids, SweepTake(i) PROVE ContractInv'
  <2>1. \A r \in Sessions : InQueue(r)' <=> InQueue(r)
    BY <1>29, QueueSame DEF SweepTake
  <2>2. \A r \in Sessions : Heard(r, "PendingApproval")' <=> Heard(r, "PendingApproval")
    BY <1>29, Questions, HeardSame DEF SweepTake
  <2>3. UNCHANGED <<queue, admission, session, submitted, hungup, stream, worker, drop>>
    BY <1>29 DEF SweepTake
  <2>4. th[Sweeper].pc = "idle" /\ \A r \in Sessions : Parked(r)' => Parked(r)
    BY <1>29, <1>a, <1>b DEF SweepTake
  <2>5. \A u \in Threads \ {Sweeper} : th'[u] = th[u]
    BY <1>29, <1>a DEF SweepTake, Take
  <2>6. WorkerKnows' /\ CallsWhileOpen'
    BY <1>d, <2>3, <2>5, CarryingPCs DEF WorkerKnows, CallsWhileOpen, Open
  <2>7. CASE pending[i] # None
    <3>1. th'[Sweeper].pc = "report" /\ th'[Sweeper].job = pending[i] /\ Parked(pending[i])
      BY <1>29, <1>a, <1>b, <2>7, CarryingPCs DEF SweepTake, Take
    <3>2. \A r \in Sessions : NotRunYet(r)'
      BY <1>d, <2>1, <2>3, <2>4, <2>5, <3>1, StillNotRun DEF Unsettled
    <3>3. \A r \in Sessions : AskedInOrder(r)'
      BY <1>d, <2>1, <2>2, <2>3, <2>4, <2>5, <3>1, OrderKept DEF Undisturbed
    <3> QED BY <1>e, <2>6, <3>2, <3>3
  <2>8. CASE pending[i] = None
    <3>1. th' = th
      BY <1>29, <2>8 DEF SweepTake
    <3>2. \A r \in Sessions : NotRunYet(r)'
      BY <1>d, <2>1, <2>3, <2>4, <3>1, StillNotRun DEF Unsettled
    <3>3. \A r \in Sessions : AskedInOrder(r)'
      BY <1>d, <2>1, <2>2, <2>3, <2>4, <3>1, OrderKept DEF Undisturbed
    <3> QED BY <1>e, <2>6, <3>2, <3>3
  <2> QED BY <2>7, <2>8
<1>30. ASSUME DropStop PROVE ContractInv'
  <2>1. \A r \in Sessions : InQueue(r)' <=> InQueue(r)
    BY <1>30, QueueSame DEF DropStop
  <2>2. \A r \in Sessions : Heard(r, "PendingApproval")' <=> Heard(r, "PendingApproval")
    BY <1>30, Questions, HeardSame DEF DropStop
  <2>3. \A r \in Sessions : NotRunYet(r)'
    BY <1>30, <1>a, <1>b, <1>d, <2>1, <2>2, StillNotRun, CarryingPCs DEF DropStop, Unsettled
  <2>4. \A r \in Sessions : AskedInOrder(r)'
    BY <1>30, <1>a, <1>b, <1>d, <2>1, <2>2, OrderKept, CarryingPCs DEF DropStop, Undisturbed
  <2>5. WorkerKnows' /\ CallsWhileOpen'
    BY <1>30, <1>a, <1>d, <2>1, <2>2, CarryingPCs DEF DropStop, WorkerKnows, CallsWhileOpen,
       Open
  <2> QED BY <1>e, <2>3, <2>4, <2>5
<1>31. ASSUME DropCancel PROVE ContractInv'
  <2>1. \A r \in Sessions : InQueue(r)' <=> InQueue(r)
    BY <1>31, QueueSame DEF DropCancel
  <2>2. \A r \in Sessions : Heard(r, "PendingApproval")' <=> Heard(r, "PendingApproval")
    BY <1>31, Questions, HeardSame DEF DropCancel
  <2>3. \A r \in Sessions : NotRunYet(r)'
    BY <1>31, <1>a, <1>b, <1>d, <2>1, <2>2, StillNotRun, CarryingPCs DEF DropCancel, Unsettled
  <2>4. \A r \in Sessions : AskedInOrder(r)'
    BY <1>31, <1>a, <1>b, <1>d, <2>1, <2>2, OrderKept, CarryingPCs DEF DropCancel, Undisturbed
  <2>5. WorkerKnows' /\ CallsWhileOpen'
    BY <1>31, <1>a, <1>d, <2>1, <2>2, CarryingPCs DEF DropCancel, WorkerKnows,
       CallsWhileOpen, Open
  <2> QED BY <1>e, <2>3, <2>4, <2>5
<1>32. ASSUME DropClose PROVE ContractInv'
  <2>1. \A r \in Sessions : InQueue(r)' <=> InQueue(r)
    BY <1>32, QueueSame DEF DropClose
  <2>2. \A r \in Sessions : Heard(r, "PendingApproval")' <=> Heard(r, "PendingApproval")
    BY <1>32, Questions, HeardSame DEF DropClose
  <2>3. \A r \in Sessions : NotRunYet(r)'
    BY <1>32, <1>a, <1>b, <1>d, <2>1, <2>2, StillNotRun, CarryingPCs DEF DropClose, Unsettled
  <2>4. \A r \in Sessions : AskedInOrder(r)'
    BY <1>32, <1>a, <1>b, <1>d, <2>1, <2>2, OrderKept, CarryingPCs DEF DropClose, Undisturbed
  <2>5. WorkerKnows' /\ CallsWhileOpen'
    BY <1>32, <1>a, <1>d, <2>1, <2>2, CarryingPCs DEF DropClose, WorkerKnows,
       CallsWhileOpen, Open
  <2> QED BY <1>e, <2>3, <2>4, <2>5
<1>33. ASSUME DropJoin PROVE ContractInv'
  <2>1. \A r \in Sessions : InQueue(r)' <=> InQueue(r)
    BY <1>33, QueueSame DEF DropJoin
  <2>2. \A r \in Sessions : Heard(r, "PendingApproval")' <=> Heard(r, "PendingApproval")
    BY <1>33, Questions, HeardSame DEF DropJoin
  <2>3. \A r \in Sessions : NotRunYet(r)'
    BY <1>33, <1>a, <1>b, <1>d, <2>1, <2>2, StillNotRun, CarryingPCs DEF DropJoin, Unsettled
  <2>4. \A r \in Sessions : AskedInOrder(r)'
    BY <1>33, <1>a, <1>b, <1>d, <2>1, <2>2, OrderKept, CarryingPCs DEF DropJoin, Undisturbed
  <2>5. WorkerKnows' /\ CallsWhileOpen'
    BY <1>33, <1>a, <1>d, <2>1, <2>2, CarryingPCs DEF DropJoin, WorkerKnows, CallsWhileOpen,
       Open
  <2> QED BY <1>e, <2>3, <2>4, <2>5
<1>40. ASSUME WorkerParkFails PROVE ContractInv'
  <2>1. \A r \in Sessions : InQueue(r)' <=> InQueue(r)
    BY <1>40, QueueSame DEF WorkerParkFails
  <2>2. \A r \in Sessions : Heard(r, "PendingApproval")' <=> Heard(r, "PendingApproval")
    BY <1>40, Questions, HeardSame DEF WorkerParkFails
  <2>3. PICK s \in Sessions : s = worker.job /\ AtWorker(s) /\ worker.pc = "park"
    BY <1>40, <1>b DEF WorkerParkFails
  <2>4. UNCHANGED <<queue, th, pending, admission, session, submitted, hungup, stream, drop>>
    BY <1>40 DEF WorkerParkFails
  <2>5. worker'.pc = "report" /\ worker'.job = s /\ worker'.end = "Panicked"
    BY <1>40, <1>a, <2>3 DEF WorkerParkFails
  <2>6. s \in submitted /\ ~HasRun(s)
    BY <1>d, <2>3 DEF WorkerKnows, NotRunYet, Unsettled
  <2>7. \A r \in Sessions \ {s} : NotRunYet(r)'
    BY <1>d, <2>1, <2>3, <2>4, <2>5, StillNotRun DEF Unsettled
  <2>8. NotRunYet(s)'
    BY <2>4, <2>6 DEF NotRunYet
  <2>9. \A r \in Sessions : AskedInOrder(r)'
    BY <1>d, <2>1, <2>2, <2>3, <2>4, <2>5, OrderKept DEF Undisturbed
  <2>10. WorkerKnows' /\ CallsWhileOpen'
    BY <1>d, <2>4, <2>5, <2>6 DEF WorkerKnows, CallsWhileOpen, Open
  <2> QED BY <1>e, <2>7, <2>8, <2>9, <2>10
<1>41. ASSUME NEW s \in Streaming, NEW e \in Outputs, ReaderSend(s, e) PROVE ContractInv'
  <2>1. s \in Sessions /\ e \in Signals /\ e # "PendingApproval"
    BY DEF Signals, Outputs
  <2>2. /\ \A r \in Sessions \ {s} : stream'[r] = stream[r]
        /\ \A r \in Sessions : Heard(r, "PendingApproval")' <=> Heard(r, "PendingApproval")
    BY <1>41, <2>1, Questions, SendHeard DEF ReaderSend
  <2>3. UNCHANGED <<queue, th, pending, admission, session, submitted, hungup, worker, drop>>
    BY <1>41 DEF ReaderSend
  <2>4. \A r \in Sessions : InQueue(r)' <=> InQueue(r)
    BY <2>3, QueueSame
  <2>5. \A r \in Sessions \ {s} : NotRunYet(r)'
    BY <1>d, <2>2, <2>3, <2>4, StillNotRun DEF Unsettled
  <2>6. NotRunYet(s)'
    <3>1. s \in submitted
      BY <1>41, <1>d, <1>f, <2>1 DEF ReaderSend, WorkerKnows, OutputInv, OutputInOrder, NotRunYet
    <3> QED BY <1>d, <2>1, <2>3, <2>4, <3>1 DEF NotRunYet, Unsettled
  <2>7. \A r \in Sessions : AskedInOrder(r)'
    BY <1>d, <2>2, <2>3, <2>4, OrderKept DEF Undisturbed
  <2>8. WorkerKnows' /\ CallsWhileOpen'
    BY <1>d, <2>3 DEF WorkerKnows, CallsWhileOpen, Open
  <2> QED BY <1>e, <2>5, <2>6, <2>7, <2>8
<1>34. CASE UNCHANGED vars
  <2>1. UNCHANGED <<stream, queue>>
    BY <1>34 DEF vars
  <2>2. /\ \A r \in Sessions : InQueue(r)' <=> InQueue(r)
        /\ \A r \in Sessions : Heard(r, "PendingApproval")' <=> Heard(r, "PendingApproval")
    BY <2>1, QueueSame, HeardSame, Questions
  <2>3. WorkerKnows' /\ CallsWhileOpen' /\ \A r \in Sessions : NotRunYet(r)' /\ AskedInOrder(r)'
    BY <1>34, <1>d, <2>2 DEF vars, WorkerKnows, CallsWhileOpen, Open, NotRunYet,
       AskedInOrder, Unsettled
  <2> QED BY <1>e, <2>3
<1> HIDE DEF Parked, AtWorker, AtThread, Undecided, Asking, FirstPass, HasRun, Approved, world, jobs, maps
<1>35. CASE \E t \in Callers : Call(t)
  BY <1>35, <1>1, <1>3, <1>5, <1>6 DEF Call
<1>36. CASE \E t \in Threads : Continue(t)
  BY <1>36, <1>2, <1>4, <1>7, <1>8, <1>10, <1>11, <1>12 DEF Continue
<1>37. CASE \E s \in Sessions : HangUp(s) \/ DeadlinePasses(s)
  BY <1>37, <1>9, <1>26
<1>38. CASE Worker
  BY <1>38, <1>13, <1>14, <1>15, <1>16, <1>17, <1>18, <1>19, <1>20, <1>21, <1>22, <1>23,
     <1>24, <1>25, <1>40 DEF Worker
<1>39. CASE Sweep \/ Dropping \/ DropStop
  BY <1>39, <1>27, <1>28, <1>29, <1>30, <1>31, <1>32, <1>33 DEF Sweep, Dropping
<1>42. CASE \E s \in Streaming, e \in Outputs : ReaderSend(s, e)
  BY <1>41, <1>42
<1> QED
  BY <1>34, <1>35, <1>36, <1>37, <1>38, <1>39, <1>42 DEF Next, Finished
-----------------------------------------------------------------------------
(* What always holds.                                                      *)

\* A broker fresh from with_config has asked, decided and run nothing.
LEMMA ContractInit == Init => ContractInv
BY DEF Init, ContractInv, WorkerKnows, CallsWhileOpen, NotRunYet, AskedInOrder, Parked,
       Approved, HasRun, Asking, FirstPass, Undecided, Heard, Unsettled, InQueue, AtWorker,
       AtThread, Idle, Rest, Threads, Admissions

\* A fresh broker has no reader.
LEMMA OutputInit == Init => OutputInv
BY DEF Init, OutputInv, OutputInOrder, Rest

BrokerInv == TypeInv /\ OwnerInv /\ ContractInv /\ OutputInv
-----------------------------------------------------------------------------
(* Every step is one the contract allows, or none it can see.              *)

\* The phase of a session moves only if its place or its machine does.
LEMMA PhaseKept ==
  ASSUME NEW r \in Sessions, r \in submitted' <=> r \in submitted,
         Unsettled(r)' <=> Unsettled(r), Unsettled(r) => (HasRun(r)' <=> HasRun(r))
  PROVE  Phase(r)' = Phase(r)
BY DEF Phase

\* What the contract sees of a step that tells, admits and ends nobody: nothing.
LEMMA Unseen ==
  ASSUME \A r \in Sessions : Phase(r)' = Phase(r),
         UNCHANGED <<admission, stream, hungup>>, Open' <=> Open
  PROVE  UNCHANGED Contract!vars
<1>1. [r \in Sessions |-> Phase(r)]' = [r \in Sessions |-> Phase(r)]
  OBVIOUS
<1>2. Approved' = Approved /\ Open' = Open
  BY DEF Approved, Open
<1> QED BY <1>1, <1>2 DEF Contract!vars

\* ... and of a step that moves one session on.
LEMMA Entering ==
  ASSUME NEW s \in Sessions, NEW p, Phase(s)' = p,
         \A r \in Sessions \ {s} : Phase(r)' = Phase(r)
  PROVE  Contract!Enter(s, p)
BY DEF Contract!Enter

\* A broker's send is the contract's.
LEMMA TellingIsSending ==
  ASSUME NEW s, NEW e, Send(s, e)
  PROVE  Contract!Tell(s, e)
BY DEF Send, Contract!Tell

\* A job that only lies in `pending` is waiting, and over once it is gone.
LEMMA Displaced ==
  ASSUME BrokerInv, NEW r \in Sessions, Parked(r), Unsettled(r), ~Unsettled(r)',
         submitted' = submitted
  PROVE  Phase(r) = "waiting" /\ Phase(r)' = "over"
<1>1. r \in submitted /\ ~AtWorker(r)
  BY DEF BrokerInv, OwnerInv, OnePlace, Nowhere
<1>2. ~HasRun(r)
  BY <1>1 DEF BrokerInv, ContractInv, NotRunYet
<1> QED BY <1>1, <1>2 DEF Phase

\* What is given up of them.
LEMMA GivingUp ==
  ASSUME NEW given \in SUBSET Sessions,
         \A r \in given : Phase(r) = "waiting" /\ Phase(r)' = "over",
         \A r \in Sessions \ given : Phase(r)' = Phase(r),
         \A r \in given : r \in Risky \ Approved,
         \A r \in given : r \in hungup \/ Contract!Crowded(r) \/ ~Open,
         UNCHANGED <<admission, stream, hungup>>, Open' <=> Open
  PROVE  Contract!GiveUp(given)
BY DEF Contract!GiveUp, Approved, Open

\* The job at the head leaves the channel.
LEMMA HeadLeaves ==
  ASSUME TypeInv, QueuedOnce, queue # << >>, queue' = Tail(queue)
  PROVE  /\ InQueue(Head(queue))
         /\ \A r \in Sessions : InQueue(r)' <=> InQueue(r) /\ r # Head(queue)
<1>1. queue \in Seq(Sessions)
  BY DEF TypeInv, TypeOK
<1>2. /\ DOMAIN queue = 1..Len(queue) /\ DOMAIN queue' = 1..(Len(queue) - 1)
      /\ Len(queue) \in Nat \ {0}
      /\ \A k \in 1..(Len(queue) - 1) : queue'[k] = queue[k + 1]
      /\ Head(queue) = queue[1]
  BY <1>1
<1>3. \A r \in Sessions : InQueue(r) /\ r # Head(queue) => InQueue(r)'
  <2> TAKE r \in Sessions
  <2> HAVE InQueue(r) /\ r # Head(queue)
  <2>1. PICK k \in 1..Len(queue) : queue[k] = r /\ k # 1
    BY <1>2 DEF InQueue
  <2>2. k - 1 \in 1..(Len(queue) - 1) /\ queue'[k - 1] = r
    BY <1>2, <2>1
  <2> QED BY <1>2, <2>2 DEF InQueue
<1> QED BY <1>3, Dequeueing

LEMMA InitKeeps == Init => Contract!Init
BY DEF Init, Contract!Init, Phase, Approved, Open, Admissions

LEMMA StepKeeps == BrokerInv /\ [Next]_vars => [Contract!Next]_(Contract!vars)
<1> SUFFICES ASSUME BrokerInv, [Next]_vars PROVE Contract!Next \/ UNCHANGED Contract!vars
  OBVIOUS
<1> USE DEF Parked, AtWorker, AtThread, Undecided, Asking, FirstPass, world, jobs, maps
<1>a. /\ th \in [Threads -> Tasks]
      /\ pending \in [Ids -> Sessions \cup {None}]
      /\ admission \in [Sessions -> Admissions]
      /\ session \in [Sessions -> Lifecycles]
      /\ worker \in [pc: WorkerPCs, job: Sessions \cup {None},
                     handle: Sessions \cup {None}, end: Endings]
  BY DEF BrokerInv, TypeInv, TypeOK
<1>b. /\ ThreadsOK
      /\ worker.pc \notin {"recv", "exit"} => worker.job \in Sessions
      /\ \A i \in Ids : pending[i] # None => pending[i] \in Sessions /\ Id[pending[i]] = i
      /\ \A s \in Sessions : Id[s] \in Ids
  BY <1>a DEF BrokerInv, TypeInv, InHand, ThreadsOK
<1>c. QueuedOnce /\ \A s \in Sessions : OnePlace(s) /\ Nowhere(s)
  BY DEF BrokerInv, OwnerInv
<1>d. WorkerKnows /\ CallsWhileOpen /\ \A s \in Sessions : NotRunYet(s) /\ AskedInOrder(s)
  BY DEF BrokerInv, ContractInv
<1>1. ASSUME NEW t \in Callers, NEW s \in Sessions, Submit(t, s) PROVE Contract!Next \/ UNCHANGED Contract!vars
  <2>1. /\ th'[t].pc = "enqueue" /\ th'[t].job = s
        /\ \A u \in Threads \ {t} : th'[u] = th[u]
    BY <1>1, <1>a, CarryingPCs DEF Submit, Take
  <2>2. Unsettled(s)' /\ \A r \in Sessions \ {s} : Unsettled(r)' <=> Unsettled(r)
    BY <1>1, <2>1, CarryingPCs DEF Submit, Unsettled, InQueue
  <2>3. Phase(s) = "new" /\ Phase(s)' = "waiting"
    BY <1>1, <1>d, <2>2 DEF Submit, Phase, NotRunYet, HasRun
  <2>4. \A r \in Sessions \ {s} : Phase(r)' = Phase(r)
    BY <1>1, <2>2, PhaseKept DEF Submit, HasRun
  <2>5. Contract!Submit(s)
    BY <1>1, <2>3, <2>4, Entering DEF Submit, Contract!Submit, Approved, Open
  <2> QED BY <2>5 DEF Contract!Next
<1>2. ASSUME NEW t \in Threads, Enqueue(t) PROVE Contract!Next \/ UNCHANGED Contract!vars
  <2>1. PICK s \in Sessions : s = th[t].job /\ AtThread(t, s) /\ ~InQueue(s)
    BY <1>2, <1>b, <1>c, CarryOK, CarryingPCs DEF Enqueue, OnePlace
  <2>2. \A r \in Sessions : InQueue(r)' <=> InQueue(r) \/ r = s
    BY <1>2, <1>c, <2>1, Queueing DEF Enqueue, BrokerInv
  <2>3. th'[t].pc = "idle" /\ \A u \in Threads \ {t} : th'[u] = th[u]
    BY <1>2, <1>a DEF Enqueue, Idle
  <2>4. \A r \in Sessions : Unsettled(r)' <=> Unsettled(r)
    BY <1>2, <2>1, <2>2, <2>3 DEF Enqueue, Unsettled
  <2> QED BY <1>2, <2>4, PhaseKept, Unseen DEF Enqueue, HasRun, Open
<1>3. ASSUME NEW t \in Callers, NEW i \in Ids, Approve(t, i) PROVE Contract!Next \/ UNCHANGED Contract!vars
  <2>1. \A u \in Threads \ {t} : th'[u] = th[u]
    BY <1>3, <1>a, CarryingPCs DEF Approve, Take
  <2>2. t \in Threads /\ th[t].pc \in {"idle", "find"}
    BY <1>3, CarryingPCs DEF Approve
  <2>3. ASSUME pending[i] # None
        PROVE  /\ th'[t].pc \in {"approve", "report"} /\ th'[t].job = pending[i]
               /\ Parked(pending[i])
    BY <1>3, <1>a, <1>b, <2>2, <2>3 DEF Approve, Take
  <2>4. ASSUME pending[i] = None PROVE th'[t].pc \notin {"enqueue", "approve", "report"}
    BY <1>3, <2>4 DEF Approve
  <2>5. \A r \in Sessions : Parked(r)' <=> Parked(r) /\ r # pending[i]
    BY <1>3, <1>a, <1>b DEF Approve
  <2>6. \A r \in Sessions : Unsettled(r)' <=> Unsettled(r)
    BY <1>3, <2>1, <2>2, <2>3, <2>4, <2>5 DEF Approve, Unsettled, InQueue
  <2> QED BY <1>3, <2>6, PhaseKept, Unseen DEF Approve, HasRun, Open
<1>4. ASSUME NEW t \in Callers, NEW i \in Ids, Deny(t, i) PROVE Contract!Next \/ UNCHANGED Contract!vars
  <2>1. \A u \in Threads \ {t} : th'[u] = th[u]
    BY <1>4, <1>a, CarryingPCs DEF Deny, Take
  <2>2. t \in Threads /\ th[t].pc \in {"idle", "find"}
    BY <1>4, CarryingPCs DEF Deny
  <2>3. ASSUME pending[i] # None
        PROVE  /\ th'[t].pc \in {"approve", "report"} /\ th'[t].job = pending[i]
               /\ Parked(pending[i])
    BY <1>4, <1>a, <1>b, <2>2, <2>3 DEF Deny, Take
  <2>4. ASSUME pending[i] = None PROVE th'[t].pc \notin {"enqueue", "approve", "report"}
    BY <1>4, <2>4 DEF Deny
  <2>5. \A r \in Sessions : Parked(r)' <=> Parked(r) /\ r # pending[i]
    BY <1>4, <1>a, <1>b DEF Deny
  <2>6. \A r \in Sessions : Unsettled(r)' <=> Unsettled(r)
    BY <1>4, <2>1, <2>2, <2>3, <2>4, <2>5 DEF Deny, Unsettled, InQueue
  <2> QED BY <1>4, <2>6, PhaseKept, Unseen DEF Deny, HasRun, Open
<1>5. ASSUME NEW t \in Callers, NEW i \in Ids, Cancel(t, i) PROVE Contract!Next \/ UNCHANGED Contract!vars
  <2>1. \A u \in Threads \ {t} : th'[u] = th[u]
    BY <1>5, <1>a, CarryingPCs DEF Cancel, Take
  <2>2. t \in Threads /\ th[t].pc \in {"idle", "find"}
    BY <1>5, CarryingPCs DEF Cancel
  <2>3. ASSUME pending[i] # None
        PROVE  /\ th'[t].pc \in {"approve", "report"} /\ th'[t].job = pending[i]
               /\ Parked(pending[i])
    BY <1>5, <1>a, <1>b, <2>2, <2>3 DEF Cancel, Take
  <2>4. ASSUME pending[i] = None PROVE th'[t].pc \notin {"enqueue", "approve", "report"}
    <3>1. th' = [th EXCEPT ![t] = [Idle EXCEPT !.pc = "find", !.id = i]]
      BY <1>5, <2>4 DEF Cancel
    <3>2. th'[t].pc = "find"
      BY <1>a, <2>2, <3>1 DEF Idle
    <3> QED BY <3>2
  <2>5. \A r \in Sessions : Parked(r)' <=> Parked(r) /\ r # pending[i]
    BY <1>5, <1>a, <1>b DEF Cancel
  <2>6. \A r \in Sessions : Unsettled(r)' <=> Unsettled(r)
    BY <1>5, <2>1, <2>2, <2>3, <2>4, <2>5 DEF Cancel, Unsettled, InQueue
  <2> QED BY <1>5, <2>6, PhaseKept, Unseen DEF Cancel, HasRun, Open
<1>6. ASSUME NEW i \in Ids, SweepTake(i) PROVE Contract!Next \/ UNCHANGED Contract!vars
  <2>1. \A u \in Threads \ {Sweeper} : th'[u] = th[u]
    BY <1>6, <1>a, CarryingPCs DEF SweepTake, Take
  <2>2. Sweeper \in Threads /\ th[Sweeper].pc \in {"idle", "find"}
    BY <1>6, CarryingPCs DEF SweepTake
  <2>3. ASSUME pending[i] # None
        PROVE  /\ th'[Sweeper].pc \in {"approve", "report"} /\ th'[Sweeper].job = pending[i]
               /\ Parked(pending[i])
    BY <1>6, <1>a, <1>b, <2>2, <2>3 DEF SweepTake, Take
  <2>4. ASSUME pending[i] = None PROVE th'[Sweeper].pc \notin {"enqueue", "approve", "report"}
    BY <1>6, <2>2, <2>4 DEF SweepTake
  <2>5. \A r \in Sessions : Parked(r)' <=> Parked(r) /\ r # pending[i]
    BY <1>6, <1>a, <1>b DEF SweepTake
  <2>6. \A r \in Sessions : Unsettled(r)' <=> Unsettled(r)
    BY <1>6, <2>1, <2>2, <2>3, <2>4, <2>5 DEF SweepTake, Unsettled, InQueue
  <2> QED BY <1>6, <2>6, PhaseKept, Unseen DEF SweepTake, HasRun, Open
<1>7. ASSUME NEW t \in Threads, ApproveCheck(t) PROVE Contract!Next \/ UNCHANGED Contract!vars
  <2>1. PICK s \in Sessions : s = th[t].job /\ AtThread(t, s) /\ th[t].pc = "approve"
    BY <1>7, <1>b, CarryOK, CarryingPCs DEF ApproveCheck
  <2>2. PICK pc \in {"report", "enqueue"} :
          Move(t, pc) /\ IF pc = "report" THEN UNCHANGED admission
                         ELSE admission' = [admission EXCEPT ![s] = "Approved"]
    BY <1>7, <2>1 DEF ApproveCheck
  <2>3. /\ th'[t].pc = pc /\ th'[t].job = s
        /\ \A u \in Threads \ {t} : th'[u] = th[u]
    BY <1>a, <2>1, <2>2 DEF Move, Tasks
  <2>4. \A r \in Sessions : Unsettled(r)' <=> Unsettled(r)
    BY <1>7, <2>1, <2>3 DEF ApproveCheck, Unsettled, InQueue
  <2>5. \A r \in Sessions : Phase(r)' = Phase(r)
    BY <1>7, <2>4, PhaseKept DEF ApproveCheck, HasRun
  <2>6. CASE pc = "report"
    BY <1>7, <2>2, <2>5, <2>6, Unseen DEF ApproveCheck, Open
  <2>7. CASE pc = "enqueue"
    <3>1. t \in Callers /\ s \in Risky \ Approved /\ Open
      BY <1>d, <2>1 DEF AskedInOrder, CallsWhileOpen
    <3>2. Unsettled(s) /\ ~AtWorker(s)
      BY <1>c, <2>1 DEF OnePlace, Unsettled
    <3>3. Phase(s) = "waiting"
      BY <1>c, <1>d, <3>2 DEF Nowhere, NotRunYet, Phase
    <3>4. Approved' = Approved \cup {s}
      BY <1>a, <2>2, <2>7 DEF Approved
    <3>5. Contract!Approve(s)
      BY <1>7, <2>5, <3>1, <3>3, <3>4 DEF ApproveCheck, Contract!Approve, Open
    <3> QED BY <3>5 DEF Contract!Next
  <2> QED BY <2>6, <2>7
<1>8. ASSUME NEW t \in Threads, CancelFind(t) PROVE Contract!Next \/ UNCHANGED Contract!vars
  <2>1. \A r \in Sessions : Unsettled(r)' <=> Unsettled(r)
    BY <1>8, <1>a, <1>b, CarryingPCs DEF CancelFind, Unsettled, InQueue, Take, Idle
  <2> QED BY <1>8, <2>1, PhaseKept, Unseen DEF CancelFind, HasRun, Open
<1>9. ASSUME NEW t \in Threads, CancelFlag(t) PROVE Contract!Next \/ UNCHANGED Contract!vars
  <2>1. \A r \in Sessions : Unsettled(r)' <=> Unsettled(r)
    BY <1>9, <1>a, <1>b, CarryingPCs DEF CancelFlag, Unsettled, InQueue, Idle
  <2> QED BY <1>9, <2>1, PhaseKept, Unseen DEF CancelFlag, HasRun, Open
<1>10. ASSUME NEW s \in Sessions, HangUp(s) PROVE Contract!Next \/ UNCHANGED Contract!vars
  <2>1. \A r \in Sessions : Unsettled(r)' <=> Unsettled(r)
    BY <1>10 DEF HangUp, Unsettled, InQueue
  <2>2. \A r \in Sessions : Phase(r)' = Phase(r)
    BY <1>10, <2>1, PhaseKept DEF HangUp, HasRun
  <2>3. Contract!HangUp(s)
    BY <1>10, <2>2 DEF HangUp, Contract!HangUp, Phase, Approved, Open
  <2> QED BY <2>3 DEF Contract!Next
<1>11. ASSUME NEW t \in Threads, CloseReport(t) PROVE Contract!Next \/ UNCHANGED Contract!vars
  <2>1. PICK s \in Sessions : s = th[t].job /\ AtThread(t, s)
    BY <1>11, <1>b, CarryOK, CarryingPCs DEF CloseReport
  <2> DEFINE e == Signal(s, th[t].why)
  <2>2. e \in {"Cancelled", "Denied"} /\ Send(s, e)
    BY <1>11, <1>b, <2>1, CarryOK, CarryingPCs DEF CloseReport, Signal
  <2>3. /\ th'[t].pc = "record" /\ th'[t].job = s
        /\ \A u \in Threads \ {t} : th'[u] = th[u]
    BY <1>11, <1>a, <2>1 DEF CloseReport, Move, Tasks
  <2>4. Unsettled(s) /\ ~AtWorker(s)
    BY <1>c, <2>1 DEF OnePlace, Unsettled
  <2>5. ~Unsettled(s)'
    BY <1>11, <1>c, <2>1, <2>3 DEF CloseReport, OnePlace, Unsettled, InQueue
  <2>6. \A r \in Sessions \ {s} : Unsettled(r)' <=> Unsettled(r)
    BY <1>11, <2>1, <2>3 DEF CloseReport, Unsettled, InQueue
  <2>7. Phase(s) = "waiting" /\ Phase(s)' = "over"
    BY <1>11, <1>c, <1>d, <2>4, <2>5 DEF CloseReport, Nowhere, NotRunYet, Phase
  <2>8. \A r \in Sessions \ {s} : Phase(r)' = Phase(r)
    BY <1>11, <2>6, PhaseKept DEF CloseReport, HasRun
  <2>9. Contract!Enter(s, "over") /\ Contract!Tell(s, e)
    BY <2>2, <2>7, <2>8, Entering, TellingIsSending
  <2> HIDE DEF e
  <2>10. Contract!End(s, e) /\ e \in Contract!Results(s)
    BY <1>11, <2>2, <2>7, <2>9 DEF CloseReport, Contract!End, Contract!Closings,
       Contract!Results, Approved, Open
  <2> QED BY <2>10 DEF Contract!Next
<1>12. ASSUME NEW t \in Threads, CloseRecord(t) PROVE Contract!Next \/ UNCHANGED Contract!vars
  <2>1. \A r \in Sessions : Unsettled(r)' <=> Unsettled(r)
    BY <1>12, <1>a, <1>b, CarryingPCs DEF CloseRecord, Unsettled, InQueue, Move, ThreadsOK,
       Tasks
  <2> QED BY <1>12, <2>1, PhaseKept, Unseen DEF CloseRecord, HasRun, Open
<1>13. ASSUME NEW t \in Threads, CloseRelease(t) PROVE Contract!Next \/ UNCHANGED Contract!vars
  <2>1. \A r \in Sessions : Unsettled(r)' <=> Unsettled(r)
    BY <1>13, <1>a, <1>b, CarryingPCs DEF CloseRelease, Unsettled, InQueue, Idle
  <2> QED BY <1>13, <2>1, PhaseKept, Unseen DEF CloseRelease, HasRun, Open
<1>14. ASSUME WorkerRecv PROVE Contract!Next \/ UNCHANGED Contract!vars
  <2>1. PICK s \in Sessions : s = Head(queue)
    BY <1>14, QueueType DEF WorkerRecv, BrokerInv, TypeInv, TypeOK
  <2>2. InQueue(s) /\ \A r \in Sessions : InQueue(r)' <=> InQueue(r) /\ r # s
    BY <1>14, <1>c, <2>1, HeadLeaves DEF WorkerRecv, BrokerInv
  <2>3. worker.pc = "recv" /\ worker'.pc = "lookup" /\ worker'.job = s
    BY <1>14, <2>1 DEF WorkerRecv, Rest
  <2>4. \A r \in Sessions : Unsettled(r)' <=> Unsettled(r)
    BY <1>14, <2>2, <2>3 DEF WorkerRecv, Unsettled
  <2> QED BY <1>14, <2>4, PhaseKept, Unseen DEF WorkerRecv, HasRun, Open
<1>15. ASSUME WorkerExit PROVE Contract!Next \/ UNCHANGED Contract!vars
  <2>1. \A r \in Sessions : Unsettled(r)' <=> Unsettled(r)
    BY <1>15, <1>a, <1>b, CarryingPCs DEF WorkerExit, Unsettled, InQueue, Work
  <2> QED BY <1>15, <2>1, PhaseKept, Unseen DEF WorkerExit, HasRun, Open
<1>16. ASSUME WorkerLookup PROVE Contract!Next \/ UNCHANGED Contract!vars
  <2>1. PICK s \in Sessions : s = worker.job /\ AtWorker(s)
    BY <1>16, <1>b DEF WorkerLookup
  <2>2. worker'.job = s /\ worker'.pc \in {"lost", "park", "start"}
    BY <1>16, <1>a, <2>1 DEF WorkerLookup
  <2>3. \A r \in Sessions : Unsettled(r)' <=> Unsettled(r)
    BY <1>16, <2>1, <2>2 DEF WorkerLookup, Unsettled, InQueue
  <2>4. \A r \in Sessions \ {s} : HasRun(r)' <=> HasRun(r)
    BY <1>16, <1>a, <2>1 DEF WorkerLookup, HasRun
  <2>5. ~HasRun(s) /\ ~HasRun(s)'
    BY <1>16, <1>a, <1>d, <2>1 DEF WorkerLookup, NotRunYet, Unsettled, HasRun, Accept,
       After, Accepted
  <2> QED BY <1>16, <2>3, <2>4, <2>5, PhaseKept, Unseen DEF WorkerLookup, Open
<1>17. ASSUME WorkerLost PROVE Contract!Next \/ UNCHANGED Contract!vars
  <2>1. PICK s \in Sessions : s = worker.job /\ AtWorker(s) /\ worker.pc = "lost"
    BY <1>17, <1>b DEF WorkerLost
  <2> DEFINE e == "Denied"
  <2>2. Send(s, e) /\ e \in Contract!Results(s) /\ (~HasRun(s) => e \in Contract!Closings)
    BY <1>17, <1>a, <1>d, <2>1 DEF WorkerLost, WorkerKnows, Signal, Endings, Outcomes,
       Contract!Results, Contract!Closings, NotRunYet, Unsettled
  <2>3. worker'.pc = "release" /\ worker'.job = s
    BY <1>17, <1>a, <2>1 DEF WorkerLost, Work
  <2>4. Unsettled(s) /\ ~Unsettled(s)'
    BY <1>17, <1>c, <2>1, <2>3 DEF WorkerLost, OnePlace, Unsettled, InQueue
  <2>5. \A r \in Sessions \ {s} : Unsettled(r)' <=> Unsettled(r)
    BY <1>17, <2>1, <2>3 DEF WorkerLost, Unsettled, InQueue
  <2>6. Phase(s) = (IF HasRun(s) THEN "running" ELSE "waiting") /\ Phase(s)' = "over"
    BY <1>17, <1>c, <2>4 DEF WorkerLost, Nowhere, Phase
  <2>7. \A r \in Sessions \ {s} : Phase(r)' = Phase(r)
    BY <1>17, <2>5, PhaseKept DEF WorkerLost, HasRun
  <2>8. Contract!Enter(s, "over") /\ Contract!Tell(s, e)
    BY <2>2, <2>6, <2>7, Entering, TellingIsSending
  <2> HIDE DEF e
  <2>9. Contract!End(s, e)
    BY <1>17, <2>2, <2>6, <2>8 DEF WorkerLost, Contract!End, Approved, Open
  <2> QED BY <2>2, <2>9 DEF Contract!Next
<1>18. ASSUME WorkerPark PROVE Contract!Next \/ UNCHANGED Contract!vars
  <2>1. PICK s \in Sessions : s = worker.job /\ AtWorker(s) /\ worker.pc = "park"
    BY <1>18, <1>b DEF WorkerPark
  <2>2. worker'.pc = "notify" /\ worker'.job = s
    BY <1>18, <1>a, <2>1 DEF WorkerPark, Work
  <2> DEFINE given == {r \in Sessions : Parked(r) /\ Id[r] = Id[s]}
  <2>3. s \notin given /\ s \in submitted
    BY <1>c, <1>d, <2>1 DEF OnePlace, WorkerKnows
  <2>4. \A r \in Sessions : Parked(r)' <=> r = s \/ (Parked(r) /\ r \notin given)
    BY <1>18, <1>a, <1>b, <2>1, <2>3 DEF WorkerPark
  <2>5. \A r \in Sessions \ given : Unsettled(r)' <=> Unsettled(r)
    BY <1>18, <2>1, <2>2, <2>3, <2>4 DEF WorkerPark, Unsettled, InQueue
  <2>6. \A r \in Sessions \ given : Phase(r)' = Phase(r)
    BY <1>18, <2>5, PhaseKept DEF WorkerPark, HasRun
  <2>7. ASSUME NEW r \in given PROVE r \in Sessions /\ Unsettled(r) /\ ~Unsettled(r)'
    BY <1>18, <1>c, <2>1, <2>2, <2>3, <2>4 DEF WorkerPark, OnePlace, Unsettled, InQueue
  <2> HIDE DEF given
  <2>8. ASSUME NEW r \in given PROVE Phase(r) = "waiting" /\ Phase(r)' = "over"
    BY <1>18, <1>c, <1>d, <2>7, <2>8, Displaced DEF WorkerPark, given, Phase, BrokerInv
  <2>9. Phase(s) # "new"
    BY <2>3 DEF Phase
  <2>10. \A r \in given : r \in Risky \ Approved /\ Contract!Crowded(r)
    BY <1>d, <2>1, <2>3, <2>9 DEF given, AskedInOrder, Contract!Crowded
  <2>11. Contract!GiveUp(given)
    BY <1>18, <2>6, <2>8, <2>10, GivingUp DEF WorkerPark, given, Open
  <2> QED BY <2>11 DEF Contract!Next, given
<1>19. ASSUME WorkerNotify PROVE Contract!Next \/ UNCHANGED Contract!vars
  <2>1. PICK s \in Sessions : s = worker.job /\ worker.pc = "notify"
    BY <1>19, <1>b DEF WorkerNotify
  <2>2. worker'.pc \in {"recv", "unpark"}
    BY <1>19, <1>a, <2>1 DEF WorkerNotify, Rest
  <2>3. \A r \in Sessions : Unsettled(r)' <=> Unsettled(r)
    BY <1>19, <2>1, <2>2 DEF WorkerNotify, Unsettled, InQueue
  <2>4. \A r \in Sessions : Phase(r)' = Phase(r)
    BY <1>19, <2>3, PhaseKept DEF WorkerNotify, HasRun
  <2>5. s \in submitted /\ s \in Risky /\ ~Heard(s, "PendingApproval")
    BY <1>d, <2>1 DEF WorkerKnows, AskedInOrder
  <2>6. Phase(s) \in {"waiting", "over"}
    BY <1>d, <2>1, <2>5 DEF Phase, NotRunYet
  <2>7. Contract!Ask(s)
    BY <1>19, <2>1, <2>4, <2>5, <2>6, TellingIsSending
       DEF WorkerNotify, Contract!Ask, Contract!Told, Heard, Approved, Open
  <2> QED BY <2>7 DEF Contract!Next
<1>20. ASSUME WorkerUnpark PROVE Contract!Next \/ UNCHANGED Contract!vars
  <2>1. PICK s \in Sessions : s = worker.job /\ worker.pc = "unpark"
    BY <1>20, <1>b DEF WorkerUnpark
  <2>2. worker'.pc = "release"
    BY <1>20, <1>a, <2>1 DEF WorkerUnpark, Work
  <2> DEFINE given == {r \in Sessions : Parked(r) /\ Id[r] = Id[s]}
  <2>3. s \in submitted /\ s \in hungup
    BY <1>d, <2>1 DEF WorkerKnows
  <2>4. \A r \in Sessions : Parked(r)' <=> Parked(r) /\ r \notin given
    BY <1>20, <1>a, <1>b, <2>1 DEF WorkerUnpark
  <2>5. \A r \in Sessions \ given : Unsettled(r)' <=> Unsettled(r)
    BY <1>20, <2>1, <2>2, <2>4 DEF WorkerUnpark, Unsettled, InQueue
  <2>6. \A r \in Sessions \ given : Phase(r)' = Phase(r)
    BY <1>20, <2>5, PhaseKept DEF WorkerUnpark, HasRun
  <2>7. ASSUME NEW r \in given PROVE r \in Sessions /\ Unsettled(r) /\ ~Unsettled(r)'
    BY <1>20, <1>c, <2>1, <2>2, <2>4 DEF WorkerUnpark, OnePlace, Unsettled, InQueue
  <2> HIDE DEF given
  <2>8. ASSUME NEW r \in given PROVE Phase(r) = "waiting" /\ Phase(r)' = "over"
    BY <1>20, <1>c, <1>d, <2>7, <2>8, Displaced DEF WorkerUnpark, given, Phase, BrokerInv
  <2>9. Phase(s) # "new"
    BY <2>3 DEF Phase
  <2>10. \A r \in given : r \in Risky \ Approved /\ (r \in hungup \/ Contract!Crowded(r))
    BY <1>d, <2>1, <2>3, <2>9 DEF given, AskedInOrder, Contract!Crowded
  <2>11. Contract!GiveUp(given)
    BY <1>20, <2>6, <2>8, <2>10, GivingUp DEF WorkerUnpark, given, Open
  <2> QED BY <2>11 DEF Contract!Next, given
<1>21. ASSUME WorkerStart PROVE Contract!Next \/ UNCHANGED Contract!vars
  <2>1. PICK s \in Sessions : s = worker.job /\ AtWorker(s) /\ worker.pc = "start"
    BY <1>21, <1>b DEF WorkerStart
  <2>2. worker'.job = s /\ worker'.pc \in {"report", "begin"}
    BY <1>21, <1>a, <2>1 DEF WorkerStart, Work
  <2>3. \A r \in Sessions : Unsettled(r)' <=> Unsettled(r)
    BY <1>21, <2>1, <2>2 DEF WorkerStart, Unsettled, InQueue
  <2>4. \A r \in Sessions \ {s} : HasRun(r)' <=> HasRun(r)
    BY <1>21, <1>a, <2>1 DEF WorkerStart, HasRun
  <2>5. ~HasRun(s)
    BY <1>d, <2>1 DEF NotRunYet, Unsettled
  <2>6. session[s] \in {"Created", "WaitingApproval"}
    BY <1>a, <2>1, <2>5 DEF HasRun, Lifecycles
  <2>7. Accept(session[s], "Cancelled") = session[s]
    BY <2>6 DEF Accept, Accepted
  <2>8. session'[s] = session[s]
    BY <1>21, <1>a, <2>1, <2>7 DEF WorkerStart
  <2> QED BY <1>21, <2>3, <2>4, <2>8, PhaseKept, Unseen DEF WorkerStart, HasRun, Open
<1>22. ASSUME WorkerBegin PROVE Contract!Next \/ UNCHANGED Contract!vars
  <2>1. PICK s \in Sessions : s = worker.job /\ AtWorker(s) /\ worker.pc = "begin"
    BY <1>22, <1>b DEF WorkerBegin
  <2>2. ~HasRun(s)
    BY <1>d, <2>1 DEF NotRunYet, Unsettled
  <2>3. session[s] \in {"Created", "WaitingApproval"}
    BY <1>a, <2>1, <2>2 DEF HasRun, Lifecycles
  <2>4. "Started" \in Accepted[session[s]] /\ Accept(session[s], "Started") = "Running"
    BY <2>3 DEF Accept, Accepted, After
  <2>5. /\ worker'.job = s /\ worker'.pc = "run"
        /\ session' = [session EXCEPT ![s] = "Running"]
        /\ IF s \in Streaming THEN Send(s, "Started") ELSE UNCHANGED stream
    BY <1>22, <1>a, <2>1, <2>4 DEF WorkerBegin
  <2>6. \A r \in Sessions : Unsettled(r)' <=> Unsettled(r)
    BY <1>22, <2>1, <2>5 DEF WorkerBegin, Unsettled, InQueue
  <2>7. HasRun(s)' /\ \A r \in Sessions \ {s} : HasRun(r)' <=> HasRun(r)
    BY <1>a, <2>5 DEF HasRun
  <2>8. s \in submitted /\ Unsettled(s)
    BY <1>d, <2>1 DEF WorkerKnows, Unsettled
  <2>9. Phase(s) = "waiting" /\ Phase(s)' = "running"
    BY <1>22, <2>2, <2>6, <2>7, <2>8 DEF WorkerBegin, Phase
  <2>10. \A r \in Sessions \ {s} : Phase(r)' = Phase(r)
    BY <1>22, <2>6, <2>7, PhaseKept DEF WorkerBegin
  <2>11. \A r \in Sessions : Phase(r) # "running"
    BY <1>d, <2>1 DEF Phase, NotRunYet
  <2>12. s \in Risky => s \in Approved /\ (Heard(s, "PendingApproval") \/ s \in hungup)
    BY <1>d, <2>1 DEF WorkerKnows, AskedInOrder
  <2>13. Contract!Begin(s)
    BY <1>22, <2>5, <2>9, <2>10, <2>11, <2>12, Entering, TellingIsSending
       DEF WorkerBegin, Contract!Begin, Contract!Told, Heard, Approved, Open
  <2> QED BY <2>13 DEF Contract!Next
<1>23. ASSUME NEW end \in {"Completed", "Cancelled", "Failed", "Panicked"}, WorkerRun(end) PROVE Contract!Next \/ UNCHANGED Contract!vars
  <2>1. PICK s \in Sessions : s = worker.job /\ AtWorker(s) /\ worker.pc = "run"
    BY <1>23, <1>b DEF WorkerRun
  <2>2. worker'.job = s /\ worker'.pc = "report"
    BY <1>23, <1>a, <2>1 DEF WorkerRun
  <2>3. \A r \in Sessions : Unsettled(r)' <=> Unsettled(r)
    BY <1>23, <2>1, <2>2 DEF WorkerRun, Unsettled, InQueue
  <2>4. \A r \in Sessions \ {s} : HasRun(r)' <=> HasRun(r)
    BY <1>23, <1>a, <2>1 DEF WorkerRun, HasRun
  <2>5. HasRun(s)
    BY <1>d, <2>1 DEF WorkerKnows
  <2>6. HasRun(s)'
    BY <1>23, <1>a, <2>1, <2>5 DEF WorkerRun, HasRun, Accept, After, Accepted
  <2> QED BY <1>23, <2>3, <2>4, <2>5, <2>6, PhaseKept, Unseen DEF WorkerRun, Open
<1>24. ASSUME WorkerReport PROVE Contract!Next \/ UNCHANGED Contract!vars
  <2>1. PICK s \in Sessions : s = worker.job /\ AtWorker(s) /\ worker.pc = "report"
    BY <1>24, <1>b DEF WorkerReport
  <2> DEFINE e == Signal(s, worker.end)
  <2>2. Send(s, e) /\ e \in Contract!Results(s) /\ (~HasRun(s) => e \in Contract!Closings)
    BY <1>24, <1>a, <1>d, <2>1 DEF WorkerReport, WorkerKnows, Signal, Endings, Outcomes,
       Contract!Results, Contract!Closings, NotRunYet, Unsettled
  <2>3. worker'.pc = "record" /\ worker'.job = s
    BY <1>24, <1>a, <2>1 DEF WorkerReport, Work
  <2>4. Unsettled(s) /\ ~Unsettled(s)'
    BY <1>24, <1>c, <2>1, <2>3 DEF WorkerReport, OnePlace, Unsettled, InQueue
  <2>5. \A r \in Sessions \ {s} : Unsettled(r)' <=> Unsettled(r)
    BY <1>24, <2>1, <2>3 DEF WorkerReport, Unsettled, InQueue
  <2>6. Phase(s) = (IF HasRun(s) THEN "running" ELSE "waiting") /\ Phase(s)' = "over"
    BY <1>24, <1>c, <2>4 DEF WorkerReport, Nowhere, Phase
  <2>7. \A r \in Sessions \ {s} : Phase(r)' = Phase(r)
    BY <1>24, <2>5, PhaseKept DEF WorkerReport, HasRun
  <2>8. Contract!Enter(s, "over") /\ Contract!Tell(s, e)
    BY <2>2, <2>6, <2>7, Entering, TellingIsSending
  <2> HIDE DEF e
  <2>9. Contract!End(s, e)
    BY <1>24, <2>2, <2>6, <2>8 DEF WorkerReport, Contract!End, Approved, Open
  <2> QED BY <2>2, <2>9 DEF Contract!Next
<1>25. ASSUME WorkerRecord PROVE Contract!Next \/ UNCHANGED Contract!vars
  <2>1. \A r \in Sessions : Unsettled(r)' <=> Unsettled(r)
    BY <1>25, <1>a, <1>b, CarryingPCs DEF WorkerRecord, Unsettled, InQueue, Work
  <2> QED BY <1>25, <2>1, PhaseKept, Unseen DEF WorkerRecord, HasRun, Open
<1>26. ASSUME WorkerRelease PROVE Contract!Next \/ UNCHANGED Contract!vars
  <2>1. \A r \in Sessions : Unsettled(r)' <=> Unsettled(r)
    BY <1>26, <1>a, <1>b, CarryingPCs DEF WorkerRelease, Unsettled, InQueue, Rest
  <2> QED BY <1>26, <2>1, PhaseKept, Unseen DEF WorkerRelease, HasRun, Open
<1>27. ASSUME NEW s \in Sessions, DeadlinePasses(s) PROVE Contract!Next \/ UNCHANGED Contract!vars
  <2>1. \A r \in Sessions : Unsettled(r)' <=> Unsettled(r)
    BY <1>27, <1>a, <1>b, CarryingPCs DEF DeadlinePasses, Unsettled, InQueue
  <2> QED BY <1>27, <2>1, PhaseKept, Unseen DEF DeadlinePasses, HasRun, Open
<1>28. ASSUME SweepNext PROVE Contract!Next \/ UNCHANGED Contract!vars
  <2>1. \A r \in Sessions : Unsettled(r)' <=> Unsettled(r)
    BY <1>28, <1>a, <1>b, CarryingPCs DEF SweepNext, Unsettled, InQueue, Move, Tasks
  <2> QED BY <1>28, <2>1, PhaseKept, Unseen DEF SweepNext, HasRun, Open
<1>29. ASSUME SweepScan PROVE Contract!Next \/ UNCHANGED Contract!vars
  <2>1. \A r \in Sessions : Unsettled(r)' <=> Unsettled(r)
    BY <1>29, <1>a, <1>b, CarryingPCs DEF SweepScan, Unsettled, InQueue, Move, Tasks
  <2> QED BY <1>29, <2>1, PhaseKept, Unseen DEF SweepScan, HasRun, Open
<1>30. ASSUME DropStop PROVE Contract!Next \/ UNCHANGED Contract!vars
  <2>1. \A r \in Sessions : Unsettled(r)' <=> Unsettled(r)
    BY <1>30 DEF DropStop, Unsettled, InQueue
  <2>2. \A r \in Sessions : Phase(r)' = Phase(r)
    BY <1>30, <2>1, PhaseKept DEF DropStop, HasRun
  <2>3. Contract!Close
    BY <1>30, <2>2 DEF DropStop, Contract!Close, Approved, Open
  <2> QED BY <2>3 DEF Contract!Next
<1>31. ASSUME DropCancel PROVE Contract!Next \/ UNCHANGED Contract!vars
  <2>1. \A r \in Sessions : Unsettled(r)' <=> Unsettled(r)
    BY <1>31, <1>a, <1>b, CarryingPCs DEF DropCancel, Unsettled, InQueue
  <2> QED BY <1>31, <2>1, PhaseKept, Unseen DEF DropCancel, HasRun, Open
<1>32. ASSUME DropClose PROVE Contract!Next \/ UNCHANGED Contract!vars
  <2>1. \A r \in Sessions : Unsettled(r)' <=> Unsettled(r)
    BY <1>32, <1>a, <1>b, CarryingPCs DEF DropClose, Unsettled, InQueue
  <2> QED BY <1>32, <2>1, PhaseKept, Unseen DEF DropClose, HasRun, Open
<1>33. ASSUME DropJoin PROVE Contract!Next \/ UNCHANGED Contract!vars
  <2> DEFINE given == {r \in Sessions : Parked(r)}
  <2>1. \A r \in Sessions : ~Parked(r)'
    BY <1>33, <1>b DEF DropJoin
  <2>2. \A r \in Sessions \ given : Unsettled(r)' <=> Unsettled(r)
    BY <1>33, <2>1 DEF DropJoin, Unsettled, InQueue
  <2>3. \A r \in Sessions \ given : Phase(r)' = Phase(r)
    BY <1>33, <2>2, PhaseKept DEF DropJoin, HasRun
  <2>4. ASSUME NEW r \in given PROVE r \in Sessions /\ Unsettled(r) /\ ~Unsettled(r)'
    BY <1>33, <1>c, <2>1 DEF DropJoin, OnePlace, Unsettled, InQueue
  <2> HIDE DEF given
  <2>5. ASSUME NEW r \in given PROVE Phase(r) = "waiting" /\ Phase(r)' = "over"
    BY <1>33, <1>c, <1>d, <2>4, <2>5, Displaced DEF DropJoin, given, Phase, BrokerInv
  <2>6. \A r \in given : r \in Risky \ Approved
    BY <1>d DEF given, AskedInOrder
  <2>7. Contract!GiveUp(given)
    BY <1>33, <2>3, <2>5, <2>6, GivingUp DEF DropJoin, given, Open
  <2> QED BY <2>7 DEF Contract!Next, given
<1>40. ASSUME WorkerParkFails PROVE Contract!Next \/ UNCHANGED Contract!vars
  <2>1. \A r \in Sessions : Unsettled(r)' <=> Unsettled(r)
    BY <1>40, <1>a, <1>b, CarryingPCs DEF WorkerParkFails, Unsettled, InQueue
  <2> QED BY <1>40, <2>1, PhaseKept, Unseen DEF WorkerParkFails, HasRun, Open
<1>41. ASSUME NEW s \in Streaming, NEW e \in Outputs, ReaderSend(s, e)
       PROVE  Contract!Next \/ UNCHANGED Contract!vars
  <2>1. s \in Sessions /\ OutputInOrder(s)
    BY DEF BrokerInv, OutputInv
  <2>2. \A r \in Sessions : Phase(r)' = Phase(r)
    <3>1. \A r \in Sessions : Unsettled(r)' <=> Unsettled(r)
      BY <1>41 DEF ReaderSend, Unsettled, InQueue
    <3> QED BY <1>41, <3>1, PhaseKept DEF ReaderSend, HasRun
  <2>3. CASE s \in hungup
    BY <1>41, <2>2, <2>3, Unseen DEF ReaderSend, Send, Open
  <2>4. CASE s \notin hungup
    <3>1. HasRun(s) /\ (Unsettled(s) \/ (Heard(s, "Started") /\ Heard(s, "Denied")))
      <4>1. worker.pc = "run" /\ worker.job = s => HasRun(s) /\ Unsettled(s)
        BY <1>d DEF WorkerKnows, Unsettled
      <4>2. s \in orphans => HasRun(s) /\ Heard(s, "Started") /\ (Heard(s, "Denied") \/ Unsettled(s))
        BY <2>1, <2>4 DEF OutputInOrder, Broke, Unsettled
      <4> QED BY <1>41, <4>1, <4>2 DEF ReaderSend
    <3>2. Phase(s) = "running" \/ (Phase(s) = "over" /\ Heard(s, "Started") /\ Heard(s, "Denied"))
      BY <1>d, <2>1, <3>1 DEF Phase, NotRunYet, HasRun
    <3>3. Contract!Tell(s, e) /\ UNCHANGED <<admission, hungup>> /\ Open' = Open
      BY <1>41, TellingIsSending DEF ReaderSend, Open
    <3>4. Contract!Emit(s, e)
      BY <1>41, <2>1, <2>2, <3>2, <3>3 DEF ReaderSend, Contract!Emit, Contract!Told, Heard, Approved
    <3> QED BY <2>1, <3>4 DEF Contract!Next, Outputs
  <2> QED BY <2>3, <2>4
<1> HIDE DEF Parked, AtWorker, AtThread, Undecided, Asking, FirstPass, world, jobs, maps
<1>34. CASE \E t \in Callers : Call(t)
  BY <1>34, <1>1, <1>3, <1>4, <1>5 DEF Call
<1>35. CASE \E t \in Threads : Continue(t)
  BY <1>35, <1>2, <1>7, <1>8, <1>9, <1>11, <1>12, <1>13 DEF Continue
<1>36. CASE \E s \in Sessions : HangUp(s) \/ DeadlinePasses(s)
  BY <1>36, <1>10, <1>27
<1>37. CASE Worker
  BY <1>37, <1>14, <1>15, <1>16, <1>17, <1>18, <1>19, <1>20, <1>21, <1>22, <1>23, <1>24,
     <1>25, <1>26, <1>40 DEF Worker
<1>38. CASE Sweep \/ Dropping \/ DropStop
  BY <1>38, <1>28, <1>29, <1>6, <1>30, <1>31, <1>32, <1>33 DEF Sweep, Dropping
<1>39. CASE UNCHANGED vars
  <2>1. \A r \in Sessions : Unsettled(r)' <=> Unsettled(r)
    BY <1>39 DEF vars, Unsettled, InQueue, Parked, AtWorker, AtThread
  <2> QED BY <1>39, <2>1, PhaseKept, Unseen DEF vars, HasRun, Open
<1>42. CASE \E s \in Streaming, e \in Outputs : ReaderSend(s, e)
  BY <1>41, <1>42
<1> QED
  BY <1>34, <1>35, <1>36, <1>37, <1>38, <1>39, <1>42 DEF Next, Finished
-----------------------------------------------------------------------------
(* Output comes in order.                                                  *)

\* A step sends at most one signal, and what was heard stays so.
LEMMA HeardGrows ==
  ASSUME TypeInv, [Next]_vars, NEW s \in Sessions, NEW x \in Signals, Heard(s, x)
  PROVE  Heard(s, x)'
<1>a. /\ th \in [Threads -> Tasks] /\ ThreadsOK
      /\ worker.pc \notin {"recv", "exit"} => worker.job \in Sessions
      /\ worker.end \in Endings
  BY DEF TypeInv, TypeOK, InHand, ThreadsOK
<1>1. UNCHANGED stream \/ \E r \in Sessions, e \in Signals : Send(r, e)
  <2>1. ASSUME NEW t \in Threads, CloseReport(t) PROVE \E r \in Sessions, e \in Signals : Send(r, e)
    BY <1>a, <2>1, CarryOK, CarryingPCs, EndingTypes DEF CloseReport
  <2>2. CASE WorkerLost \/ WorkerNotify \/ WorkerBegin
    BY <1>a, <2>2, Questions DEF WorkerLost, WorkerNotify, WorkerBegin
  <2>3. CASE WorkerReport
    BY <1>a, <2>3, EndingTypes DEF WorkerReport
  <2>4. ASSUME NEW r \in Streaming, NEW e \in Outputs, ReaderSend(r, e)
        PROVE  \E q \in Sessions, y \in Signals : Send(q, y)
    BY <2>4 DEF ReaderSend, Signals
  <2> QED
    BY <2>1, <2>2, <2>3, <2>4 DEF Next, Call, Continue, Worker, Sweep, Dropping, Finished,
       vars, Submit, Enqueue, Approve, ApproveCheck, Deny, Cancel, CancelFind, CancelFlag,
       HangUp, CloseRecord, CloseRelease, DeadlinePasses, SweepNext, SweepScan, SweepTake,
       DropStop, DropCancel, DropClose, DropJoin, WorkerRecv, WorkerExit, WorkerLookup,
       WorkerPark, WorkerParkFails, WorkerUnpark, WorkerStart, WorkerRun, WorkerRecord,
       WorkerRelease
<1> QED BY <1>1, HeardSame, SendHeard

\* Receivers only ever go.
LEMMA HungupGrows == [Next]_vars => hungup \subseteq hungup'
BY DEF Next, Call, Continue, Worker, Sweep, Dropping, Finished, vars, world, Submit, Enqueue,
   Approve, ApproveCheck, Deny, Cancel, CancelFind, CancelFlag, HangUp, CloseReport,
   CloseRecord, CloseRelease, DeadlinePasses, SweepNext, SweepScan, SweepTake, DropStop,
   DropCancel, DropClose, DropJoin, WorkerRecv, WorkerExit, WorkerLookup, WorkerLost,
   WorkerPark, WorkerParkFails, WorkerNotify, WorkerUnpark, WorkerStart, WorkerBegin,
   WorkerRun, WorkerReport, WorkerRecord, WorkerRelease, ReaderSend

\* Only the worker's steps move a session's machine or leave a reader behind.
LEMMA OthersLeaveRun == [Next]_vars /\ ~Worker => UNCHANGED <<worker, session, orphans>>
BY DEF Next, Call, Continue, Sweep, Dropping, Finished, vars, jobs, Submit, Enqueue, Approve,
   ApproveCheck, Deny, Cancel, CancelFind, CancelFlag, HangUp, CloseReport, CloseRecord,
   CloseRelease, DeadlinePasses, SweepNext, SweepScan, SweepTake, DropStop, DropCancel,
   DropClose, DropJoin, ReaderSend

\* A machine that is past Started stays so.
LEMMA RunStays ==
  ASSUME TypeInv, Worker, NEW s \in Sessions, HasRun(s)
  PROVE  HasRun(s)'
<1>1. session \in [Sessions -> Lifecycles]
  BY DEF TypeInv, TypeOK
<1>2. \A e : Accept(session[s], e) \in {"Running", "Finished"}
  BY DEF HasRun, Accept, Accepted, After
<1>3. session' = session \/ \E r, e : session' = [session EXCEPT ![r] = Accept(@, e)]
  <2>1. ASSUME NEW end \in {"Completed", "Cancelled", "Failed", "Panicked"}, WorkerRun(end)
        PROVE  session' = session \/ \E r, e : session' = [session EXCEPT ![r] = Accept(@, e)]
    BY <1>1, <2>1 DEF WorkerRun
  <2>2. CASE WorkerLookup
    BY <1>1, <2>2 DEF WorkerLookup
  <2>3. CASE WorkerStart \/ WorkerBegin
    BY <2>3 DEF WorkerStart, WorkerBegin
  <2> QED
    BY <2>1, <2>2, <2>3 DEF Worker, jobs, WorkerRecv, WorkerExit, WorkerLost, WorkerPark,
       WorkerParkFails, WorkerNotify, WorkerUnpark, WorkerReport, WorkerRecord, WorkerRelease
<1> QED BY <1>1, <1>2, <1>3 DEF HasRun

\* A reader starts after the session heard Started, and outlives its run only if
\* that panicked, of which the session then hears.
LEMMA OutputStep == BrokerInv /\ [Next]_vars => OutputInv'
<1> SUFFICES ASSUME BrokerInv, [Next]_vars, NEW s \in Streaming PROVE OutputInOrder(s)'
  BY DEF OutputInv
<1>a. /\ s \in Sessions /\ TypeInv /\ OutputInOrder(s)
      /\ worker \in [pc: WorkerPCs, job: Sessions \cup {None},
                     handle: Sessions \cup {None}, end: Endings]
  BY DEF BrokerInv, TypeInv, TypeOK, OutputInv
<1>b. /\ s \in hungup => s \in hungup'
      /\ Heard(s, "Started") => Heard(s, "Started")'
      /\ Heard(s, "Denied") => Heard(s, "Denied")'
  BY <1>a, HungupGrows, HeardGrows, Questions
<1>1. CASE ~Worker
  BY <1>1, <1>a, <1>b, OthersLeaveRun DEF OutputInOrder, Broke, HasRun
<1>2. CASE Worker
  <2>1. HasRun(s) => HasRun(s)'
    BY <1>2, <1>a, RunStays
  <2>2. ASSUME UNCHANGED orphans, ~(worker'.job = s /\ worker'.pc = "run"), ~Broke(s)
        PROVE  OutputInOrder(s)'
    BY <1>a, <1>b, <2>1, <2>2 DEF OutputInOrder
  <2>3. CASE WorkerRecv \/ WorkerNotify \/ WorkerRelease
    <3>1. worker.pc \in {"recv", "notify", "release"} /\ UNCHANGED orphans
      BY <2>3 DEF WorkerRecv, WorkerNotify, WorkerRelease, jobs
    <3>2. worker'.pc # "run"
      <4>1. CASE WorkerRecv
        BY <4>1 DEF WorkerRecv, Rest
      <4>2. CASE WorkerNotify
        BY <1>a, <4>2 DEF WorkerNotify, Rest
      <4>3. CASE WorkerRelease
        BY <4>3 DEF WorkerRelease, Rest
      <4> QED BY <2>3, <4>1, <4>2, <4>3
    <3> QED BY <2>2, <3>1, <3>2 DEF Broke
  <2>4. CASE WorkerExit \/ WorkerLost \/ WorkerPark \/ WorkerParkFails \/ WorkerUnpark
             \/ WorkerRecord
    BY <1>a, <2>2, <2>4 DEF WorkerExit, WorkerLost, WorkerPark, WorkerParkFails, WorkerUnpark,
       WorkerRecord, jobs, Work, Broke
  <2>5. CASE WorkerLookup \/ WorkerStart
    BY <1>a, <2>2, <2>5 DEF WorkerLookup, WorkerStart, Work, Broke
  <2>6. CASE WorkerBegin
    <3>1. CASE worker.job = s /\ worker'.pc = "run"
      <4>1. Send(s, "Started")
        BY <2>6, <3>1, <1>a DEF WorkerBegin
      <4>2. Heard(s, "Started")' \/ s \in hungup'
        BY <4>1, <1>a, <1>b, SendHeard, Questions
      <4> QED BY <2>6, <4>2, <1>a, <1>b, <2>1 DEF WorkerBegin, OutputInOrder, Broke
    <3> QED BY <1>a, <2>2, <2>6, <3>1 DEF WorkerBegin, Broke
  <2>7. ASSUME NEW end \in {"Completed", "Cancelled", "Failed", "Panicked"}, WorkerRun(end)
        PROVE  OutputInOrder(s)'
    <3>1. worker.pc = "run" /\ worker'.pc = "report" /\ worker'.job = worker.job /\ worker'.end = end
      BY <1>a, <2>7 DEF WorkerRun
    <3>2. CASE end = "Panicked" /\ worker.job = s
      <4>1. HasRun(s)
        BY <3>1, <3>2 DEF BrokerInv, ContractInv, WorkerKnows
      <4>2. Broke(s)'
        BY <3>1, <3>2 DEF Broke
      <4> QED BY <1>a, <1>b, <2>1, <3>1, <3>2, <4>1, <4>2 DEF OutputInOrder
    <3>3. CASE ~(end = "Panicked" /\ worker.job = s)
      BY <1>a, <1>b, <2>1, <2>7, <3>1, <3>3 DEF WorkerRun, OutputInOrder, Broke
    <3> QED BY <3>2, <3>3
  <2>8. CASE WorkerReport
    <3>1. worker'.pc = "record" /\ UNCHANGED orphans
      BY <1>a, <2>8 DEF WorkerReport, Work, jobs
    <3>2. CASE Broke(s)
      <4>1. Send(s, "Denied")
        BY <2>8, <3>2 DEF WorkerReport, Broke, Signal
      <4>2. Heard(s, "Denied")' \/ s \in hungup'
        BY <4>1, <1>a, <1>b, SendHeard, Questions
      <4> QED BY <1>a, <1>b, <2>1, <3>1, <4>2 DEF OutputInOrder
    <3> QED BY <2>2, <3>1, <3>2
  <2> QED BY <1>2, <2>3, <2>4, <2>5, <2>6, <2>7, <2>8 DEF Worker
<1> QED BY <1>1, <1>2

\* The four invariants hold together.
THEOREM BrokerInvHolds == Spec => []BrokerInv
<1>1. Init => BrokerInv
  BY TypeInit, OwnerInit, ContractInit, OutputInit DEF BrokerInv
<1>2. BrokerInv /\ [Next]_vars => BrokerInv'
  BY TypeStep, OwnerStep, ContractStep, OutputStep DEF BrokerInv
<1> QED BY <1>1, <1>2, PTL DEF Spec

\* Whatever ids the callers pick and however they race, process_job hands a risky
\* request to the runtime only after `approve` admitted it, and after the caller,
\* unless it dropped its receiver, was sent PendingApproval.
THEOREM AskedFirst == Spec => []AskedBeforeRun
<1>1. BrokerInv => AskedBeforeRun
  BY DEF BrokerInv, ContractInv, WorkerKnows, AskedInOrder, AskedBeforeRun, Begun,
         Undecided, Approved, Asking
<1> QED BY BrokerInvHolds, <1>1, PTL

\* The broker keeps its promise to each caller (SessionContract): whatever ids the
\* callers pick, one question before the run, one run at a time, one ending, and
\* nobody given up in silence who had a right to an answer.
THEOREM Implements == Spec => KeepsContract
BY BrokerInvHolds, InitKeeps, StepKeeps, PTL DEF Spec, KeepsContract, Contract!Spec
=============================================================================
