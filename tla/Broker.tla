------------------------------- MODULE Broker -------------------------------
(***************************************************************************)
(* The action broker of broker.rs: callers submit, approve, deny and       *)
(* cancel sessions; one worker thread runs them; a sweeper thread denies   *)
(* the approvals nobody answered; dropping the broker stops both.          *)
(*                                                                         *)
(* Atomicity is the code's: one action per critical section of a mutex,    *)
(* per channel send or receive, and per access of an atomic flag.          *)
(*                                                                         *)
(* A member of Sessions is one submission: its request, its Job and its    *)
(* CancelHandle.  Jobs are moved, never copied, so a job is named by its   *)
(* session wherever it is held.  The caller picks the u64 id of a request, *)
(* so nothing here makes Id injective.  Only valid WASI requests are       *)
(* submitted; `submit` refuses the others without touching any state.      *)
(***************************************************************************)
EXTENDS SessionLifecycle, Integers, Sequences, FiniteSets

CONSTANTS
  Sessions,   \* submissions; finite in every run, which bounds the queue
  Ids,        \* the u64 request ids
  Id,         \* [Sessions -> Ids], CommandRequest::id
  Risky,      \* sessions `classify_risk` does not auto-approve
  Streaming,  \* sessions of `submit_streaming`; the others of `submit`
  Droppers,   \* sessions whose caller may drop the receiver
  Callers,    \* threads that share the broker
  Sweeper,    \* the sweeper thread
  Capacity,   \* ActionBroker::capacity
  MaxAudit,   \* DEFAULT_MAX_AUDIT_ENTRIES
  MayPanic,   \* whether the worker may panic on a job: in the backend on a
              \* guest, or on a deadline that the clock cannot represent
  AwaitEnd,   \* callers reuse an id only after its session reported its end
  None

ASSUME IdAssumption       == Id \in [Sessions -> Ids]
ASSUME ClassAssumption    == /\ Risky \subseteq Sessions
                             /\ Streaming \subseteq Sessions
                             /\ Droppers \subseteq Sessions
ASSUME ThreadAssumption   == Sweeper \notin Callers
ASSUME CapacityAssumption == Capacity \in Nat \ {0}
ASSUME AuditAssumption    == MaxAudit \in Nat \ {0}
ASSUME FlagAssumption     == MayPanic \in BOOLEAN /\ AwaitEnd \in BOOLEAN
ASSUME NoneAssumption     == None \notin Sessions /\ None \notin Ids

VARIABLES
  handles,    \* BrokerState::handles: which session's handle an id maps to
  pending,    \* BrokerState::pending: which parked job an id maps to
  audit,      \* BrokerState::audit
  queue,      \* the mpsc channel of jobs
  cancelled,  \* sessions whose CancelHandle is set
  admission,  \* Job::admission
  session,    \* Job::session
  orphans,    \* streaming sessions whose reader thread outlived a panicked run
  due,        \* parked sessions whose approval deadline has passed
  stream,     \* what was delivered to each session's receiver
  hungup,     \* sessions whose receiver was dropped
  submitted,  \* submissions made so far
  th,         \* what each caller, and the sweeper, is in the middle of
  expired,    \* the ids the sweeper still has to deny in this pass
  worker,     \* the worker thread
  drop        \* how far Drop got

vars == <<handles, pending, audit, queue, cancelled, admission, session, orphans,
          due, stream, hungup, submitted, th, expired, worker, drop>>

world == <<hungup, submitted, due>>
jobs  == <<admission, session, orphans>>
maps  == <<handles, pending, queue>>
-----------------------------------------------------------------------------
Threads    == Callers \cup {Sweeper}
Admissions == {"AutoApproved", "Approved"}
Verdicts   == {"Denied", "TimedOut", "Cancelled"}   \* closed without running
Outcomes   == {"Completed", "Cancelled", "Denied", "Failed"}  \* AuditOutcome
Endings    == Outcomes \cup {"Panicked"}
Terminals  == {"Completed", "Exited", "Cancelled", "Denied", "Failed", "Unsupported"}
Outputs    == {"Output", "Overrun"}   \* an Output a client takes; one past the budget
Signals    == Terminals \cup {"PendingApproval", "Started"} \cup Outputs

AuditEntries == [job: Sessions, decision: Admissions \cup Verdicts, outcome: Outcomes]

ThreadPCs == {"idle", "enqueue", "approve", "report", "record", "release",
              "find", "flag", "sleep", "exit"}
WorkerPCs == {"recv", "lookup", "lost", "park", "notify", "unpark", "start",
              "begin", "run", "report", "record", "release", "exit"}

\* What a thread is in the middle of.
Tasks == [pc: ThreadPCs, job: Sessions \cup {None}, id: Ids \cup {None}, why: Verdicts]

Idle == [pc |-> "idle", job |-> None, id |-> None, why |-> "Denied"]
Rest == [pc |-> "recv", job |-> None, handle |-> None, end |-> "Failed"]

\* A thread moves on with a job in hand.
Move(t, pc)         == th' = [th EXCEPT ![t].pc = pc]
Take(t, pc, s, why) == th' = [th EXCEPT ![t] =
                         [pc |-> pc, job |-> s, id |-> Id[s], why |-> why]]
Work(pc)            == worker' = [worker EXCEPT !.pc = pc]

\* A send is lost when the receiver is gone.
Send(s, e) == stream' = IF s \in hungup THEN stream
                        ELSE [stream EXCEPT ![s] = Append(@, e)]

\* What a session that ends this way is told: a BrokerOutcome, or a
\* SessionEvent.  The panic barrier reports a denial.
Signal(s, end) ==
  CASE end \in {"Denied", "TimedOut", "Panicked"} -> "Denied"
    [] end = "Completed" /\ s \in Streaming      -> "Exited"
    [] end = "Failed" /\ s \in Streaming         -> "Unsupported"
    [] OTHER                                     -> end

\* The AuditOutcome of a session that ends this way.
Outcome(end) ==
  CASE end = "Panicked" -> "Failed"
    [] end = "TimedOut" -> "Denied"
    [] OTHER            -> end

\* Mistaken variant: the trail never evicts.
RecordForever(s, decision, end) ==
  audit' = Append(audit, [job |-> s, decision |-> decision, outcome |-> Outcome(end)])

\* BrokerState::record: append, then drop the oldest beyond the cap.
Record(s, decision, end) ==
  LET grown == Append(audit, [job |-> s, decision |-> decision, outcome |-> Outcome(end)])
  IN  audit' = IF Len(grown) > MaxAudit THEN Tail(grown) ELSE grown

\* state.handles.lock().remove(&id), whoever's handle is under the id now.
Release(i) == handles' = [handles EXCEPT ![i] = None]

Open == drop = "open"

Heard(s, e) == \E k \in DOMAIN stream[s] : stream[s][k] = e
HasEnded(s) == \E k \in DOMAIN stream[s] : stream[s][k] \in Terminals
-----------------------------------------------------------------------------
Init ==
  /\ handles = [i \in Ids |-> None]
  /\ pending = [i \in Ids |-> None]
  /\ audit = <<>>
  /\ queue = <<>>
  /\ cancelled = {}
  /\ admission = [s \in Sessions |-> "AutoApproved"]
  /\ session = [s \in Sessions |-> "Created"]
  /\ orphans = {}
  /\ due = {}
  /\ stream = [s \in Sessions |-> <<>>]
  /\ hungup = {}
  /\ submitted = {}
  /\ th = [t \in Threads |-> Idle]
  /\ expired = {}
  /\ worker = Rest
  /\ drop = "open"
-----------------------------------------------------------------------------
(* Mistaken variants of the actions below, each the way a change to the     *)
(* code could plausibly go wrong.  No specification uses them: they stand  *)
(* in for the action they vary, to see which property notices.             *)

\* approve takes the session off the books as if it had ended.
ApproveCheckReleasing(t) ==
  /\ th[t].pc = "approve"
  /\ handles' = [handles EXCEPT ![th[t].id] = None]
  /\ admission' = [admission EXCEPT ![th[t].job] = "Approved"]
  /\ Move(t, "enqueue")
  /\ UNCHANGED <<pending, queue, audit, cancelled, session, orphans, world,
                 stream, expired, worker, drop>>

\* deny peeks at the parked job instead of taking it out.
DenyPeeking(t, i) ==
  /\ Open /\ th[t].pc = "idle" /\ pending[i] # None
  /\ Take(t, "report", pending[i], "Denied")
  /\ UNCHANGED <<maps, audit, cancelled, jobs, world, stream, expired, worker, drop>>

\* cancel removes the handle it should clone.
CancelFindRemoving(t) ==
  /\ th[t].pc = "find"
  /\ handles[th[t].id] # None
  /\ handles' = [handles EXCEPT ![th[t].id] = None]
  /\ Take(t, "flag", handles[th[t].id], "Cancelled")
  /\ UNCHANGED <<pending, queue, audit, cancelled, jobs, world, stream, expired,
                 worker, drop>>

\* A cancelled session is released without an audit entry.
CloseReportUnrecorded(t) ==
  /\ th[t].pc = "report"
  /\ Send(th[t].job, Signal(th[t].job, th[t].why))
  /\ Move(t, IF th[t].why = "Cancelled" THEN "release" ELSE "record")
  /\ UNCHANGED <<maps, audit, cancelled, jobs, world, expired, worker, drop>>

\* Whatever closed the session, the trail says the human denied it.
CloseRecordDenied(t) ==
  /\ th[t].pc = "record"
  /\ Record(th[t].job, "Denied", "Denied")
  /\ Move(t, "release")
  /\ UNCHANGED <<maps, cancelled, jobs, world, stream, expired, worker, drop>>

\* The worker notifies only what is still parked.
WorkerNotifyParked ==
  /\ worker.pc = "notify"
  /\ IF pending[Id[worker.job]] = worker.job THEN Send(worker.job, "PendingApproval")
                                             ELSE UNCHANGED stream
  /\ worker' = Rest
  /\ UNCHANGED <<maps, audit, cancelled, jobs, world, th, expired, drop>>

\* The worker unparks the job of a caller that is gone and keeps its handle.
WorkerUnparkLeaking ==
  /\ worker.pc = "unpark"
  /\ pending' = [pending EXCEPT ![Id[worker.job]] = None]
  /\ worker' = Rest
  /\ UNCHANGED <<handles, queue, audit, cancelled, jobs, world, stream, th,
                 expired, drop>>

\* The worker leaves a set handle for the runtime to notice.
WorkerStartBlind ==
  /\ worker.pc = "start" /\ Work("begin")
  /\ UNCHANGED <<maps, audit, cancelled, jobs, world, stream, th, expired, drop>>

\* run_wasi_events returns without joining its reader.
WorkerRunUnjoined(end) ==
  /\ worker.pc = "run"
  /\ end = "Cancelled" => worker.handle \in cancelled
  /\ end = "Panicked" => MayPanic
  /\ worker' = [worker EXCEPT !.pc = "report", !.end = end]
  /\ session' = [session EXCEPT ![worker.job] =
                   CASE end = "Completed" -> Accept(@, "Exited")
                     [] end = "Cancelled" -> Accept(@, "Cancelled")
                     [] end = "Failed"    -> Accept(@, "Unsupported")
                     [] OTHER             -> @]
  /\ orphans' = orphans \cup (Streaming \cap {worker.job})
  /\ UNCHANGED <<maps, audit, cancelled, admission, world, stream, th, expired, drop>>

\* A worker that finds the broker dropped leaves at once.
WorkerExitEarly ==
  /\ worker.pc = "recv" /\ drop = "closed"
  /\ Work("exit")
  /\ UNCHANGED <<maps, audit, cancelled, jobs, world, stream, th, expired, drop>>

\* The sweeper drops an expired job instead of answering its caller.
SweepTakeSilent(i) ==
  /\ th[Sweeper].pc = "idle" /\ i \in expired
  /\ expired' = expired \ {i}
  /\ pending' = [pending EXCEPT ![i] = None]
  /\ UNCHANGED <<handles, queue, audit, cancelled, jobs, world, stream, th, worker, drop>>

\* Drop joins the worker before it closes the queue.
DropCloseLate ==
  /\ drop = "cancelled" /\ worker.pc = "exit"
  /\ drop' = "closed"
  /\ UNCHANGED <<maps, audit, cancelled, jobs, world, stream, th, expired, worker>>
-----------------------------------------------------------------------------
(* The API, called by any caller at any time while the broker is shared.   *)
(* Calls that only return an error leave the state alone and are left out. *)

\* A caller may reuse the id of an earlier submission at any time or, when
\* AwaitEnd, once that submission's receiver yielded its terminal signal.
MayUse(i) == AwaitEnd => \A r \in submitted : Id[r] = i => HasEnded(r)

\* submit, submit_streaming and the locked half of enqueue
Submit(t, s) ==
  /\ Open /\ th[t].pc = "idle"
  /\ s \notin submitted /\ MayUse(Id[s])
  /\ Cardinality({i \in Ids : handles[i] # None}) < Capacity
  /\ handles' = [handles EXCEPT ![Id[s]] = s]
  /\ submitted' = submitted \cup {s}
  /\ Take(t, "enqueue", s, "Denied")
  /\ UNCHANGED <<pending, queue, audit, cancelled, jobs, due, hungup, stream,
                 expired, worker, drop>>

\* queue_tx.send(job), at the end of enqueue and of approve.  The worker
\* leaves only after Drop closed the queue, so the send cannot fail here.
Enqueue(t) ==
  /\ th[t].pc = "enqueue"
  /\ queue' = Append(queue, th[t].job)
  /\ th' = [th EXCEPT ![t] = Idle]
  /\ UNCHANGED <<handles, pending, audit, cancelled, jobs, world, stream,
                 expired, worker, drop>>

\* approve takes the parked job out ...
Approve(t, i) ==
  /\ Open /\ th[t].pc = "idle" /\ pending[i] # None
  /\ pending' = [pending EXCEPT ![i] = None]
  /\ Take(t, "approve", pending[i], "Cancelled")
  /\ UNCHANGED <<handles, queue, audit, cancelled, jobs, world, stream,
                 expired, worker, drop>>

\* ... and reports a cancellation that came meanwhile, or admits the job
ApproveCheck(t) ==
  LET s == th[t].job
      h == handles[th[t].id]
  IN  /\ th[t].pc = "approve"
      /\ \/ h \in cancelled /\ Move(t, "report") /\ UNCHANGED admission
         \/ /\ h \notin cancelled
            /\ admission' = [admission EXCEPT ![s] = "Approved"]
            /\ Move(t, "enqueue")
      /\ UNCHANGED <<maps, audit, cancelled, session, orphans, world, stream,
                     expired, worker, drop>>

\* deny takes the parked job out
Deny(t, i) ==
  /\ Open /\ th[t].pc = "idle" /\ pending[i] # None
  /\ pending' = [pending EXCEPT ![i] = None]
  /\ Take(t, "report", pending[i], "Denied")
  /\ UNCHANGED <<handles, queue, audit, cancelled, jobs, world, stream,
                 expired, worker, drop>>

\* cancel takes a parked job out, or goes on to look for a live handle
Cancel(t, i) ==
  /\ Open /\ th[t].pc = "idle"
  /\ \/ pending[i] # None /\ Take(t, "report", pending[i], "Cancelled")
     \/ /\ pending[i] = None
        /\ th' = [th EXCEPT ![t] = [Idle EXCEPT !.pc = "find", !.id = i]]
  /\ pending' = [pending EXCEPT ![i] = None]
  /\ UNCHANGED <<handles, queue, audit, cancelled, jobs, world, stream,
                 expired, worker, drop>>

\* cancel clones the handle under the id, or fails with UnknownSession
CancelFind(t) ==
  LET h == handles[th[t].id]
  IN  /\ th[t].pc = "find"
      /\ \/ h = None /\ th' = [th EXCEPT ![t] = Idle]
         \/ h # None /\ Take(t, "flag", h, "Cancelled")
      /\ UNCHANGED <<maps, audit, cancelled, jobs, world, stream, expired,
                     worker, drop>>

\* handle.cancel(), after the lock on the handles is gone
CancelFlag(t) ==
  /\ th[t].pc = "flag"
  /\ cancelled' = cancelled \cup {th[t].job}
  /\ th' = [th EXCEPT ![t] = Idle]
  /\ UNCHANGED <<maps, audit, jobs, world, stream, expired, worker, drop>>

\* The caller drops the receiver that `submit` returned.
HangUp(s) ==
  /\ s \in (Droppers \cap submitted) \ hungup
  /\ \A t \in Callers : ~(th[t].pc = "enqueue" /\ th[t].job = s /\ admission[s] # "Approved")
  /\ hungup' = hungup \cup {s}
  /\ UNCHANGED <<maps, audit, cancelled, jobs, due, stream, submitted, th,
                 expired, worker, drop>>
-----------------------------------------------------------------------------
(* Closing a job that was taken out of `pending`: the same three steps in  *)
(* approve, deny, cancel and the sweeper.                                  *)

CloseReport(t) ==
  /\ th[t].pc = "report"
  /\ Send(th[t].job, Signal(th[t].job, th[t].why))
  /\ Move(t, "record")
  /\ UNCHANGED <<maps, audit, cancelled, jobs, world, expired, worker, drop>>

CloseRecord(t) ==
  /\ th[t].pc = "record"
  /\ Record(th[t].job, th[t].why, th[t].why)
  /\ Move(t, "release")
  /\ UNCHANGED <<maps, cancelled, jobs, world, stream, expired, worker, drop>>

CloseRelease(t) ==
  /\ th[t].pc = "release"
  /\ Release(th[t].id)
  /\ th' = [th EXCEPT ![t] = Idle]
  /\ UNCHANGED <<pending, queue, audit, cancelled, jobs, world, stream,
                 expired, worker, drop>>
-----------------------------------------------------------------------------
(* The worker: worker_loop, process_job_guarded, process_job, execute.     *)

\* queue_rx.recv()
WorkerRecv ==
  /\ worker.pc = "recv" /\ queue # <<>>
  /\ worker' = [Rest EXCEPT !.pc = "lookup", !.job = Head(queue)]
  /\ queue' = Tail(queue)
  /\ UNCHANGED <<handles, pending, audit, cancelled, jobs, world, stream, th,
                 expired, drop>>

\* recv fails once the channel is empty and its last sender is gone
WorkerExit ==
  /\ worker.pc = "recv" /\ queue = <<>> /\ drop = "closed"
  /\ Work("exit")
  /\ UNCHANGED <<maps, audit, cancelled, jobs, world, stream, th, expired, drop>>

\* Fetch the handle by id, then classify: park what still needs a human.
WorkerLookup ==
  LET s == worker.job
      h == handles[Id[s]]
      parks == s \in Risky /\ admission[s] # "Approved"
  IN  /\ worker.pc = "lookup"
      /\ worker' = [worker EXCEPT !.handle = h,
                      !.pc = IF h = None THEN "lost" ELSE IF parks THEN "park" ELSE "start"]
      /\ session' = [session EXCEPT ![s] =
                       IF h # None /\ parks THEN Accept(@, "PendingApproval") ELSE @]
      /\ UNCHANGED <<maps, audit, cancelled, admission, orphans, world, stream,
                     th, expired, drop>>

\* "session handle disappeared before start": denied, and never recorded
WorkerLost ==
  /\ worker.pc = "lost"
  /\ Send(worker.job, "Denied")
  /\ Work("release")
  /\ UNCHANGED <<maps, audit, cancelled, jobs, world, th, expired, drop>>

\* Park before notifying.  A job parked under the same id is dropped.
WorkerPark ==
  /\ worker.pc = "park"
  /\ pending' = [pending EXCEPT ![Id[worker.job]] = worker.job]
  /\ Work("notify")
  /\ UNCHANGED <<handles, queue, audit, cancelled, jobs, world, stream, th,
                 expired, drop>>

\* Instant::now() + approval_timeout overflows: nothing is parked, and the
\* panic barrier closes the session.
WorkerParkFails ==
  /\ worker.pc = "park" /\ MayPanic
  /\ worker' = [worker EXCEPT !.pc = "report", !.end = "Panicked"]
  /\ UNCHANGED <<maps, audit, cancelled, jobs, world, stream, th, expired, drop>>

\* Notify through a clone of the sink; a caller that is gone cannot decide.
WorkerNotify ==
  /\ worker.pc = "notify"
  /\ Send(worker.job, "PendingApproval")
  /\ worker' = IF worker.job \in hungup THEN [worker EXCEPT !.pc = "unpark"] ELSE Rest
  /\ UNCHANGED <<maps, audit, cancelled, jobs, world, th, expired, drop>>

WorkerUnpark ==
  /\ worker.pc = "unpark"
  /\ pending' = [pending EXCEPT ![Id[worker.job]] = None]
  /\ Work("release")
  /\ UNCHANGED <<handles, queue, audit, cancelled, jobs, world, stream, th,
                 expired, drop>>

\* execute_capturing / execute_streaming: a handle that is set by now skips
\* the guest ...
WorkerStart ==
  /\ worker.pc = "start"
  /\ \/ /\ worker.handle \in cancelled
        /\ worker' = [worker EXCEPT !.pc = "report", !.end = "Cancelled"]
        /\ session' = [session EXCEPT ![worker.job] = Accept(@, "Cancelled")]
     \/ worker.handle \notin cancelled /\ Work("begin") /\ UNCHANGED session
  /\ UNCHANGED <<maps, audit, cancelled, admission, orphans, world, stream, th,
                 expired, drop>>

\* ... and so would a session machine that refused to start.
WorkerBegin ==
  LET s == worker.job
      starts == "Started" \in Accepted[session[s]]
  IN  /\ worker.pc = "begin"
      /\ worker' = [worker EXCEPT !.pc = IF starts THEN "run" ELSE "report", !.end = "Denied"]
      /\ session' = [session EXCEPT ![s] = Accept(@, "Started")]
      /\ IF starts /\ s \in Streaming THEN Send(s, "Started") ELSE UNCHANGED stream
      /\ UNCHANGED <<maps, audit, cancelled, admission, orphans, world, th,
                     expired, drop>>

\* The runtime returns: any run may complete or fail, and one whose handle is
\* set may be interrupted.  The machine refuses `Unsupported` while running.  A
\* panic unwinds past the join of the reader, if it was started by then.
WorkerRun(end) ==
  /\ worker.pc = "run"
  /\ end = "Cancelled" => worker.handle \in cancelled
  /\ end = "Panicked" => MayPanic
  /\ worker' = [worker EXCEPT !.pc = "report", !.end = end]
  /\ session' = [session EXCEPT ![worker.job] =
                   CASE end = "Completed" -> Accept(@, "Exited")
                     [] end = "Cancelled" -> Accept(@, "Cancelled")
                     [] end = "Failed"    -> Accept(@, "Unsupported")
                     [] OTHER             -> @]
  /\ orphans' = IF end = "Panicked" THEN orphans \cup (Streaming \cap {worker.job})
                                    ELSE orphans
  /\ UNCHANGED <<maps, audit, cancelled, admission, world, stream, th, expired, drop>>

\* The reader thread of a streaming run sends the guest's output while the run
\* lasts.  A run joins its reader, except one that panics.  Only the first chunk
\* that a client takes and the first that it refuses are kept in the stream: no
\* chunk exceeds the budget by itself, so one is taken before one is refused.
ReaderSend(s, e) ==
  /\ (worker.pc = "run" /\ worker.job = s) \/ s \in orphans
  /\ ~Heard(s, e)
  /\ e = "Overrun" => Heard(s, "Output")
  /\ Send(s, e)
  /\ UNCHANGED <<maps, audit, cancelled, jobs, world, th, expired, worker, drop>>

WorkerReport ==
  /\ worker.pc = "report"
  /\ Send(worker.job, Signal(worker.job, worker.end))
  /\ Work("record")
  /\ UNCHANGED <<maps, audit, cancelled, jobs, world, th, expired, drop>>

WorkerRecord ==
  /\ worker.pc = "record"
  /\ Record(worker.job, admission[worker.job], worker.end)
  /\ Work("release")
  /\ UNCHANGED <<maps, cancelled, jobs, world, stream, th, expired, drop>>

WorkerRelease ==
  /\ worker.pc = "release"
  /\ Release(Id[worker.job])
  /\ worker' = Rest
  /\ UNCHANGED <<pending, queue, audit, cancelled, jobs, world, stream, th,
                 expired, drop>>

Worker ==
  \/ WorkerRecv \/ WorkerExit \/ WorkerLookup \/ WorkerLost
  \/ WorkerPark \/ WorkerParkFails \/ WorkerNotify \/ WorkerUnpark
  \/ WorkerStart \/ WorkerBegin \/ (\E end \in {"Completed", "Cancelled", "Failed", "Panicked"} : WorkerRun(end))
  \/ WorkerReport \/ WorkerRecord \/ WorkerRelease
-----------------------------------------------------------------------------
(* The sweeper and the clock it reads.                                     *)

\* The approval timeout of a parked job runs out.
DeadlinePasses(s) ==
  /\ pending[Id[s]] = s /\ s \notin due
  /\ due' = due \cup {s}
  /\ UNCHANGED <<maps, audit, cancelled, jobs, stream, hungup, submitted, th,
                 expired, worker, drop>>

\* The loop condition, read between passes.
SweepNext ==
  /\ th[Sweeper].pc = "idle" /\ expired = {}
  /\ Move(Sweeper, IF Open THEN "sleep" ELSE "exit")
  /\ UNCHANGED <<maps, audit, cancelled, jobs, world, stream, expired, worker, drop>>

\* After the sleep, collect the ids whose deadline passed, under the lock.
SweepScan ==
  /\ th[Sweeper].pc = "sleep"
  /\ expired' = {i \in Ids : pending[i] \in due}
  /\ Move(Sweeper, "idle")
  /\ UNCHANGED <<maps, audit, cancelled, jobs, world, stream, worker, drop>>

\* Later, and one by one, take out whatever is parked under the id by now.
SweepTake(i) ==
  /\ th[Sweeper].pc = "idle" /\ i \in expired
  /\ expired' = expired \ {i}
  /\ pending' = [pending EXCEPT ![i] = None]
  /\ IF pending[i] # None THEN Take(Sweeper, "report", pending[i], "TimedOut")
                          ELSE UNCHANGED th
  /\ UNCHANGED <<handles, queue, audit, cancelled, jobs, world, stream, worker, drop>>
-----------------------------------------------------------------------------
(* Drop takes the broker by &mut, so no call is in progress when it runs.  *)

DropStop ==
  /\ Open /\ \A t \in Callers : th[t].pc = "idle"
  /\ drop' = "stopped"
  /\ UNCHANGED <<maps, audit, cancelled, jobs, world, stream, th, expired, worker>>

DropCancel ==
  /\ drop = "stopped"
  /\ cancelled' = cancelled \cup {handles[i] : i \in {j \in Ids : handles[j] # None}}
  /\ drop' = "cancelled"
  /\ UNCHANGED <<maps, audit, jobs, world, stream, th, expired, worker>>

DropClose ==
  /\ drop = "cancelled"
  /\ drop' = "closed"
  /\ UNCHANGED <<maps, audit, cancelled, jobs, world, stream, th, expired, worker>>

\* Both threads joined; the last Arc of the state goes, and with it the
\* handles and the jobs that are still parked.
DropJoin ==
  /\ drop = "closed" /\ worker.pc = "exit" /\ th[Sweeper].pc = "exit"
  /\ handles' = [i \in Ids |-> None]
  /\ pending' = [i \in Ids |-> None]
  /\ drop' = "gone"
  /\ UNCHANGED <<queue, audit, cancelled, jobs, world, stream, th, expired, worker>>

\* The only state in which the system may stop.
Finished == drop = "gone" /\ UNCHANGED vars
-----------------------------------------------------------------------------
\* The rest of a call that has begun, and the sweeper's closing steps.
Continue(t) ==
  \/ Enqueue(t) \/ ApproveCheck(t) \/ CancelFind(t) \/ CancelFlag(t)
  \/ CloseReport(t) \/ CloseRecord(t) \/ CloseRelease(t)

Call(t) ==
  \/ \E s \in Sessions : Submit(t, s)
  \/ \E i \in Ids : Approve(t, i) \/ Deny(t, i) \/ Cancel(t, i)

Sweep == SweepScan \/ (\E i \in Ids : SweepTake(i)) \/ SweepNext

Dropping == DropCancel \/ DropClose \/ DropJoin

Next ==
  \/ \E t \in Callers : Call(t)
  \/ \E t \in Threads : Continue(t)
  \/ \E s \in Sessions : HangUp(s) \/ DeadlinePasses(s)
  \/ \E s \in Streaming, e \in Outputs : ReaderSend(s, e)
  \/ Worker \/ Sweep
  \/ DropStop \/ Dropping \/ Finished

Spec == Init /\ [][Next]_vars

\* Threads that have work do it; the guest ends because the runtime bounds
\* it; time passes.  Callers owe nothing: they need not submit, decide or drop.
Fairness ==
  /\ WF_vars(Worker)
  /\ WF_vars(Sweep)
  /\ WF_vars(Dropping)
  /\ \A t \in Threads : WF_vars(Continue(t))
  /\ \A s \in Sessions : WF_vars(DeadlinePasses(s))

FairSpec == Spec /\ Fairness
-----------------------------------------------------------------------------
(* Where a job is.  It is moved between these places and never copied.     *)

InQueue(s)     == \E k \in DOMAIN queue : queue[k] = s
Parked(s)      == pending[Id[s]] = s
AtWorker(s)    == worker.job = s /\ worker.pc \in {"lookup", "lost", "park", "start",
                                                   "begin", "run", "report"}
AtThread(t, s) == th[t].job = s /\ th[t].pc \in {"enqueue", "approve", "report"}

\* Somebody may still report the session's end.
Unsettled(s) == InQueue(s) \/ Parked(s) \/ AtWorker(s) \/ \E t \in Threads : AtThread(t, s)

\* Its end was reported and has yet to be recorded; then its id released.
Unrecorded(s) == \/ worker.job = s /\ worker.pc = "record"
                 \/ \E t \in Threads : th[t].job = s /\ th[t].pc = "record"
Unreleased(s) == \/ worker.job = s /\ worker.pc \in {"record", "unpark", "release"}
                 \/ \E t \in Threads : th[t].job = s /\ th[t].pc \in {"record", "release"}

\* The worker found the handle of s not set, or went on from there.
Begun(s) == worker.job = s /\ worker.pc \in {"begin", "run"}

EntriesOf(s) == {k \in DOMAIN audit : audit[k].job = s}
-----------------------------------------------------------------------------
(* Properties.  The comment says for which callers each one holds.         *)

\* The type invariant; the bound on the trail is that of BrokerState::record.
TypeOK ==
  /\ handles \in [Ids -> Sessions \cup {None}]
  /\ pending \in [Ids -> Sessions \cup {None}]
  /\ audit \in Seq(AuditEntries) /\ Len(audit) <= MaxAudit
  /\ queue \in Seq(Sessions)
  /\ cancelled \subseteq Sessions
  /\ admission \in [Sessions -> Admissions]
  /\ session \in [Sessions -> Lifecycles]
  /\ orphans \subseteq Streaming
  /\ due \subseteq Sessions
  /\ stream \in [Sessions -> Seq(Signals)]
  /\ hungup \subseteq submitted
  /\ submitted \subseteq Sessions
  /\ th \in [Threads -> Tasks]
  /\ expired \subseteq Ids
  /\ worker \in [pc: WorkerPCs, job: Sessions \cup {None},
                 handle: Sessions \cup {None}, end: Endings]
  /\ drop \in {"open", "stopped", "cancelled", "closed", "gone"}

\* However approve, deny, cancel, the sweeper, the worker and Drop race, and
\* whatever ids the callers pick, a receiver yields at most one terminal signal
\* ("exactly one BrokerOutcome at the end").
AtMostOneTerminal ==
  \A s \in Sessions : \A j, k \in DOMAIN stream[s] :
    stream[s][j] \in Terminals /\ stream[s][k] \in Terminals => j = k

\* A handle stays registered only while some session of that id is on its way to
\* releasing it, so `capacity` is never eaten up by dead sessions.  Any callers.
NoHandleLeak ==
  \A i \in Ids : handles[i] # None =>
    \E s \in Sessions : Id[s] = i /\ (Unsettled(s) \/ Unreleased(s))

\* A risky session reaches the guest only after a human approved it, and its
\* caller, unless gone, was told PendingApproval before.  Any callers.
AskedBeforeRun ==
  \A s \in Risky : Begun(s) =>
    /\ admission[s] = "Approved"
    /\ Heard(s, "PendingApproval") \/ s \in hungup

\* With unique ids, a session that has not ended owns the handle under its id
\* ("each submitted session owns a CancelHandle registered under its session
\* id"): cancel(id) finds it wherever the session is.
OwnsHandle ==
  \A s \in Sessions \ hungup : Unsettled(s) => drop = "gone" \/ handles[Id[s]] = s

\* With unique ids, at most `capacity` sessions are queued, parked or running.
OutstandingBounded == Cardinality({s \in Sessions \ hungup : Unsettled(s)}) <= Capacity

\* With unique ids and callers that stay, a session has no audit entry before its
\* end is settled and one from then on, if the trail has not begun to evict; at
\* most one it has anyway.
AuditedExactlyOnce ==
  \A s \in submitted \ hungup :
    LET early   == Unsettled(s) \/ Unrecorded(s) \/ (drop = "gone" /\ ~HasEnded(s))
        entries == Cardinality(EntriesOf(s))
    IN  /\ early => entries = 0
        /\ ~early => entries = 1 \/ (entries = 0 /\ Len(audit) = MaxAudit)

\* The trail and the receiver tell the same story: a closed session never
\* started, a started one never was closed, and the outcomes correspond (a
\* contained panic is a failure in the trail and a denial to the caller).  A risky
\* session is on the books as AutoApproved only if it could not be parked.
AuditAgrees ==
  \A k \in DOMAIN audit :
    LET e == audit[k]
        told(x) == Heard(e.job, x)
    IN  e.job \notin hungup =>
          /\ e.decision \in Verdicts => /\ ~told("Started") /\ e.outcome = Outcome(e.decision)
                                        /\ told(Signal(e.job, e.decision))
          /\ e.decision \in Admissions =>
               \/ told(Signal(e.job, e.outcome))
               \/ e.outcome = "Failed" /\ told("Denied")
          /\ e.decision = "AutoApproved" /\ e.job \in Risky =>
               e.outcome = "Failed" /\ told("Denied") /\ ~told("Started")

\* With unique ids, a cancellation that lands before the worker looked at the
\* handle keeps the guest from ever running ("a cancelled session stays
\* cancelled"); the same for the sessions that Drop cancels.
CancelledNeverRuns ==
  [][\A s \in cancelled : Begun(s)' => Begun(s)]_vars

\* With unique ids, every submission is answered unless its caller hung up, Drop
\* included: only a session that still needs its decision may go with the broker.
EverySessionEnds ==
  \A s \in Sessions :
    s \in submitted ~> \/ HasEnded(s) \/ s \in hungup
                       \/ drop = "gone" /\ s \in Risky /\ admission[s] # "Approved"

\* The lifecycle of a client that runs its own SessionState over what it receives,
\* after each of the events q.
ClientStates(q) ==
  LET at[k \in 0..Len(q)] == IF k = 0 THEN "Created" ELSE Accept(at[k - 1], q[k])
  IN  at

\* Such a client of a streaming session can follow every event but four kinds: a
\* cancellation that spared the guest, the failure or panic of a guest that
\* started, output past the budget of a guest that is running as far as the client
\* knows, and the late question of a session that is over.  Any callers.
ClientFollows ==
  \A s \in Streaming : \A k \in DOMAIN stream[s] :
    \/ stream[s][k] \in Accepted[ClientStates(stream[s])[k - 1]]
    \/ stream[s][k] = "Cancelled" /\ ~Heard(s, "Started")
    \/ stream[s][k] \in {"Denied", "Unsupported"} /\ Heard(s, "Started")
    \/ stream[s][k] = "Overrun" /\ ClientStates(stream[s])[k - 1] = "Running"
    \/ stream[s][k] = "PendingApproval" /\ \E j \in 1..(k - 1) : stream[s][j] \in Terminals

\* Nobody is left without an answer: once no thread holds a session any more, or
\* the broker is gone, its caller was answered, or the session still needed its
\* decision and either lost its place to one of the same id or saw the broker
\* close.  Any callers that stay.
NobodyForgotten ==
  \A s \in submitted \ hungup :
    drop = "gone" \/ ~Unsettled(s) =>
      \/ HasEnded(s)
      \/ /\ s \in Risky /\ admission[s] # "Approved"
         /\ ~Open \/ \E r \in submitted \ {s} : Id[r] = Id[s]

\* Drop returns: both joins end, whatever was queued, parked or running.
DropReturns == drop = "stopped" ~> drop = "gone"
-----------------------------------------------------------------------------
(* The promise to each caller, which the broker keeps for any ids.         *)

\* The machine of a session is past Started only from the call of the runtime on.
HasRun(s) == session[s] \in {"Running", "Finished"}

Phase(s) ==
  CASE s \notin submitted -> "new"
    [] s \in submitted /\ Unsettled(s) -> IF HasRun(s) THEN "running" ELSE "waiting"
    [] OTHER               -> "over"

Approved == {s \in Sessions : admission[s] = "Approved"}

Contract == INSTANCE SessionContract WITH
              phase <- [s \in Sessions |-> Phase(s)], approved <- Approved, open <- Open

\* What a caller can rely on: one question, before the guest runs; one guest at a
\* time; one ending, which fits what the session did; and no session given up in
\* silence unless it still needs a decision nobody can take (broker.rs, docs of
\* the module, of BrokerOutcome and of JobSink).
KeepsContract == Contract!Spec
-----------------------------------------------------------------------------
(* What makes the invariants above inductive.                              *)

\* A thread that is somewhere in a call knows its session and id ...
Carrying == ThreadPCs \ {"idle", "find", "sleep", "exit"}

ThreadsInHand ==
  \A t \in Threads :
    /\ th[t].pc \in Carrying => th[t].job \in Sessions /\ th[t].id = Id[th[t].job]
    /\ th[t].pc = "find" => th[t].id \in Ids

\* ... the worker knows its job, and the maps are keyed by what they hold.
InHand ==
  /\ ThreadsInHand
  /\ worker.pc \notin {"recv", "exit"} => worker.job \in Sessions
  /\ \A i \in Ids :
       /\ pending[i] # None => Id[pending[i]] = i
       /\ handles[i] # None => Id[handles[i]] = i

\* What many callers do: no two submissions under one id.
UniqueIds == \A r, s \in Sessions : Id[r] = Id[s] => r = s

\* Whose end is being recorded, or whose id released, has been told so.
Reported == \A s \in Sessions : Unreleased(s) => HasEnded(s) \/ s \in hungup

\* With unique ids, the handle the worker looks at is its own job's.
RightHandle == worker.pc \in {"start", "begin", "run"} => worker.handle = worker.job

\* The job of s is in one place only.
OnePlace(s) ==
  /\ InQueue(s) => ~Parked(s) /\ ~AtWorker(s)
  /\ Parked(s) => ~AtWorker(s)
  /\ \A t \in Threads : AtThread(t, s) =>
       /\ ~InQueue(s) /\ ~Parked(s) /\ ~AtWorker(s)
       /\ \A u \in Threads : AtThread(u, s) => u = t

\* A session that is not submitted, or has ended, is nowhere.
Nowhere(s) ==
  /\ s \notin submitted => ~HasEnded(s)
  /\ s \notin submitted \/ HasEnded(s) => ~Unsettled(s)

QueuedOnce == \A j, k \in DOMAIN queue : queue[j] = queue[k] => j = k

\* What KeepsContract rests on.  A session the worker has not begun has not run ...
NotRunYet(s) ==
  /\ s \notin submitted => session[s] = "Created" /\ stream[s] = <<>> /\ s \notin Approved
  /\ HasRun(s) /\ Unsettled(s) => AtWorker(s) /\ worker.pc \in {"run", "report"}

\* ... one that is parked, or about to be approved, needs a decision; one that
\* was approved has been asked about, unless the worker is still to do so; and a
\* human is asked about a session only on its first way through the queue.
Undecided(s) == s \in Risky \ Approved
Asking(s)    == worker.job = s /\ worker.pc = "notify"

\* Still undecided, and on the way to being parked.
FirstPass(s) ==
  Undecided(s) /\ \/ InQueue(s)
                  \/ \E t \in Threads : th[t].job = s /\ th[t].pc = "enqueue"
                  \/ worker.job = s /\ worker.pc \in {"lookup", "park"}

AskedInOrder(s) ==
  /\ Parked(s) => Undecided(s)
  /\ \A t \in Threads : th[t].job = s /\ th[t].pc = "approve" => t \in Callers /\ Undecided(s)
  /\ \/ Parked(s) \/ s \in Approved
     \/ \E t \in Threads : th[t].job = s /\ th[t].pc = "approve"
     => Heard(s, "PendingApproval") \/ s \in hungup \/ Asking(s)
  /\ Asking(s) \/ FirstPass(s) => ~Heard(s, "PendingApproval")
  /\ ~(Asking(s) /\ FirstPass(s))

\* What the worker knows of its job at each of its steps.
WorkerKnows ==
  /\ worker.pc \notin {"recv", "exit"} => worker.job \in submitted
  /\ worker.pc = "park" => Undecided(worker.job)
  /\ worker.pc \in {"notify", "unpark"} => worker.job \in Risky
  /\ worker.pc = "unpark" => worker.job \in hungup
  /\ worker.pc \in {"start", "begin", "run"} => ~Undecided(worker.job)
  /\ worker.pc = "run" => HasRun(worker.job)
  /\ worker.pc = "report" /\ ~HasRun(worker.job) =>
       worker.end \in {"Cancelled", "Denied", "Panicked"}

\* The reader of a run sends after Started, and the reader of a run that broke
\* down goes on after Denied, unless the worker is still to say so.
Broke(s) == worker.job = s /\ worker.pc = "report" /\ worker.end = "Panicked"

OutputInOrder(s) ==
  /\ worker.job = s /\ worker.pc = "run" => Heard(s, "Started") \/ s \in hungup
  /\ s \in orphans => /\ HasRun(s)
                      /\ Heard(s, "Started") \/ s \in hungup
                      /\ Heard(s, "Denied") \/ s \in hungup \/ Broke(s)

\* Calls are over before Drop begins.
CallsWhileOpen == \A t \in Callers : th[t].pc # "idle" => Open

ContractInv ==
  /\ WorkerKnows /\ CallsWhileOpen
  /\ \A s \in Sessions : NotRunYet(s) /\ AskedInOrder(s)

OutputInv == \A s \in Streaming : OutputInOrder(s)

TypeInv  == TypeOK /\ InHand
OwnerInv == QueuedOnce /\ (\A s \in Sessions : OnePlace(s) /\ Nowhere(s)) /\ AtMostOneTerminal
-----------------------------------------------------------------------------
(* What the documentation promises and the code does not keep.             *)

\* "a PendingApproval first when the request is risky, then a terminal outcome
\* once the human decides": nothing follows the terminal signal.
TerminalIsLast ==
  \A s \in Sessions : \A k \in DOMAIN stream[s] :
    stream[s][k] \in Terminals => k = Len(stream[s])

\* "Every terminal session records an AuditEntry": once nobody holds a session
\* any more, the trail has its entry.
EveryEndAudited ==
  \A s \in submitted :
    drop = "open" /\ ~Unsettled(s) /\ ~Unreleased(s) /\ Len(audit) < MaxAudit => EntriesOf(s) # {}
=============================================================================
