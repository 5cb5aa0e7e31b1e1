# Ferrous runtime: TLA+ models and proofs

This directory models the concurrent core of `ferrous-runtime`
(`crates/wasi-runtime`): the action broker that queues, gates, cancels and audits
sessions, and the runtime that runs one guest at a time against a shared epoch
counter while a second thread streams its output. It also models what a request is
granted, what a human is asked about it and what its guest can do. TLC checks the
modules on small instances; TLAPS proves the main safety results of the broker, the
streaming run, the run lock and the policy for every instance, and that the broker and
the runtime implement two abstract specifications of what they promise.
Paths and line numbers below are in `src/crates/wasi-runtime/src/`.

## Inventory

| Component | State | Operations | Correct when |
|---|---|---|---|
| Session lifecycle, `command.rs` | lifecycle, output byte count | `accept` | it takes every legal stream and no illegal one |
| Action broker, `broker.rs` | `handles` and `pending` by id, `audit`, the job channel, `stopped` | `submit`, `submit_streaming`, `approve`, `deny`, `cancel`, `Drop` | one ending per session, one audit entry that agrees with it, capacity neither exceeded nor leaked, a live session can be cancelled, `Drop` returns |
| Worker thread, `broker.rs` | the job in hand, its handle | lookup, park and notify, execute, report, record, release, panic barrier | nothing risky runs unasked, nothing cancelled starts |
| Sweeper thread, `broker.rs` | ids found expired in this pass | scan, deny one by one | an undecided session ends |
| Cancellation handle, `cancel.rs` | a one-shot flag | `cancel`, `is_cancelled` | never reset |
| Streaming pipe, `pipe.rs` | bytes written and read, `eof`, `closed` | `write`, `check_write`, `wait_and_drain`, `set_eof`, `close` | within its budget; final once closed |
| Streaming run, `lib.rs` | two pipes, reader's totals and `budget_closed` | guest writes, reader passes, `set_eof` twice, join | the reader counts every byte written; the run returns |
| Run lock, epochs, watchdogs, `lib.rs` | `run_lock`, epoch distance, cancel flag, stop channel | build, instantiate, call, tick, burst, join | a run's deadline is moved by its own helper only; every run returns |
| Store construction, `lib.rs` | none that survives | `build_store` | refuses before anything starts; bounds what it lets start |
| Risk and network policy, `policy.rs` | none (pure) | `classify_risk`, `permits`, `apply`, `selected_environment` | anything beyond read-only asks; ports are exact |
| Capability grants, `capability.rs` | the grant under construction | builders, path predicates | no port 0, no malformed name, no path outside a root |
| Resource limits, `capability.rs` | none (immutable values) | constructors | no limit is zero, none wraps |
| Command validation, `command.rs` | none (pure) | `validate` | nothing invalid is queued or run |
| Native backend, `native.rs` | none | `start`, always an error | fails closed |

How they interact. Callers share the broker. `submit` registers a handle under the
request's id and sends the job through a channel to the worker. The worker fetches
the handle *by id*, and runs the job or parks it in `pending` and notifies the
caller. `approve` takes a parked job out and sends it through the channel again;
`deny`, `cancel` and the sweeper take it out and end it. Whoever ends a session does
three things in three critical sections: it sends the terminal signal, appends the
audit entry, and removes the handle by id. A run takes the runtime's lock, sets an
epoch deadline and starts a helper thread that ticks the engine's epoch, or bursts
past the deadline once the handle is cancelled; for a streaming run that helper is
also the reader that turns pipe contents into events.

What is hard here is listed line by line under `hazards` in `PROJECT.json`: races for
one parked job, reports, records and releases that are not atomic, lookups by id that
find another session's state, callers that vanish, panics that unwind past the
bookkeeping, a combined budget enforced after the fact, an epoch shared by all
stores, and threads that wait for each other at the end.

## Modules

| Module | Models | Used by |
|---|---|---|
| `SessionContract` | abstract: what each caller of the broker is promised | refined by `Broker` |
| `SessionLifecycle` | `SessionEvent`, `Lifecycle`, `SessionState::accept` as operators | `Broker`, `StreamingRun` |
| `Broker` | the broker, its worker, its sweeper, `Drop`; callers as an environment | `MCBroker`, `BrokerProofs` |
| `MCBroker` | constants for TLC | the `broker_*` runs |
| `BrokerProofs` | types and the single ending, for any ids | TLAPS |
| `BrokerContractProofs` | `Broker` implements `SessionContract`, for any ids | TLAPS |
| `BrokerHandleProofs` | what rests on the map of handles | TLAPS |
| `BrokerAuditProofs` | the audit trail is true, for any ids | TLAPS |
| `BrokerAnswerProofs` | what a caller can follow, that it is answered, and that its end is recorded once | TLAPS |
| `OutputPipe` | `StreamOutputPipe` as operators | `StreamingRun` |
| `StreamingRun` | `run_wasi_events_impl` between the pipes and the join | the `streaming*` runs |
| `StreamingRunProofs` | theorems about `StreamingRun` | TLAPS |
| `RunCalls` | abstract: what the `run_wasi*` calls on one runtime promise | refined by `RunEpochs` |
| `RunEpochs` | `run_lock`, the epoch, watchdog and reader of concurrent runs | `MCRunEpochs` |
| `MCRunEpochs` | constants for TLC | the `epochs*` runs |
| `RunEpochsProofs` | theorems about `RunEpochs` | TLAPS |
| `Policy` | one request from the builders of its grant and limits to the deeds of its guest, or to the native backend | `MCPolicy`, `PolicyProofs` |
| `MCPolicy` | small file systems with links | the `policy` run |
| `PolicyProofs` | theorems about `Policy` | TLAPS |

### Broker

`handles`, `pending`, `audit` and `queue` are the code's maps, vector and channel. A
member of `Sessions` stands for one submission: its request, `Job` and
`CancelHandle`. Jobs move and are never copied, so wherever the code holds a job the
model holds its session. Ids are chosen by callers and not unique by construction:
`Id` maps sessions to ids and several sessions may share one. `th[t]` is what a
calling thread, or the sweeper, is in the middle of, `worker` what the worker is;
their `pc`s are the points between two critical sections. `stream[s]` is what the
receiver of `s` was sent, `hungup` the receivers that were dropped, `due` the parked
jobs whose deadline has passed. Of the many chunks of output a guest may write,
`stream` has the first that a client's `SessionState` takes (`Output`) and the first
that is past its budget (`Overrun`); a further one changes nothing a client could tell.
`orphans` are the streaming sessions whose reader was not joined because the run
panicked, and so may still send; a panic may also precede the reader, which makes this an
over-approximation.

One action is one critical section of a mutex, one channel operation or one access of
an atomic flag:

* `Submit`, `Enqueue`: `enqueue` up to and after the lock on `handles`.
* `Approve`, `ApproveCheck`: removing the parked job; reading the flag of the handle
  under its id. Then `Enqueue`, or the closing steps.
* `Deny`; `Cancel`, `CancelFind`, `CancelFlag`: as in the code, `pending` first, then
  `handles`, then the flag.
* `CloseReport`, `CloseRecord`, `CloseRelease`: the steps that `approve`, `deny`,
  `cancel` and the sweeper share.
* `WorkerRecv` to `WorkerRelease`: `process_job` and what it calls. `WorkerRun` is the
  call of the runtime, with any result it may give; a panic is one of them, after
  which the barrier makes the same three closing steps. `WorkerParkFails` is the other
  panic the code has: a deadline that the clock cannot represent, before anything is
  parked (line 625).
* `ReaderSend`: the reader of a streaming run hands on output, while the guest runs or,
  left behind by a panic, after it.
* `SweepNext`, `SweepScan`, `SweepTake`: the loop condition, the scan under the lock,
  and the removal of each id found, later. The list is stale by then: where ids are
  reused it may deny a session that is not due, against the comment at line 658. The
  model has those steps, and no property claims that they are impossible.
* `DropStop` to `DropJoin`: stop flag, cancellations, closing the queue, both joins.
  `&mut self` means no call is in progress when it starts.

`SessionContract` is the broker without threads, maps, queue and handles: sessions are
new, waiting, running or over, and receivers get signals. It says that a human is asked
about a session at most once, that a risky one runs only if asked about and approved,
that one guest runs at a time, that a session ends once and with a signal that fits
what it did, and that it is given up *without* a signal only if it still needs a
decision and its caller hung up, its id is shared, or the broker goes. Output reaches a
receiver only while its guest runs, or after its guest panicked (`Emit`). `Broker`
implements it with ids of any kind. The mapping (`Phase`) reads the phase of a session
off the places its job may be in: *waiting* or *running* while somebody holds the job
(`Unsettled`), *running* from `WorkerBegin` on, *over* once nobody holds it.
The contract lets the question come after the end, which is the finding of
`broker_order`; everything else its callers could be surprised by is named in it.

Each section of mistaken variants holds actions that differ from the code's in one
plausible slip. No specification uses them; they serve to confirm that each property
notices something.

### StreamingRun and OutputPipe

A pipe is two lengths and two flags; its buffer is append-only and the contents do not
matter. The guest writes any permitted amount at any time before it is over, and
ignores errors if it likes. The reader drains stdout, then stderr, then looks at the
sum, exactly in the code's order; the host marks the two ends one after the other.
`client` is the byte count of a `SessionState` at the receiving end. `reader.total` is
what the reader returns to the host that joins it. A run that ends in an error returns
an `Err`, which carries no output (lines 269, 292-298), so `NothingLost` is about what the
host has in hand, and about the result only of a run that succeeds.

### RunEpochs

`Ticks[r]` is the `epoch_ticks` of the request of run `r`, and `left[r]` how many epochs
its store is from its deadline; an increment brings *every* store closer, as the
engine's counter does. `helper[r]` is the watchdog
of a capturing run, spawned after instantiation, or the reader of a streaming run,
spawned before it; `over` is what tells it to stop (the stop channel, or both ends of
stream). `Spinning` are runs whose start functions may never return, `Panic` a panic
in the backend, which joins nobody and, for a streaming run, tells the reader nothing.
After a panic the helper it left may move the epoch of later runs; `DeadlineExact` and
`NoStrayHelper` are about runtimes in which nothing panicked.

`RunCalls` is the same without threads and epochs: calls wait, prepare, have a guest and
return, one at a time; a request is refused before there is a guest; and a call returns
`Cancelled` only if its own handle was cancelled. Not the converse: a streaming run that
is interrupted while it is being instantiated returns `Wasi` (line 269), although lines
148-150 and 163-165 say `Cancelled`; the broker then records a failure. `RunEpochs`
implements it (`Seen` maps the points of a run to these phases), although the helper of
any run moves the one epoch of all.

### Policy

`request` is a `CommandRequest` whose grant the builders still add to while `phase` is
"building"; a builder that refuses consumes the grant. From `Submit` on, the request
does not change. `told` is the `ApprovalReason` of `PendingApproval`, `store` what
`build_store` put into the `WasiCtx`, `wrote` and `opened` what the guest did. `Broker`
is where interleavings of deciding and running are looked at (its `Risky` is
`ClassifyRisk(request) # "AutoApprove"` here); this module follows one request and looks
at what the decision is about. A path is the sequence of its components and a file
system maps the paths that exist to their canonical forms, so that a lexical prefix and
a resolved one can differ. `NotUtf8` are the components that are not UTF-8. A guest path
is a string, so `guest_path_for` returns `None` for a directory below the root whose
relative path has one of them (`GuestPathFor`, capability.rs line 81), and `build_store`
then leaves the guest in the root of the grant, `/workspace`, without an error
(`StoreOf`). `Rearrange` moves links between submission and `build_store`.

Limits are numbers up to `MaxInt`, which stands for `u64::MAX` and `usize::MAX`; the
constructors of `ResourceLimits` refuse zeros (`Limits`), and `EpochTicks` multiplies and
saturates as `build_store` does. A caller may hand the request to `NativeBackend::start`
instead of submitting it (`StartNative`); it refuses every one.

## What the runs show

| Run | Instance | Shows |
|---|---|---|
| `broker_safety` | 2 sessions (one risky) with ids of their own, 2 callers, hang-ups, panics | `AskedBeforeRun`, `OwnsHandle`, `AuditedExactlyOnce`, `AuditAgrees`, `CancelledNeverRuns`, `KeepsContract` |
| `broker_capacity` | 3 sessions (one risky) of `submit`, 2 callers, capacity 2 | `OutstandingBounded` |
| `broker_anyids` | 2 risky sessions sharing one id, 1 caller, hang-ups, panics | `TypeOK`, `AtMostOneTerminal`, `NoHandleLeak`, `ClientFollows`, `NobodyForgotten`, `KeepsContract` |
| `broker_liveness` | fair threads, `Drop` at any time | `EverySessionEnds`, `DropReturns` |
| `streaming` | budget 3 on two pipes | `TypeOK`, `NothingLost`, `ClientTakesLegalOutput`, `CutOffHolds`, `RunReturns` |
| `epochs` | a capturing and a streaming run, 2 and 3 ticks to their deadlines, cancellations and panics | `TypeOK`, `DeadlineExact`, `NoStrayHelper`, `InterruptComes`, `EveryRunReturns`, `CallsOneByOne` |
| `policy` | 8 paths (one not UTF-8) in 3 file systems, ports 0 and 1, 3 names (one malformed, one unset), limits of 0 to 63 | `TypeOK`, `NothingGraverThanAsked`, `OnlyGranted`, `StartsInCwd`, `GuestBounded` |

`KeepsContract` and `CallsOneByOne` are the refinements. `ClientFollows` runs the
client's own `SessionState` over the stream of a streaming session and lists the four
kinds of event it cannot follow, by the code as it is: a cancellation of a session that
never started, a failure (`Unsupported`) or contained panic (`Denied`) of one that did,
output past the budget, which the reader hands on before it cuts the guest off, and the
late question. It shows that, of all the events the broker and its reader send, there is
no other.
`StartsInCwd` says where the guest starts: in the directory the request names, as links
are when it starts, or, when the name of that directory is not UTF-8, in the root.
`EverySessionEnds` says that dropping the broker answers what is queued,
running or approved; only a session that still needs a decision may go unanswered.
`NobodyForgotten` is what safety says of the same: a session that no thread, queue or map
holds any more was answered, or it still needed a decision and lost its place to another
of its id or saw the broker close. `InterruptComes` is to `EveryRunReturns` what that is
to `EverySessionEnds`: a guest past its start functions and short of its deadline has a
helper, and one in its burst has enough increments left.
`AuditedExactlyOnce` compares the trail with the streams while the trail evicts nothing,
and forbids double and early entries when it does.
`GuestBounded` looks at limits from 1 to the largest integer.

Five further runs state what a comment says and TLC refutes; each is a finding in
`PROJECT.json`:

* `broker_order`: a terminal signal may precede `PendingApproval` (a decision falls
  between parking and notifying).
* `broker_audit`: a risky session whose caller has gone leaves no audit entry.
* `broker_reuse`: a caller that reuses an id as soon as it received the terminal signal
  may lose the new session's handle to the old session's trailing `remove`.
* `streaming_budget`: both pipes can reach the whole budget before the reader looks.
* `epochs_start`: a spinning start function of a capturing run with unlimited fuel is
  stopped by neither timeout nor cancellation, for there is no watchdog yet.

Properties that need unique ids say so in their comment. The API does not require
them, and `broker_anyids` shows what holds without.

### Bounds

`Sessions` is finite and each is submitted once, so no guard caps anything: the queue,
the streams and the threads are bounded by it. Two sessions and two callers are the
least with which two callers race for one job while another session is queued, parked or
running; the worker and the sweeper are always there as two more actors. With a shared
id (`broker_anyids`) a single caller is enough for two to decide about one id, the other
being the sweeper, and both sessions are risky so that both are parked. Three sessions
are needed to exceed a capacity of two. `MaxAudit` is 3 where entries are counted, so
that the two that are due leave the trail short of its cap and a third would show, and 1
where eviction is the point. A budget of three lets one write leave a rest in each pipe,
fill one and overrun the sum; two and three ticks let a burst meet a deadline that is
whole, partly used up or reached, and no run's helper counts to the deadline of the
other. In `policy`, `MaxInt` is 63: a timeout of 1 second can be counted in ticks, those
of 7 and 63 seconds cannot, and their products wrap differently. There, one port that
may be used is enough to confuse connecting with binding; `/ws/a` is absent, inside the
root or outside it, and reached by its name, through a link beside it or through a link
to the root; a directory that does not exist is named below it, and one whose name is
not UTF-8 below the root. `broker_capacity` uses the symmetry of its interchangeable
sessions and checks an invariant only; no liveness run uses symmetry.

### Fairness

Weak fairness of the worker, of the sweeper, of a call once begun and of `Drop` once
begun says that the operating system schedules threads. A deadline passes because time
does. That a guest ends is assumed in `broker_liveness` (`WorkerRun` is part of the
worker) and is what `epochs` shows of the runtime, but for the exception of
`epochs_start`. No caller owes anything: none need submit, decide, cancel or drop.
In `RunEpochs` a guest owes nothing but to trap when it is past its deadline
(`Owed`); a reader's tick has strong fairness, since the time since its last tick grows
from pass to pass until it ticks. In `StreamingRun` the two host threads are fair.

## What is proved

About `Broker`, from the assumptions named in it alone (ids of sessions are ids, the
sweeper is not a caller, capacity and audit cap are positive, `None` is none of them),
for any number of sessions and callers. Four theorems speak of unique ids and have
`UniqueIds` as an assumption of their own; the others hold for *any* ids, shared ones
included.

| Theorem | States | Ids |
|---|---|---|
| `TypeCorrect` | `Spec => []TypeOK`, with the trail within its cap | any |
| `OneTerminal` | `Spec => []AtMostOneTerminal` | any |
| `Implements` | `Spec => KeepsContract`: the refinement | any |
| `AskedFirst` | `Spec => []AskedBeforeRun` | any |
| `NoLeak` | `Spec => []NoHandleLeak` | any |
| `TrailIsTrue` | `Spec => []AuditAgrees` | any |
| `ClientKeepsUp` | `Spec => []ClientFollows` | any |
| `NoneForgotten` | `Spec => []NobodyForgotten` | any |
| `StaysCancelled` | `Spec => CancelledNeverRuns` | unique |
| `OwnsItsHandle` | `Spec => []OwnsHandle` | unique |
| `CapacityHolds` | `Spec => []OutstandingBounded` | unique |
| `RecordedOnce` | `Spec => []AuditedExactlyOnce` | unique |

*One ending.* `AtMostOneTerminal` speaks of streams only and is not inductive: a second
terminal signal is impossible because whoever sends one *holds the job*, and there is one
job. `OwnerInv` says so: each session is in at most one of the channel, `pending`, the
worker's hand or one thread's (`OnePlace`), occurs once in the channel (`QueuedOnce`),
and is nowhere before it is submitted and after it has ended (`Nowhere`). It rests on
`TypeInv`, which adds to `TypeOK` that threads know the job they work on and that both
maps hold sessions of the id they are stored under. `TypeStep` and `OwnerStep` have one
step per action; the lemmas `ShrinkingIsSafe`, `Queueing`, `Dequeueing`, `Telling` and
`Ending` say what the five kinds of steps do to those facts.

*The contract.* That a step of the broker is one of the contract needs to know what is
behind a `pc`: a session parked or about to be approved is undecided and, unless its
caller is gone, has been asked about or is about to be (`AskedInOrder`); the question is
put on the first way through the queue only (`FirstPass`); a job not at the worker has
not run (`NotRunYet`); and what each point of the worker implies of its job
(`WorkerKnows`). `ContractInv` is their conjunction. `OutputInv` says that output
follows `Started`, and that a reader left behind belongs to a guest that panicked.
`BrokerInv` is all four strengthenings. `StepKeeps` has one case per action: either some
session's phase changes the way the contract allows, or none does (`Unseen`).

*Handles.* `NoHandleLeak` is inductive once jobs are known to be held: each step that
takes a job away leaves it with somebody who will release its id (`LeakStep`). With
unique ids the handle the worker looks at is its own job's (`RightHandle`). `OwnsHandle`
needs that nobody releases the id of a session that is still somewhere: whoever is about
to release has reported an end (`Reported`), and what has ended does not come back
(`NothingComesBack`, which is read off the contract). `OutstandingBounded` is then an
injection: the check of `enqueue` keeps the *registered ids* within the capacity, for
any ids (`CapacityInv`), and each outstanding session has one of its own
(`OutstandingFit`); after `Drop` nothing is outstanding (`Emptied`).

*The trail.* An entry is appended one critical section after the signal it records, so
`AuditInv` says of threads about to append what `AuditAgrees` says of entries. That the
signal stays the last word rests on the contract: a session that is over hears at most a
late question (`OverHearsNothing`).

*Answers.* `SessionMoves` reads off the contract what one step can do to one session: it
begins, asks, starts, emits output, reports a result, is closed, is given up, or hears
what it hears already. `ClientFollows` compares a stream with the run of the client's
machine over it, a recursive function of which the prover knows nothing until some such
function is shown to exist: no number of events is the first without one (`RunExists`,
by the well-foundedness of the naturals), so `ClientStates` is the run (`ClientRuns`),
and an event more extends it (`ClientGoesOn`). `ClientInv` adds to `ClientFollows` where
the machine is after the last event, as far as the next one could find it in the wrong
place; `FollowsOn` is its step, given what `SessionMoves` says of the event.
`AnsweredInv` keeps the reason for which a session was given up without an answer; that
the reasons stay true is why it is inductive.

*One entry.* `CountInv` holds for any ids: entries differ in their sessions, no session
has one before it is about to be recorded or after, and no two threads are about to
record the same. `SettledInv` adds, for unique ids, that a session nobody holds and
nobody is about to record is in the trail, unless its caller went or the trail was full.
`Leaving` names every step by which a session can be let go, and `LeavesReported` says
that it was then reported by the one who is about to record it. With shared ids there
are two more ways, which leave no entry: a worker that finds no handle (`LostIsHungup`:
with unique ids this happens only to callers that are gone) and a job parked over
another. Jobs that are parked when the broker goes are excepted by the property.

TLC finds no state that violates these strengthenings on the instances of
`broker_anyids` and, for those that need unique ids, `broker_safety`.

`StreamingRunProofs` proves, from `BudgetAssumption` (a positive budget, which
`ResourceLimits` ensures):

* `StreamTypes`, `EveryByteKept` (of the reader's totals), `ClientAgrees`: `Spec =>
  []TypeOK`, `[]NothingLost` and `[]ClientTakesLegalOutput`.
* `CutOff`: `Spec => CutOffHolds`, of every step.

`StreamInv` connects the three threads: the reader's totals are what it drained
(`Counted`); a pipe's end is announced after its last write, and a reader that met it has
drained it for good (`Ended`); both pipes are closed before the reader calls the guest
cut off (`Closing`).

`RunEpochsProofs` proves, from `TicksAssumption` (`epoch_ticks` of each run is positive,
as the code's `.max(1)` makes it), `RunsAssumption` and `NoneAssumption`, for any number
of runs of either kind:

* `RunTypes`: `Spec => []TypeOK`.
* `ExactDeadlines`: `Spec => []DeadlineExact`. Until something panics, a guest that is
  not cancelled has lost exactly the ticks of its own helper.
* `NoHelperLeft`: `Spec => []NoStrayHelper`. A run that returns leaves no helper.
* `InterruptsSuffice`: `Spec => []InterruptComes`. `InterruptInv` adds that the distance
  to the deadline and the ticks a helper has made never exceed its `Ticks` together,
  so that a watchdog counts and a burst goes far enough, whatever the helpers of other
  runs add; and that nobody is told to stop while its guest is there.
* `CallsImplemented`: `Spec => CallsOneByOne`, the refinement of `RunCalls`. It needs
  `OneHolder`, and that a run waiting for its helper has what its guest returned
  (`Joined`), which `Verdict` turns into a cancellation only by the client's flag.

`DeadlineExact` and `NoStrayHelper` need each other. The first alone is not inductive,
since the helper of another run might increment the epoch. That it cannot is
`LiveHolds`: a live helper's run is neither before its start (`HelperInPlace`) nor
returned (`NoStrayHelper`), so it holds `run_lock`, and by `OneHolder` no other run has
a guest. `HelperInPlace` also says that only a cancelled run bursts and that a watchdog
about to tick has not used up its ticks, which ties the count to the distance. `RunInv`
is the conjunction; TLC checked it on the instance of `epochs` before it was proved. The
steps that leave the epoch alone, those that increment it, and those of the calling
threads each have a lemma (`QuietStep`, `EpochStep`, `GoingOn`, `Returning`,
`Beginning`), and `HelperStep` and `CallerStep` one case per action.

`PolicyProofs` proves, for any paths, file systems, ports and names:

* `PolicyTypes`: `Spec => []TypeOK`, that is, no grant ever holds port 0 or a malformed
  name.
* `NothingGraver`: `Spec => []NothingGraverThanAsked`. `classify_risk`, the network
  policy and `build_store` agree, so that an approval for something lesser never opens
  the way to something graver, and no approval to nothing but reading.
* `NothingUngranted`: `Spec => []OnlyGranted`.
* `GuestsBounded`: `Spec => []GuestBounded`, for any limits and any largest integer.
* `GuestsStartInCwd`: `Spec => []StartsInCwd`. The guest starts in the directory the
  request names as links are when the guest starts, inside the preopened one, or in the
  preopened one itself if the directory's name below it is not UTF-8.

The last rests on `FilesAssumption`, which says what the standard library's
`canonicalize` relies on: a path that exists has a canonical form that exists and is its
own; below a path is what is below its canonical form; the root directory exists.
(A limit on the length of chains of links would violate it; there, `canonicalize` fails
and the request is refused.) TLC checks the assumption of the three file systems of
`policy`. The other theorems need no more of it than that arrangements of links are
functions on paths. `Resolved` takes the longest beginning of a path that exists, whose
uniqueness the lemmas from `NatMin` to `ResolvedBelow` establish by well-foundedness of
the naturals; `ResolvedThroughLink` says that a path and its move below the canonical
root resolve to the same, and `Placed` that the store was built from the file system as
it is while the guest runs.

A guest's deeds say nothing of the request by themselves; `PolicyInv` connects them:
the reason told is the class of the request as it still is (`Asked`), the store is that
of the request (`Furnished`), and what the guest did its network policy permits
(`Behaved`). The proof has one lemma for the builders, one each for the steps that pass
the request on, for `BuildStore` and for the guest.

Every invariant and every safety action property of the passing runs is proved. Liveness
is model-checked only: `EverySessionEnds`, `DropReturns`, `RunReturns`,
`EveryRunReturns`. Proofs of liveness under fairness, and of `ENABLED`, are beyond the
prover; `NoneForgotten` and `InterruptsSuffice` are the parts of the first and the last
that are safety.

## What is not modelled

* A file system that changes between the two looks `build_store` takes at it
  (`allows_existing_path`, then `canonicalize` of the root), or under a running guest.
* Two filesystems in one grant: `build_store` allows for it, but only `workspace` adds
  one and it starts a new grant.
* wasmtime, WASI and the file system. The models assume that a guest past its epoch
  deadline traps at its next check. A guest blocked in a host call reaches that check
  only when the call returns.
* The two ends of an epoch deadline: `left` is the distance, and the sum of the current
  epoch and the ticks, which wasmtime forms, could exceed `u64` only for timeouts near
  `u64::MAX / 10` seconds.
* Real time: ticks and timeouts are steps, and a burst of many increments takes no time.
  A streaming run's ticks are up to 200ms apart, so its timeout may come late; no
  property is about that.
* `StreamOutputPipe::contents` and its `AsyncWrite` side (`poll_write`,
  `poll_shutdown`). The runtime links the preview 2 interfaces only, which write through
  `p2_stream`, the `OutputStream` side. (A `poll_shutdown` would mark a pipe's end while
  its guest still runs, which `StreamingRun` does not allow for.)
* The caps of 16 instances, tables and memories in `build_store`: constants that wasmtime
  enforces.
* The release profile aborts on panic. The panic steps describe builds that unwind.

## What is left

What the models leave out is out of their reach or outside the repository, as listed
above. Two extensions would be of use if the code changes: `poll_write` and
`poll_shutdown` as further writers in `StreamingRun`, should the runtime link an
interface that polls them, and grants of several filesystems in `Policy`, should a
builder add a second one (`Placed` says where the proofs use that there is one).
Of the liveness of a streaming run, the safety part (`RunReturns`: who waits for whom)
could be stated and proved like `InterruptComes`.
