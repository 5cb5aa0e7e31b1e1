----------------------------- MODULE RunEpochs -----------------------------
(***************************************************************************)
(* The runs of one WasiRuntime, lib.rs: the run lock, the epoch counter of *)
(* the engine they share, and the helper thread of each run that advances  *)
(* it.  A capturing run (run_wasi_inner) spawns a watchdog once its guest  *)
(* is instantiated; the reader of a streaming run (run_wasi_events_impl)   *)
(* is its watchdog and is spawned before.  What the reader reads is in     *)
(* StreamingRun.                                                           *)
(*                                                                         *)
(* Time is the helpers' own: recv_timeout expiring, or 100ms elapsing      *)
(* since the last tick, is a step the scheduler may take when it likes.    *)
(***************************************************************************)
EXTENDS Naturals

CONSTANTS
  Runs,       \* calls of run_wasi*, each by a thread of its own
  Streaming,  \* the runs of run_wasi_events
  Ticks,      \* epoch_ticks of each, ten per second of its wall-clock limit
  Spinning,   \* runs whose component's start functions may never return
  MayPanic,   \* whether the backend may panic on a guest
  None

ASSUME RunsAssumption  == Streaming \subseteq Runs /\ Spinning \subseteq Runs
ASSUME TicksAssumption == Ticks \in [Runs -> Nat \ {0}] /\ MayPanic \in BOOLEAN
ASSUME NoneAssumption  == None \notin Runs

VARIABLES
  lock,       \* who holds run_lock
  pc,         \* where each calling thread is
  left,       \* epochs until the deadline of each run's store
  cancelled,  \* runs whose CancelHandle is set
  over,       \* runs whose helper was told to stop: the stop channel, or both eofs
  helper,     \* each run's helper thread: pc, ticks it counted, burst to go,
              \*   and whether a reader met both ends in this pass
  result      \* what each run returned

vars == <<lock, pc, left, cancelled, over, helper, result>>

Capturing == Runs \ Streaming
Results   == {"None", "Output", "Cancelled", "Wasi", "Refused", "Panicked"}

Helpers == [pc: {"none", "drain", "look", "burst", "tick", "ended"},
            ticks: Nat, burst: Nat, last: BOOLEAN]

TypeOK ==
  /\ lock \in Runs \cup {None}
  /\ pc \in [Runs -> {"wait", "build", "instantiate", "call", "join",
                    "abandon", "done"}]
  /\ left \in [Runs -> Nat]
  /\ cancelled \subseteq Runs /\ over \subseteq Runs
  /\ helper \in [Runs -> Helpers]
  /\ \A r \in Runs : /\ left[r] <= Ticks[r] /\ helper[r].ticks <= Ticks[r]
                     /\ helper[r].burst <= Ticks[r]
  /\ result \in [Runs -> Results]

NoHelper == [pc |-> "none", ticks |-> 0, burst |-> 0, last |-> FALSE]

Init ==
  /\ lock = None
  /\ pc = [r \in Runs |-> "wait"]
  /\ left = Ticks
  /\ cancelled = {} /\ over = {}
  /\ helper = [r \in Runs |-> NoHelper]
  /\ result = [r \in Runs |-> "None"]

\* Engine::increment_epoch brings every store of the engine closer to its deadline.
Increment == left' = [r \in Runs |-> IF left[r] = 0 THEN 0 ELSE left[r] - 1]

InGuest(r) == pc[r] \in {"instantiate", "call"}

\* The run is over with this result; its guard of the run lock is dropped.
Return(r, res) ==
  /\ pc' = [pc EXCEPT ![r] = "done"]
  /\ result' = [result EXCEPT ![r] = res]
  /\ lock' = None

\* The client's handle: any time, also before, while and after the run goes on.
Cancel(r) ==
  /\ r \notin cancelled /\ cancelled' = cancelled \cup {r}
  /\ UNCHANGED <<lock, pc, left, over, helper, result>>
-----------------------------------------------------------------------------
(* The calling thread.                                                     *)

\* Mistaken variant: runs are not serialized.
AcquireAnyway(r) ==
  /\ pc[r] = "wait" /\ lock' = r
  /\ pc' = [pc EXCEPT ![r] = "build"]
  /\ UNCHANGED <<left, cancelled, over, helper, result>>

\* run_lock, which a panicked run does not poison for the next
Acquire(r) ==
  /\ pc[r] = "wait" /\ lock = None /\ lock' = r
  /\ pc' = [pc EXCEPT ![r] = "build"]
  /\ UNCHANGED <<left, cancelled, over, helper, result>>

\* build_store rejects the request, before there is any helper.
Refuse(r) ==
  /\ pc[r] = "build"
  /\ Return(r, "Refused")
  /\ UNCHANGED <<left, cancelled, over, helper>>

\* build_store sets the deadline; a streaming run has its reader from here on.
Build(r) ==
  /\ pc[r] = "build"
  /\ pc' = [pc EXCEPT ![r] = "instantiate"]
  /\ left' = [left EXCEPT ![r] = Ticks[r]]
  /\ helper' = [helper EXCEPT ![r].pc = IF r \in Streaming THEN "drain" ELSE "none"]
  /\ UNCHANGED <<lock, cancelled, over, result>>

\* Command::instantiate returns; a capturing run has its watchdog from here on.
Instantiated(r) ==
  /\ pc[r] = "instantiate"
  /\ pc' = [pc EXCEPT ![r] = "call"]
  /\ helper' = [helper EXCEPT ![r].pc = IF r \in Streaming THEN @ ELSE "look"]
  /\ UNCHANGED <<lock, left, cancelled, over, result>>

\* Instantiation fails: it does not link, or a start function trapped.
\* `?` returns from a capturing run; a streaming run releases its reader first.
InstantiateFails(r) ==
  /\ pc[r] = "instantiate"
  /\ IF r \in Streaming
     THEN /\ pc' = [pc EXCEPT ![r] = "abandon"]
          /\ over' = over \cup {r}
          /\ UNCHANGED <<lock, result>>
     ELSE Return(r, "Wasi") /\ UNCHANGED over
  /\ UNCHANGED <<left, cancelled, helper>>

\* call_run returned this, and the helper is told to stop.
Told(r, res) ==
  /\ pc[r] = "call"
  /\ pc' = [pc EXCEPT ![r] = "join"]
  /\ result' = [result EXCEPT ![r] = res]
  /\ over' = over \cup {r}
  /\ UNCHANGED <<lock, left, cancelled, helper>>

\* The guest exited, or it trapped for reasons of its own.
CallReturns(r) == \E res \in {"Output", "Wasi"} : Told(r, res)

\* The guest ran into an epoch check past its deadline.
CallTrapped(r) == left[r] = 0 /\ Told(r, "Wasi")

\* Mistaken variant: any error of the guest is put down to the client.
VerdictBlind(r) ==
  CASE pc[r] = "abandon"    -> "Wasi"
    [] result[r] = "Wasi"   -> "Cancelled"
    [] OTHER                -> result[r]

\* What a joined run returns: an error of call_run goes by the client's flag as
\* it is by now, an error of instantiation does not.
Verdict(r) ==
  CASE pc[r] = "abandon"                        -> "Wasi"
    [] result[r] = "Wasi" /\ r \in cancelled    -> "Cancelled"
    [] OTHER                                    -> result[r]

\* Mistaken variant: nobody waits for the helper.
JoinNot(r) ==
  /\ pc[r] \in {"join", "abandon"}
  /\ Return(r, Verdict(r))
  /\ UNCHANGED <<left, cancelled, over, helper>>

Join(r) ==
  /\ pc[r] \in {"join", "abandon"} /\ helper[r].pc = "ended"
  /\ Return(r, Verdict(r))
  /\ UNCHANGED <<left, cancelled, over, helper>>

\* The backend panics.  Unwinding drops the stop channel of a capturing run, but
\* joins no helper, and nobody tells a reader that its pipes are at their end.
Panic(r) ==
  /\ MayPanic /\ InGuest(r)
  /\ Return(r, "Panicked")
  /\ over' = IF r \in Streaming THEN over ELSE over \cup {r}
  /\ UNCHANGED <<left, cancelled, helper>>
-----------------------------------------------------------------------------
(* The helper thread.                                                      *)

\* A reader is done with its pass: out if it met both ends, else once more.
PassEnd(r) == IF helper[r].last THEN "ended" ELSE "drain"

\* A reader's wait_and_drain of both pipes: it returns if only by its timeout.
ReaderDrain(r) ==
  /\ helper[r].pc = "drain"
  /\ helper' = [helper EXCEPT ![r].pc = "look", ![r].last = r \in over]
  /\ UNCHANGED <<lock, pc, left, cancelled, over, result>>

\* Both kinds of helper answer a cancelled handle with a burst.
\* Mistaken variant: one increment short.
StartBurstShort(r) ==
  /\ helper[r].pc = "look" /\ r \in cancelled
  /\ helper' = [helper EXCEPT ![r].pc = "burst", ![r].burst = Ticks[r] - 1]
  /\ UNCHANGED <<lock, pc, left, cancelled, over, result>>

StartBurst(r) ==
  /\ helper[r].pc = "look" /\ r \in cancelled
  /\ helper' = [helper EXCEPT ![r].pc = "burst", ![r].burst = Ticks[r]]
  /\ UNCHANGED <<lock, pc, left, cancelled, over, result>>

Burst(r) ==
  /\ helper[r].pc = "burst" /\ helper[r].burst > 0
  /\ Increment
  /\ helper' = [helper EXCEPT ![r].burst = @ - 1]
  /\ UNCHANGED <<lock, pc, cancelled, over, result>>

\* After a burst a watchdog returns; a reader goes on reading.
EndBurst(r) ==
  /\ helper[r].pc = "burst" /\ helper[r].burst = 0
  /\ helper' = [helper EXCEPT ![r].pc = IF r \in Streaming THEN PassEnd(r) ELSE "ended"]
  /\ UNCHANGED <<lock, pc, left, cancelled, over, result>>

\* A watchdog that is not to burst waits for its next tick, if any is left.
\* Mistaken variant: it ticks on and on.
WatchdogLookOn(r) ==
  /\ helper[r].pc = "look" /\ r \in Capturing \ cancelled
  /\ helper' = [helper EXCEPT ![r].pc = "tick"]
  /\ UNCHANGED <<lock, pc, left, cancelled, over, result>>

\* Mistaken variant: it leaves the last tick to the guest.
WatchdogLookShort(r) ==
  /\ helper[r].pc = "look" /\ r \in Capturing \ cancelled
  /\ helper' = [helper EXCEPT ![r].pc = IF helper[r].ticks + 1 >= Ticks[r] THEN "ended" ELSE "tick"]
  /\ UNCHANGED <<lock, pc, left, cancelled, over, result>>

WatchdogLook(r) ==
  /\ helper[r].pc = "look" /\ r \in Capturing \ cancelled
  /\ helper' = [helper EXCEPT ![r].pc = IF helper[r].ticks >= Ticks[r] THEN "ended" ELSE "tick"]
  /\ UNCHANGED <<lock, pc, left, cancelled, over, result>>

\* recv_timeout(100ms): told to stop, or the sender is gone
WatchdogStop(r) ==
  /\ helper[r].pc = "tick" /\ r \in over
  /\ helper' = [helper EXCEPT ![r].pc = "ended"]
  /\ UNCHANGED <<lock, pc, left, cancelled, over, result>>

\* recv_timeout(100ms): timed out
WatchdogTick(r) ==
  /\ helper[r].pc = "tick" /\ r \notin over
  /\ Increment
  /\ helper' = [helper EXCEPT ![r].pc = "look", ![r].ticks = @ + 1]
  /\ UNCHANGED <<lock, pc, cancelled, over, result>>

\* 100ms have passed since the reader's last tick.  The code does not count the
\* reader's ticks; `ticks` does, up to Ticks[r], for the properties.
ReaderTick(r) ==
  /\ helper[r].pc = "look" /\ r \in Streaming \ cancelled
  /\ Increment
  /\ helper' = [helper EXCEPT ![r].pc = PassEnd(r),
                              ![r].ticks = IF @ < Ticks[r] THEN @ + 1 ELSE @]
  /\ UNCHANGED <<lock, pc, cancelled, over, result>>

\* They have not.
ReaderNoTick(r) ==
  /\ helper[r].pc = "look" /\ r \in Streaming \ cancelled
  /\ helper' = [helper EXCEPT ![r].pc = PassEnd(r)]
  /\ UNCHANGED <<lock, pc, left, cancelled, over, result>>
-----------------------------------------------------------------------------
Caller(r) ==
  \/ Acquire(r) \/ Refuse(r) \/ Build(r)
  \/ Instantiated(r) \/ InstantiateFails(r)
  \/ CallReturns(r) \/ CallTrapped(r) \/ Join(r)
  \/ Panic(r)

Helper(r) ==
  \/ ReaderDrain(r) \/ ReaderTick(r) \/ ReaderNoTick(r)
  \/ WatchdogLook(r) \/ WatchdogStop(r) \/ WatchdogTick(r)
  \/ StartBurst(r) \/ Burst(r) \/ EndBurst(r)

Finished == (\A r \in Runs : pc[r] = "done") /\ UNCHANGED vars

Next ==
  \/ \E r \in Runs : Caller(r) \/ Helper(r) \/ Cancel(r)
  \/ Finished

Spec == Init /\ [][Next]_vars

\* What a calling thread does without the guest's leave.  An epoch check is on
\* every path a guest can loop on, so past its deadline it traps.
Owed(r) ==
  \/ Acquire(r) \/ Refuse(r) \/ Build(r)
  \/ left[r] = 0 /\ (InstantiateFails(r) \/ CallTrapped(r))
  \/ Join(r)

StartEnds(r) == r \notin Spinning /\ (Instantiated(r) \/ InstantiateFails(r))

\* The threads are scheduled.  A reader's pass takes at most about 100ms and the
\* time since its last tick only grows, so it cannot pass by a tick for ever.
FairSpec ==
  /\ Spec
  /\ \A r \in Runs : /\ WF_vars(Owed(r)) /\ WF_vars(StartEnds(r))
                     /\ WF_vars(Helper(r)) /\ SF_vars(ReaderTick(r))
-----------------------------------------------------------------------------
(* Properties.                                                             *)

\* Run serialization (lib.rs, docs of WasiRuntime): whatever two runs and their
\* helpers do, the epochs a live guest has lost are the ticks of its own helper,
\* unless it was cancelled itself or a panic left a stray helper behind.
DeadlineExact ==
  (\A q \in Runs : result[q] # "Panicked") =>
    \A r \in Runs \ cancelled : InGuest(r) => left[r] = Ticks[r] - helper[r].ticks

\* The join before every return: a run that returns leaves no thread behind that
\* could move the epoch of the next one, except by a panic.
NoStrayHelper ==
  \A r \in Runs : pc[r] = "done" /\ result[r] # "Panicked" =>
                    helper[r].pc \in {"none", "ended"}

\* Past its start functions, a guest short of its deadline is never on its own: its
\* helper is there, and one that is in its burst has enough increments left.  Ticks
\* count for bursts, other helpers may help, and no panic takes anything away.
InterruptComes ==
  \A r \in Runs : InGuest(r) =>
    /\ helper[r].pc = "burst" => left[r] <= helper[r].burst
    /\ helper[r].pc \in {"none", "ended"} =>
         left[r] = 0 \/ (pc[r] = "instantiate" /\ r \in Capturing)

\* Timeout and cancellation: no guest, however it behaves after its start
\* functions, keeps its run, or those waiting for the lock, from returning.
EveryRunReturns == \A r \in Runs : pc[r] = "wait" ~> pc[r] = "done"

\* A call is known by these phases to who made it, and by its result once it has
\* returned; the rest is the runtime's own.
Seen(at) == CASE at = "wait"  -> "waiting"
              [] at = "build" -> "preparing"
              [] at = "done"  -> "returned"
              [] OTHER        -> "guest"

CallPhase  == [r \in Runs |-> Seen(pc[r])]
CallResult == [r \in Runs |-> IF pc[r] = "done" THEN result[r] ELSE "None"]

Calls == INSTANCE RunCalls WITH phase <- CallPhase, result <- CallResult

\* With all their threads the runs are calls that go one by one (run_lock), are
\* refused before they have a guest, and are Cancelled only if their client was
\* the one to cancel, whichever helper's burst it was that trapped the guest.
CallsOneByOne == Calls!Spec
-----------------------------------------------------------------------------
(* What makes DeadlineExact and NoStrayHelper inductive.                   *)

\* A run is between taking run_lock and returning exactly while it holds it.
OneHolder == \A r \in Runs : pc[r] \notin {"wait", "done"} <=> lock = r

\* Where in its run a helper may be, and what it may be about to do there.
HelperInPlace(r) ==
  /\ pc[r] \in {"wait", "build"} => helper[r] = NoHelper
  /\ pc[r] = "instantiate" /\ r \in Capturing => helper[r].pc = "none"
  /\ helper[r].pc = "tick" => r \in Capturing /\ helper[r].ticks < Ticks[r]
  /\ helper[r].pc = "burst" => r \in cancelled
  /\ result[r] = "Panicked" => pc[r] = "done"

RunInv ==
  /\ TypeOK /\ OneHolder
  /\ \A r \in Runs : HelperInPlace(r)
  /\ DeadlineExact /\ NoStrayHelper
-----------------------------------------------------------------------------
(* What the documentation promises and the code does not keep.             *)

\* capability.rs on with_unlimited_fuel: "the guest runs until the wall-clock
\* timeout (or cancellation) stops it".  The start functions of a capturing run
\* run before there is a watchdog.
TimeoutStopsGuest == \A r \in Runs : InGuest(r) ~> ~InGuest(r)
=============================================================================
