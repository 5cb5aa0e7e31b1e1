-------------------------- MODULE RunEpochsProofs --------------------------
(***************************************************************************)
(* For any runs, any of them streaming, with any number of ticks each: the *)
(* deadline of a run is moved by its own helper alone, and no helper       *)
(* outlives its run, but for panics.  The argument: a live helper's run    *)
(* holds run_lock, because Join waits for the helper, and there is one     *)
(* holder.                                                                 *)
(***************************************************************************)
EXTENDS RunEpochs, TLAPS

Quiet   == \A q \in Runs : result[q] # "Panicked"
Live(r) == helper[r].pc \notin {"none", "ended"}

\* epoch_ticks is at least 1.
LEMMA SomeTicks == \A r \in Runs : Ticks[r] \in Nat /\ Ticks[r] > 0
<1> SUFFICES ASSUME NEW r \in Runs PROVE Ticks[r] \in Nat /\ Ticks[r] > 0
  OBVIOUS
<1>1. Ticks[r] \in Nat \ {0}
  BY TicksAssumption
<1> QED BY <1>1

\* No helper has counted, or is about to count, more than the ticks of its run.
LEMMA WithinTicks ==
  ASSUME RunInv, NEW r \in Runs
  PROVE  /\ helper \in [Runs -> Helpers] /\ helper[r] \in Helpers
         /\ left[r] \in Nat /\ left[r] <= Ticks[r] /\ Ticks[r] \in Nat /\ Ticks[r] > 0
         /\ helper[r].ticks \in Nat /\ helper[r].ticks <= Ticks[r]
         /\ helper[r].burst \in Nat /\ helper[r].burst <= Ticks[r]
<1>1. helper[r] \in Helpers
  BY DEF RunInv, TypeOK
<1> QED BY <1>1, SomeTicks DEF RunInv, TypeOK, Helpers

\* Unless something panicked, a helper that can still tick or burst belongs to
\* the run that holds run_lock.
LEMMA LiveHolds ==
  ASSUME RunInv, Quiet, NEW r \in Runs, Live(r)
  PROVE  lock = r
<1>1. pc[r] \notin {"wait", "build"}
  BY DEF RunInv, HelperInPlace, NoHelper, Live
<1>2. pc[r] # "done"
  BY DEF RunInv, NoStrayHelper, Quiet, Live
<1> QED BY <1>1, <1>2 DEF RunInv, OneHolder

\* The runtime starts with no run under way and no helper.
LEMMA RunInit == Init => RunInv
<1> SUFFICES ASSUME Init PROVE RunInv
  OBVIOUS
<1>1. TypeOK
  <2>1. /\ \A r \in Runs : NoHelper.ticks <= Ticks[r] /\ NoHelper.burst <= Ticks[r]
                           /\ left[r] <= Ticks[r]
        /\ NoHelper \in Helpers
    BY SomeTicks DEF Init, NoHelper, Helpers
  <2>2. left \in [Runs -> Nat]
    BY TicksAssumption DEF Init
  <2> QED BY <2>1, <2>2 DEF Init, TypeOK, Results
<1>2. OneHolder /\ \A r \in Runs : HelperInPlace(r)
  BY NoneAssumption DEF Init, OneHolder, HelperInPlace, NoHelper
<1>3. DeadlineExact /\ NoStrayHelper
  BY DEF Init, DeadlineExact, NoStrayHelper, InGuest
<1> QED BY <1>1, <1>2, <1>3 DEF RunInv
-----------------------------------------------------------------------------
(* The helpers' steps: none of them moves a run or the lock.               *)

\* increment_epoch keeps the distances in their range.
LEMMA IncrementType ==
  ASSUME TypeOK, Increment
  PROVE  left' \in [Runs -> Nat] /\ \A r \in Runs : left'[r] <= Ticks[r]
<1>1. ASSUME NEW r \in Runs
      PROVE  LET n == IF left[r] = 0 THEN 0 ELSE left[r] - 1 IN n \in Nat /\ n <= Ticks[r]
  <2>1. left[r] \in Nat /\ left[r] <= Ticks[r] /\ Ticks[r] \in Nat
    BY SomeTicks DEF TypeOK
  <2> QED BY <2>1
<1> QED BY <1>1 DEF Increment

\* A helper that does not touch the epoch keeps all invariants if it stays in place.
LEMMA QuietStep ==
  ASSUME RunInv, NEW r \in Runs, NEW h,
         UNCHANGED <<lock, pc, left, cancelled, over, result>>,
         helper' = [helper EXCEPT ![r] = h],
         h \in Helpers, h.ticks <= Ticks[r], h.burst <= Ticks[r],
         Live(r), h.ticks = helper[r].ticks, h.pc # "none",
         h.pc = "tick" => r \in Capturing /\ h.ticks < Ticks[r],
         h.pc = "burst" => r \in cancelled
  PROVE  RunInv'
<1>1. helper' \in [Runs -> Helpers]
  BY DEF RunInv, TypeOK
<1>2. /\ helper'[r] = h
      /\ \A q \in Runs : q # r => helper'[q] = helper[q]
  BY DEF RunInv, TypeOK
<1>3. TypeOK'
  BY <1>1, <1>2 DEF RunInv, TypeOK
<1>4. OneHolder'
  BY DEF RunInv, OneHolder
<1>5. ASSUME NEW q \in Runs PROVE HelperInPlace(q)'
  <2>1. CASE q = r
    BY <1>2, <2>1 DEF RunInv, HelperInPlace, Live, NoHelper
  <2>2. CASE q # r
    BY <1>2, <2>2 DEF RunInv, HelperInPlace
  <2> QED BY <2>1, <2>2
<1>6. DeadlineExact'
  BY <1>2 DEF RunInv, DeadlineExact, InGuest
<1>7. NoStrayHelper'
  BY <1>2 DEF RunInv, NoStrayHelper, Live
<1> QED BY <1>3, <1>4, <1>5, <1>6, <1>7 DEF RunInv

\* A helper that increments the epoch moves the deadline of its own run only: no
\* other run has a guest while this helper lives.
LEMMA EpochStep ==
  ASSUME RunInv, NEW r \in Runs, NEW h,
         UNCHANGED <<lock, pc, cancelled, over, result>>, Increment,
         helper' = [helper EXCEPT ![r] = h],
         h \in Helpers, h.ticks <= Ticks[r], h.burst <= Ticks[r],
         Live(r), h.pc # "none", h.pc # "tick",
         h.pc = "burst" => r \in cancelled,
         \/ r \in cancelled
         \/ h.ticks = IF helper[r].ticks < Ticks[r] THEN helper[r].ticks + 1
                                                    ELSE helper[r].ticks
  PROVE  RunInv'
<1>1. helper' \in [Runs -> Helpers]
  BY DEF RunInv, TypeOK
<1>2. /\ helper'[r] = h
      /\ \A q \in Runs : q # r => helper'[q] = helper[q]
  BY DEF RunInv, TypeOK
<1>3. TypeOK'
  BY <1>1, <1>2, IncrementType DEF RunInv, TypeOK
<1>4. OneHolder'
  BY DEF RunInv, OneHolder
<1>5. ASSUME NEW q \in Runs PROVE HelperInPlace(q)'
  <2>1. CASE q = r
    BY <1>2, <2>1 DEF RunInv, HelperInPlace, Live, NoHelper
  <2>2. CASE q # r
    BY <1>2, <2>2 DEF RunInv, HelperInPlace
  <2> QED BY <2>1, <2>2
<1>6. DeadlineExact'
  <2> SUFFICES ASSUME Quiet, NEW q \in Runs \ cancelled, InGuest(q)
               PROVE  left'[q] = Ticks[q] - helper'[q].ticks
    BY DEF DeadlineExact, InGuest, Quiet
  <2>1. q = r
    BY LiveHolds DEF RunInv, OneHolder, InGuest
  <2>2. /\ left[r] = Ticks[r] - helper[r].ticks
        /\ helper[r].ticks \in Nat /\ helper[r].ticks <= Ticks[r] /\ Ticks[r] \in Nat
    BY <2>1, WithinTicks DEF RunInv, DeadlineExact, Quiet
  <2>3. left'[r] = IF left[r] = 0 THEN 0 ELSE left[r] - 1
    BY DEF Increment
  <2>4. h.ticks = IF helper[r].ticks < Ticks[r] THEN helper[r].ticks + 1 ELSE helper[r].ticks
    BY <2>1
  <2> QED BY <1>2, <2>1, <2>2, <2>3, <2>4
<1>7. NoStrayHelper'
  BY <1>2 DEF RunInv, NoStrayHelper, Live
<1> QED BY <1>3, <1>4, <1>5, <1>6, <1>7 DEF RunInv

\* Every step of a watchdog or a reader keeps the invariants.
LEMMA HelperStep == ASSUME RunInv, NEW r \in Runs, Helper(r) PROVE RunInv'
<1>a. /\ helper \in [Runs -> Helpers] /\ helper[r] \in Helpers
      /\ Ticks[r] \in Nat /\ Ticks[r] > 0
      /\ helper[r].ticks <= Ticks[r] /\ helper[r].burst <= Ticks[r]
  BY WithinTicks
<1> DEFINE Fits(h) == h \in Helpers /\ h.ticks <= Ticks[r] /\ h.burst <= Ticks[r]
<1>b. PassEnd(r) \in {"ended", "drain"}
  BY DEF PassEnd
<1>1. CASE ReaderDrain(r)
  <2> DEFINE h == [helper[r] EXCEPT !.pc = "look", !.last = r \in over]
  <2>1. helper' = [helper EXCEPT ![r] = h]
    BY <1>1, <1>a DEF ReaderDrain
  <2>2. (r \in over) \in BOOLEAN
    OBVIOUS
  <2>3. Fits(h) /\ h.ticks = helper[r].ticks /\ h.pc = "look"
    BY <1>a, <2>2 DEF Helpers
  <2> QED BY <1>1, <2>1, <2>3, QuietStep DEF ReaderDrain, Live
<1>2. CASE StartBurst(r)
  <2> DEFINE h == [helper[r] EXCEPT !.pc = "burst", !.burst = Ticks[r]]
  <2>1. helper' = [helper EXCEPT ![r] = h]
    BY <1>2, <1>a DEF StartBurst
  <2>2. h \in Helpers /\ h.ticks = helper[r].ticks /\ h.pc = "burst" /\ h.burst = Ticks[r]
    BY <1>a DEF Helpers
  <2>3. Fits(h)
    BY <1>a, <2>2
  <2> QED BY <1>2, <2>1, <2>2, <2>3, QuietStep DEF StartBurst, Live
<1>3. CASE EndBurst(r)
  <2> DEFINE h == [helper[r] EXCEPT !.pc = IF r \in Streaming THEN PassEnd(r) ELSE "ended"]
  <2>1. helper' = [helper EXCEPT ![r] = h] /\ Fits(h) /\ h.ticks = helper[r].ticks
        /\ h.pc \in {"ended", "drain"}
    BY <1>3, <1>a, <1>b DEF EndBurst, Helpers
  <2> QED BY <1>3, <2>1, QuietStep DEF EndBurst, Live
<1>4. CASE WatchdogLook(r)
  <2> DEFINE h == [helper[r] EXCEPT !.pc = IF helper[r].ticks >= Ticks[r] THEN "ended" ELSE "tick"]
  <2>1. helper' = [helper EXCEPT ![r] = h] /\ Fits(h) /\ h.ticks = helper[r].ticks
        /\ h.pc \in {"ended", "tick"} /\ (h.pc = "tick" => h.ticks < Ticks[r])
    BY <1>4, <1>a DEF WatchdogLook, Helpers
  <2> QED BY <1>4, <2>1, QuietStep DEF WatchdogLook, Live
<1>5. CASE WatchdogStop(r)
  <2> DEFINE h == [helper[r] EXCEPT !.pc = "ended"]
  <2>1. helper' = [helper EXCEPT ![r] = h] /\ Fits(h) /\ h.ticks = helper[r].ticks /\ h.pc = "ended"
    BY <1>5, <1>a DEF WatchdogStop, Helpers
  <2> QED BY <1>5, <2>1, QuietStep DEF WatchdogStop, Live
<1>6. CASE ReaderNoTick(r)
  <2> DEFINE h == [helper[r] EXCEPT !.pc = PassEnd(r)]
  <2>1. helper' = [helper EXCEPT ![r] = h] /\ Fits(h) /\ h.ticks = helper[r].ticks
        /\ h.pc \in {"ended", "drain"}
    BY <1>6, <1>a, <1>b DEF ReaderNoTick, Helpers
  <2> QED BY <1>6, <2>1, QuietStep DEF ReaderNoTick, Live
<1>7. CASE Burst(r)
  <2> DEFINE h == [helper[r] EXCEPT !.burst = @ - 1]
  <2>1. helper' = [helper EXCEPT ![r] = h] /\ Fits(h) /\ h.pc = "burst"
    BY <1>7, <1>a DEF Burst, Helpers
  <2>2. r \in cancelled
    BY <1>7 DEF Burst, RunInv, HelperInPlace
  <2> QED BY <1>7, <2>1, <2>2, EpochStep DEF Burst, Live
<1>8. CASE WatchdogTick(r)
  <2> DEFINE h == [helper[r] EXCEPT !.pc = "look", !.ticks = @ + 1]
  <2>1. helper[r].ticks < Ticks[r]
    BY <1>8 DEF WatchdogTick, RunInv, HelperInPlace
  <2>2. helper' = [helper EXCEPT ![r] = h] /\ Fits(h) /\ h.pc = "look"
        /\ h.ticks = helper[r].ticks + 1
    BY <1>8, <1>a, <2>1 DEF WatchdogTick, Helpers
  <2> QED BY <1>8, <2>1, <2>2, EpochStep DEF WatchdogTick, Live
<1>9. CASE ReaderTick(r)
  <2> DEFINE h == [helper[r] EXCEPT !.pc = PassEnd(r),
                                    !.ticks = IF @ < Ticks[r] THEN @ + 1 ELSE @]
  <2>1. helper' = [helper EXCEPT ![r] = h]
    BY <1>9, <1>a DEF ReaderTick
  <2>2. LET n == IF helper[r].ticks < Ticks[r] THEN helper[r].ticks + 1 ELSE helper[r].ticks
        IN  n \in Nat /\ n <= Ticks[r]
    BY <1>a DEF Helpers
  <2>3. Fits(h) /\ h.pc \in {"ended", "drain"}
        /\ h.ticks = IF helper[r].ticks < Ticks[r] THEN helper[r].ticks + 1 ELSE helper[r].ticks
    BY <1>a, <1>b, <2>2 DEF Helpers
  <2> QED BY <1>9, <2>1, <2>3, EpochStep DEF ReaderTick, Live
<1> QED BY <1>1, <1>2, <1>3, <1>4, <1>5, <1>6, <1>7, <1>8, <1>9 DEF Helper
-----------------------------------------------------------------------------
(* The calling threads' steps.                                             *)

\* A run that goes on, by a step that leaves the epoch, the helpers and the lock
\* alone, and that has no guest to begin with or keeps the one it has.
LEMMA GoingOn ==
  ASSUME RunInv, NEW r \in Runs, NEW p, NEW res,
         pc[r] \notin {"wait", "done"}, p \in {"join", "abandon"},
         pc' = [pc EXCEPT ![r] = p], result' = [result EXCEPT ![r] = res],
         res \in Results \ {"Panicked"},
         over' = over \cup {r}, UNCHANGED <<lock, left, cancelled, helper>>
  PROVE  RunInv'
<1>1. /\ pc'[r] = p /\ result'[r] = res
      /\ \A q \in Runs : q # r => pc'[q] = pc[q] /\ result'[q] = result[q]
  BY DEF RunInv, TypeOK
<1>2. TypeOK'
  BY DEF RunInv, TypeOK, Results
<1>3. OneHolder'
  BY <1>1 DEF RunInv, OneHolder
<1>4. ASSUME NEW q \in Runs PROVE HelperInPlace(q)'
  BY <1>1 DEF RunInv, HelperInPlace
<1>5. DeadlineExact'
  <2>1. Quiet' => Quiet
    BY <1>1 DEF RunInv, HelperInPlace, Quiet
  <2>2. \A q \in Runs : InGuest(q)' => InGuest(q)
    BY <1>1 DEF InGuest
  <2> QED BY <2>1, <2>2 DEF RunInv, DeadlineExact, Quiet
<1>6. NoStrayHelper'
  BY <1>1 DEF RunInv, NoStrayHelper
<1> QED BY <1>2, <1>3, <1>4, <1>5, <1>6 DEF RunInv

\* A run that returns, with no helper left or in a panic, and gives up the lock.
LEMMA Returning ==
  ASSUME RunInv, NEW r \in Runs, NEW res \in Results,
         pc[r] \notin {"wait", "done"}, Return(r, res),
         res = "Panicked" \/ ~Live(r),
         over' \subseteq Runs, UNCHANGED <<left, cancelled, helper>>
  PROVE  RunInv'
<1>1. /\ pc'[r] = "done" /\ result'[r] = res
      /\ \A q \in Runs : q # r => pc'[q] = pc[q] /\ result'[q] = result[q]
  BY DEF RunInv, TypeOK, Return
<1>2. TypeOK'
  BY DEF RunInv, TypeOK, Return
<1>3. OneHolder'
  BY <1>1, NoneAssumption DEF RunInv, OneHolder, Return
<1>4. ASSUME NEW q \in Runs PROVE HelperInPlace(q)'
  BY <1>1 DEF RunInv, HelperInPlace
<1>5. DeadlineExact'
  <2>1. Quiet' => Quiet
    BY <1>1 DEF RunInv, HelperInPlace, Quiet
  <2>2. \A q \in Runs : InGuest(q)' => InGuest(q)
    BY <1>1 DEF InGuest
  <2> QED BY <2>1, <2>2 DEF RunInv, DeadlineExact, Quiet
<1>6. NoStrayHelper'
  BY <1>1 DEF RunInv, NoStrayHelper, Live
<1> QED BY <1>2, <1>3, <1>4, <1>5, <1>6 DEF RunInv

\* A run whose helper is yet to begin: it takes the lock, builds its store, or
\* has its guest instantiated.
LEMMA Beginning ==
  ASSUME RunInv, NEW r \in Runs, Acquire(r) \/ Build(r) \/ Instantiated(r)
  PROVE  RunInv'
<1>a. /\ helper[r].pc \in {"none", "drain", "look", "burst", "tick", "ended"}
      /\ pc[r] \in {"wait", "build", "instantiate"} /\ r \in Capturing => helper[r].pc = "none"
      /\ pc[r] \in {"wait", "build"} => helper[r].pc = "none" /\ helper[r].ticks = 0
  BY DEF RunInv, TypeOK, Helpers, HelperInPlace, NoHelper
<1>1. /\ pc'[r] = IF pc[r] = "wait" THEN "build" ELSE IF pc[r] = "build" THEN "instantiate" ELSE "call"
      /\ pc[r] \in {"wait", "build", "instantiate"}
      /\ \A q \in Runs : q # r => pc'[q] = pc[q] /\ left'[q] = left[q] /\ helper'[q] = helper[q]
      /\ UNCHANGED <<cancelled, over, result>>
  BY DEF RunInv, TypeOK, Acquire, Build, Instantiated
<1>2. TypeOK'
  <2>1. CASE Acquire(r)
    BY <2>1 DEF RunInv, TypeOK, Acquire
  <2>2. CASE Build(r)
    BY <2>2, SomeTicks DEF RunInv, TypeOK, Build, Helpers, HelperInPlace, NoHelper
  <2>3. CASE Instantiated(r)
    BY <2>3 DEF RunInv, TypeOK, Instantiated, Helpers
  <2> QED BY <2>1, <2>2, <2>3
<1>3. OneHolder'
  BY <1>1, NoneAssumption DEF RunInv, OneHolder, Acquire, Build, Instantiated
<1>4. ASSUME NEW q \in Runs PROVE HelperInPlace(q)'
  <2>1. CASE q # r
    BY <1>1, <2>1 DEF RunInv, HelperInPlace
  <2>2. CASE q = r /\ Acquire(r)
    BY <1>1, <2>2 DEF RunInv, HelperInPlace, Acquire
  <2>3. CASE q = r /\ Build(r)
    <3>1. pc'[r] = "instantiate" /\ helper'[r].pc = IF r \in Streaming THEN "drain" ELSE "none"
      BY <1>1, <2>3 DEF Build, RunInv, TypeOK
    <3> QED BY <1>1, <2>3, <3>1 DEF RunInv, HelperInPlace, Capturing, Build
  <2>4. CASE q = r /\ Instantiated(r)
    <3>1. /\ pc[r] = "instantiate" /\ pc'[r] = "call"
          /\ r \in Streaming => helper'[r] = helper[r]
          /\ r \notin Streaming => helper'[r].pc = "look"
      BY <1>1, <2>4 DEF Instantiated, RunInv, TypeOK, Helpers
    <3> QED BY <1>1, <2>4, <3>1 DEF RunInv, HelperInPlace, Capturing
  <2> QED BY <2>1, <2>2, <2>3, <2>4
<1>5. DeadlineExact'
  <2> SUFFICES ASSUME Quiet, NEW q \in Runs \ cancelled, InGuest(q)'
               PROVE  left'[q] = Ticks[q] - helper'[q].ticks
    BY <1>1 DEF DeadlineExact, Quiet
  <2>1. CASE q # r
    BY <1>1, <2>1 DEF RunInv, DeadlineExact, InGuest, Quiet
  <2>2. CASE q = r /\ Acquire(r)
    BY <1>1, <2>2 DEF InGuest, Acquire
  <2>3. CASE q = r /\ Build(r)
    <3>1. left'[r] = Ticks[r] /\ helper'[r].ticks = 0
      BY <1>a, <2>3 DEF Build, RunInv, TypeOK
    <3> QED BY <2>3, <3>1, SomeTicks
  <2>4. CASE q = r /\ Instantiated(r)
    <3>1. left'[r] = left[r] /\ helper'[r].ticks = helper[r].ticks /\ InGuest(r)
      BY <2>4 DEF Instantiated, RunInv, TypeOK, InGuest
    <3> QED BY <2>4, <3>1 DEF RunInv, DeadlineExact, Quiet
  <2> QED BY <2>1, <2>2, <2>3, <2>4
<1>6. NoStrayHelper'
  BY <1>1 DEF RunInv, NoStrayHelper
<1> QED BY <1>2, <1>3, <1>4, <1>5, <1>6 DEF RunInv

\* Every step of a calling thread keeps the invariants.
LEMMA CallerStep == ASSUME RunInv, NEW r \in Runs, Caller(r) PROVE RunInv'
<1>a. /\ result \in [Runs -> Results] /\ over \subseteq Runs
      /\ helper[r].pc \in {"none", "drain", "look", "burst", "tick", "ended"}
  BY DEF RunInv, TypeOK, Helpers
<1>b. pc[r] # "done" => result[r] \in Results \ {"Panicked"}
  BY <1>a DEF RunInv, HelperInPlace
<1>1. CASE Acquire(r) \/ Build(r) \/ Instantiated(r)
  BY <1>1, Beginning
<1>2. CASE Refuse(r)
  <2>1. ~Live(r)
    BY <1>2 DEF Refuse, Live, RunInv, HelperInPlace, NoHelper
  <2> QED BY <1>2, <1>a, <2>1, Returning DEF Refuse, Results
<1>3. CASE InstantiateFails(r) /\ r \in Streaming
  <2>1. result[r] \in Results \ {"Panicked"} /\ result' = [result EXCEPT ![r] = result[r]]
    BY <1>3, <1>a, <1>b DEF InstantiateFails
  <2> QED BY <1>3, <2>1, GoingOn DEF InstantiateFails
<1>4. CASE InstantiateFails(r) /\ r \notin Streaming
  <2>1. ~Live(r)
    BY <1>4 DEF InstantiateFails, Live, RunInv, HelperInPlace, Capturing
  <2> QED BY <1>4, <1>a, <2>1, Returning DEF InstantiateFails, Results
<1>5. CASE CallReturns(r) \/ CallTrapped(r)
  <2>1. PICK res \in {"Output", "Wasi"} : Told(r, res)
    BY <1>5 DEF CallReturns, CallTrapped
  <2> QED BY <2>1, GoingOn DEF Told, Results
<1>6. CASE Join(r)
  <2>1. Verdict(r) \in Results
    BY <1>a DEF Verdict, Results
  <2>2. pc[r] \notin {"wait", "done"} /\ ~Live(r)
    BY <1>6 DEF Join, Live
  <2> QED BY <1>6, <1>a, <2>1, <2>2, Returning DEF Join
<1>7. CASE Panic(r)
  <2>1. over' \subseteq Runs
    BY <1>7, <1>a DEF Panic
  <2> QED BY <1>7, <2>1, Returning DEF Panic, InGuest, Results
<1> QED BY <1>1, <1>2, <1>3, <1>4, <1>5, <1>6, <1>7 DEF Caller

\* Cancelling sets a flag; a run that is cancelled has no deadline to keep.
LEMMA CancelStep == ASSUME RunInv, NEW r \in Runs, Cancel(r) PROVE RunInv'
<1>1. TypeOK' /\ OneHolder' /\ NoStrayHelper'
  BY DEF Cancel, RunInv, TypeOK, OneHolder, NoStrayHelper
<1>2. \A q \in Runs : HelperInPlace(q)'
  BY DEF Cancel, RunInv, HelperInPlace
<1>3. DeadlineExact'
  BY DEF Cancel, RunInv, DeadlineExact, InGuest
<1> QED BY <1>1, <1>2, <1>3 DEF RunInv

\* Every step of every thread and client keeps the invariants.
LEMMA RunStep == RunInv /\ [Next]_vars => RunInv'
<1> SUFFICES ASSUME RunInv, [Next]_vars PROVE RunInv'
  OBVIOUS
<1>1. CASE UNCHANGED vars
  BY <1>1 DEF vars, RunInv, TypeOK, OneHolder, HelperInPlace, DeadlineExact,
              NoStrayHelper, InGuest
<1>2. CASE \E r \in Runs : Caller(r) \/ Helper(r) \/ Cancel(r)
  BY <1>2, CallerStep, HelperStep, CancelStep
<1> QED BY <1>1, <1>2 DEF Next, Finished
-----------------------------------------------------------------------------
\* Type correctness of the runs of a WasiRuntime: a watchdog counts no more than
\* epoch_ticks, and no store is further than that from its deadline.
THEOREM RunTypes == Spec => []TypeOK
<1>1. RunInv => TypeOK
  BY DEF RunInv
<1> QED BY RunInit, RunStep, <1>1, PTL DEF Spec

\* Run serialization (docs of WasiRuntime): until something panics, the epochs a
\* guest that is not cancelled has lost are the ticks of its own helper, however
\* many runs wait, burst or end around it.
THEOREM ExactDeadlines == Spec => []DeadlineExact
<1>1. RunInv => DeadlineExact
  BY DEF RunInv
<1> QED BY RunInit, RunStep, <1>1, PTL DEF Spec

\* The join before every return of run_wasi_inner and run_wasi_events_impl: a run
\* that returns leaves no helper behind, unless it panicked.
THEOREM NoHelperLeft == Spec => []NoStrayHelper
<1>1. RunInv => NoStrayHelper
  BY DEF RunInv
<1> QED BY RunInit, RunStep, <1>1, PTL DEF Spec
-----------------------------------------------------------------------------
(* The runs are calls, RunCalls.                                           *)

\* A run whose guest returned is joined with what its guest returned.
Joined == \A r \in Runs : pc[r] = "join" => result[r] \in {"Output", "Wasi"}

\* Joined holds, and is kept by every step: only Told leads to a join.
LEMMA JoinedHolds ==
  /\ Init => Joined
  /\ RunInv /\ Joined /\ [Next]_vars => Joined'
<1>1. Init => Joined
  BY DEF Init, Joined
<1>2. ASSUME RunInv, Joined, UNCHANGED vars PROVE Joined'
  BY <1>2 DEF vars, Joined
<1>3. ASSUME RunInv, Joined, NEW r \in Runs, Helper(r) \/ Cancel(r) PROVE Joined'
  <2>1. UNCHANGED <<pc, result>>
    BY <1>3 DEF Helper, ReaderDrain, ReaderTick, ReaderNoTick, WatchdogLook,
                WatchdogStop, WatchdogTick, StartBurst, Burst, EndBurst, Cancel
  <2> QED BY <1>3, <2>1 DEF Joined
<1>4. ASSUME RunInv, Joined, NEW r \in Runs, Caller(r) PROVE Joined'
  <2>1. pc \in [Runs -> {"wait", "build", "instantiate", "call", "join", "abandon", "done"}]
        /\ result \in [Runs -> Results]
    BY <1>4 DEF RunInv, TypeOK
  <2>2. CASE Acquire(r) \/ Build(r) \/ Instantiated(r) \/ InstantiateFails(r)
    BY <1>4, <2>1, <2>2 DEF Acquire, Build, Instantiated, InstantiateFails, Return, Joined
  <2>3. CASE Refuse(r) \/ Join(r) \/ Panic(r)
    BY <1>4, <2>1, <2>3 DEF Refuse, Join, Panic, Return, Joined
  <2>4. CASE CallReturns(r) \/ CallTrapped(r)
    BY <1>4, <2>1, <2>4 DEF CallReturns, CallTrapped, Told, Joined
  <2> QED BY <1>4, <2>2, <2>3, <2>4 DEF Caller
<1> QED BY <1>1, <1>2, <1>3, <1>4 DEF Next, Finished

\* How one run's move looks to its caller.
LEMMA Looks ==
  ASSUME TypeOK, NEW r \in Runs, NEW p, NEW res,
         pc' = [pc EXCEPT ![r] = p], result' = [result EXCEPT ![r] = res]
  PROVE  /\ CallPhase' = [CallPhase EXCEPT ![r] = Seen(p)]
         /\ CallResult' = [CallResult EXCEPT ![r] = IF p = "done" THEN res ELSE "None"]
<1>1. /\ pc'[r] = p /\ result'[r] = res
      /\ \A q \in Runs : q # r => pc'[q] = pc[q] /\ result'[q] = result[q]
  BY DEF TypeOK
<1> QED BY <1>1 DEF CallPhase, CallResult, Seen

\* A run that returns from where its call is, with a result its call may have.
LEMMA LooksReturned ==
  ASSUME TypeOK, NEW r \in Runs, NEW res, NEW from, Return(r, res),
         Seen(pc[r]) = from, UNCHANGED cancelled
  PROVE  Calls!Return(r, from, res)
<1>1. /\ CallPhase' = [CallPhase EXCEPT ![r] = Seen("done")]
      /\ CallResult' = [CallResult EXCEPT ![r] = IF "done" = "done" THEN res ELSE "None"]
  <2>1. pc' = [pc EXCEPT ![r] = "done"] /\ result' = [result EXCEPT ![r] = res]
    BY DEF Return
  <2> QED BY <2>1, Looks
<1>2. CallPhase[r] = from /\ Seen("done") = "returned"
  BY DEF CallPhase, Seen
<1> QED BY <1>1, <1>2 DEF Calls!Return

\* A run that goes on without its call changing.
LEMMA LooksSame ==
  ASSUME TypeOK, NEW r \in Runs, NEW p, NEW res,
         Seen(pc[r]) = "guest", Seen(p) = "guest",
         pc' = [pc EXCEPT ![r] = p], result' = [result EXCEPT ![r] = res]
  PROVE  CallPhase' = CallPhase /\ CallResult' = CallResult
<1>1. /\ CallPhase' = [CallPhase EXCEPT ![r] = Seen(p)]
      /\ CallResult' = [CallResult EXCEPT ![r] = IF p = "done" THEN res ELSE "None"]
  BY Looks
<1>2. CallPhase[r] = Seen(p) /\ CallResult[r] = "None" /\ p # "done"
  BY DEF CallPhase, CallResult, Seen
<1> QED BY <1>1, <1>2 DEF CallPhase, CallResult

\* Every step of a calling thread is a step of its call, or none.
LEMMA CallerRefines ==
  ASSUME RunInv, Joined, NEW r \in Runs, Caller(r)
  PROVE  [Calls!Next]_(Calls!calls)
<1>a. TypeOK /\ result = [result EXCEPT ![r] = result[r]]
  BY DEF RunInv, TypeOK
<1>b. /\ Seen("wait") = "waiting" /\ Seen("build") = "preparing"
      /\ Seen("instantiate") = "guest" /\ Seen("call") = "guest"
      /\ Seen("join") = "guest" /\ Seen("abandon") = "guest"
  BY DEF Seen
<1>1. CASE Acquire(r)
  <2>1. Calls!Idle
    <3>1. \A q \in Runs : pc[q] \in {"wait", "done"}
      BY <1>1, NoneAssumption DEF Acquire, RunInv, OneHolder
    <3> QED BY <3>1 DEF Calls!Idle, CallPhase, Seen
  <2>2. pc' = [pc EXCEPT ![r] = "build"] /\ result' = [result EXCEPT ![r] = result[r]]
    BY <1>1, <1>a DEF Acquire
  <2>3. CallPhase' = [CallPhase EXCEPT ![r] = Seen("build")]
    BY <1>a, <2>2, Looks
  <2>4. CallPhase[r] = "waiting" /\ CallResult' = CallResult
    BY <1>1, <1>a DEF Acquire, CallPhase, CallResult, TypeOK, Seen
  <2> QED BY <1>1, <1>b, <2>1, <2>3, <2>4 DEF Acquire, Calls!Next, Calls!Start
<1>2. CASE Refuse(r)
  <2>1. Seen(pc[r]) = "preparing" /\ Return(r, "Refused") /\ UNCHANGED cancelled
    BY <1>2, <1>b DEF Refuse
  <2>2. Calls!Return(r, "preparing", "Refused")
    BY <1>a, <2>1, LooksReturned
  <2> QED BY <2>2 DEF Calls!Refuse, Calls!Next
<1>3. CASE Build(r)
  <2>1. pc' = [pc EXCEPT ![r] = "instantiate"] /\ result' = [result EXCEPT ![r] = result[r]]
    BY <1>3, <1>a DEF Build
  <2>2. CallPhase' = [CallPhase EXCEPT ![r] = Seen("instantiate")]
    BY <1>a, <2>1, Looks
  <2>3. CallPhase[r] = "preparing" /\ CallResult' = CallResult
    BY <1>3, <1>a DEF Build, CallPhase, CallResult, TypeOK, Seen
  <2> QED BY <1>3, <1>b, <2>2, <2>3 DEF Build, Calls!Next, Calls!Enter
<1>4. CASE Instantiated(r)
  <2>1. /\ Seen(pc[r]) = "guest" /\ UNCHANGED cancelled
        /\ pc' = [pc EXCEPT ![r] = "call"] /\ result' = [result EXCEPT ![r] = result[r]]
    BY <1>4, <1>a, <1>b DEF Instantiated
  <2>2. CallPhase' = CallPhase /\ CallResult' = CallResult
    BY <1>a, <1>b, <2>1, LooksSame
  <2> QED BY <2>1, <2>2 DEF Calls!calls
<1>5. CASE InstantiateFails(r) /\ r \in Streaming
  <2>1. /\ Seen(pc[r]) = "guest" /\ UNCHANGED cancelled
        /\ pc' = [pc EXCEPT ![r] = "abandon"] /\ result' = [result EXCEPT ![r] = result[r]]
    BY <1>5, <1>a, <1>b DEF InstantiateFails
  <2>2. CallPhase' = CallPhase /\ CallResult' = CallResult
    BY <1>a, <1>b, <2>1, LooksSame
  <2> QED BY <2>1, <2>2 DEF Calls!calls
<1>6. CASE InstantiateFails(r) /\ r \notin Streaming
  <2>1. Seen(pc[r]) = "guest" /\ Return(r, "Wasi") /\ UNCHANGED cancelled
    BY <1>6, <1>b DEF InstantiateFails
  <2>2. Calls!Return(r, "guest", "Wasi")
    BY <1>a, <2>1, LooksReturned
  <2> QED BY <2>2 DEF Calls!Finish, Calls!Next
<1>7. CASE CallReturns(r) \/ CallTrapped(r)
  <2>1. PICK res : Told(r, res)
    BY <1>7 DEF CallReturns, CallTrapped
  <2>2. CallPhase' = CallPhase /\ CallResult' = CallResult
    BY <1>a, <1>b, <2>1, LooksSame DEF Told
  <2> QED BY <2>1, <2>2 DEF Told, Calls!calls
<1>8. CASE Join(r)
  <2>1. Seen(pc[r]) = "guest" /\ Return(r, Verdict(r)) /\ UNCHANGED cancelled
    BY <1>8, <1>b DEF Join
  <2>2. Calls!Return(r, "guest", Verdict(r))
    BY <1>a, <2>1, LooksReturned
  <2>3. Verdict(r) \in {"Output", "Wasi"} \/ (Verdict(r) = "Cancelled" /\ r \in cancelled)
    BY <1>8 DEF Join, Verdict, Joined
  <2> QED BY <2>2, <2>3 DEF Calls!Finish, Calls!Cancelled, Calls!Next
<1>9. CASE Panic(r)
  <2>1. /\ MayPanic /\ Seen(pc[r]) = "guest"
        /\ Return(r, "Panicked") /\ UNCHANGED cancelled
    BY <1>9, <1>b DEF Panic, InGuest
  <2>2. Calls!Return(r, "guest", "Panicked")
    BY <1>a, <2>1, LooksReturned
  <2> QED BY <2>1, <2>2 DEF Calls!Panic, Calls!Next
<1> QED BY <1>1, <1>2, <1>3, <1>4, <1>5, <1>6, <1>7, <1>8, <1>9 DEF Caller

\* Every step of the runtime is a step of the calls, or none.
LEMMA RunRefines == RunInv /\ Joined /\ [Next]_vars => [Calls!Next]_(Calls!calls)
<1> SUFFICES ASSUME RunInv, Joined, [Next]_vars PROVE [Calls!Next]_(Calls!calls)
  OBVIOUS
<1>1. CASE UNCHANGED vars
  BY <1>1 DEF vars, Calls!calls, CallPhase, CallResult
<1>2. ASSUME NEW r \in Runs, Helper(r) PROVE [Calls!Next]_(Calls!calls)
  <2>1. UNCHANGED <<pc, result, cancelled>>
    BY <1>2 DEF Helper, ReaderDrain, ReaderTick, ReaderNoTick, WatchdogLook,
                WatchdogStop, WatchdogTick, StartBurst, Burst, EndBurst
  <2> QED BY <2>1 DEF Calls!calls, CallPhase, CallResult
<1>3. ASSUME NEW r \in Runs, Cancel(r) PROVE [Calls!Next]_(Calls!calls)
  <2>1. CallPhase' = CallPhase /\ CallResult' = CallResult
    BY <1>3 DEF Cancel, CallPhase, CallResult
  <2> QED BY <1>3, <2>1 DEF Cancel, Calls!Next, Calls!Cancel
<1> QED BY <1>1, <1>2, <1>3, CallerRefines DEF Next, Finished

\* A runtime that has not run anything has calls that all wait.
LEMMA RunInitRefines == Init => Calls!Init
  BY DEF Init, Calls!Init, CallPhase, CallResult, Seen

\* The runtime of RunEpochs, with its lock, helpers and epochs, implements
\* RunCalls: one run at a time, and Cancelled only for those who cancelled.
THEOREM CallsImplemented == Spec => CallsOneByOne
<1>1. Spec => [](RunInv /\ Joined)
  BY RunInit, RunStep, JoinedHolds, PTL DEF Spec
<1> QED BY <1>1, RunInitRefines, RunRefines, PTL DEF Spec, CallsOneByOne, Calls!Spec
-----------------------------------------------------------------------------
(* A guest is interrupted.                                                 *)

\* Nobody is told to stop before its guest is over, and no reader leaves before it
\* is told; a guest has no more epochs to go than ticks left to count, and no more
\* than a burst has left to make.
Interrupts(r) ==
  /\ pc[r] \in {"wait", "build", "instantiate", "call"} => r \notin over
  /\ helper[r].last => r \in over
  /\ InGuest(r) =>
       /\ left[r] + helper[r].ticks <= Ticks[r]
       /\ helper[r].pc = "burst" => left[r] <= helper[r].burst
       /\ helper[r].pc = "ended" => left[r] = 0
       /\ helper[r].pc = "none" => pc[r] = "instantiate" /\ r \in Capturing

InterruptInv == \A r \in Runs : Interrupts(r)

\* Others' increments only bring a deadline closer.
LEMMA OthersHelp ==
  ASSUME RunInv, NEW q \in Runs, Interrupts(q), left'[q] = left[q] \/ Increment,
         UNCHANGED <<pc[q], helper[q]>>, q \in over' <=> q \in over
  PROVE  Interrupts(q)'
<1>1. /\ left[q] \in Nat /\ helper[q].ticks \in Nat /\ helper[q].burst \in Nat
      /\ Ticks[q] \in Nat
  BY WithinTicks
<1>2. left'[q] = left[q] \/ left'[q] = IF left[q] = 0 THEN 0 ELSE left[q] - 1
  BY DEF Increment
<1>3. left'[q] \in Nat /\ left'[q] <= left[q]
  BY <1>1, <1>2
<1>4. left[q] + helper[q].ticks <= Ticks[q] => left'[q] + helper[q].ticks <= Ticks[q]
  BY <1>1, <1>3
<1> QED BY <1>1, <1>3, <1>4 DEF Interrupts, InGuest

\* What a helper that ticks or bursts, starts to or stops, does to its own guest.
LEMMA OwnHelper ==
  ASSUME RunInv, NEW r \in Runs, Interrupts(r), Helper(r)
  PROVE  Interrupts(r)'
<1> DEFINE H == helper[r]
           L == left[r]
<1>a. /\ helper \in [Runs -> Helpers]
      /\ L \in Nat /\ L <= Ticks[r] /\ H.ticks \in Nat /\ H.ticks <= Ticks[r]
      /\ H.burst \in Nat /\ Ticks[r] \in Nat
      /\ H.pc = "tick" => r \in Capturing /\ H.ticks < Ticks[r]
  BY WithinTicks DEF RunInv, HelperInPlace
<1>b. UNCHANGED <<pc, over>>
  BY DEF Helper, ReaderDrain, ReaderTick, ReaderNoTick, WatchdogLook, WatchdogStop,
         WatchdogTick, StartBurst, Burst, EndBurst
<1>c. Increment => left'[r] = IF L = 0 THEN 0 ELSE L - 1
  BY DEF Increment
<1>d. InGuest(r) => r \notin over /\ ~H.last
  BY DEF Interrupts, InGuest
<1>e. InGuest(r)' <=> InGuest(r)
  BY <1>b DEF InGuest
<1> HIDE DEF L
<1>1. CASE ReaderDrain(r)
  <2>1. /\ left' = left /\ helper'[r].pc = "look" /\ helper'[r].ticks = H.ticks
        /\ helper'[r].last = (r \in over)
    BY <1>1, <1>a DEF ReaderDrain
  <2> QED BY <2>1, <1>b, <1>e DEF Interrupts
<1>2. CASE StartBurst(r)
  <2>1. /\ left' = left /\ helper'[r].pc = "burst" /\ helper'[r].burst = Ticks[r]
        /\ helper'[r].ticks = H.ticks /\ helper'[r].last = H.last
    BY <1>2, <1>a DEF StartBurst
  <2> QED BY <2>1, <1>a, <1>b, <1>e DEF Interrupts, L
<1>3. CASE Burst(r)
  <2>1. /\ Increment /\ helper'[r].pc = "burst" /\ helper'[r].burst = H.burst - 1
        /\ helper'[r].ticks = H.ticks /\ helper'[r].last = H.last /\ H.pc = "burst" /\ H.burst > 0
    BY <1>3, <1>a DEF Burst
  <2>2. L <= H.burst => left'[r] <= helper'[r].burst
    BY <2>1, <1>a, <1>c
  <2>3. L + H.ticks <= Ticks[r] => left'[r] + helper'[r].ticks <= Ticks[r]
    BY <2>1, <1>a, <1>c
  <2> QED BY <2>1, <2>2, <2>3, <1>b, <1>e DEF Interrupts, L
<1>4. CASE EndBurst(r)
  <2>1. /\ left' = left /\ helper'[r].pc \in {"ended", "drain"} /\ H.pc = "burst" /\ H.burst = 0
        /\ helper'[r].ticks = H.ticks /\ helper'[r].last = H.last
    BY <1>4, <1>a DEF EndBurst, PassEnd
  <2>2. L <= H.burst => L = 0
    BY <2>1, <1>a
  <2> QED BY <2>1, <2>2, <1>b, <1>e DEF Interrupts, L
<1>5. CASE WatchdogLook(r)
  <2>1. /\ left' = left /\ helper'[r].pc \in {"ended", "tick"}
        /\ helper'[r].pc = "ended" => H.ticks >= Ticks[r]
        /\ helper'[r].ticks = H.ticks /\ helper'[r].last = H.last
    BY <1>5, <1>a DEF WatchdogLook
  <2>2. L + H.ticks <= Ticks[r] /\ H.ticks >= Ticks[r] => L = 0
    BY <1>a
  <2> QED BY <2>1, <2>2, <1>b, <1>e DEF Interrupts, L
<1>6. CASE WatchdogStop(r)
  <2>1. r \in over /\ helper'[r].last = H.last
    BY <1>6, <1>a DEF WatchdogStop
  <2> QED BY <2>1, <1>b, <1>d, <1>e DEF Interrupts, InGuest
<1>7. CASE WatchdogTick(r)
  <2>1. /\ Increment /\ helper'[r].pc = "look" /\ helper'[r].ticks = H.ticks + 1
        /\ helper'[r].last = H.last /\ H.ticks < Ticks[r]
    BY <1>7, <1>a DEF WatchdogTick
  <2>2. L + H.ticks <= Ticks[r] => left'[r] + helper'[r].ticks <= Ticks[r]
    BY <2>1, <1>a, <1>c
  <2> QED BY <2>1, <2>2, <1>b, <1>e DEF Interrupts, L
<1>8. CASE ReaderTick(r)
  <2>1. /\ Increment /\ helper'[r].pc = (IF H.last THEN "ended" ELSE "drain")
        /\ helper'[r].ticks = (IF H.ticks < Ticks[r] THEN H.ticks + 1 ELSE H.ticks)
        /\ helper'[r].last = H.last
    BY <1>8, <1>a DEF ReaderTick, PassEnd
  <2>2. L + H.ticks <= Ticks[r] => left'[r] + helper'[r].ticks <= Ticks[r]
    BY <2>1, <1>a, <1>c
  <2> QED BY <2>1, <2>2, <1>b, <1>d, <1>e DEF Interrupts, L
<1>9. CASE ReaderNoTick(r)
  <2>1. /\ left' = left /\ helper'[r].pc = (IF H.last THEN "ended" ELSE "drain")
        /\ helper'[r].ticks = H.ticks /\ helper'[r].last = H.last
    BY <1>9, <1>a DEF ReaderNoTick, PassEnd
  <2> QED BY <2>1, <1>b, <1>d, <1>e DEF Interrupts, L
<1> QED BY <1>1, <1>2, <1>3, <1>4, <1>5, <1>6, <1>7, <1>8, <1>9 DEF Helper

\* What a calling thread's step does to its own run: a guest starts with the whole
\* distance and a helper that counted nothing.
LEMMA OwnCaller ==
  ASSUME RunInv, NEW r \in Runs, Interrupts(r), Caller(r)
  PROVE  Interrupts(r)'
<1>a. /\ helper \in [Runs -> Helpers]
      /\ pc \in [Runs -> {"wait", "build", "instantiate", "call", "join", "abandon", "done"}]
      /\ left \in [Runs -> Nat]
      /\ pc[r] \in {"wait", "build"} => helper[r] = NoHelper
      /\ pc[r] = "instantiate" /\ r \in Capturing => helper[r].pc = "none"
  BY DEF RunInv, TypeOK, HelperInPlace
<1>1. CASE Acquire(r)
  <2>1. pc'[r] = "build" /\ UNCHANGED <<helper, over>> /\ pc[r] = "wait"
    BY <1>1, <1>a DEF Acquire
  <2> QED BY <2>1 DEF Interrupts, InGuest
<1>2. CASE Build(r)
  <2>1. /\ pc'[r] = "instantiate" /\ UNCHANGED over /\ pc[r] = "build" /\ left'[r] = Ticks[r]
        /\ helper'[r].pc = (IF r \in Streaming THEN "drain" ELSE "none")
        /\ helper'[r].ticks = 0 /\ ~helper'[r].last
    BY <1>2, <1>a DEF Build, NoHelper
  <2>2. left'[r] + helper'[r].ticks <= Ticks[r]
    BY <2>1, SomeTicks
  <2> QED BY <2>1, <2>2 DEF Interrupts, InGuest, Capturing
<1>3. CASE Instantiated(r)
  <2>1. /\ pc'[r] = "call" /\ UNCHANGED <<over, left>> /\ pc[r] = "instantiate"
        /\ helper'[r].pc = (IF r \in Streaming THEN helper[r].pc ELSE "look")
        /\ helper'[r].ticks = helper[r].ticks /\ helper'[r].burst = helper[r].burst
        /\ helper'[r].last = helper[r].last
    BY <1>3, <1>a DEF Instantiated
  <2> QED BY <2>1 DEF Interrupts, InGuest, Capturing
<1>4. CASE \/ Refuse(r) \/ InstantiateFails(r) \/ CallReturns(r) \/ CallTrapped(r)
           \/ Join(r) \/ Panic(r)
  <2>1. /\ pc'[r] \in {"done", "abandon", "join"} /\ UNCHANGED helper /\ over \subseteq over'
    BY <1>4, <1>a DEF Refuse, InstantiateFails, CallReturns, CallTrapped, Told, Join, Panic, Return
  <2> QED BY <2>1 DEF Interrupts, InGuest
<1> QED BY <1>1, <1>2, <1>3, <1>4 DEF Caller

\* A calling thread, a helper or a client leaves the runs of the others alone, but
\* for the epoch.
LEMMA OtherRuns ==
  ASSUME RunInv, NEW r \in Runs, NEW q \in Runs \ {r}, Caller(r) \/ Helper(r)
  PROVE  /\ UNCHANGED <<pc[q], helper[q]>> /\ (q \in over' <=> q \in over)
         /\ left'[q] = left[q] \/ Increment
<1>1. CASE Acquire(r) \/ Refuse(r) \/ Build(r) \/ Instantiated(r) \/ InstantiateFails(r)
  BY <1>1 DEF RunInv, TypeOK, Acquire, Refuse, Build, Instantiated, InstantiateFails, Return
<1>2. CASE CallReturns(r) \/ CallTrapped(r) \/ Join(r) \/ Panic(r)
  BY <1>2 DEF RunInv, TypeOK, CallReturns, CallTrapped, Told, Join, Panic, Return
<1>3. CASE ReaderDrain(r) \/ ReaderTick(r) \/ ReaderNoTick(r) \/ WatchdogLook(r) \/ WatchdogStop(r)
  BY <1>3 DEF RunInv, TypeOK, ReaderDrain, ReaderTick, ReaderNoTick, WatchdogLook, WatchdogStop
<1>4. CASE WatchdogTick(r) \/ StartBurst(r) \/ Burst(r) \/ EndBurst(r)
  BY <1>4 DEF RunInv, TypeOK, WatchdogTick, StartBurst, Burst, EndBurst
<1> QED BY <1>1, <1>2, <1>3, <1>4 DEF Caller, Helper

LEMMA InterruptStep == RunInv /\ InterruptInv /\ [Next]_vars => InterruptInv'
<1> SUFFICES ASSUME RunInv, InterruptInv, [Next]_vars, NEW q \in Runs PROVE Interrupts(q)'
  BY DEF InterruptInv
<1>1. Interrupts(q)
  BY DEF InterruptInv
<1>2. ASSUME NEW r \in Runs, Caller(r) \/ Helper(r) PROVE Interrupts(q)'
  <2>1. CASE r = q
    BY <1>1, <1>2, <2>1, OwnCaller, OwnHelper
  <2>2. CASE r # q
    <3>1. /\ UNCHANGED <<pc[q], helper[q]>> /\ (q \in over' <=> q \in over)
          /\ left'[q] = left[q] \/ Increment
      BY <1>2, <2>2, OtherRuns
    <3>2. left'[q] = left[q] => Interrupts(q)'
      BY <1>1, <3>1 DEF Interrupts, InGuest
    <3> QED BY <1>1, <3>1, <3>2, OthersHelp
  <2> QED BY <2>1, <2>2
<1>3. ASSUME UNCHANGED <<pc, left, over, helper>> PROVE Interrupts(q)'
  BY <1>1, <1>3 DEF Interrupts, InGuest
<1> QED BY <1>2, <1>3 DEF Next, Finished, vars, Cancel

\* Whatever ticks, bursts and panics come together, a guest that is not at its
\* deadline still has the helper that will bring it there, with increments enough:
\* the loop bounds of the watchdog and of both bursts (epoch_ticks) are the ticks
\* that set_epoch_deadline was given.
THEOREM InterruptsSuffice == Spec => []InterruptComes
<1>1. ASSUME Init PROVE InterruptInv
  <2>1. ASSUME NEW r \in Runs
        PROVE  pc[r] = "wait" /\ over = {} /\ helper[r].last = FALSE
    BY <1>1, <2>1 DEF Init, NoHelper
  <2> QED BY <2>1 DEF InterruptInv, Interrupts, InGuest
<1>2. InterruptInv => InterruptComes
  BY DEF InterruptInv, Interrupts, InterruptComes
<1> QED BY RunInit, RunStep, InterruptStep, <1>1, <1>2, PTL DEF Spec
=============================================================================
