------------------------- MODULE BrokerAnswerProofs -------------------------
(***************************************************************************)
(* What comes back to a caller, and what is kept of it.  For any ids: the  *)
(* client's own session machine follows its stream but for four events,    *)
(* and nobody is left without an answer who was owed one.  With unique     *)
(* ids: the end of every session is in the trail, once.                    *)
(***************************************************************************)
EXTENDS BrokerAuditProofs, NaturalsInduction, WellFoundedInduction

-----------------------------------------------------------------------------
(* What a step can do to one session, by the contract.                     *)

Hears(s, e) == stream'[s] = IF s \in hungup THEN stream[s] ELSE Append(stream[s], e)

Asks(s)   == /\ s \in Risky /\ Phase(s) \in {"waiting", "over"} /\ Phase(s)' = Phase(s)
             /\ ~Heard(s, "PendingApproval") /\ Hears(s, "PendingApproval")
Begins(s) == /\ Phase(s) = "waiting" /\ Phase(s)' = "running"
             /\ s \in Risky => Heard(s, "PendingApproval") \/ s \in hungup
             /\ IF s \in Streaming THEN Hears(s, "Started") ELSE stream'[s] = stream[s]
Ends(s)   == /\ Phase(s) \in {"waiting", "running"} /\ Phase(s)' = "over"
             /\ \E e \in IF Phase(s) = "running" THEN Contract!Results(s) ELSE Contract!Closings :
                  Hears(s, e)
Emits(s)  == /\ s \in Streaming /\ Phase(s)' = Phase(s)
             /\ \/ Phase(s) = "running"
                \/ Phase(s) = "over" /\ Heard(s, "Started") /\ Heard(s, "Denied")
             /\ \E e \in Outputs : Hears(s, e)
GivenUp(s) == /\ Phase(s) = "waiting" /\ Phase(s)' = "over" /\ stream'[s] = stream[s]
              /\ Undecided(s)
              /\ s \in hungup \/ Contract!Crowded(s) \/ ~Open
Stays(s)  == /\ stream'[s] = stream[s]
             /\ Phase(s)' = Phase(s) \/ (Phase(s) = "new" /\ Phase(s)' = "waiting")

LEMMA SessionMoves ==
  ASSUME BrokerInv, [Next]_vars, NEW s \in Sessions
  PROVE  Stays(s) \/ Asks(s) \/ Begins(s) \/ Emits(s) \/ Ends(s) \/ GivenUp(s)
<1> DEFINE phase == [r \in Sessions |-> Phase(r)]
           Goal  == Stays(s) \/ Asks(s) \/ Begins(s) \/ Emits(s) \/ Ends(s) \/ GivenUp(s)
<1>1. Contract!Next \/ UNCHANGED Contract!vars
  BY StepKeeps DEF BrokerInv
<1>2. stream \in [Sessions -> Seq(Signals)]
  BY DEF BrokerInv, TypeInv, TypeOK
<1>3. ASSUME NEW r \in Sessions, NEW e, Contract!Tell(r, e)
      PROVE  IF r = s THEN Hears(s, e) ELSE stream'[s] = stream[s]
  BY <1>2, <1>3 DEF Contract!Tell, Hears
<1>4. ASSUME UNCHANGED phase PROVE Phase(s)' = Phase(s)
  BY <1>4
<1>5. ASSUME NEW r \in Sessions, NEW p, Contract!Enter(r, p)
      PROVE  Phase(s)' = IF r = s THEN p ELSE Phase(s)
  BY <1>5 DEF Contract!Enter
<1>6. \A e : Contract!Told(s, e) <=> Heard(s, e)
  BY DEF Contract!Told, Heard
<1>7. phase[s] = Phase(s)
  OBVIOUS
<1> HIDE DEF phase
<1>8. ASSUME NEW r \in Sessions, Contract!Submit(r) PROVE Goal
  BY <1>5, <1>7, <1>8 DEF Contract!Submit, phase, Stays
<1>9. ASSUME NEW r \in Sessions, Contract!Ask(r) PROVE Goal
  BY <1>3, <1>4, <1>6, <1>7, <1>9 DEF Contract!Ask, phase, Stays, Asks
<1>10. ASSUME NEW r \in Sessions, Contract!Approve(r) \/ Contract!HangUp(r) PROVE Goal
  BY <1>4, <1>10 DEF Contract!Approve, Contract!HangUp, Stays
<1>11. ASSUME NEW r \in Sessions, Contract!Begin(r) PROVE Goal
  BY <1>3, <1>5, <1>6, <1>7, <1>11 DEF Contract!Begin, phase, Stays, Begins
<1>12. ASSUME NEW r \in Sessions, NEW e \in Contract!Results(r), Contract!End(r, e) PROVE Goal
  <2>1. CASE r # s
    BY <1>3, <1>5, <1>12, <2>1 DEF Contract!End, Stays
  <2>2. CASE r = s
    BY <1>3, <1>5, <1>7, <1>12, <2>2 DEF Contract!End, phase, Ends
  <2> QED BY <2>1, <2>2
<1>13. ASSUME NEW given \in SUBSET Sessions, Contract!GiveUp(given) PROVE Goal
  <2>1. Phase(s)' = IF s \in given THEN "over" ELSE Phase(s)
    BY <1>13 DEF Contract!GiveUp, phase
  <2>2. stream'[s] = stream[s]
    BY <1>13 DEF Contract!GiveUp
  <2>3. s \in given => Phase(s) = "waiting" /\ Undecided(s)
                       /\ (s \in hungup \/ Contract!Crowded(s) \/ ~Open)
    BY <1>13 DEF Contract!GiveUp, phase, Undecided
  <2> QED BY <2>1, <2>2, <2>3 DEF Stays, GivenUp
<1>14. CASE Contract!Close \/ UNCHANGED Contract!vars
  BY <1>4, <1>14 DEF Contract!Close, Contract!vars, phase, Stays
<1>15. ASSUME NEW r \in Sessions, NEW e \in Outputs, Contract!Emit(r, e) PROVE Goal
  <2>1. CASE r # s
    BY <1>3, <1>4, <1>15, <2>1 DEF Contract!Emit, Stays
  <2>2. CASE r = s
    BY <1>3, <1>4, <1>6, <1>7, <1>15, <2>2 DEF Contract!Emit, Emits
  <2> QED BY <2>1, <2>2
<1> QED
  BY <1>1, <1>8, <1>9, <1>10, <1>11, <1>12, <1>13, <1>14, <1>15 DEF Contract!Next, Outputs

\* What holds of a session, or of the broker, for good.
LEMMA ContractMoves ==
  ASSUME BrokerInv, [Next]_vars
  PROVE  /\ ~Open => ~Open'
         /\ \A s \in Sessions : s \in Approved' => s \in Approved \/ Phase(s)' = "waiting"
         /\ \A s \in Sessions : s \in submitted => s \in submitted'
<1> DEFINE phase == [r \in Sessions |-> Phase(r)]
<1>1. Contract!Next \/ UNCHANGED Contract!vars
  BY StepKeeps DEF BrokerInv
<1>2. ~Open => ~Open'
  BY <1>1 DEF Contract!Next, Contract!vars, Contract!Submit, Contract!Ask, Contract!Approve,
     Contract!Begin, Contract!Emit, Contract!End, Contract!GiveUp, Contract!HangUp,
     Contract!Close
<1>3. ASSUME NEW s \in Sessions, s \in Approved' PROVE s \in Approved \/ Phase(s)' = "waiting"
  <2>1. CASE UNCHANGED Approved
    BY <1>3, <2>1
  <2>2. ASSUME NEW r \in Sessions, Contract!Approve(r)
        PROVE  s \in Approved \/ Phase(s)' = "waiting"
    <3>1. phase[r] = "waiting" /\ UNCHANGED phase /\ Approved' = Approved \cup {r}
      BY <2>2 DEF Contract!Approve
    <3>2. Phase(s)' = Phase(s)
      BY <3>1
    <3> QED BY <1>3, <3>1, <3>2
  <2> QED
    BY <1>1, <2>1, <2>2 DEF Contract!Next, Contract!vars, Contract!Submit, Contract!Ask,
       Contract!Begin, Contract!Emit, Contract!End, Contract!GiveUp, Contract!HangUp,
       Contract!Close
<1>4. ASSUME NEW s \in Sessions, s \in submitted PROVE s \in submitted'
  <2>1. Phase(s)' # "new"
    BY <1>4, SessionMoves DEF Phase, Stays, Asks, Begins, Emits, Ends, GivenUp
  <2> QED BY <2>1 DEF Phase
<1> QED BY <1>2, <1>3, <1>4
-----------------------------------------------------------------------------
(* The machine of a client, event by event.                                *)

\* A set of naturals that is not empty has a least element.
LEMMA LeastNat ==
  ASSUME NEW U \in SUBSET Nat, U # {}
  PROVE  \E m \in U : \A u \in U : m <= u
<1> DEFINE R == OpToRel(<, Nat)
<1>1. IsWellFoundedOn(R, Nat)
  BY NatLessThanWellFounded
<1>2. \A x, y \in Nat : x < y => <<x, y>> \in R
  BY DEF OpToRel
<1> HIDE DEF R
<1>3. PICK m \in U : \A u \in U : <<u, m>> \notin R
  BY <1>1, WFMin
<1>4. ASSUME NEW u \in U PROVE m <= u
  <2>1. m \in Nat /\ u \in Nat /\ ~(u < m)
    BY <1>2, <1>3
  <2> QED BY <2>1
<1> QED BY <1>4

\* f is the machine's run over the first n events of q.
RunOver(f, n, q) ==
  /\ DOMAIN f = 0..n /\ f[0] = "Created"
  /\ \A k \in 1..n : f[k] = Accept(f[k - 1], q[k])

\* There is such a run: no number of events is the first without one.
LEMMA RunExists ==
  ASSUME NEW q, NEW n \in Nat
  PROVE  \E f : RunOver(f, n, q)
<1> SUFFICES ASSUME ~\E f : RunOver(f, n, q) PROVE FALSE
  OBVIOUS
<1> DEFINE U == {m \in Nat : ~\E f : RunOver(f, m, q)}
<1>1. U \in SUBSET Nat /\ U # {}
  OBVIOUS
<1>2. PICK m \in U : \A u \in U : m <= u
  BY <1>1, LeastNat
<1>3. RunOver([k \in 0..0 |-> "Created"], 0, q)
  BY DEF RunOver
<1>4. m \in Nat \ {0} /\ m - 1 \in Nat /\ m - 1 \notin U
  BY <1>2, <1>3
<1>5. PICK g : RunOver(g, m - 1, q)
  BY <1>4
<1> DEFINE f == [k \in 0..m |-> IF k = m THEN Accept(g[m - 1], q[m]) ELSE g[k]]
<1>6. RunOver(f, m, q)
  <2>1. DOMAIN f = 0..m /\ f[0] = "Created"
    BY <1>4, <1>5 DEF RunOver
  <2>2. ASSUME NEW k \in 1..m PROVE f[k] = Accept(f[k - 1], q[k])
    <3>1. k - 1 \in 0..(m - 1) /\ f[k - 1] = g[k - 1]
      BY <1>4
    <3>2. CASE k = m
      BY <1>4, <3>1, <3>2
    <3>3. CASE k # m
      <4>1. k \in 1..(m - 1) /\ f[k] = g[k]
        BY <1>4, <3>3
      <4> QED BY <1>5, <3>1, <4>1 DEF RunOver
    <3> QED BY <3>2, <3>3
  <2> QED BY <2>1, <2>2 DEF RunOver
<1> QED BY <1>2, <1>6

\* The machine's run over all the events is ClientStates.
LEMMA ClientRuns ==
  ASSUME NEW q, Len(q) \in Nat
  PROVE  RunOver(ClientStates(q), Len(q), q)
<1> DEFINE n == Len(q)
           Recursive(g) == g = [k \in 0..n |-> IF k = 0 THEN "Created" ELSE Accept(g[k - 1], q[k])]
<1>1. ClientStates(q) = CHOOSE g : Recursive(g)
  BY DEF ClientStates
<1>2. n \in Nat
  OBVIOUS
<1> HIDE DEF n
<1>3. PICK f : RunOver(f, n, q)
  BY <1>2, RunExists
<1> DEFINE F == [k \in 0..n |-> f[k]]
           G(g) == [k \in 0..n |-> IF k = 0 THEN "Created" ELSE Accept(g[k - 1], q[k])]
<1>4. F = G(F)
  <2>1. ASSUME NEW k \in 0..n PROVE F[k] = G(F)[k]
    <3>1. CASE k = 0
      BY <1>3, <3>1 DEF RunOver
    <3>2. CASE k # 0
      <4>1. k \in 1..n /\ k - 1 \in 0..n
        BY <1>2, <3>2
      <4>2. F[k] = Accept(f[k - 1], q[k]) /\ F[k - 1] = f[k - 1]
        BY <1>3, <4>1 DEF RunOver
      <4>3. G(F)[k] = Accept(F[k - 1], q[k])
        BY <3>2
      <4> QED BY <4>2, <4>3
    <3> QED BY <3>1, <3>2
  <2> HIDE DEF F
  <2>2. DOMAIN G(F) = 0..n /\ F = [k \in 0..n |-> F[k]]
    BY DEF F
  <2> QED BY <2>1, <2>2
<1> HIDE DEF F
<1>5. Recursive(ClientStates(q))
  <2>1. Recursive(F)
    BY <1>4
  <2> HIDE DEF Recursive
  <2> QED BY <1>1, <2>1
<1>6. ASSUME NEW g, Recursive(g) PROVE RunOver(g, n, q)
  <2>1. DOMAIN g = 0..n
    BY <1>6
  <2>2. \A k \in 0..n : g[k] = IF k = 0 THEN "Created" ELSE Accept(g[k - 1], q[k])
    BY <1>6
  <2> QED BY <1>2, <2>1, <2>2 DEF RunOver
<1> QED BY <1>5, <1>6 DEF n

\* What was true of the machine stays so when one more event arrives.
LEMMA ClientGoesOn ==
  ASSUME NEW q \in Seq(Signals), NEW x \in Signals
  PROVE  LET c == ClientStates(q)  d == ClientStates(Append(q, x))  n == Len(q)
         IN  (\A k \in 0..n : d[k] = c[k]) /\ d[n + 1] = Accept(c[n], x)
<1> DEFINE r == Append(q, x)
           c == ClientStates(q)
           d == ClientStates(r)
           n == Len(q)
<1>1. /\ n \in Nat /\ Len(r) = n + 1 /\ r[n + 1] = x
      /\ \A k \in 1..n : r[k] = q[k]
  OBVIOUS
<1>2. RunOver(c, n, q) /\ RunOver(d, n + 1, r)
  <2>1. RunOver(c, n, q) /\ RunOver(d, Len(r), r)
    <3>1. Len(q) \in Nat /\ Len(r) \in Nat
      BY <1>1
    <3> QED BY <3>1, ClientRuns
  <2> QED BY <1>1, <2>1
<1> HIDE DEF c, d, r, n
<1>3. \A k \in 0..n : d[k] = c[k]
  <2> SUFFICES ASSUME NEW k \in 0..n, d[k] # c[k] PROVE FALSE
    OBVIOUS
  <2> DEFINE U == {j \in 0..n : d[j] # c[j]}
  <2>1. PICK m \in U : \A u \in U : m <= u
    <3>1. U \in SUBSET Nat /\ U # {}
      BY <1>1
    <3> QED BY <3>1, LeastNat
  <2>2. m # 0
    BY <1>2, <2>1 DEF RunOver
  <2>3. m \in 1..n /\ m - 1 \in 0..n /\ m - 1 \notin U
    BY <1>1, <2>1, <2>2
  <2>4. c[m] = Accept(c[m - 1], q[m]) /\ d[m] = Accept(d[m - 1], r[m]) /\ r[m] = q[m]
    BY <1>1, <1>2, <2>3 DEF RunOver
  <2> QED BY <2>1, <2>3, <2>4
<1>4. d[n + 1] = Accept(d[n], r[n + 1])
  BY <1>1, <1>2 DEF RunOver
<1>5. d[n + 1] = Accept(c[n], x)
  BY <1>1, <1>3, <1>4
<1> QED BY <1>3, <1>5 DEF c, d, r, n
-----------------------------------------------------------------------------
(* The machine of a client over the stream of a session.                   *)

\* It takes event k, or the event is of one of the four kinds.
Follows(s, k) ==
  \/ stream[s][k] \in Accepted[ClientStates(stream[s])[k - 1]]
  \/ stream[s][k] = "Cancelled" /\ ~Heard(s, "Started")
  \/ stream[s][k] \in {"Denied", "Unsupported"} /\ Heard(s, "Started")
  \/ stream[s][k] = "Overrun" /\ ClientStates(stream[s])[k - 1] = "Running"
  \/ stream[s][k] = "PendingApproval" /\ \E j \in 1..(k - 1) : stream[s][j] \in Terminals

\* Where it is after the last event, as far as the next one could find it in the
\* wrong place; and what the caller knows by then.
ClientOf(s) ==
  LET last == ClientStates(stream[s])[Len(stream[s])]
  IN  /\ ~Heard(s, "Started") /\ ~HasEnded(s) =>
           last = IF Heard(s, "PendingApproval") THEN "WaitingApproval" ELSE "Created"
      /\ Heard(s, "Started") /\ ~Heard(s, "Exited") /\ ~Heard(s, "Cancelled") => last = "Running"
      /\ Phase(s) = "running" => Heard(s, "Started") \/ s \in hungup
      /\ s \in Risky \ hungup /\ Heard(s, "Started") => Heard(s, "PendingApproval")

ClientInv == \A s \in Streaming : ClientOf(s) /\ \A k \in DOMAIN stream[s] : Follows(s, k)

LEMMA EventSignals ==
  ASSUME NEW s \in Sessions, NEW e \in Contract!Results(s) \cup Contract!Closings
  PROVE  e \in Signals /\ e \in Terminals /\ e # "Started" /\ e # "PendingApproval"
BY DEF Contract!Results, Contract!Closings, Signals, Terminals

\* An event is heard from when it is sent on, and so is the end if it is one.
LEMMA Hearing ==
  ASSUME TypeInv, NEW s \in Sessions, NEW e \in Signals, stream'[s] = Append(stream[s], e)
  PROVE  /\ \A x : Heard(s, x)' <=> Heard(s, x) \/ x = e
         /\ HasEnded(s)' <=> HasEnded(s) \/ e \in Terminals
<1>1. stream[s] \in Seq(Signals)
  BY DEF TypeInv, TypeOK
<1>2. /\ Len(stream[s]) \in Nat
      /\ DOMAIN stream[s] = 1..Len(stream[s]) /\ DOMAIN stream'[s] = 1..(Len(stream[s]) + 1)
      /\ \A k \in DOMAIN stream[s] : k \in DOMAIN stream'[s] /\ stream'[s][k] = stream[s][k]
      /\ Len(stream[s]) + 1 \in DOMAIN stream'[s] /\ stream'[s][Len(stream[s]) + 1] = e
  BY <1>1
<1>3. \A k \in DOMAIN stream'[s] : \/ k \in DOMAIN stream[s] /\ stream'[s][k] = stream[s][k]
                                   \/ stream'[s][k] = e
  BY <1>2
<1>4. \A x : Heard(s, x)' <=> Heard(s, x) \/ x = e
  BY <1>2, <1>3 DEF Heard
<1>5. HasEnded(s)' <=> HasEnded(s) \/ e \in Terminals
  BY <1>2, <1>3 DEF HasEnded
<1> QED BY <1>4, <1>5

\* An event that the machine takes, or that is of one of the four kinds, leaves the
\* ones before it as they were, if it does not start a guest that was called off.
LEMMA FollowsOn ==
  ASSUME TypeInv, NEW s \in Sessions, NEW e \in Signals, stream'[s] = Append(stream[s], e),
         \A k \in DOMAIN stream[s] : Follows(s, k),
         e = "Started" => ~HasEnded(s),
         LET last == ClientStates(stream[s])[Len(stream[s])]
         IN  \/ e \in Accepted[last]
             \/ e = "Cancelled" /\ ~Heard(s, "Started")
             \/ e \in {"Denied", "Unsupported"} /\ Heard(s, "Started")
             \/ e = "Overrun" /\ last = "Running"
             \/ e = "PendingApproval" /\ HasEnded(s)
  PROVE  /\ \A k \in DOMAIN stream'[s] : Follows(s, k)'
         /\ ClientStates(stream[s])'[Len(stream'[s])] =
              Accept(ClientStates(stream[s])[Len(stream[s])], e)
<1> DEFINE q == stream[s]
           r == Append(q, e)
           c == ClientStates(q)
           d == ClientStates(r)
           n == Len(q)
<1>1. q \in Seq(Signals)
  BY DEF TypeInv, TypeOK
<1>2. /\ n \in Nat /\ DOMAIN q = 1..n /\ DOMAIN r = 1..(n + 1) /\ Len(r) = n + 1
      /\ \A k \in 1..n : r[k] = q[k]
      /\ r[n + 1] = e
  BY <1>1
<1>3. (\A k \in 0..n : d[k] = c[k]) /\ d[n + 1] = Accept(c[n], e)
  BY <1>1, ClientGoesOn
<1>4. \A x : Heard(s, x)' <=> Heard(s, x) \/ x = e
  BY Hearing
<1>5. stream'[s] = r
  OBVIOUS
<1>6. HasEnded(s) <=> \E j \in 1..n : q[j] \in Terminals
  BY <1>2 DEF HasEnded
<1>7. ASSUME NEW k \in 1..n, q[k] = "Cancelled" PROVE HasEnded(s)
  BY <1>6, <1>7 DEF Terminals
<1>8. ASSUME NEW k \in 1..(n + 1)
      PROVE  \/ r[k] \in Accepted[d[k - 1]]
             \/ r[k] = "Cancelled" /\ ~Heard(s, "Started")'
             \/ r[k] \in {"Denied", "Unsupported"} /\ Heard(s, "Started")'
             \/ r[k] = "Overrun" /\ d[k - 1] = "Running"
             \/ r[k] = "PendingApproval" /\ \E j \in 1..(k - 1) : r[j] \in Terminals
  <2>1. CASE k = n + 1
    <3>1. /\ r[k] = e /\ k - 1 = n /\ d[k - 1] = c[n]
      BY <1>2, <1>3, <2>1
    <3>2. e = "Cancelled" => (Heard(s, "Started")' <=> Heard(s, "Started"))
      BY <1>4
    <3>3. HasEnded(s) => \E j \in 1..(k - 1) : r[j] \in Terminals
      BY <1>2, <1>6, <3>1
    <3> QED BY <1>4, <3>1, <3>2, <3>3
  <2>2. CASE k \in 1..n
    <3>1. r[k] = q[k] /\ k - 1 \in 0..n /\ d[k - 1] = c[k - 1]
      BY <1>2, <1>3, <2>2
    <3>2. Follows(s, k)
      BY <1>2, <2>2
    <3>3. \A j \in 1..(k - 1) : r[j] = q[j]
      BY <1>2, <2>2
    <3>4. q[k] = "Cancelled" => e # "Started"
      BY <1>7, <2>2
    <3> HIDE DEF c, d, r
    <3> QED BY <1>4, <3>1, <3>2, <3>3, <3>4 DEF Follows, c
  <2> QED BY <1>2, <2>1, <2>2
<1> HIDE DEF c, d
<1>9. ClientStates(stream[s])' = d
  BY <1>5 DEF d
<1>10. \A k \in 1..(n + 1) : Follows(s, k)'
  BY <1>5, <1>8, <1>9 DEF Follows
<1> QED BY <1>2, <1>3, <1>5, <1>9, <1>10 DEF c

\* Each step tells at most one more event, and the machine is where it takes it,
\* but for the four.
LEMMA ClientStep == BrokerInv /\ AuditInv /\ ClientInv /\ [Next]_vars => ClientInv'
<1> SUFFICES ASSUME BrokerInv, AuditInv, ClientInv, [Next]_vars, NEW s \in Streaming
             PROVE  ClientOf(s)' /\ \A k \in DOMAIN stream'[s] : Follows(s, k)'
  BY DEF ClientInv
<1> DEFINE last == ClientStates(stream[s])[Len(stream[s])]
           next == ClientStates(stream[s])'[Len(stream'[s])]
<1>1. s \in Sessions /\ ClientOf(s) /\ (\A k \in DOMAIN stream[s] : Follows(s, k)) /\ TypeInv
  BY ClassAssumption DEF ClientInv, BrokerInv
<1>2. s \in hungup => s \in hungup'
  BY <1>1, NothingComesBack
<1>3. /\ Phase(s) = "waiting" => ~HasEnded(s) /\ ~Heard(s, "Started")
      /\ Phase(s) = "running" => ~HasEnded(s)
  BY <1>1 DEF Phase, BrokerInv, OwnerInv, Nowhere, AuditInv
<1>4. Heard(s, "Exited") \/ Heard(s, "Cancelled") \/ Heard(s, "Denied") => HasEnded(s)
  BY DEF Heard, HasEnded, Terminals
<1>5. Heard(s, "Denied") => ~Heard(s, "Exited") /\ ~Heard(s, "Cancelled")
  BY <1>1 DEF Heard, BrokerInv, OwnerInv, AtMostOneTerminal, Terminals
<1>6. ASSUME stream'[s] = stream[s],
             Phase(s)' = "running" => Phase(s) = "running" \/ s \in hungup
      PROVE  ClientOf(s)' /\ \A k \in DOMAIN stream'[s] : Follows(s, k)'
  BY <1>1, <1>2, <1>6 DEF ClientOf, Follows, Heard, HasEnded
<1>7. CASE Stays(s) \/ GivenUp(s)
  BY <1>6, <1>7 DEF Stays, GivenUp
<1>8. ASSUME NEW e \in Signals, Hears(s, e), s \notin hungup,
             e = "Started" => ~HasEnded(s),
             \/ e \in Accepted[last]
             \/ e = "Cancelled" /\ ~Heard(s, "Started")
             \/ e \in {"Denied", "Unsupported"} /\ Heard(s, "Started")
             \/ e = "Overrun" /\ last = "Running"
             \/ e = "PendingApproval" /\ HasEnded(s)
      PROVE  /\ \A k \in DOMAIN stream'[s] : Follows(s, k)'
             /\ next = Accept(last, e)
             /\ \A x : Heard(s, x)' <=> Heard(s, x) \/ x = e
             /\ HasEnded(s)' <=> HasEnded(s) \/ e \in Terminals
  <2>1. stream'[s] = Append(stream[s], e)
    BY <1>8 DEF Hears
  <2> QED BY <1>1, <1>8, <2>1, FollowsOn, Hearing
<1>9. ClientOf(s)' <=>
        /\ ~Heard(s, "Started")' /\ ~HasEnded(s)' =>
             next = IF Heard(s, "PendingApproval")' THEN "WaitingApproval" ELSE "Created"
        /\ Heard(s, "Started")' /\ ~Heard(s, "Exited")' /\ ~Heard(s, "Cancelled")' => next = "Running"
        /\ Phase(s)' = "running" => Heard(s, "Started")' \/ s \in hungup'
        /\ s \in Risky \ hungup' /\ Heard(s, "Started")' => Heard(s, "PendingApproval")'
  BY DEF ClientOf
<1>10. /\ ~Heard(s, "Started") /\ ~HasEnded(s) =>
             last = IF Heard(s, "PendingApproval") THEN "WaitingApproval" ELSE "Created"
       /\ Heard(s, "Started") /\ ~Heard(s, "Exited") /\ ~Heard(s, "Cancelled") => last = "Running"
       /\ Phase(s) = "running" => Heard(s, "Started") \/ s \in hungup
       /\ s \in Risky \ hungup /\ Heard(s, "Started") => Heard(s, "PendingApproval")
  BY <1>1 DEF ClientOf
<1> HIDE DEF last, next
<1>11. CASE Asks(s)
  <2>1. CASE s \in hungup
    BY <1>6, <1>11, <2>1 DEF Asks, Hears
  <2>2. CASE s \notin hungup
    <3>1. /\ Hears(s, "PendingApproval") /\ "PendingApproval" \in Signals /\ Phase(s)' = Phase(s)
          /\ ~Heard(s, "PendingApproval") /\ ~Heard(s, "Started") /\ "PendingApproval" \notin Terminals
      BY <1>10, <1>11, <2>2, Questions DEF Asks, Terminals
    <3>2. HasEnded(s) \/ last = "Created"
      BY <1>10, <3>1
    <3>3. /\ "PendingApproval" \in Accepted["Created"]
          /\ Accept("Created", "PendingApproval") = "WaitingApproval"
      BY DEF Accepted, Accept, After
    <3>4. /\ \A k \in DOMAIN stream'[s] : Follows(s, k)'
          /\ next = Accept(last, "PendingApproval")
          /\ \A x : Heard(s, x)' <=> Heard(s, x) \/ x = "PendingApproval"
          /\ HasEnded(s)' <=> HasEnded(s)
      BY <1>8, <2>2, <3>1, <3>2, <3>3
    <3> QED BY <1>9, <1>10, <2>2, <3>1, <3>2, <3>3, <3>4
  <2> QED BY <2>1, <2>2
<1>12. CASE Begins(s)
  <2>1. CASE s \in hungup
    BY <1>6, <1>12, <2>1 DEF Begins, Hears
  <2>2. CASE s \notin hungup
    <3>1. /\ Hears(s, "Started") /\ "Started" \in Signals /\ ~HasEnded(s)
          /\ last \in {"Created", "WaitingApproval"}
          /\ s \in Risky => Heard(s, "PendingApproval")
      BY <1>3, <1>10, <1>12, <2>2, Questions DEF Begins
    <3>2. "Started" \in Accepted[last] /\ Accept(last, "Started") = "Running"
      BY <3>1 DEF Accepted, Accept, After
    <3>3. /\ \A k \in DOMAIN stream'[s] : Follows(s, k)'
          /\ next = Accept(last, "Started")
          /\ \A x : Heard(s, x)' <=> Heard(s, x) \/ x = "Started"
      BY <1>8, <2>2, <3>1, <3>2
    <3> QED BY <1>9, <3>1, <3>2, <3>3
  <2> QED BY <2>1, <2>2
<1>13. CASE Emits(s)
  <2>1. CASE s \in hungup
    BY <1>6, <1>13, <2>1 DEF Emits, Hears
  <2>2. CASE s \notin hungup
    <3>1. PICK e \in Outputs : Hears(s, e)
      BY <1>13 DEF Emits
    <3>2. e \in Signals /\ e \notin Terminals /\ e \notin {"Started", "Exited", "Cancelled", "PendingApproval"}
      BY DEF Outputs, Signals, Terminals
    <3>3. /\ Heard(s, "Started") /\ ~Heard(s, "Exited") /\ ~Heard(s, "Cancelled")
          /\ Phase(s)' = Phase(s)
      BY <1>3, <1>4, <1>5, <1>10, <1>13, <2>2 DEF Emits
    <3>4. last = "Running"
      BY <1>10, <3>3
    <3>5. e \in Accepted["Running"] \/ e = "Overrun"
      BY DEF Outputs, Accepted
    <3>6. Accept("Running", e) = "Running"
      BY DEF Outputs, Accepted, Accept, After
    <3>7. /\ \A k \in DOMAIN stream'[s] : Follows(s, k)'
          /\ next = Accept(last, e)
          /\ \A x : Heard(s, x)' <=> Heard(s, x) \/ x = e
      BY <1>8, <2>2, <3>1, <3>2, <3>4, <3>5
    <3> QED BY <1>2, <1>9, <1>10, <2>2, <3>2, <3>3, <3>4, <3>6, <3>7
  <2> QED BY <2>1, <2>2
<1>14. CASE Ends(s)
  <2>1. PICK e : /\ e \in IF Phase(s) = "running" THEN Contract!Results(s) ELSE Contract!Closings
                 /\ Hears(s, e)
    BY <1>14 DEF Ends
  <2>2. /\ Phase(s)' = "over" /\ Phase(s) \in {"waiting", "running"}
        /\ e \in Signals /\ e \in Terminals /\ e # "Started" /\ e # "PendingApproval"
    <3>1. e \in Contract!Results(s) \cup Contract!Closings
      BY <2>1
    <3> QED BY <1>1, <1>14, <3>1, EventSignals DEF Ends
  <2>3. CASE s \in hungup
    BY <1>6, <2>1, <2>2, <2>3 DEF Hears
  <2>4. CASE s \notin hungup /\ Phase(s) = "waiting"
    <3>1. ~Heard(s, "Started") /\ last \in {"Created", "WaitingApproval"}
      BY <1>3, <1>10, <2>4
    <3>2. e = "Cancelled" \/ e \in Accepted[last]
      BY <2>1, <2>4, <3>1 DEF Contract!Closings, Accepted
    <3>3. /\ \A k \in DOMAIN stream'[s] : Follows(s, k)'
          /\ \A x : Heard(s, x)' <=> Heard(s, x) \/ x = e
          /\ HasEnded(s)'
      BY <1>8, <2>1, <2>2, <2>4, <3>1, <3>2
    <3> QED BY <1>9, <2>2, <3>1, <3>3
  <2>5. CASE s \notin hungup /\ Phase(s) = "running"
    <3>1. Heard(s, "Started") /\ last = "Running"
      BY <1>3, <1>4, <1>10, <2>5
    <3>2. e \in {"Cancelled", "Denied", "Exited", "Unsupported"}
      BY <2>1, <2>5 DEF Contract!Results, Contract!Closings
    <3>3. \/ e \in Accepted["Running"] /\ e \in {"Exited", "Cancelled"}
          \/ e \in {"Denied", "Unsupported"} /\ Accept("Running", e) = "Running"
      BY <3>2 DEF Accepted, Accept
    <3>4. /\ \A k \in DOMAIN stream'[s] : Follows(s, k)'
          /\ next = Accept(last, e)
          /\ \A x : Heard(s, x)' <=> Heard(s, x) \/ x = e
      BY <1>8, <2>1, <2>2, <2>5, <3>1, <3>3
    <3> QED BY <1>2, <1>9, <1>10, <2>2, <3>1, <3>3, <3>4
  <2> QED BY <2>2, <2>3, <2>4, <2>5
<1> QED BY <1>1, <1>7, <1>11, <1>12, <1>13, <1>14, SessionMoves

\* Whatever ids the callers pick, whoever ends a session and however long its
\* output goes on, a client's own SessionState takes every event of the stream but
\* four kinds: a cancellation that spared the guest, the failure or panic of a
\* guest that started, output past the budget while it runs, and a question that
\* came too late.
THEOREM ClientKeepsUp == Spec => []ClientFollows
<1>1. Init => AuditInv /\ ClientInv
  <2>1. Init => AuditInv
    BY CarryingPCs DEF Init, AuditInv, Heard, Idle, Rest
  <2>2. ASSUME Init, NEW s \in Streaming
        PROVE  ClientOf(s) /\ \A k \in DOMAIN stream[s] : Follows(s, k)
    <3>1. s \in Sessions /\ stream[s] = << >> /\ Phase(s) = "new"
      BY <2>2, ClassAssumption DEF Init, Phase
    <3>2. Len(stream[s]) = 0 /\ DOMAIN stream[s] = {}
      BY <3>1
    <3>3. ClientStates(stream[s])[0] = "Created"
      BY <3>2, ClientRuns DEF RunOver
    <3> QED BY <3>1, <3>2, <3>3 DEF ClientOf, Heard
  <2> QED BY <2>1, <2>2 DEF ClientInv
<1>2. ClientInv => ClientFollows
  BY DEF ClientInv, ClientFollows, Follows
<1> QED BY BrokerInvHolds, <1>1, <1>2, AuditStep, ClientStep, PTL DEF Spec
-----------------------------------------------------------------------------
(* Who is owed an answer gets one.                                         *)

\* A session that is over was answered, or was given up for a reason that stays.
AnsweredInv ==
  \A s \in Sessions \ hungup : Phase(s) = "over" =>
    \/ HasEnded(s)
    \/ /\ Undecided(s)
       /\ ~Open \/ \E r \in submitted \ {s} : Id[r] = Id[s]

LEMMA AnsweredStep == BrokerInv /\ AnsweredInv /\ [Next]_vars => AnsweredInv'
<1> SUFFICES ASSUME BrokerInv, AnsweredInv, [Next]_vars, NEW s \in Sessions,
                    s \notin hungup', Phase(s)' = "over"
             PROVE  (\/ HasEnded(s)
                     \/ /\ Undecided(s)
                        /\ ~Open \/ \E r \in submitted \ {s} : Id[r] = Id[s])'
  BY DEF AnsweredInv
<1>1. s \notin hungup /\ (HasEnded(s) => HasEnded(s)')
  BY NothingComesBack
<1>2. Undecided(s) => Undecided(s)'
  BY ContractMoves DEF Undecided
<1>3. ~Open => ~Open'
  BY ContractMoves
<1>4. \A r \in submitted : r \in submitted'
  BY ContractMoves DEF BrokerInv, TypeInv, TypeOK
<1>5. CASE Stays(s) \/ Asks(s) \/ Emits(s)
  <2>1. Phase(s) = "over"
    BY <1>5 DEF Stays, Asks, Emits
  <2> QED BY <1>1, <1>2, <1>3, <1>4, <2>1 DEF AnsweredInv
<1>6. CASE Ends(s)
  <2>1. PICK e : /\ e \in IF Phase(s) = "running" THEN Contract!Results(s) ELSE Contract!Closings
                 /\ Hears(s, e)
    BY <1>6 DEF Ends
  <2>2. e \in Contract!Results(s) \cup Contract!Closings
    BY <2>1
  <2>3. stream'[s] = Append(stream[s], e) /\ e \in Terminals /\ e \in Signals
    BY <1>1, <2>1, <2>2, EventSignals DEF Hears
  <2>4. stream[s] \in Seq(Signals)
    BY DEF BrokerInv, TypeInv, TypeOK
  <2>5. Len(stream[s]) + 1 \in DOMAIN stream'[s] /\ stream'[s][Len(stream[s]) + 1] = e
    BY <2>3, <2>4
  <2> QED BY <2>3, <2>5 DEF HasEnded
<1>7. CASE GivenUp(s)
  <2>1. Undecided(s) /\ (~Open \/ Contract!Crowded(s))
    BY <1>1, <1>7 DEF GivenUp
  <2>2. Contract!Crowded(s) => \E r \in submitted \ {s} : Id[r] = Id[s]
    BY DEF Contract!Crowded, Phase
  <2> QED BY <1>2, <1>3, <1>4, <2>1, <2>2
<1>8. ~Begins(s)
  BY DEF Begins
<1> QED BY <1>5, <1>6, <1>7, <1>8, SessionMoves

\* Nothing is held any more once the broker is gone.
LEMMA GoneIsOver ==
  ASSUME BrokerInv, Emptied, drop = "gone", NEW s \in Sessions
  PROVE  ~Unsettled(s)
BY NoneAssumption, IdAssumption
   DEF Emptied, Unsettled, InQueue, Parked, AtWorker, AtThread, BrokerInv, ContractInv,
       CallsWhileOpen, Open, Threads

\* Whatever ids the callers pick, and however the queue, the approvals and Drop
\* interleave, a caller that still listens is left without a terminal signal only
\* if its session needed a decision, had none, and was displaced by a session of
\* the same id or found the broker closing.
THEOREM NoneForgotten == Spec => []NobodyForgotten
<1>1. Init => AnsweredInv /\ Emptied
  <2>1. Init => AnsweredInv
    BY DEF Init, AnsweredInv, Phase
  <2>2. Init => Emptied
    BY CarryingPCs DEF Emptied, Init, Idle, Rest
  <2> QED BY <2>1, <2>2
<1>2. BrokerInv /\ AnsweredInv /\ Emptied => NobodyForgotten
  <2> SUFFICES ASSUME BrokerInv, AnsweredInv, Emptied, NEW s \in submitted \ hungup,
                      drop = "gone" \/ ~Unsettled(s)
               PROVE  \/ HasEnded(s)
                      \/ /\ s \in Risky /\ admission[s] # "Approved"
                         /\ ~Open \/ \E r \in submitted \ {s} : Id[r] = Id[s]
    BY DEF NobodyForgotten
  <2>1. s \in Sessions
    BY DEF BrokerInv, TypeInv, TypeOK
  <2>2. Phase(s) = "over"
    BY <2>1, GoneIsOver DEF Phase
  <2> QED BY <2>1, <2>2 DEF AnsweredInv, Undecided, Approved
<1> QED BY BrokerInvHolds, <1>1, <1>2, AnsweredStep, EmptiedStep, PTL DEF Spec
-----------------------------------------------------------------------------
(* What recording does to the trail.                                       *)

EachOnce(trail) == \A j, k \in DOMAIN trail : trail[j].job = trail[k].job => j = k

LEMMA RecordGrows ==
  ASSUME audit \in Seq(AuditEntries), Len(audit) <= MaxAudit,
         NEW s \in Sessions, NEW d \in Admissions \cup Verdicts,
         NEW e \in Endings \cup Verdicts, Record(s, d, e)
  PROVE  /\ \E k \in DOMAIN audit' : audit'[k].job = s
         /\ Len(audit') >= Len(audit)
         /\ Len(audit') < MaxAudit =>
              \A k \in DOMAIN audit : k \in DOMAIN audit' /\ audit'[k] = audit[k]
         /\ EachOnce(audit) /\ (\A k \in DOMAIN audit : audit[k].job # s) => EachOnce(audit')
<1> DEFINE x     == [job |-> s, decision |-> d, outcome |-> Outcome(e)]
           grown == Append(audit, x)
           n     == Len(audit)
<1>1. x \in AuditEntries /\ x.job = s
  BY EndingTypes DEF AuditEntries
<1>2. audit' = IF Len(grown) > MaxAudit THEN Tail(grown) ELSE grown
  BY DEF Record
<1>b. n <= MaxAudit /\ n \in Nat /\ MaxAudit \in Nat \ {0}
  BY AuditAssumption
<1> HIDE DEF x
<1>3. /\ grown \in Seq(AuditEntries) /\ Len(grown) = n + 1 /\ n \in Nat
      /\ DOMAIN audit = 1..n /\ DOMAIN grown = 1..(n + 1)
      /\ \A j \in 1..n : grown[j] = audit[j]
      /\ grown[n + 1] = x
  BY <1>1
<1>4. EachOnce(audit) /\ (\A k \in DOMAIN audit : audit[k].job # s) => EachOnce(grown)
  BY <1>1, <1>3 DEF EachOnce
<1> HIDE DEF grown
<1>c. DOMAIN audit = 1..n /\ Len(audit) = n
  BY <1>3
<1> HIDE DEF n
<1>5. CASE n < MaxAudit
  <2>1. audit' = grown
    BY <1>2, <1>3, <1>5, AuditAssumption
  <2> QED BY <1>1, <1>3, <1>4, <2>1
<1>6. CASE ~(n < MaxAudit)
  <2>a. n = MaxAudit /\ n \in Nat \ {0}
    BY <1>b, <1>6
  <2>1. audit' = Tail(grown) /\ n = MaxAudit /\ n \in Nat \ {0}
    BY <1>2, <1>3, <2>a
  <2>2. /\ Len(audit') = n /\ DOMAIN audit' = 1..n
        /\ \A j \in 1..n : audit'[j] = grown[j + 1]
    BY <1>3, <2>1
  <2>3. audit'[n].job = s /\ n \in DOMAIN audit'
    BY <1>1, <1>3, <2>1, <2>2
  <2>4. EachOnce(grown) => EachOnce(audit')
    <3>1. SUFFICES ASSUME EachOnce(grown), NEW j \in 1..n, NEW k \in 1..n,
                          audit'[j].job = audit'[k].job
                   PROVE  j = k
      BY <2>2 DEF EachOnce
    <3>2. /\ j + 1 \in DOMAIN grown /\ k + 1 \in DOMAIN grown
          /\ grown[j + 1].job = grown[k + 1].job
      BY <1>3, <1>b, <2>2, <3>1
    <3>3. j + 1 = k + 1
      BY <3>1, <3>2 DEF EachOnce
    <3> QED BY <3>3, <1>b
  <2> QED BY <1>4, <2>1, <2>2, <2>3, <2>4
<1> QED BY <1>5, <1>6
-----------------------------------------------------------------------------
(* Who records, and who lets a session go.                                 *)

\* A thread, or the worker, that is to record an end goes on to do it.
LEMMA RecorderStays ==
  ASSUME TypeInv, [Next]_vars
  PROVE  /\ \A t \in Threads : th[t].pc = "record" => th'[t] = th[t] \/ CloseRecord(t)
         /\ worker.pc = "record" => UNCHANGED worker \/ WorkerRecord
<1>a. /\ th \in [Threads -> Tasks] /\ Sweeper \in Threads /\ Callers \subseteq Threads
  BY CarryingPCs DEF TypeInv, TypeOK
<1>1. ASSUME NEW t \in Threads, th[t].pc = "record" PROVE th'[t] = th[t] \/ CloseRecord(t)
  <2>1. ASSUME NEW u \in Callers, Call(u) PROVE th'[t] = th[t]
    BY <1>a, <1>1, <2>1 DEF Call, Submit, Approve, Deny, Cancel, Take
  <2>2. ASSUME NEW u \in Threads, Continue(u) PROVE th'[t] = th[t] \/ CloseRecord(t)
    BY <1>a, <1>1, <2>2 DEF Continue, Enqueue, ApproveCheck, CancelFind, CancelFlag,
       CloseReport, CloseRecord, CloseRelease, Take, Move
  <2>3. CASE Sweep
    BY <1>a, <1>1, <2>3 DEF Sweep, SweepNext, SweepScan, SweepTake, Take, Move
  <2>4. CASE \/ \E r \in Sessions : HangUp(r) \/ DeadlinePasses(r)
             \/ \E r \in Streaming, e \in Outputs : ReaderSend(r, e)
             \/ Worker \/ DropStop \/ Dropping \/ UNCHANGED vars
    BY <2>4 DEF HangUp, DeadlinePasses, ReaderSend, DropStop, Dropping, DropCancel,
       DropClose, DropJoin, vars, Worker, WorkerRecv, WorkerExit, WorkerLookup, WorkerLost,
       WorkerPark, WorkerParkFails, WorkerNotify, WorkerUnpark, WorkerStart, WorkerBegin,
       WorkerRun, WorkerReport, WorkerRecord, WorkerRelease
  <2> QED BY <2>1, <2>2, <2>3, <2>4 DEF Next, Finished
<1>2. ASSUME worker.pc = "record" PROVE UNCHANGED worker \/ WorkerRecord
  BY <1>2, OthersLeaveWorker DEF Worker, WorkerRecv, WorkerExit, WorkerLookup, WorkerLost,
     WorkerPark, WorkerParkFails, WorkerNotify, WorkerUnpark, WorkerStart, WorkerBegin,
     WorkerRun, WorkerReport, WorkerRelease
<1> QED BY <1>1, <1>2

\* A session's end is about to be recorded only once it was reported.
LEMMA RecorderReported ==
  ASSUME TypeInv, [Next]_vars, NEW s \in Sessions, Unrecorded(s)'
  PROVE  \/ Unrecorded(s)
         \/ \E t \in Threads : CloseReport(t) /\ th[t].job = s
         \/ WorkerReport /\ worker.job = s
BY ThreadRecords, WorkerRecords DEF Unrecorded

\* Nothing else is moved by the step that records.
LEMMA RecordingMoves ==
  ASSUME TypeInv
  PROVE  /\ \A t \in Threads : CloseRecord(t) =>
              /\ th'[t].pc = "release" /\ \A u \in Threads \ {t} : th'[u] = th[u]
              /\ UNCHANGED <<queue, pending, worker, submitted, hungup, stream, drop>>
         /\ WorkerRecord =>
              /\ worker'.pc = "release"
              /\ UNCHANGED <<queue, pending, th, submitted, hungup, stream, drop>>
BY DEF TypeInv, TypeOK, Tasks, CloseRecord, WorkerRecord, Move, Work, maps, world

\* A reported session is nowhere any more.
LEMMA ReportingSettles ==
  ASSUME BrokerInv, NEW s \in Sessions,
         (\E t \in Threads : CloseReport(t) /\ th[t].job = s) \/ (WorkerReport /\ worker.job = s)
  PROVE  Unsettled(s) /\ ~Unsettled(s)' /\ Unrecorded(s)'
<1>a. /\ th \in [Threads -> Tasks]
      /\ worker \in [pc: WorkerPCs, job: Sessions \cup {None},
                     handle: Sessions \cup {None}, end: Endings]
      /\ OnePlace(s)
  BY DEF BrokerInv, TypeInv, TypeOK, OwnerInv
<1>1. ASSUME NEW t \in Threads, CloseReport(t), th[t].job = s
      PROVE  Unsettled(s) /\ ~Unsettled(s)' /\ Unrecorded(s)'
  <2>1. /\ th[t].pc = "report" /\ th'[t].pc = "record" /\ th'[t].job = s
        /\ \A u \in Threads \ {t} : th'[u] = th[u]
        /\ UNCHANGED <<queue, pending, worker>>
    BY <1>a, <1>1 DEF CloseReport, Move, Tasks, maps
  <2>2. AtThread(t, s)
    BY <1>1, <2>1 DEF AtThread
  <2>3. ~InQueue(s) /\ ~Parked(s) /\ ~AtWorker(s) /\ \A u \in Threads : AtThread(u, s) => u = t
    BY <1>a, <2>2 DEF OnePlace
  <2> QED BY <2>1, <2>2, <2>3 DEF Unsettled, Unrecorded, InQueue, Parked, AtWorker, AtThread
<1>2. ASSUME WorkerReport, worker.job = s
      PROVE  Unsettled(s) /\ ~Unsettled(s)' /\ Unrecorded(s)'
  <2>1. /\ worker.pc = "report" /\ worker'.pc = "record" /\ worker'.job = s
        /\ UNCHANGED <<queue, pending, th>>
    BY <1>a, <1>2 DEF WorkerReport, Work, maps
  <2>2. AtWorker(s)
    BY <1>2, <2>1 DEF AtWorker
  <2>3. ~InQueue(s) /\ ~Parked(s) /\ \A u \in Threads : ~AtThread(u, s)
    BY <1>a, <2>2 DEF OnePlace
  <2> QED BY <2>1, <2>2, <2>3 DEF Unsettled, Unrecorded, InQueue, Parked, AtWorker, AtThread
<1> QED BY <1>1, <1>2

\* How a session can come to be nowhere.
LEMMA Leaving ==
  ASSUME BrokerInv, [Next]_vars, NEW s \in Sessions, Unsettled(s), ~Unsettled(s)'
  PROVE  \/ \E t \in Threads : CloseReport(t) /\ th[t].job = s
         \/ WorkerReport /\ worker.job = s
         \/ WorkerLost /\ worker.job = s
         \/ (WorkerPark \/ WorkerUnpark) /\ Parked(s) /\ Id[worker.job] = Id[s]
         \/ DropJoin
<1> USE DEF AtThread, world, jobs, maps
<1>a. /\ th \in [Threads -> Tasks] /\ pending \in [Ids -> Sessions \cup {None}]
      /\ queue \in Seq(Sessions) /\ Id \in [Sessions -> Ids] /\ None \notin Sessions
      /\ worker \in [pc: WorkerPCs, job: Sessions \cup {None},
                     handle: Sessions \cup {None}, end: Endings]
      /\ Callers \subseteq Threads /\ Sweeper \in Threads
  BY IdAssumption, NoneAssumption, CarryingPCs DEF BrokerInv, TypeInv, TypeOK
<1>b. UNCHANGED queue => (InQueue(s)' <=> InQueue(s))
  BY DEF InQueue
<1>c. UNCHANGED pending => (Parked(s)' <=> Parked(s))
  BY DEF Parked
<1>d. UNCHANGED worker => (AtWorker(s)' <=> AtWorker(s))
  BY DEF AtWorker
<1>e. /\ \A i \in Ids : pending[i] # None => pending[i] \in Sessions /\ Id[pending[i]] = i
      /\ \A t \in Threads : th[t].pc \in Carrying => th[t].job \in Sessions
  BY <1>a DEF BrokerInv, TypeInv, InHand, ThreadsInHand
<1>f. \/ InQueue(s) /\ ~InQueue(s)'
      \/ Parked(s) /\ ~Parked(s)'
      \/ AtWorker(s) /\ ~AtWorker(s)'
      \/ \E t \in Threads : AtThread(t, s) /\ ~AtThread(t, s)'
  BY DEF Unsettled
<1>g. /\ ~InQueue(s)' /\ ~Parked(s)' /\ ~AtWorker(s)'
      /\ \A t \in Threads : ~(th'[t].job = s /\ th'[t].pc \in {"enqueue", "approve", "report"})
  BY DEF Unsettled
<1>1. ASSUME NEW t \in Callers, NEW r \in Sessions, Submit(t, r) PROVE FALSE
  BY <1>a, <1>b, <1>c, <1>d, <1>f, <1>g, <1>1 DEF Submit, Take
<1>2. ASSUME NEW t \in Threads, Enqueue(t) PROVE FALSE
  <2>1. \A r \in Sessions : InQueue(r)' <=> InQueue(r) \/ r = th[t].job
    <3>1. th[t].job \in Sessions
      BY <1>2, <1>e, CarryingPCs DEF Enqueue
    <3>2. /\ DOMAIN queue = 1..Len(queue) /\ DOMAIN queue' = 1..(Len(queue) + 1)
          /\ Len(queue) \in Nat /\ \A k \in 1..Len(queue) : queue'[k] = queue[k]
          /\ queue'[Len(queue) + 1] = th[t].job
      BY <1>2, <1>a, <3>1 DEF Enqueue
    <3> QED BY <3>2 DEF InQueue
  <2> QED BY <1>a, <1>c, <1>d, <1>f, <1>g, <1>2, <2>1 DEF Enqueue
<1>3. ASSUME NEW t \in Callers, NEW i \in Ids, Approve(t, i) \/ Deny(t, i) \/ Cancel(t, i) PROVE FALSE
  <2>1. /\ th[t].pc = "idle" /\ UNCHANGED <<queue, worker>>
        /\ pending' = [pending EXCEPT ![i] = None]
        /\ pending[i] # None => th'[t].job = pending[i] /\ th'[t].pc \in {"approve", "report"}
        /\ \A u \in Threads \ {t} : th'[u] = th[u]
    BY <1>a, <1>3 DEF Approve, Deny, Cancel, Take
  <2>2. Parked(s) => pending[Id[s]] = s /\ s # None /\ Id[s] \in Ids
    BY <1>a DEF Parked
  <2>3. Parked(s) => i # Id[s]
    BY <1>g, <1>a, <2>1, <2>2
  <2>4. Parked(s) => Parked(s)'
    BY <1>a, <2>1, <2>2, <2>3 DEF Parked
  <2> QED BY <1>a, <1>b, <1>d, <1>f, <2>1, <2>4
<1>4. ASSUME NEW t \in Threads,
             ApproveCheck(t) \/ CancelFind(t) \/ CancelFlag(t) \/ CloseRecord(t) \/ CloseRelease(t)
      PROVE  FALSE
  <2>1. /\ UNCHANGED <<queue, pending, worker>> /\ \A u \in Threads \ {t} : th'[u] = th[u]
        /\ th[t].pc \in {"approve", "find", "flag", "record", "release"}
        /\ th[t].pc = "approve" => th'[t].job = th[t].job /\ th'[t].pc \in {"report", "enqueue"}
    BY <1>a, <1>4 DEF ApproveCheck, CancelFind, CancelFlag, CloseRecord, CloseRelease, Take,
       Move, Tasks
  <2> QED BY <1>b, <1>c, <1>d, <1>f, <1>g, <2>1
<1>5. ASSUME NEW t \in Threads, CloseReport(t) PROVE th[t].job = s
  <2>1. UNCHANGED <<queue, pending, worker>> /\ \A u \in Threads \ {t} : th'[u] = th[u]
    BY <1>a, <1>5 DEF CloseReport, Move
  <2> QED BY <1>b, <1>c, <1>d, <1>f, <2>1
<1>6. ASSUME NEW r \in Sessions, HangUp(r) \/ DeadlinePasses(r) PROVE FALSE
  BY <1>b, <1>c, <1>d, <1>f, <1>6 DEF HangUp, DeadlinePasses
<1>20. ASSUME NEW r \in Streaming, NEW e \in Outputs, ReaderSend(r, e) PROVE FALSE
  BY <1>b, <1>c, <1>d, <1>f, <1>20 DEF ReaderSend
<1>7. CASE SweepNext \/ SweepScan
  BY <1>a, <1>b, <1>c, <1>d, <1>f, <1>7 DEF SweepNext, SweepScan, Move
<1>8. ASSUME NEW i \in Ids, SweepTake(i) PROVE FALSE
  <2>1. /\ th[Sweeper].pc = "idle" /\ UNCHANGED <<queue, worker>>
        /\ pending' = [pending EXCEPT ![i] = None]
        /\ pending[i] # None => th'[Sweeper].job = pending[i] /\ th'[Sweeper].pc = "report"
        /\ \A u \in Threads \ {Sweeper} : th'[u] = th[u]
    BY <1>a, <1>8 DEF SweepTake, Take
  <2>2. Parked(s) => pending[Id[s]] = s /\ s # None /\ Id[s] \in Ids
    BY <1>a DEF Parked
  <2>3. Parked(s) => i # Id[s]
    BY <1>g, <1>a, <2>1, <2>2
  <2>4. Parked(s) => Parked(s)'
    BY <1>a, <2>1, <2>2, <2>3 DEF Parked
  <2> QED BY <1>a, <1>b, <1>d, <1>f, <2>1, <2>4
<1>9. CASE DropStop \/ DropCancel \/ DropClose \/ UNCHANGED vars
  BY <1>b, <1>c, <1>d, <1>f, <1>9 DEF DropStop, DropCancel, DropClose, vars
<1>10. CASE WorkerRecv
  <2>1. InQueue(s) => InQueue(s)' \/ s = Head(queue)
    BY <1>10, HeadLeaves DEF WorkerRecv, BrokerInv, OwnerInv
  <2>2. s = Head(queue) => AtWorker(s)'
    BY <1>10 DEF WorkerRecv, Rest, AtWorker
  <2> QED BY <1>a, <1>c, <1>f, <1>g, <1>10, <2>1, <2>2 DEF WorkerRecv, AtWorker
<1>11. CASE WorkerExit \/ WorkerLookup \/ WorkerParkFails \/ WorkerStart \/ WorkerBegin
  BY <1>a, <1>b, <1>c, <1>f, <1>g, <1>11
     DEF WorkerExit, WorkerLookup, WorkerParkFails, WorkerStart, WorkerBegin, Work, AtWorker
<1>12. ASSUME NEW end \in {"Completed", "Cancelled", "Failed", "Panicked"}, WorkerRun(end) PROVE FALSE
  BY <1>a, <1>b, <1>c, <1>f, <1>g, <1>12 DEF WorkerRun, AtWorker
<1>13. CASE WorkerLost \/ WorkerReport
  <2>1. UNCHANGED <<queue, pending, th>>
    BY <1>13 DEF WorkerLost, WorkerReport
  <2> QED BY <1>b, <1>c, <1>f, <1>13, <2>1 DEF AtWorker
<1>14. CASE WorkerNotify \/ WorkerRecord \/ WorkerRelease
  BY <1>a, <1>b, <1>c, <1>f, <1>14
     DEF WorkerNotify, WorkerRecord, WorkerRelease, Work, Rest, AtWorker
<1>15. CASE WorkerPark \/ WorkerUnpark
  <2>1. /\ worker.job \in Sessions /\ UNCHANGED <<queue, th>>
        /\ \A i \in Ids : i # Id[worker.job] => pending'[i] = pending[i]
    BY <1>a, <1>15 DEF WorkerPark, WorkerUnpark, BrokerInv, TypeInv, InHand
  <2>2. WorkerPark => (AtWorker(s) => Parked(s)')
    BY <1>a, <2>1 DEF WorkerPark, AtWorker, Parked
  <2>3. WorkerUnpark => ~AtWorker(s)
    BY DEF WorkerUnpark, AtWorker
  <2> QED BY <1>a, <1>b, <1>f, <1>g, <1>15, <2>1, <2>2, <2>3 DEF Parked
<1> HIDE DEF AtThread, world, jobs, maps
<1>16. CASE Worker
  BY <1>16, <1>10, <1>11, <1>12, <1>13, <1>14, <1>15, <1>d, <1>f DEF Worker
<1>17. CASE Sweep \/ Dropping \/ DropStop
  BY <1>17, <1>7, <1>8, <1>9 DEF Sweep, Dropping
<1>18. CASE \E t \in Callers : Call(t)
  BY <1>18, <1>1, <1>3 DEF Call
<1>19. CASE \E t \in Threads : Continue(t)
  BY <1>19, <1>2, <1>4, <1>5 DEF Continue
<1> QED BY <1>6, <1>9, <1>16, <1>17, <1>18, <1>19, <1>20 DEF Next, Finished
-----------------------------------------------------------------------------
(* The end of a session is in the trail, once.                             *)

\* Whatever the ids: nothing is recorded of a session before its end was reported,
\* and by one thread only.
CountInv ==
  /\ EachOnce(audit)
  /\ \A s \in Sessions :
       /\ s \notin submitted \/ Unsettled(s) \/ Unrecorded(s) => EntriesOf(s) = {}
       /\ s \notin submitted \/ Unsettled(s) => ~Unrecorded(s)
  /\ \A t, u \in Threads :
       th[t].pc = "record" /\ th[u].pc = "record" /\ th[t].job = th[u].job => t = u
  /\ \A t \in Threads :
       th[t].pc = "record" /\ worker.pc = "record" => th[t].job # worker.job

\* With unique ids: no handle is missing but that of a session nobody listens to,
\* and no session gets lost between its report and the trail.
SettledInv ==
  /\ worker.pc = "lost" => worker.job \in hungup
  /\ \A s \in submitted \ hungup :
       ~Unsettled(s) /\ ~Unrecorded(s) /\ ~(drop = "gone" /\ ~HasEnded(s)) /\ Len(audit) < MaxAudit
         => EntriesOf(s) # {}

\* The end of a session is recorded by the one that reported it, who is then done
\* recording; the step does nothing else to any session.
LEMMA Recording ==
  ASSUME BrokerInv, CountInv, [Next]_vars
  PROVE  \/ UNCHANGED audit
         \/ \E s \in Sessions :
              /\ Unrecorded(s) /\ ~Unrecorded(s)'
              /\ \E d \in Admissions \cup Verdicts, e \in Endings \cup Verdicts : Record(s, d, e)
              /\ UNCHANGED <<submitted, hungup, stream, drop>>
<1>a. /\ th \in [Threads -> Tasks] /\ admission \in [Sessions -> Admissions]
      /\ worker \in [pc: WorkerPCs, job: Sessions \cup {None},
                     handle: Sessions \cup {None}, end: Endings]
      /\ \A t \in Threads : th[t].pc = "record" => th[t].job \in Sessions
      /\ worker.pc = "record" => worker.job \in Sessions
  BY CarryingPCs DEF BrokerInv, TypeInv, TypeOK, InHand, ThreadsInHand
<1>1. ASSUME NEW t \in Threads, CloseRecord(t)
      PROVE  \E s \in Sessions :
               /\ Unrecorded(s) /\ ~Unrecorded(s)'
               /\ \E d \in Admissions \cup Verdicts, e \in Endings \cup Verdicts : Record(s, d, e)
               /\ UNCHANGED <<submitted, hungup, stream, drop>>
  <2>1. /\ th[t].pc = "record" /\ th[t].job \in Sessions /\ th[t].why \in Verdicts
        /\ Record(th[t].job, th[t].why, th[t].why)
    BY <1>a, <1>1 DEF CloseRecord, Tasks
  <2>2. /\ th'[t].pc = "release" /\ \A u \in Threads \ {t} : th'[u] = th[u]
        /\ UNCHANGED <<worker, submitted, hungup, stream, drop>>
    BY <1>1, RecordingMoves DEF BrokerInv
  <2>3. PICK s \in Sessions : s = th[t].job
    BY <2>1
  <2>4. Unrecorded(s) /\ ~Unrecorded(s)'
    BY <2>1, <2>2, <2>3 DEF CountInv, Unrecorded
  <2> QED BY <2>1, <2>2, <2>3, <2>4
<1>2. ASSUME WorkerRecord
      PROVE  \E s \in Sessions :
               /\ Unrecorded(s) /\ ~Unrecorded(s)'
               /\ \E d \in Admissions \cup Verdicts, e \in Endings \cup Verdicts : Record(s, d, e)
               /\ UNCHANGED <<submitted, hungup, stream, drop>>
  <2>1. /\ worker.pc = "record" /\ worker.job \in Sessions
        /\ admission[worker.job] \in Admissions /\ worker.end \in Endings
        /\ Record(worker.job, admission[worker.job], worker.end)
    BY <1>a, <1>2 DEF WorkerRecord
  <2>2. worker'.pc = "release" /\ UNCHANGED <<th, submitted, hungup, stream, drop>>
    BY <1>2, RecordingMoves DEF BrokerInv
  <2>3. PICK s \in Sessions : s = worker.job
    BY <2>1
  <2>4. Unrecorded(s) /\ ~Unrecorded(s)'
    BY <2>1, <2>2, <2>3 DEF CountInv, Unrecorded
  <2> QED BY <2>1, <2>2, <2>3, <2>4
<1> QED BY <1>1, <1>2, AuditMoves

\* What is recorded was reported and is not recorded again.
LEMMA CountStep == BrokerInv /\ CountInv /\ [Next]_vars => CountInv'
<1> SUFFICES ASSUME BrokerInv, CountInv, [Next]_vars PROVE CountInv'
  OBVIOUS
<1>a. /\ audit \in Seq(AuditEntries) /\ Len(audit) <= MaxAudit
      /\ \A t \in Threads : th[t].pc = "report" => th[t].job \in Sessions
      /\ worker.pc = "report" => worker.job \in Sessions
  BY CarryingPCs DEF BrokerInv, TypeInv, TypeOK, InHand, ThreadsInHand
<1>b. \A s \in Sessions :
        /\ s \in submitted => s \in submitted'
        /\ s \in submitted /\ Unsettled(s)' => Unsettled(s)
        /\ Unsettled(s) => s \in submitted
  BY ContractMoves, NothingComesBack DEF BrokerInv, OwnerInv, Nowhere
<1>c. ASSUME NEW s \in Sessions, Unrecorded(s)'
      PROVE  Unrecorded(s) \/ (Unsettled(s) /\ ~Unsettled(s)')
  <2>1. \/ Unrecorded(s)
        \/ \E t \in Threads : CloseReport(t) /\ th[t].job = s
        \/ WorkerReport /\ worker.job = s
    BY <1>c, RecorderReported DEF BrokerInv
  <2> QED BY <2>1, ReportingSettles
<1>d. \A s \in Sessions : Unsettled(s) => ~Unrecorded(s)
  BY DEF CountInv
<1>1. EachOnce(audit')
  <2>1. ASSUME NEW s \in Sessions, Unrecorded(s),
               NEW d \in Admissions \cup Verdicts, NEW e \in Endings \cup Verdicts, Record(s, d, e)
        PROVE  EachOnce(audit')
    <3>1. EachOnce(audit) /\ \A k \in DOMAIN audit : audit[k].job # s
      BY <2>1 DEF CountInv, EntriesOf
    <3> QED BY <1>a, <2>1, <3>1, RecordGrows
  <2> QED BY <2>1, Recording DEF CountInv
<1>2. ASSUME NEW s \in Sessions, s \notin submitted' \/ Unsettled(s)' \/ Unrecorded(s)'
      PROVE  EntriesOf(s)' = {}
  <2>1. EntriesOf(s) = {}
    BY <1>2, <1>b, <1>c DEF CountInv
  <2>2. ASSUME NEW r \in Sessions, Unrecorded(r), ~Unrecorded(r)',
               NEW d \in Admissions \cup Verdicts, NEW e \in Endings \cup Verdicts, Record(r, d, e)
        PROVE  EntriesOf(s)' = {}
    <3>1. r # s
      BY <1>2, <1>b, <2>2 DEF CountInv
    <3>2. ASSUME NEW k \in DOMAIN audit' PROVE audit'[k].job # s
      <4>1. \/ \E j \in DOMAIN audit : audit'[k] = audit[j]
            \/ audit'[k] = [job |-> r, decision |-> d, outcome |-> Outcome(e)]
        BY <1>a, <2>2, <3>2, RecordAdds
      <4> QED BY <2>1, <3>1, <4>1 DEF EntriesOf
    <3> QED BY <3>2 DEF EntriesOf
  <2>3. UNCHANGED audit => EntriesOf(s)' = {}
    BY <2>1 DEF EntriesOf
  <2> QED BY <2>2, <2>3, Recording
<1>3. ASSUME NEW s \in Sessions, s \notin submitted' \/ Unsettled(s)', Unrecorded(s)'
      PROVE  FALSE
  BY <1>3, <1>b, <1>c DEF CountInv
<1>4. ASSUME NEW t \in Threads, CloseReport(t)
      PROVE  /\ \A u \in Threads : th[u].pc = "record" => th[u].job # th[t].job
             /\ worker.pc = "record" => worker.job # th[t].job
  <2>1. th[t].job \in Sessions
    BY <1>4, <1>a DEF CloseReport
  <2>2. ~Unrecorded(th[t].job)
    BY <1>4, <1>d, <2>1, ReportingSettles
  <2> QED BY <2>2 DEF Unrecorded
<1>5. ASSUME WorkerReport
      PROVE  \A u \in Threads : th[u].pc = "record" => th[u].job # worker.job
  <2>1. worker.job \in Sessions
    BY <1>5, <1>a DEF WorkerReport
  <2>2. ~Unrecorded(worker.job)
    BY <1>5, <1>d, <2>1, ReportingSettles
  <2> QED BY <2>2 DEF Unrecorded
<1>6. ASSUME NEW t \in Threads, NEW u \in Threads,
             th'[t].pc = "record", th'[u].pc = "record", th'[t].job = th'[u].job
      PROVE  t = u
  <2>1. \A v \in {t, u} :
          \/ th'[v] = th[v]
          \/ /\ CloseReport(v) /\ th'[v].job = th[v].job
             /\ \A w \in Threads \ {v} : th'[w] = th[w]
    BY <1>6, ThreadRecords DEF BrokerInv
  <2>2. CASE th'[t] = th[t] /\ th'[u] = th[u]
    BY <1>6, <2>2 DEF CountInv
  <2> QED BY <1>4, <1>6, <2>1, <2>2
<1>7. ASSUME NEW t \in Threads, th'[t].pc = "record", worker'.pc = "record"
      PROVE  th'[t].job # worker'.job
  <2>1. \/ th'[t] = th[t]
        \/ CloseReport(t) /\ th'[t].job = th[t].job
    BY <1>7, ThreadRecords DEF BrokerInv
  <2>2. UNCHANGED worker \/ (WorkerReport /\ worker'.job = worker.job)
    BY <1>7, WorkerRecords DEF BrokerInv
  <2>3. /\ CloseReport(t) => UNCHANGED worker
        /\ WorkerReport => UNCHANGED th
    BY DEF CloseReport, WorkerReport
  <2>4. CASE th'[t] = th[t] /\ UNCHANGED worker
    BY <1>7, <2>4 DEF CountInv
  <2> QED BY <1>4, <1>5, <1>7, <2>1, <2>2, <2>3, <2>4
<1> QED BY <1>1, <1>2, <1>3, <1>6, <1>7 DEF CountInv

\* With unique ids the worker misses no handle of a caller that listens.
LEMMA LostIsHungup ==
  ASSUME UniqueIds, BrokerInv, OwnsHandle, Emptied, SettledInv, [Next]_vars,
         worker'.pc = "lost"
  PROVE  worker'.job \in hungup'
<1>a. /\ worker \in [pc: WorkerPCs, job: Sessions \cup {None},
                     handle: Sessions \cup {None}, end: Endings]
      /\ worker.pc \notin {"recv", "exit"} => worker.job \in Sessions
  BY DEF BrokerInv, TypeInv, TypeOK, InHand
<1>1. CASE UNCHANGED worker
  BY <1>1, <1>a, NothingComesBack DEF SettledInv
<1>2. CASE WorkerLookup
  <2>1. /\ worker.pc = "lookup" /\ worker.job \in Sessions /\ handles[Id[worker.job]] = None
        /\ worker'.job = worker.job /\ UNCHANGED hungup
    BY <1>2, <1>a DEF WorkerLookup, world
  <2>2. Unsettled(worker.job) /\ drop # "gone"
    BY <2>1 DEF Unsettled, AtWorker, Emptied
  <2> QED BY <2>1, <2>2, NoneAssumption DEF OwnsHandle
<1>3. ASSUME Worker, ~WorkerLookup PROVE worker'.pc # "lost"
  <2>1. CASE WorkerRecv \/ WorkerExit \/ WorkerLost \/ WorkerPark \/ WorkerParkFails
    BY <2>1, <1>a DEF WorkerRecv, WorkerExit, WorkerLost, WorkerPark, WorkerParkFails, Work,
       Rest
  <2>2. CASE WorkerNotify \/ WorkerUnpark \/ WorkerRelease
    BY <2>2, <1>a DEF WorkerNotify, WorkerUnpark, WorkerRelease, Work, Rest
  <2>3. CASE WorkerStart \/ WorkerBegin \/ WorkerReport \/ WorkerRecord
    BY <2>3, <1>a DEF WorkerStart, WorkerBegin, WorkerReport, WorkerRecord, Work
  <2>4. ASSUME NEW end, WorkerRun(end) PROVE worker'.pc # "lost"
    BY <2>4, <1>a DEF WorkerRun
  <2> QED BY <1>3, <2>1, <2>2, <2>3, <2>4 DEF Worker
<1> QED BY <1>1, <1>2, <1>3, OthersLeaveWorker

\* The trail keeps what it has until it is full.
LEMMA TrailKeeps ==
  ASSUME BrokerInv, CountInv, [Next]_vars, Len(audit') < MaxAudit
  PROVE  /\ Len(audit) < MaxAudit
         /\ \A s \in Sessions : EntriesOf(s) # {} => EntriesOf(s)' # {}
<1>a. audit \in Seq(AuditEntries) /\ Len(audit) <= MaxAudit /\ audit' \in Seq(AuditEntries)
  BY TypeStep DEF BrokerInv, TypeInv, TypeOK
<1>1. CASE UNCHANGED audit
  BY <1>1 DEF EntriesOf
<1>2. ASSUME NEW s \in Sessions, NEW d \in Admissions \cup Verdicts,
             NEW e \in Endings \cup Verdicts, Record(s, d, e)
      PROVE  /\ Len(audit') >= Len(audit)
             /\ \A k \in DOMAIN audit : k \in DOMAIN audit' /\ audit'[k] = audit[k]
  BY <1>2, <1>a, RecordGrows
<1> QED BY <1>1, <1>2, <1>a, Recording, AuditAssumption DEF EntriesOf

\* A session leaves the books by being recorded.
LEMMA RecordedThen ==
  ASSUME BrokerInv, [Next]_vars, NEW s \in Sessions, Unrecorded(s), ~Unrecorded(s)'
  PROVE  EntriesOf(s)' # {}
<1>a. /\ audit \in Seq(AuditEntries) /\ Len(audit) <= MaxAudit
      /\ th \in [Threads -> Tasks] /\ admission \in [Sessions -> Admissions]
      /\ worker \in [pc: WorkerPCs, job: Sessions \cup {None},
                     handle: Sessions \cup {None}, end: Endings]
  BY DEF BrokerInv, TypeInv, TypeOK
<1>1. \/ \E t \in Threads : CloseRecord(t) /\ th[t].job = s
      \/ WorkerRecord /\ worker.job = s
  BY RecorderStays DEF BrokerInv, Unrecorded
<1>2. \E d \in Admissions \cup Verdicts, e \in Endings \cup Verdicts : Record(s, d, e)
  BY <1>1, <1>a DEF CloseRecord, WorkerRecord, Tasks
<1> QED BY <1>2, <1>a, RecordGrows DEF EntriesOf

\* With unique ids a session of a caller that listens is given up only by Drop.
LEMMA LeavesReported ==
  ASSUME UniqueIds, BrokerInv, SettledInv, [Next]_vars,
         NEW s \in Sessions \ hungup, Unsettled(s), ~Unsettled(s)'
  PROVE  Unrecorded(s)' \/ (drop' = "gone" /\ ~HasEnded(s)')
<1>1. CASE \/ \E t \in Threads : CloseReport(t) /\ th[t].job = s
           \/ WorkerReport /\ worker.job = s
  BY <1>1, ReportingSettles
<1>2. CASE WorkerLost /\ worker.job = s
  BY <1>2 DEF WorkerLost, SettledInv
<1>3. ASSUME WorkerPark \/ WorkerUnpark, Parked(s), Id[worker.job] = Id[s] PROVE FALSE
  <2>1. worker.pc \in {"park", "unpark"} /\ worker.job = s
    BY <1>3 DEF WorkerPark, WorkerUnpark, UniqueIds, BrokerInv, TypeInv, InHand
  <2>2. worker.pc # "unpark"
    BY <2>1 DEF BrokerInv, ContractInv, WorkerKnows
  <2> QED BY <1>3, <2>1, <2>2 DEF BrokerInv, OwnerInv, OnePlace, AtWorker
<1>4. CASE DropJoin
  <2>1. drop' = "gone" /\ UNCHANGED stream
    BY <1>4 DEF DropJoin
  <2>2. ~HasEnded(s)
    BY DEF BrokerInv, OwnerInv, Nowhere
  <2> QED BY <2>1, <2>2 DEF HasEnded
<1> QED BY <1>1, <1>2, <1>3, <1>4, Leaving

\* Nobody who is over hears an ending.
LEMMA OverEndsNoMore ==
  ASSUME BrokerInv, [Next]_vars, NEW s \in Sessions, Phase(s) = "over", HasEnded(s)'
  PROVE  HasEnded(s)
<1>1. Stays(s) \/ Asks(s) \/ Emits(s)
  BY SessionMoves DEF Begins, Ends, GivenUp
<1>2. stream'[s] = stream[s] => HasEnded(s)
  BY DEF HasEnded
<1>3. ASSUME NEW e \in Outputs \cup {"PendingApproval"}, stream'[s] = Append(stream[s], e)
      PROVE  HasEnded(s)
  <2>1. stream[s] \in Seq(Signals) /\ e \in Signals /\ e \notin Terminals
    BY DEF BrokerInv, TypeInv, TypeOK, Signals, Outputs, Terminals
  <2>2. PICK k \in DOMAIN stream'[s] : stream'[s][k] \in Terminals
    BY DEF HasEnded
  <2>3. k \in DOMAIN stream[s] /\ stream[s][k] = stream'[s][k]
    BY <1>3, <2>1, <2>2
  <2> QED BY <2>2, <2>3 DEF HasEnded
<1> QED BY <1>1, <1>2, <1>3 DEF Stays, Asks, Emits, Hears

LEMMA SettledStep ==
  ASSUME UniqueIds, BrokerInv, OwnsHandle, Emptied, CountInv, SettledInv, [Next]_vars
  PROVE  SettledInv'
<1> SUFFICES ASSUME NEW s \in submitted', s \notin hungup', ~Unsettled(s)', ~Unrecorded(s)',
                    ~(drop' = "gone" /\ ~HasEnded(s)'), Len(audit') < MaxAudit
             PROVE  EntriesOf(s)' # {}
  BY LostIsHungup DEF SettledInv
<1>a. s \in Sessions /\ s \notin hungup
  BY TypeStep, NothingComesBack DEF BrokerInv, TypeInv, TypeOK
<1>1. s \in submitted
  <2>1. ASSUME NEW t \in Callers, Submit(t, s) PROVE Unsettled(s)'
    <3>1. /\ t \in Threads /\ th \in [Threads -> Tasks]
      BY CarryingPCs DEF BrokerInv, TypeInv, TypeOK, Threads
    <3>2. th'[t].pc = "enqueue" /\ th'[t].job = s
      BY <2>1, <3>1 DEF Submit, Take
    <3> QED BY <3>1, <3>2 DEF Unsettled, AtThread
  <2> QED BY <2>1, OnlySubmitted
<1>2. ~Unsettled(s)
  BY <1>a, LeavesReported
<1>3. CASE Unrecorded(s)
  BY <1>a, <1>3, RecordedThen
<1>4. CASE ~Unrecorded(s)
  <2>1. ~(drop = "gone" /\ ~HasEnded(s))
    BY <1>a, <1>1, <1>2, StaysGone, OverEndsNoMore DEF Phase
  <2>2. EntriesOf(s) # {}
    BY <1>a, <1>1, <1>2, <1>4, <2>1, TrailKeeps DEF SettledInv
  <2> QED BY <1>a, <2>2, TrailKeeps
<1> QED BY <1>3, <1>4

\* Counting the entries of a session.
LEMMA EntriesCounted ==
  ASSUME BrokerInv, CountInv, NEW s \in Sessions
  PROVE  /\ EntriesOf(s) = {} => Cardinality(EntriesOf(s)) = 0
         /\ EntriesOf(s) # {} => Cardinality(EntriesOf(s)) = 1
<1>1. ASSUME EntriesOf(s) # {} PROVE \E k : EntriesOf(s) = {k}
  BY <1>1 DEF EntriesOf, CountInv, EachOnce
<1> QED BY <1>1, FS_EmptySet, FS_Singleton

\* However approvals, denials, cancellations, the sweeper, the worker and Drop
\* race, the end of a session whose caller still listens is recorded by exactly
\* one of them, in deny, cancel, the sweeper, approve or the worker's two execute
\* paths, and only after it was reported; only eviction takes the entry away.
THEOREM RecordedOnce == ASSUME UniqueIds PROVE Spec => []AuditedExactlyOnce
<1>1. Init => CountInv /\ SettledInv /\ Emptied
  BY CarryingPCs
     DEF Init, CountInv, EachOnce, EntriesOf, Unrecorded, Idle, Rest, SettledInv, Emptied
<1>a. Init => AuditInv
  BY CarryingPCs DEF Init, AuditInv, Heard, Idle, Rest
<1>2. BrokerInv /\ OwnsHandle /\ Emptied /\ CountInv /\ SettledInv /\ [Next]_vars
        => Emptied' /\ CountInv' /\ SettledInv'
  BY EmptiedStep, CountStep, SettledStep
<1>3. BrokerInv /\ AuditInv /\ CountInv /\ SettledInv => AuditedExactlyOnce
  <2> SUFFICES ASSUME BrokerInv, AuditInv, CountInv, SettledInv, NEW s \in submitted \ hungup
               PROVE  LET early   == \/ Unsettled(s) \/ Unrecorded(s)
                                     \/ (drop = "gone" /\ ~HasEnded(s))
                          entries == Cardinality(EntriesOf(s))
                      IN  /\ early => entries = 0
                          /\ ~early => entries = 1 \/ (entries = 0 /\ Len(audit) = MaxAudit)
    BY DEF AuditedExactlyOnce
  <2>1. s \in Sessions /\ Len(audit) \in Nat /\ Len(audit) <= MaxAudit
    BY DEF BrokerInv, TypeInv, TypeOK
  <2>2. EntriesOf(s) # {} => HasEnded(s)
    BY DEF AuditInv, Truthful, EntriesOf
  <2>3. Unsettled(s) \/ Unrecorded(s) \/ (drop = "gone" /\ ~HasEnded(s)) => EntriesOf(s) = {}
    BY <2>1, <2>2 DEF CountInv
  <2>4. \/ Unsettled(s) \/ Unrecorded(s) \/ (drop = "gone" /\ ~HasEnded(s))
        \/ EntriesOf(s) # {} \/ Len(audit) = MaxAudit
    BY <2>1, AuditAssumption DEF SettledInv
  <2> QED BY <2>1, <2>3, <2>4, EntriesCounted
<1> QED BY BrokerInvHolds, OwnsItsHandle, AuditStep, <1>a, <1>1, <1>2, <1>3, PTL DEF Spec
=============================================================================
