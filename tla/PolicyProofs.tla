---------------------------- MODULE PolicyProofs ----------------------------
(***************************************************************************)
(* That no request gets more than was granted, nor anything graver than a  *)
(* human was asked about, for any paths, file systems, ports and names.    *)
(***************************************************************************)
EXTENDS Policy, SequenceTheorems, WellFoundedInduction, TLAPS

\* Once classified, a request carries the risk of what it still holds, and
\* leaves the human only if approved.
Asked ==
  /\ phase \in {"asking", "admitted", "running", "ended"} => told = ClassifyRisk(request)
  /\ phase \in {"admitted", "running", "ended"} => told = "AutoApprove" \/ approved

\* The store is that of the request, and there is one as long as a guest runs.
Furnished ==
  \/ store = NoStore /\ phase # "running"
  \/ /\ phase \in {"running", "ended"} /\ request.mode = "Wasi"
     /\ store.writable => AsksWrite(request)
     /\ store.environment = SelectedEnvironment(request.grant)
     /\ store.network = NetworkPolicy(request.grant)
     /\ store.output = request.grant.limits.output
     /\ store.memory = request.grant.limits.memory
     /\ store.fuel = request.grant.limits.fuel
     /\ store.deadline = EpochTicks(request.grant.limits.seconds)

\* So is what the guest did with it.
Behaved ==
  /\ wrote => phase \in {"running", "ended"} /\ AsksWrite(request)
  /\ opened # {} => phase \in {"running", "ended"}
  /\ \A s \in opened : Permits(NetworkPolicy(request.grant), s.address, s.use)

PolicyInv == TypeOK /\ Asked /\ Furnished /\ Behaved

-----------------------------------------------------------------------------

\* The initial states: a grant just constructed and no guest.
LEMMA PolicyInit == Init => PolicyInv
<1> SUFFICES ASSUME Init PROVE PolicyInv
  OBVIOUS
<1>1. PICK m \in Modes, c \in BOOLEAN, cwd \in Paths,
           fs \in {{}} \cup {{f} : f \in [root : {p \in Paths : IsSafe(p)}, access : Accesses]} :
        request = [mode |-> m, clean |-> c, cwd |-> cwd, grant |-> Granting(fs)]
  BY DEF Init
<1>2. fs \in SUBSET [root : {p \in Paths : IsSafe(p)}, access : Accesses]
  OBVIOUS
<1>3. Granting(fs) \in Grants
  BY <1>2, LimitsAssumption DEF Granting, Grants, Limits
<1>4. request \in Requests
  BY <1>1, <1>3 DEF Requests
<1> QED
  BY <1>4 DEF Init, PolicyInv, TypeOK, Asked, Furnished, Behaved, Phases, Risks

\* A builder either leaves a grant of the right type or ends the request.
LEMMA Building ==
  ASSUME NEW accepted \in BOOLEAN, NEW grant, accepted => grant \in Grants,
         PolicyInv, Build(accepted, grant)
  PROVE  PolicyInv'
<1>1. TypeOK'
  BY DEF PolicyInv, TypeOK, Build, Requests, Phases
<1>2. phase = "building" /\ phase' \in {"building", "refused"}
  BY DEF Build
<1>3. store = NoStore /\ ~wrote /\ opened = {}
  BY <1>2 DEF PolicyInv, TypeOK, Furnished, Behaved
<1>4. store' = NoStore /\ ~wrote' /\ opened' = {}
  BY <1>3 DEF Build
<1> QED
  BY <1>1, <1>2, <1>4 DEF PolicyInv, Asked, Furnished, Behaved

\* The steps of the caller's builders.
LEMMA BuilderStep ==
  ASSUME PolicyInv,
         \/ \E n \in Names : AllowEnvironment(n)
         \/ \E p \in Ports : AllowLoopbackPort(p) \/ AllowLoopbackBindPort(p)
         \/ \E l \in AskedLimits : WithLimits(l)
         \/ AllowNativeExecution
  PROVE  PolicyInv'
<1> request.grant \in Grants
  BY DEF PolicyInv, TypeOK, Requests
<1>1. ASSUME NEW n \in Names, AllowEnvironment(n)
      PROVE  PolicyInv'
  <2>1. n \notin Malformed => [request.grant EXCEPT !.environment = @ \cup {n}] \in Grants
    BY DEF Grants
  <2> QED
    BY <1>1, <2>1, Building DEF AllowEnvironment
<1>2. ASSUME NEW p \in Ports, AllowLoopbackPort(p)
      PROVE  PolicyInv'
  <2>1. p # 0 => [request.grant EXCEPT !.loopback_ports = @ \cup {p}] \in Grants
    BY DEF Grants
  <2> QED
    BY <1>2, <2>1, Building DEF AllowLoopbackPort
<1>3. ASSUME NEW p \in Ports, AllowLoopbackBindPort(p)
      PROVE  PolicyInv'
  <2>1. p # 0 => [request.grant EXCEPT !.loopback_bind_ports = @ \cup {p}] \in Grants
    BY DEF Grants
  <2> QED
    BY <1>3, <2>1, Building DEF AllowLoopbackBindPort
<1>4. ASSUME AllowNativeExecution
      PROVE  PolicyInv'
  <2>1. [request.grant EXCEPT !.native_execution = TRUE] \in Grants
    BY DEF Grants
  <2> QED
    BY <1>4, <2>1, Building DEF AllowNativeExecution
<1>5. ASSUME NEW l \in AskedLimits, WithLimits(l)
      PROVE  PolicyInv'
  <2>1. l \in Limits => [request.grant EXCEPT !.limits = l] \in Grants
    BY DEF Grants
  <2>2. (l \in Limits) \in BOOLEAN
    OBVIOUS
  <2>3. Build(l \in Limits, [request.grant EXCEPT !.limits = l])
    BY <1>5 DEF WithLimits
  <2> QED
    BY <2>1, <2>2, <2>3, Building
<1> QED
  BY <1>1, <1>2, <1>3, <1>4, <1>5

\* The steps that leave the request, its store and its guest's deeds alone.
LEMMA PassingOn ==
  ASSUME PolicyInv, \/ Submit \/ StartNative \/ Rearrange \/ Classify
                    \/ Approve \/ Deny \/ GuestEnds
  PROVE  PolicyInv'
<1>1. UNCHANGED <<request, store, wrote, opened>>
  BY DEF Submit, StartNative, NativeAnswer, Rearrange, Classify, Approve, Deny, GuestEnds
<1>2. ClassifyRisk(request) \in Risks
  BY DEF ClassifyRisk, Risks, Reasons
<1>3. TypeOK'
  BY <1>1, <1>2 DEF PolicyInv, TypeOK, Submit, StartNative, NativeAnswer,
                    Rearrange, Classify, Approve, Deny, GuestEnds, Phases
<1>4. ClassifyRisk(request') = ClassifyRisk(request)
  BY <1>1
<1>5. Asked'
  BY <1>1, <1>4 DEF PolicyInv, Asked, Submit, StartNative, NativeAnswer,
                         Rearrange, Classify, Approve, Deny, GuestEnds
<1>6. /\ phase \in {"running", "ended"} => phase' \in {"running", "ended"}
      /\ phase' = "running" => phase = "running"
  BY DEF Submit, StartNative, NativeAnswer, Rearrange, Classify, Approve, Deny, GuestEnds
<1>7. Furnished'
  BY <1>1, <1>6 DEF PolicyInv, Furnished
<1>8. Behaved'
  BY <1>1, <1>6 DEF PolicyInv, Behaved
<1> QED
  BY <1>3, <1>5, <1>7, <1>8 DEF PolicyInv

\* Building the store.
LEMMA Storing ==
  ASSUME PolicyInv, BuildStore
  PROVE  PolicyInv'
<1>1. UNCHANGED <<request, told, approved, real, wrote, opened>> /\ phase = "admitted"
  BY DEF BuildStore
<1>2. phase' \in {"running", "refused"}
  BY DEF BuildStore
<1>3. TypeOK' /\ Asked'
  BY <1>1, <1>2 DEF PolicyInv, TypeOK, Asked, Phases
<1>4. store = NoStore /\ ~wrote /\ opened = {}
  BY <1>1 DEF PolicyInv, TypeOK, Furnished, Behaved
<1>5. Behaved'
  BY <1>1, <1>4 DEF Behaved
<1>6. CASE phase' = "refused"
  <2>1. store' = NoStore
    BY <1>4, <1>6 DEF BuildStore
  <2> QED
    BY <1>3, <1>5, <1>6, <2>1 DEF PolicyInv, Furnished
<1>7. CASE phase' = "running"
  <2>1. PICK f \in request.grant.filesystems : store' = StoreOf(request, f)
    BY <1>7 DEF BuildStore
  <2>2. /\ store'.writable = (f.access = "ReadWrite")
        /\ store'.environment = SelectedEnvironment(request.grant)
        /\ store'.network = NetworkPolicy(request.grant)
        /\ store'.output = request.grant.limits.output
        /\ store'.memory = request.grant.limits.memory
        /\ store'.fuel = request.grant.limits.fuel
        /\ store'.deadline = EpochTicks(request.grant.limits.seconds)
    BY <2>1 DEF StoreOf
  <2>3. request.mode = "Wasi"
    BY <1>7 DEF BuildStore, Covers
  <2>4. Furnished'
    BY <1>1, <1>7, <2>2, <2>3 DEF Furnished, AsksWrite
  <2> QED
    BY <1>3, <1>5, <2>4 DEF PolicyInv
<1> QED
  BY <1>2, <1>6, <1>7

\* What the guest does is within its store.
LEMMA Acting ==
  ASSUME PolicyInv,
         \/ GuestWrite
         \/ \E a \in Addresses, u \in Uses : GuestOpen(a, u)
  PROVE  PolicyInv'
<1>1. UNCHANGED <<request, phase, told, approved, real, store>> /\ phase = "running"
  BY DEF GuestWrite, GuestOpen
<1>2. Asked' /\ Furnished'
  BY <1>1 DEF PolicyInv, Asked, Furnished
<1>3. CASE GuestWrite
  <2>1. store.writable /\ wrote' = TRUE /\ opened' = opened
    BY <1>3 DEF GuestWrite
  <2>2. AsksWrite(request)
    BY <2>1 DEF PolicyInv, Furnished, NoStore
  <2>3. TypeOK' /\ Behaved'
    BY <1>1, <2>1, <2>2 DEF PolicyInv, TypeOK, Behaved
  <2> QED
    BY <1>2, <2>3 DEF PolicyInv
<1>4. ASSUME NEW a \in Addresses, NEW u \in Uses, GuestOpen(a, u)
      PROVE  PolicyInv'
  <2> DEFINE socket == [address |-> a, use |-> u]
  <2>1. /\ opened' = opened \cup {socket} /\ wrote' = wrote
        /\ Permits(store.network, a, u)
    BY <1>4 DEF GuestOpen, Lets
  <2>2. store # NoStore
    BY <2>1 DEF NoStore, Permits
  <2>3. Permits(NetworkPolicy(request.grant), socket.address, socket.use)
    BY <2>1, <2>2 DEF PolicyInv, Furnished
  <2>4. TypeOK'
    BY <1>1, <2>1 DEF PolicyInv, TypeOK
  <2>5. Behaved'
    BY <1>1, <2>1, <2>3 DEF PolicyInv, Behaved
  <2> QED
    BY <1>2, <2>4, <2>5 DEF PolicyInv
<1> QED
  BY <1>3, <1>4

\* Every step keeps the invariant.
LEMMA PolicyStep == PolicyInv /\ [Next]_vars => PolicyInv'
<1> SUFFICES ASSUME PolicyInv, [Next]_vars PROVE PolicyInv'
  OBVIOUS
<1>1. CASE UNCHANGED vars
  BY <1>1 DEF vars, PolicyInv, TypeOK, Asked, Furnished, Behaved
<1>2. CASE Next
  BY <1>1, <1>2, BuilderStep, PassingOn, Storing, Acting DEF Next, Finished
<1> QED
  BY <1>1, <1>2

LEMMA PolicyAlways == Spec => []PolicyInv
  BY PolicyInit, PolicyStep, PTL DEF Spec

-----------------------------------------------------------------------------

\* Grants stay well formed, whatever is built in whatever order.
THEOREM PolicyTypes == Spec => []TypeOK
<1>1. PolicyInv => TypeOK
  BY DEF PolicyInv
<1> QED
  BY <1>1, PolicyAlways, PTL

\* What a request's guest does beyond reading was approved by a human, and what
\* the human was told is at least as grave: classify_risk, NetworkPolicy and
\* build_store agree.
THEOREM NothingGraver == Spec => []NothingGraverThanAsked
<1>1. PolicyInv => NothingGraverThanAsked
  <2> SUFFICES ASSUME PolicyInv PROVE NothingGraverThanAsked
    OBVIOUS
  <2>1. wrote => approved /\ told \in {"NativeExecution", "FilesystemWrite"}
    BY DEF PolicyInv, Behaved, Asked, ClassifyRisk
  <2>2. ASSUME opened # {}
        PROVE  approved /\ told \in Reasons \ {"EnvironmentAccess"}
    <3>1. PICK s \in opened : Permits(NetworkPolicy(request.grant), s.address, s.use)
      BY <2>2 DEF PolicyInv, Behaved
    <3>2. AsksNetwork(request)
      BY <3>1 DEF Permits, NetworkPolicy, AsksNetwork
    <3> QED
      BY <2>2, <3>2 DEF PolicyInv, Behaved, Asked, ClassifyRisk, Reasons
  <2>3. ASSUME store.environment # {}
        PROVE  approved
    <3>1. request.grant.environment # {} /\ phase \in {"running", "ended"}
      BY <2>3 DEF PolicyInv, Furnished, NoStore, SelectedEnvironment
    <3> QED
      BY <3>1 DEF PolicyInv, Asked, ClassifyRisk
  <2> QED
    BY <2>1, <2>2, <2>3 DEF NothingGraverThanAsked
<1> QED
  BY <1>1, PolicyAlways, PTL

\* A guest writes, sees and reaches only what its grant lists.
THEOREM NothingUngranted == Spec => []OnlyGranted
<1>1. PolicyInv => OnlyGranted
  <2> SUFFICES ASSUME PolicyInv PROVE OnlyGranted
    OBVIOUS
  <2>1. request.grant \in Grants
    BY DEF PolicyInv, TypeOK, Requests
  <2>2. wrote => \E f \in request.grant.filesystems : f.access = "ReadWrite"
    BY DEF PolicyInv, Behaved, AsksWrite
  <2>3. store.environment \subseteq request.grant.environment \ Malformed
    BY <2>1 DEF PolicyInv, Furnished, NoStore, SelectedEnvironment, Grants
  <2>4. ASSUME NEW s \in opened
        PROVE  /\ s.address.loopback /\ s.address.port # 0
               /\ \/ s.use = "TcpConnect" /\ s.address.port \in request.grant.loopback_ports
                  \/ s.use = "TcpBind" /\ s.address.port \in request.grant.loopback_bind_ports
    <3>1. Permits(NetworkPolicy(request.grant), s.address, s.use)
      BY DEF PolicyInv, Behaved
    <3> QED
      BY <2>1, <3>1 DEF Permits, NetworkPolicy, Grants
  <2> QED
    BY <2>2, <2>3, <2>4 DEF OnlyGranted
<1> QED
  BY <1>1, PolicyAlways, PTL

\* Whatever number of seconds is asked for, ticks are counted in u64: there is at
\* least one, and ten for every second or as many as can be counted.
LEMMA EnoughTicks ==
  ASSUME NEW seconds \in 1..MaxInt
  PROVE  LET ticks == EpochTicks(seconds)
         IN  ticks > 0 /\ (ticks = MaxInt \/ ticks >= 10 * seconds)
<1>1. MaxInt \in Nat /\ MaxInt > 0 /\ seconds \in Nat /\ seconds > 0
  BY LimitsAssumption
<1> QED
  BY <1>1 DEF EpochTicks

\* Whatever limits were asked for, a guest runs in a store that is bounded in every
\* resource and does not time out early, and nothing runs natively.
THEOREM GuestsBounded == Spec => []GuestBounded
<1>1. PolicyInv => GuestBounded
  <2> SUFFICES ASSUME PolicyInv, phase = "running" PROVE GuestBounded
    BY DEF GuestBounded
  <2>1. request.grant.limits \in Limits
    BY DEF PolicyInv, TypeOK, Requests, Grants
  <2>2. /\ request.mode = "Wasi"
        /\ store.output = request.grant.limits.output
        /\ store.memory = request.grant.limits.memory
        /\ store.fuel = request.grant.limits.fuel
        /\ store.deadline = EpochTicks(request.grant.limits.seconds)
    BY DEF PolicyInv, Furnished
  <2>3. /\ request.grant.limits.seconds \in 1..MaxInt
        /\ store.output > 0 /\ store.memory > 0 /\ store.fuel > 0
    BY <2>1, <2>2, LimitsAssumption DEF Limits
  <2> QED
    BY <2>2, <2>3, EnoughTicks DEF GuestBounded
<1> QED
  BY <1>1, PolicyAlways, PTL
-----------------------------------------------------------------------------
(* Paths, and where they lead.                                             *)

\* A set of naturals that is not empty has a least element ...
LEMMA NatMin ==
  ASSUME NEW U \in SUBSET Nat, U # {}
  PROVE  \E m \in U : \A u \in U : m <= u
<1> DEFINE R == OpToRel(<, Nat)
<1>1. IsWellFoundedOn(R, Nat)
  BY NatLessThanWellFounded
<1>2. \A x, y \in Nat : x < y => <<x, y>> \in R
  BY DEF OpToRel
<1> HIDE DEF R
<1>3. PICK m \in U : \A u \in U : ~(<<u, m>> \in R)
  BY <1>1, WFMin
<1>4. ASSUME NEW u \in U PROVE m <= u
  <2>1. m \in Nat /\ u \in Nat /\ ~(u < m)
    BY <1>2, <1>3
  <2> QED
    BY <2>1
<1> QED
  BY <1>4

\* ... and, if it is bounded, a greatest.
LEMMA MaxIsGreatest ==
  ASSUME NEW n \in Nat, NEW S \in SUBSET (0..n), S # {}
  PROVE  Max(S) \in S /\ \A k \in S : k <= Max(S)
<1> DEFINE U == {n - k : k \in S}
<1>1. U \in SUBSET Nat /\ U # {}
  <2>1. \A k \in S : k \in Nat /\ n - k \in Nat
    OBVIOUS
  <2> QED
    BY <2>1
<1>2. PICK m \in U : \A u \in U : m <= u
  BY <1>1, NatMin
<1>3. PICK x \in S : m = n - x
  BY <1>2
<1>4. \A k \in S : x >= k
  BY <1>2, <1>3
<1> QED
  BY <1>3, <1>4 DEF Max

\* A path begins with what it is put below, and the rest is what was put there.
LEMMA BelowIs ==
  ASSUME NEW Component, NEW p \in Seq(Component), NEW s \in Seq(Component)
  PROVE  /\ p \o s \in Seq(Component) /\ IsPrefix(p, p \o s)
         /\ \A to : Rebase(p \o s, p, to) = to \o s
<1> DEFINE q == p \o s
<1>1. /\ q \in Seq(Component) /\ Len(q) = Len(p) + Len(s) /\ Len(p) \in Nat /\ Len(s) \in Nat
      /\ \A i \in 1..Len(q) : q[i] = IF i <= Len(p) THEN p[i] ELSE s[i - Len(p)]
  BY ConcatProperties
<1> HIDE DEF q
<1>2. SubSeq(q, 1, Len(p)) = SubSeq(p, 1, Len(p))
  <2>1. \A i \in 1..Len(p) : q[i] = p[i] /\ p[i] \in Component /\ q[i] \in Component
    BY <1>1
  <2>2. /\ SubSeq(q, 1, Len(p)) \in Seq(Component) /\ Len(SubSeq(q, 1, Len(p))) = Len(p)
        /\ \A i \in 1..Len(p) : SubSeq(q, 1, Len(p))[i] = q[i]
    BY <1>1, <2>1
  <2>3. /\ SubSeq(p, 1, Len(p)) \in Seq(Component) /\ Len(SubSeq(p, 1, Len(p))) = Len(p)
        /\ \A i \in 1..Len(p) : SubSeq(p, 1, Len(p))[i] = p[i]
    BY <1>1, <2>1
  <2> QED
    BY <2>1, <2>2, <2>3, SeqEqual
<1>3. SubSeq(q, Len(p) + 1, Len(q)) = s
  <2>1. \A i \in 1..Len(s) : i + Len(p) \in 1..Len(q) /\ q[i + Len(p)] = s[i] /\ s[i] \in Component
    <3>1. ASSUME NEW i \in 1..Len(s)
          PROVE  i + Len(p) \in 1..Len(q) /\ ~(i + Len(p) <= Len(p)) /\ (i + Len(p)) - Len(p) = i
      BY <1>1
    <3> QED
      BY <1>1, <3>1
  <2>2. /\ SubSeq(q, Len(p) + 1, Len(q)) \in Seq(Component)
        /\ Len(SubSeq(q, Len(p) + 1, Len(q))) = Len(s)
        /\ \A i \in 1..Len(s) : SubSeq(q, Len(p) + 1, Len(q))[i] = q[i + Len(p)]
    BY <1>1
  <2> QED
    BY <2>1, <2>2, SeqEqual
<1> QED
  BY <1>1, <1>2, <1>3 DEF IsPrefix, Rebase, q

\* A path that begins with another is that other and the rest.
LEMMA Beginning ==
  ASSUME NEW p \in Seq(STRING), NEW q \in Seq(STRING), IsPrefix(p, q)
  PROVE  /\ SubSeq(q, Len(p) + 1, Len(q)) \in Seq(STRING)
         /\ q = p \o SubSeq(q, Len(p) + 1, Len(q))
<1> DEFINE s == SubSeq(q, Len(p) + 1, Len(q))
<1>1. Len(p) \in Nat /\ Len(q) \in Nat /\ Len(p) <= Len(q)
  BY DEF IsPrefix
<1>2. /\ s \in Seq(STRING) /\ Len(s) = Len(q) - Len(p)
      /\ \A i \in 1..Len(s) : s[i] = q[i + Len(p)]
  BY <1>1
<1>3. \A i \in 1..Len(p) : p[i] = q[i]
  <2>1. SubSeq(p, 1, Len(p)) = SubSeq(q, 1, Len(p))
    BY DEF IsPrefix
  <2>2. /\ \A i \in 1..Len(p) : SubSeq(p, 1, Len(p))[i] = p[i]
        /\ \A i \in 1..Len(p) : SubSeq(q, 1, Len(p))[i] = q[i]
    BY <1>1
  <2> QED
    BY <2>1, <2>2
<1> HIDE DEF s
<1>4. /\ p \o s \in Seq(STRING) /\ Len(p \o s) = Len(q)
      /\ \A i \in 1..Len(q) : (p \o s)[i] = IF i <= Len(p) THEN p[i] ELSE s[i - Len(p)]
  BY <1>1, <1>2, ConcatProperties
<1>5. ASSUME NEW i \in 1..Len(q) PROVE (p \o s)[i] = q[i]
  <2>1. CASE i <= Len(p)
    BY <1>1, <1>3, <1>4, <2>1
  <2>2. CASE ~(i <= Len(p))
    <3>1. i - Len(p) \in 1..Len(s) /\ (i - Len(p)) + Len(p) = i
      BY <1>1, <1>2, <2>2
    <3> QED
      BY <1>2, <1>4, <2>2, <3>1
  <2> QED
    BY <2>1, <2>2
<1> QED
  BY <1>2, <1>4, <1>5, SeqEqual DEF s

\* How far a path exists, below a part of it that does.
Existing(p, rest) == {j \in 0..Len(rest) : p \o SubSeq(rest, 1, j) \in DOMAIN real}

\* canonicalize_with_existing_parent looks no further up than to what exists.
LEMMA ResolvedBelow ==
  ASSUME NEW p \in DOMAIN real, p \in Seq(STRING), p # <<>>, NEW rest \in Seq(STRING)
  PROVE  LET j == Max(Existing(p, rest))
         IN  /\ j \in Existing(p, rest)
             /\ Resolved(p \o rest)
                  = real[p \o SubSeq(rest, 1, j)] \o SubSeq(rest, j + 1, Len(rest))
<1> DEFINE q == p \o rest
           T == {k \in 1..Len(q) : SubSeq(q, 1, k) \in DOMAIN real}
           E == Existing(p, rest)
           j == Max(E)
           n == Max(T)
<1>1. /\ Len(p) \in Nat \ {0} /\ Len(rest) \in Nat /\ q \in Seq(STRING)
      /\ Len(q) = Len(p) + Len(rest)
  BY ConcatProperties, EmptySeq
<1>2. ASSUME NEW k \in 0..Len(rest)
      PROVE  /\ SubSeq(q, 1, Len(p) + k) = p \o SubSeq(rest, 1, k)
             /\ SubSeq(q, Len(p) + k + 1, Len(q)) = SubSeq(rest, k + 1, Len(rest))
  <2> DEFINE a == SubSeq(rest, 1, k)
             b == SubSeq(rest, k + 1, Len(rest))
  <2>a. a \in Seq(STRING) /\ Len(a) = k
    BY <1>1
  <2>b. IsPrefix(a, rest)
    BY <1>1, <2>a, SubSeqFull DEF IsPrefix
  <2>1. a \in Seq(STRING) /\ Len(a) = k /\ b \in Seq(STRING) /\ rest = a \o b
    BY <2>a, <2>b, Beginning
  <2> HIDE DEF a, b
  <2>2. q = (p \o a) \o b /\ p \o a \in Seq(STRING) /\ Len(p \o a) = Len(p) + k
    <3>1. p \o (a \o b) = (p \o a) \o b
      BY <2>1, ConcatAssociative
    <3>2. p \o a \in Seq(STRING) /\ Len(p \o a) = Len(p) + Len(a)
      BY <2>1, ConcatProperties
    <3> QED
      BY <2>1, <3>1, <3>2
  <2>3. IsPrefix(p \o a, q) /\ Rebase(q, p \o a, <<>>) = <<>> \o b
    <3>1. PICK x \in Seq(STRING) : x = p \o a
      BY <2>2
    <3>2. IsPrefix(x, x \o b) /\ Rebase(x \o b, x, <<>>) = <<>> \o b
      BY <2>1, BelowIs
    <3> QED
      BY <2>2, <3>1, <3>2
  <2>4. SubSeq(p \o a, 1, Len(p \o a)) = p \o a
    BY <2>2, SubSeqFull
  <2>5. SubSeq(q, Len(p) + k + 1, Len(q)) \in Seq(STRING)
    BY <1>1
  <2>6. SubSeq(q, Len(p) + k + 1, Len(q)) = b
    BY <2>1, <2>2, <2>3, <2>5, ConcatEmptySeq DEF Rebase
  <2> QED
    BY <2>2, <2>3, <2>4, <2>6 DEF IsPrefix, a, b
<1>3. E \in SUBSET (0..Len(rest)) /\ \A k \in E : Len(p) + k \in T
  <2>1. ASSUME NEW k \in E PROVE k \in 0..Len(rest) /\ Len(p) + k \in T
    <3>1. k \in 0..Len(rest) /\ p \o SubSeq(rest, 1, k) \in DOMAIN real
      BY DEF Existing
    <3>2. Len(p) + k \in 1..Len(q)
      BY <1>1, <3>1
    <3> QED
      BY <1>2, <3>1, <3>2
  <2> QED
    BY <2>1
<1>4. \A k \in T : k >= Len(p) => k - Len(p) \in E
  <2>1. ASSUME NEW k \in T, k >= Len(p) PROVE k - Len(p) \in E
    <3>1. k - Len(p) \in 0..Len(rest) /\ Len(p) + (k - Len(p)) = k
      BY <1>1, <2>1
    <3>2. SubSeq(q, 1, k) = p \o SubSeq(rest, 1, k - Len(p))
      BY <1>2, <3>1
    <3> QED
      BY <2>1, <3>1, <3>2 DEF Existing
  <2> QED
    BY <2>1
<1>5. 0 \in E
  <2>1. SubSeq(rest, 1, 0) = <<>>
    BY SubSeqEmpty
  <2>2. p \o SubSeq(rest, 1, 0) = p
    BY <2>1, ConcatEmptySeq
  <2>3. 0 \in 0..Len(rest)
    BY <1>1
  <2> QED
    BY <2>2, <2>3 DEF Existing
<1>6. j \in E /\ \A k \in E : k <= j
  BY <1>1, <1>3, <1>5, MaxIsGreatest
<1>7. n \in T /\ \A k \in T : k <= n
  <2>1. T \in SUBSET (0..Len(q)) /\ T # {} /\ Len(q) \in Nat
    BY <1>1, <1>3, <1>5
  <2> HIDE DEF T
  <2> QED
    BY <2>1, MaxIsGreatest
<1>8. n = Len(p) + j
  <2>1. n \in Nat /\ j \in Nat /\ Len(p) + j <= n
    BY <1>1, <1>3, <1>6, <1>7
  <2>2. n - Len(p) <= j
    BY <1>1, <1>4, <1>6, <1>7, <2>1
  <2> QED
    BY <1>1, <2>1, <2>2
<1>9. Resolved(q) = real[SubSeq(q, 1, n)] \o SubSeq(q, n + 1, Len(q))
  BY DEF Resolved
<1> QED
  BY <1>2, <1>3, <1>6, <1>8, <1>9

\* A path that exists resolves to its canonical form.
LEMMA ResolvedItself ==
  ASSUME real \in FileSystems, NEW p \in DOMAIN real
  PROVE  Resolved(p \o <<>>) = real[p]
<1> DEFINE none == SubSeq(<<>>, 1, 0)
           E == Existing(p, <<>>)
<1>1. p \in Seq(STRING) /\ p # <<>> /\ real[p] \in DOMAIN real /\ real[p] \in Seq(STRING)
  BY FilesAssumption
<1>2. <<>> \in Seq(STRING) /\ Len(<<>>) = 0
  OBVIOUS
<1>3. /\ Max(E) \in E
      /\ Resolved(p \o <<>>) = real[p \o SubSeq(<<>>, 1, Max(E))]
                                 \o SubSeq(<<>>, Max(E) + 1, Len(<<>>))
  BY <1>1, <1>2, ResolvedBelow
<1>4. Max(E) = 0
  BY <1>2, <1>3 DEF Existing
<1>5. SubSeq(<<>>, 1, 0) = <<>> /\ SubSeq(<<>>, 0 + 1, 0) = <<>>
  BY SubSeqEmpty
<1> HIDE DEF E
<1>6. p \o <<>> = p /\ real[p] \o <<>> = real[p]
  BY <1>1, ConcatEmptySeq
<1> QED
  BY <1>2, <1>3, <1>4, <1>5, <1>6

\* What lies below a link resolves as if it was looked up below what the link
\* leads to.
LEMMA ResolvedThroughLink ==
  ASSUME real \in FileSystems, NEW p \in DOMAIN real, NEW rest \in Seq(STRING)
  PROVE  Resolved(real[p] \o rest) = Resolved(p \o rest)
<1> DEFINE c == real[p]
<1>1. /\ c \in DOMAIN real /\ p \in Seq(STRING) /\ p # <<>> /\ c \in Seq(STRING) /\ c # <<>>
  BY FilesAssumption
<1>a. \A x, y \in DOMAIN real :
        /\ IsPrefix(x, y) => /\ Rebase(y, x, real[x]) \in DOMAIN real
                             /\ real[Rebase(y, x, real[x])] = real[y]
        /\ IsPrefix(real[x], y) => Rebase(y, real[x], x) \in DOMAIN real
  BY FilesAssumption
<1>2. ASSUME NEW j \in 0..Len(rest)
      PROVE  LET s == SubSeq(rest, 1, j)
             IN  /\ c \o s \in DOMAIN real <=> p \o s \in DOMAIN real
                 /\ p \o s \in DOMAIN real => real[c \o s] = real[p \o s]
  <2> DEFINE s == SubSeq(rest, 1, j)
  <2>1. s \in Seq(STRING)
    OBVIOUS
  <2> HIDE DEF s
  <2>2. IsPrefix(p, p \o s) /\ Rebase(p \o s, p, c) = c \o s
    BY <1>1, <2>1, BelowIs
  <2>3. IsPrefix(c, c \o s) /\ Rebase(c \o s, c, p) = p \o s
    BY <1>1, <2>1, BelowIs
  <2>4. ASSUME p \o s \in DOMAIN real
        PROVE  c \o s \in DOMAIN real /\ real[c \o s] = real[p \o s]
    BY <1>a, <2>2, <2>4
  <2>5. ASSUME c \o s \in DOMAIN real PROVE p \o s \in DOMAIN real
    BY <1>a, <2>3, <2>5
  <2> QED
    BY <2>4, <2>5 DEF s
<1>3. Existing(c, rest) = Existing(p, rest)
  BY <1>2 DEF Existing
<1> DEFINE j == Max(Existing(p, rest))
<1>4. /\ j \in Existing(p, rest)
      /\ Resolved(p \o rest) = real[p \o SubSeq(rest, 1, j)] \o SubSeq(rest, j + 1, Len(rest))
      /\ Resolved(c \o rest) = real[c \o SubSeq(rest, 1, j)] \o SubSeq(rest, j + 1, Len(rest))
  BY <1>1, <1>3, ResolvedBelow
<1>5. real[c \o SubSeq(rest, 1, j)] = real[p \o SubSeq(rest, 1, j)]
  BY <1>2, <1>4 DEF Existing
<1> QED
  BY <1>4, <1>5
-----------------------------------------------------------------------------
(* The guest starts where the request says.                                *)

\* A grant has one file system at most; and while a guest runs, its preopen is that
\* file system's root as it is now, and its directory the request's, below it, or
\* the root itself if there is no guest path.
Placed ==
  /\ \A f, g \in request.grant.filesystems : f = g
  /\ phase = "running" =>
       \E f \in request.grant.filesystems :
         /\ f.root \in DOMAIN real /\ IsPrefix(f.root, request.cwd)
         /\ store.preopen = real[f.root]
         /\ store.cwd = IF IsUtf8(Below(request.cwd, f.root))
                          THEN Rebase(request.cwd, f.root, Workspace) ELSE Workspace
         /\ IsPrefix(real[f.root], Resolved(request.cwd))

LEMMA PlacedInit == Init => Placed
  BY DEF Init, Placed, Granting

\* A directory that is allowed has a guest path, and it is not the empty one,
\* unless no String holds it.
LEMMA GuestDirectory ==
  ASSUME NEW r, r.cwd \in Seq(STRING), NEW f, f.root \in Seq(STRING), Allows(f, r.cwd)
  PROVE  StoreOf(r, f).cwd = IF IsUtf8(Below(r.cwd, f.root))
                               THEN Rebase(r.cwd, f.root, Workspace) ELSE Workspace
<1> DEFINE rest == SubSeq(r.cwd, Len(f.root) + 1, Len(r.cwd))
           Component == STRING \cup {"/", "workspace"}
<1>1. rest \in Seq(STRING)
  BY Beginning DEF Allows
<1>2. Workspace \in Seq(Component) /\ Len(Workspace) = 2 /\ rest \in Seq(Component)
  BY <1>1 DEF Workspace
<1> HIDE DEF rest, Component
<1>3. PICK w \in Seq(Component) : w = Workspace /\ Len(w) = 2
  BY <1>2
<1>4. Workspace \o rest # <<>>
  <2>1. Len(w \o rest) = Len(w) + Len(rest) /\ Len(rest) \in Nat
    BY <1>2, <1>3, ConcatProperties
  <2>2. Len(w \o rest) > 0
    BY <1>3, <2>1
  <2> QED
    BY <1>3, <2>2
<1>5. Rebase(r.cwd, f.root, Workspace) # <<>>
  BY <1>4 DEF Rebase, rest
<1>6. StoreOf(r, f).cwd = IF GuestPathFor(f, r.cwd, Workspace) = <<>>
                            THEN Workspace ELSE GuestPathFor(f, r.cwd, Workspace)
  BY DEF StoreOf
<1> QED
  BY <1>5, <1>6 DEF GuestPathFor

\* Only BuildStore starts a guest, and it looks at the file system it opens.
LEMMA PlacedStep == PolicyInv /\ Placed /\ [Next]_vars => Placed'
<1> SUFFICES ASSUME PolicyInv, Placed, [Next]_vars PROVE Placed'
  OBVIOUS
<1>1. ASSUME NEW accepted, NEW grant, Build(accepted, grant),
             grant.filesystems = request.grant.filesystems
      PROVE  Placed'
  <2>1. request'.grant.filesystems = request.grant.filesystems
    BY <1>1 DEF Build, PolicyInv, TypeOK, Requests
  <2>2. phase' # "running"
    BY <1>1 DEF Build
  <2> QED
    BY <2>1, <2>2 DEF Placed
<1>2. CASE \/ \E n \in Names : AllowEnvironment(n)
           \/ \E p \in Ports : AllowLoopbackPort(p) \/ AllowLoopbackBindPort(p)
           \/ \E l \in AskedLimits : WithLimits(l)
           \/ AllowNativeExecution
  <2>1. request.grant \in Grants
    BY DEF PolicyInv, TypeOK, Requests
  <2>2. /\ \A x : [request.grant EXCEPT !.environment = x].filesystems = request.grant.filesystems
        /\ \A x : [request.grant EXCEPT !.loopback_ports = x].filesystems = request.grant.filesystems
        /\ \A x : [request.grant EXCEPT !.loopback_bind_ports = x].filesystems
                    = request.grant.filesystems
        /\ \A x : [request.grant EXCEPT !.limits = x].filesystems = request.grant.filesystems
        /\ [request.grant EXCEPT !.native_execution = TRUE].filesystems = request.grant.filesystems
    BY <2>1 DEF Grants
  <2> QED
    BY <1>1, <1>2, <2>2 DEF AllowEnvironment, AllowLoopbackPort, AllowLoopbackBindPort,
       WithLimits, AllowNativeExecution
<1>3. CASE Submit \/ StartNative \/ Rearrange \/ Classify \/ Approve \/ Deny \/ GuestEnds
  <2>1. UNCHANGED request /\ phase' # "running"
    BY <1>3 DEF Submit, StartNative, NativeAnswer, Rearrange, Classify, Approve, Deny, GuestEnds
  <2> QED
    BY <2>1 DEF Placed
<1>4. CASE BuildStore
  <2>1. UNCHANGED <<request, real>> /\ phase' \in {"running", "refused"}
    BY <1>4 DEF BuildStore
  <2>2. ASSUME phase' = "running"
        PROVE  \E f \in request.grant.filesystems :
                 /\ f.root \in DOMAIN real /\ IsPrefix(f.root, request.cwd)
                 /\ store'.preopen = real[f.root]
                 /\ store'.cwd = IF IsUtf8(Below(request.cwd, f.root))
                                   THEN Rebase(request.cwd, f.root, Workspace) ELSE Workspace
                 /\ IsPrefix(real[f.root], Resolved(request.cwd))
    <3>1. PICK f \in request.grant.filesystems : store' = StoreOf(request, f)
      BY <1>4, <2>2 DEF BuildStore
    <3>2. AllowsExistingPath(request.grant, request.cwd) /\ f.root \in DOMAIN real
      BY <1>4, <2>2 DEF BuildStore, Covers
    <3>3. \A g \in request.grant.filesystems : g = f
      BY DEF Placed
    <3>4. /\ Allows(f, request.cwd) /\ IsPrefix(f.root, request.cwd)
          /\ IsPrefix(real[f.root], Resolved(request.cwd))
      BY <3>2, <3>3 DEF AllowsExistingPath, AllowsPath, Allows
    <3>5. request.cwd \in Seq(STRING) /\ f.root \in Seq(STRING)
      BY <3>2, PathsAssumption, FilesAssumption DEF PolicyInv, TypeOK, Requests
    <3>6. store'.cwd = IF IsUtf8(Below(request.cwd, f.root))
                         THEN Rebase(request.cwd, f.root, Workspace) ELSE Workspace
      BY <3>1, <3>4, <3>5, GuestDirectory
    <3>7. store'.preopen = real[f.root]
      BY <3>1 DEF StoreOf
    <3> QED
      BY <3>2, <3>4, <3>6, <3>7
  <2>3. Resolved(request.cwd)' = Resolved(request.cwd)
    BY <2>1 DEF Resolved
  <2> QED
    BY <2>1, <2>2, <2>3 DEF Placed
<1>5. ASSUME UNCHANGED <<request, phase, real, store>> PROVE Placed'
  <2>1. Resolved(request.cwd)' = Resolved(request.cwd)
    BY <1>5 DEF Resolved
  <2> QED
    BY <1>5, <2>1 DEF Placed
<1>6. GuestWrite \/ (\E a \in Addresses, u \in Uses : GuestOpen(a, u)) \/ UNCHANGED vars
        => UNCHANGED <<request, phase, real, store>>
  BY DEF GuestWrite, GuestOpen, vars
<1> QED
  BY <1>2, <1>3, <1>4, <1>5, <1>6 DEF Next, Finished

\* However links were arranged when the request was submitted and redirected until
\* it was admitted, the directory that guest_path_for names below the preopen of
\* build_store is the one the request's path leads to, and it is inside.  Where
\* guest_path_for names none, the part below the root not being UTF-8, the guest
\* starts in the preopen itself, whatever the request says.
THEOREM GuestsStartInCwd == Spec => []StartsInCwd
<1>1. PolicyInv /\ Placed => StartsInCwd
  <2> SUFFICES ASSUME PolicyInv, Placed, phase = "running" PROVE StartsInCwd
    BY DEF StartsInCwd
  <2>1. PICK f \in request.grant.filesystems :
          /\ f.root \in DOMAIN real /\ IsPrefix(f.root, request.cwd)
          /\ store.preopen = real[f.root]
          /\ store.cwd = IF IsUtf8(Below(request.cwd, f.root))
                           THEN Rebase(request.cwd, f.root, Workspace) ELSE Workspace
          /\ IsPrefix(real[f.root], Resolved(request.cwd))
    BY DEF Placed
  <2>2. /\ real \in FileSystems /\ request.cwd \in Seq(STRING) /\ f.root \in Seq(STRING)
        /\ real[f.root] \in DOMAIN real /\ real[f.root] \in Seq(STRING)
    BY <2>1, PathsAssumption, FilesAssumption DEF PolicyInv, TypeOK, Requests
  <2> DEFINE rest == SubSeq(request.cwd, Len(f.root) + 1, Len(request.cwd))
             start(r) == Resolved(Rebase(Workspace \o r, Workspace, store.preopen))
  <2>3. rest \in Seq(STRING) /\ request.cwd = f.root \o rest
    BY <2>1, <2>2, Beginning
  <2> HIDE DEF rest
  <2>4. ASSUME NEW r \in Seq(STRING) PROVE start(r) = Resolved(f.root \o r)
    <3> DEFINE Component == STRING \cup {"/", "workspace"}
    <3>1. Workspace \in Seq(Component) /\ r \in Seq(Component)
      BY DEF Workspace
    <3> HIDE DEF Component
    <3>2. Rebase(Workspace \o r, Workspace, store.preopen) = store.preopen \o r
      BY <3>1, BelowIs
    <3>3. Resolved(real[f.root] \o r) = Resolved(f.root \o r)
      BY <2>1, <2>2, ResolvedThroughLink
    <3> QED
      BY <2>1, <3>2, <3>3
  <2>5. start(rest) = Resolved(request.cwd)
    BY <2>3, <2>4
  <2>6. start(<<>>) = store.preopen
    <3>1. start(<<>>) = Resolved(f.root \o <<>>)
      BY <2>4, EmptySeq
    <3> QED
      BY <2>1, <2>2, <3>1, ResolvedItself
  <2> HIDE DEF start
  <2>7. /\ store.cwd = IF IsUtf8(Below(request.cwd, f.root))
                         THEN Workspace \o rest ELSE Workspace \o <<>>
        /\ \A g \in request.grant.filesystems : g = f
    <3>1. Workspace \o <<>> = Workspace
      BY ConcatEmptySeq DEF Workspace
    <3> QED
      BY <2>1, <3>1 DEF Rebase, rest, Placed
  <2>8. IsPrefix(store.preopen, store.preopen)
    BY <2>1, <2>2, SubSeqFull DEF IsPrefix
  <2>9. CASE IsUtf8(Below(request.cwd, f.root))
    <3>1. Resolved(Rebase(store.cwd, Workspace, store.preopen)) = Resolved(request.cwd)
      BY <2>5, <2>7, <2>9 DEF start
    <3> QED
      BY <2>1, <2>7, <2>9, <3>1 DEF StartsInCwd
  <2>10. CASE ~IsUtf8(Below(request.cwd, f.root))
    <3>1. Resolved(Rebase(store.cwd, Workspace, store.preopen)) = store.preopen
      BY <2>6, <2>7, <2>10 DEF start
    <3> QED
      BY <2>7, <2>8, <2>10, <3>1 DEF StartsInCwd
  <2> QED
    BY <2>9, <2>10
<1> QED
  BY <1>1, PlacedInit, PlacedStep, PolicyAlways, PolicyInit, PTL DEF Spec
=============================================================================
