------------------------------- MODULE Policy -------------------------------
(***************************************************************************)
(* What one request is granted, asked about and given: the builders of     *)
(* CapabilityGrant (capability.rs), validation (command.rs), the risk      *)
(* class and the network posture (policy.rs), the store build_store makes  *)
(* of it (lib.rs), and what its guest can then do; or the native backend   *)
(* (native.rs) meets it, and has nothing to run it on.  Three places decide*)
(* what a grant means, classify_risk, NetworkPolicy and build_store, and   *)
(* nothing but their agreement keeps an unasked request harmless.          *)
(*                                                                         *)
(* A path is the sequence of its components, "/" first if it is absolute.  *)
(* A file system is a function from the paths that exist to their          *)
(* canonical forms; `real` is the present one.  Links may be redirected    *)
(* until build_store looks (Rearrange); what a change during or after      *)
(* build_store does is not modelled.                                       *)
(***************************************************************************)
EXTENDS Naturals, Sequences, SequencesExt, FiniteSetsExt  \* IsPrefix, ToSet; Max

CONSTANTS
  Paths,        \* roots and working directories callers name
  FileSystems,  \* the arrangements of links and directories
  NotUtf8,      \* components of paths that are not UTF-8, as `to_str` sees it
  Ports,        \* port numbers, 0 included
  Names,        \* names of environment variables callers ask for
  Malformed,    \* those that are empty or hold '=', NUL or white space
  HostNames,    \* those the host process has a value for
  MaxInt,       \* the largest u64 and usize, bounded for TLC
  AskedLimits,  \* what callers pass to ResourceLimits' builders, 0 included
  DefaultLimits

ASSUME NamesAssumption == Malformed \subseteq Names
ASSUME PathsAssumption == \A p \in Paths : p \in Seq(STRING)

\* A path below `from`, moved to where it would be below `to`.
Rebase(path, from, to) == to \o SubSeq(path, Len(from) + 1, Len(path))

\* What canonicalize finds: a path that exists has a canonical form, which exists
\* and is its own; and whatever is below the one is below the other, and the same.
ASSUME FilesAssumption ==
  \A files \in FileSystems :
    /\ <<"/">> \in DOMAIN files
    /\ \A p \in DOMAIN files : /\ p \in Seq(STRING) \ {<<>>}
                               /\ files[p] \in DOMAIN files /\ files[files[p]] = files[p]
    /\ \A p, q \in DOMAIN files :
         /\ IsPrefix(p, q) => /\ Rebase(q, p, files[p]) \in DOMAIN files
                              /\ files[Rebase(q, p, files[p])] = files[q]
         /\ IsPrefix(files[p], q) => Rebase(q, files[p], p) \in DOMAIN files

ASSUME LimitsAssumption ==
  /\ MaxInt \in Nat
  /\ AskedLimits \subseteq [output : 0..MaxInt, seconds : 0..MaxInt,
                            memory : 0..MaxInt, fuel : 0..MaxInt]
  /\ DefaultLimits \in [output : 1..MaxInt, seconds : 1..MaxInt,
                        memory : 1..MaxInt, fuel : 1..MaxInt]

VARIABLES
  request,  \* the CommandRequest, its grant still under construction at first
  phase,    \* where it is on its way from the caller to the guest
  told,     \* the reason process_job gave the human, or "AutoApprove"
  approved, \* whether a human approved
  real,     \* the file system
  store,    \* what build_store made
  wrote,    \* whether the guest changed a file
  opened    \* the sockets the guest connected or bound

vars == <<request, phase, told, approved, real, store, wrote, opened>>

Modes     == {"Wasi", "Native"}
Accesses  == {"Read", "ReadWrite"}
Reasons   == {"NativeExecution", "FilesystemWrite", "NetworkAccess", "EnvironmentAccess"}
Risks     == Reasons \cup {"AutoApprove"}
Addresses == [loopback : BOOLEAN, port : Ports]
TcpUses   == {"TcpConnect", "TcpBind"}
Uses      == TcpUses \cup {"UdpBind", "UdpConnect", "UdpOutgoingDatagram"}
Phases    == {"building", "queued", "asking", "admitted", "running", "ended", "refused"}

-----------------------------------------------------------------------------
(* Grants, their limits and the paths they cover *)

\* What ResourceLimits::new, with_memory_bytes and with_fuel let through, in any
\* order; with_unlimited_fuel asks for MaxInt.
Limits == [output : 1..MaxInt, seconds : 1..MaxInt, memory : 1..MaxInt, fuel : 1..MaxInt]

\* Ten ticks a second, as it would be in arithmetic that wraps.
EpochTicksWrapping(seconds) ==
  LET ticks == (10 * seconds) % (MaxInt + 1) IN IF ticks < 1 THEN 1 ELSE ticks

\* Ten ticks a second, in arithmetic that saturates, and at least one.
EpochTicks(seconds) ==
  LET ticks == IF 10 * seconds > MaxInt THEN MaxInt ELSE 10 * seconds
  IN  IF ticks < 1 THEN 1 ELSE ticks

\* is_safe_absolute_path
IsSafe(path) == path # <<>> /\ Head(path) = "/" /\ ".." \notin ToSet(path)

\* What the constructors let through.  A grant holds one file system at most:
\* `workspace` alone adds one.
Grants == [filesystems : SUBSET [root : {p \in Paths : IsSafe(p)}, access : Accesses],
           environment : SUBSET (Names \ Malformed),
           loopback_ports : SUBSET (Ports \ {0}),
           loopback_bind_ports : SUBSET (Ports \ {0}),
           native_execution : BOOLEAN,
           limits : Limits]

Requests == [mode : Modes, clean : BOOLEAN, cwd : Paths, grant : Grants]

Granting(filesystems) ==
  [filesystems |-> filesystems, environment |-> {}, loopback_ports |-> {},
   loopback_bind_ports |-> {}, native_execution |-> FALSE, limits |-> DefaultLimits]

Allows(filesystem, path) == IsSafe(path) /\ IsPrefix(filesystem.root, path)

AllowsPath(grant, path) == \E f \in grant.filesystems : Allows(f, path)

\* canonicalize_with_existing_parent: the longest part that exists, resolved,
\* and the rest as it is.
Resolved(path) ==
  LET n == Max({k \in 1 .. Len(path) : SubSeq(path, 1, k) \in DOMAIN real})
  IN  real[SubSeq(path, 1, n)] \o SubSeq(path, n + 1, Len(path))

AllowsExistingPath(grant, path) ==
  /\ AllowsPath(grant, path)
  /\ \E f \in grant.filesystems :
       f.root \in DOMAIN real /\ IsPrefix(real[f.root], Resolved(path))

IsUtf8(path) == ToSet(path) \cap NotUtf8 = {}

\* The part of a path that is below `from`.
Below(path, from) == Rebase(path, from, <<>>)

\* The empty path stands for None: a path that is not allowed, or that no String
\* can hold.
GuestPathFor(filesystem, path, guestRoot) ==
  IF Allows(filesystem, path) /\ IsUtf8(Below(path, filesystem.root))
    THEN Rebase(path, filesystem.root, guestRoot) ELSE <<>>

\* `clean` stands for a program and arguments that are not empty and without NUL.
IsValid(r) ==
  /\ r.clean
  /\ r.mode = "Native" => r.grant.native_execution
  /\ AllowsPath(r.grant, r.cwd)

-----------------------------------------------------------------------------
(* The policy *)

AsksNative(r)  == r.mode = "Native" \/ r.grant.native_execution
AsksWrite(r)   == \E f \in r.grant.filesystems : f.access = "ReadWrite"
AsksNetwork(r) == r.grant.loopback_ports # {} \/ r.grant.loopback_bind_ports # {}

\* As it would be if ports to bind were forgotten.
ClassifyRiskConnects(r) ==
  IF AsksNative(r) THEN "NativeExecution"
  ELSE IF AsksWrite(r) THEN "FilesystemWrite"
  ELSE IF r.grant.loopback_ports # {} THEN "NetworkAccess"
  ELSE IF r.grant.environment # {} THEN "EnvironmentAccess"
  ELSE "AutoApprove"

\* The first reason that applies.
ClassifyRisk(r) ==
  IF AsksNative(r) THEN "NativeExecution"
  ELSE IF AsksWrite(r) THEN "FilesystemWrite"
  ELSE IF AsksNetwork(r) THEN "NetworkAccess"
  ELSE IF r.grant.environment # {} THEN "EnvironmentAccess"
  ELSE "AutoApprove"

\* NetworkPolicy::from_grant
NetworkPolicy(grant) ==
  [tcp |-> grant.loopback_ports # {} \/ grant.loopback_bind_ports # {},
   connect |-> grant.loopback_ports, bind |-> grant.loopback_bind_ports, udp |-> FALSE]

\* As it would be with one list of ports for both uses.
PermitsEither(policy, address, use) ==
  /\ policy.tcp /\ address.loopback /\ use \in TcpUses
  /\ address.port \in policy.connect \cup policy.bind

Permits(policy, address, use) ==
  /\ policy.tcp /\ address.loopback
  /\ \/ use = "TcpConnect" /\ address.port \in policy.connect
     \/ use = "TcpBind" /\ address.port \in policy.bind

\* NetworkPolicy::apply: the kind of socket is allowed, and the address checked.
\* Names are never looked up.
Lets(policy, address, use) ==
  /\ IF use \in TcpUses THEN policy.tcp ELSE policy.udp
  /\ Permits(policy, address, use)

SelectedEnvironment(grant) == grant.environment \cap HostNames

NoStore == [preopen |-> <<>>, writable |-> FALSE, cwd |-> <<>>, environment |-> {},
            network |-> [tcp |-> FALSE, connect |-> {}, bind |-> {}, udp |-> FALSE],
            output |-> 0, memory |-> 0, fuel |-> 0, deadline |-> 0]

-----------------------------------------------------------------------------
(* The caller *)

\* The fields of a CommandRequest are public: submit may meet any combination.
Init ==
  /\ \E m \in Modes, c \in BOOLEAN, cwd \in Paths,
        fs \in {{}} \cup {{f} : f \in [root : {p \in Paths : IsSafe(p)}, access : Accesses]} :
       request = [mode |-> m, clean |-> c, cwd |-> cwd, grant |-> Granting(fs)]
  /\ phase = "building" /\ told = "AutoApprove" /\ approved = FALSE
  /\ real \in FileSystems
  /\ store = NoStore /\ wrote = FALSE /\ opened = {}

\* A builder consumes the grant: if it refuses, there is none left.
Build(accepted, grant) ==
  /\ phase = "building"
  /\ IF accepted THEN request' = [request EXCEPT !.grant = grant] /\ UNCHANGED phase
                 ELSE phase' = "refused" /\ UNCHANGED request
  /\ UNCHANGED <<told, approved, real, store, wrote, opened>>

AllowEnvironment(name) ==
  Build(name \notin Malformed,
        [request.grant EXCEPT !.environment = @ \cup {name}])

AllowLoopbackPort(port) ==
  Build(port # 0, [request.grant EXCEPT !.loopback_ports = @ \cup {port}])

\* As it would be if only ports to connect to were looked at.
AllowLoopbackBindPortAny(port) ==
  Build(TRUE, [request.grant EXCEPT !.loopback_bind_ports = @ \cup {port}])

AllowLoopbackBindPort(port) ==
  Build(port # 0, [request.grant EXCEPT !.loopback_bind_ports = @ \cup {port}])

AllowNativeExecution ==
  Build(TRUE, [request.grant EXCEPT !.native_execution = TRUE])

\* Limits that ResourceLimits refuses to construct leave the grant as it was.
WithLimits(limits) ==
  /\ limits \in Limits
  /\ Build(TRUE, [request.grant EXCEPT !.limits = limits])

\* NativeBackend::start
NativeAnswer(r) ==
  IF r.mode # "Native" THEN "WrongMode"
  ELSE IF ~r.grant.native_execution THEN "NativeNotGranted"
  ELSE "UnsupportedOnHost"

\* A caller may give the native backend a request, unchecked.
StartNative ==
  /\ phase = "building"
  /\ phase' = IF NativeAnswer(request) = "Started" THEN "running" ELSE "refused"
  /\ UNCHANGED <<request, told, approved, real, store, wrote, opened>>

Submit ==
  /\ phase = "building"
  /\ phase' = IF IsValid(request) /\ request.mode = "Wasi" THEN "queued" ELSE "refused"
  /\ UNCHANGED <<request, told, approved, real, store, wrote, opened>>

\* Someone redirects a link while the request is on its way.
Rearrange ==
  /\ phase \in {"queued", "asking", "admitted"}
  /\ real' \in FileSystems
  /\ UNCHANGED <<request, phase, told, approved, store, wrote, opened>>

-----------------------------------------------------------------------------
(* The broker and the runtime *)

Classify ==
  /\ phase = "queued"
  /\ told' = ClassifyRisk(request)
  /\ phase' = IF told' = "AutoApprove" THEN "admitted" ELSE "asking"
  /\ UNCHANGED <<request, approved, real, store, wrote, opened>>

Approve ==
  /\ phase = "asking"
  /\ approved' = TRUE /\ phase' = "admitted"
  /\ UNCHANGED <<request, told, real, store, wrote, opened>>

Deny ==
  /\ phase = "asking"
  /\ phase' = "refused"
  /\ UNCHANGED <<request, told, approved, real, store, wrote, opened>>

\* As it would be if the working directory was only compared, not resolved.
CoversLexically(r) == IsValid(r) /\ r.mode = "Wasi"

\* What build_store demands before it opens anything.
Covers(r) == IsValid(r) /\ r.mode = "Wasi" /\ AllowsExistingPath(r.grant, r.cwd)

Workspace == <<"/", "workspace">>

\* Where there is no guest path for the working directory, the first
\* initial_cwd stands.
StoreOf(r, filesystem) ==
  [preopen     |-> real[filesystem.root],
   writable    |-> filesystem.access = "ReadWrite",
   cwd         |-> LET guest == GuestPathFor(filesystem, r.cwd, Workspace)
                   IN  IF guest = <<>> THEN Workspace ELSE guest,
   environment |-> SelectedEnvironment(r.grant),
   network     |-> NetworkPolicy(r.grant),
   output      |-> r.grant.limits.output,
   memory      |-> r.grant.limits.memory,
   fuel        |-> r.grant.limits.fuel,
   deadline    |-> EpochTicks(r.grant.limits.seconds)]

BuildStore ==
  /\ phase = "admitted"
  /\ IF Covers(request) /\ \A f \in request.grant.filesystems : f.root \in DOMAIN real
       THEN /\ \E f \in request.grant.filesystems : store' = StoreOf(request, f)
            /\ phase' = "running"
       ELSE phase' = "refused" /\ UNCHANGED store
  /\ UNCHANGED <<request, told, approved, real, wrote, opened>>

-----------------------------------------------------------------------------
(* The guest *)

GuestWrite ==
  /\ phase = "running" /\ store.writable
  /\ wrote' = TRUE
  /\ UNCHANGED <<request, phase, told, approved, real, store, opened>>

GuestOpen(address, use) ==
  /\ phase = "running" /\ Lets(store.network, address, use)
  /\ opened' = opened \cup {[address |-> address, use |-> use]}
  /\ UNCHANGED <<request, phase, told, approved, real, store, wrote>>

GuestEnds ==
  /\ phase = "running"
  /\ phase' = "ended"
  /\ UNCHANGED <<request, told, approved, real, store, wrote, opened>>

Finished == phase \in {"ended", "refused"} /\ UNCHANGED vars

Next ==
  \/ \E n \in Names : AllowEnvironment(n)
  \/ \E p \in Ports : AllowLoopbackPort(p) \/ AllowLoopbackBindPort(p)
  \/ \E l \in AskedLimits : WithLimits(l)
  \/ AllowNativeExecution \/ StartNative \/ Submit \/ Rearrange
  \/ Classify \/ Approve \/ Deny \/ BuildStore
  \/ GuestWrite \/ GuestEnds
  \/ \E a \in Addresses, u \in Uses : GuestOpen(a, u)
  \/ Finished

Spec == Init /\ [][Next]_vars

-----------------------------------------------------------------------------
(* Properties *)

\* The types of the variables.  A grant that was built holds neither port 0 nor a
\* malformed name, in whatever order it was built.
TypeOK ==
  /\ request \in Requests /\ phase \in Phases /\ told \in Risks
  /\ approved \in BOOLEAN /\ real \in FileSystems
  /\ wrote \in BOOLEAN /\ opened \subseteq [address : Addresses, use : Uses]

\* Anything beyond reading is approved by a human (policy.rs, classify_risk), who
\* was told the gravest of what the guest then does: whoever approves access to
\* the environment approves no sockets, and whoever approves sockets no writing.
NothingGraverThanAsked ==
  /\ wrote => approved /\ told \in {"NativeExecution", "FilesystemWrite"}
  /\ opened # {} => approved /\ told \in Reasons \ {"EnvironmentAccess"}
  /\ store.environment # {} => approved

\* A guest writes, sees and reaches only what a builder of its grant let it:
\* ports to connect to are not ports to bind, port 0 never stands for any port,
\* and no address beyond the loopback is reached (NetworkPolicy::permits).
OnlyGranted ==
  /\ wrote => \E f \in request.grant.filesystems : f.access = "ReadWrite"
  /\ store.environment \subseteq request.grant.environment \ Malformed
  /\ \A s \in opened :
       /\ s.address.loopback /\ s.address.port # 0
       /\ \/ s.use = "TcpConnect" /\ s.address.port \in request.grant.loopback_ports
          \/ s.use = "TcpBind" /\ s.address.port \in request.grant.loopback_bind_ports

\* Whatever runs is a guest in a store, for a request that wanted one, and its
\* store is bounded in every resource: no limit is 0, which would mean nothing at
\* once or for ever, and its deadline does not come before its timeout, the longest
\* ones included, unless further off than can be counted (ResourceLimits,
\* set_epoch_deadline).
GuestBounded ==
  phase = "running" =>
    /\ request.mode = "Wasi"
    /\ store.output > 0 /\ store.memory > 0 /\ store.fuel > 0 /\ store.deadline > 0
    /\ store.deadline = MaxInt \/ store.deadline >= 10 * request.grant.limits.seconds

\* Wherever links led when it was submitted or approved, the guest starts in the
\* directory its request names or, if no String can hold the path of that below the
\* granted root, in the root; and it starts inside its preopen (build_store,
\* guest_path_for, allows_existing_path).
StartsInCwd ==
  phase = "running" =>
    LET started == Resolved(Rebase(store.cwd, Workspace, store.preopen))
    IN  /\ IsPrefix(store.preopen, started)
        /\ \A f \in request.grant.filesystems :
             started = IF IsUtf8(Below(request.cwd, f.root)) THEN Resolved(request.cwd)
                                                            ELSE store.preopen
=============================================================================
