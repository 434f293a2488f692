------------------------------- MODULE Ports -------------------------------
(***************************************************************************)
(* The host ports of shares (internal/netx, the Plan functions of          *)
(* internal/share, the forwards of internal/provider/qemu/args.go and      *)
(* docker.go).  Before its guest starts, every mount searches upwards from *)
(* the same first port for a run of consecutive free ports, opening and    *)
(* closing one port at a time.  Nothing is reserved: its guest binds the   *)
(* run later, or ends when a port of it has been taken meanwhile, if only  *)
(* by the probe of another search.                                         *)
(***************************************************************************)
EXTENDS Naturals

CONSTANTS
  Mounts,     \* the mounts that run on this host
  First,      \* firstPort: where every search starts
  MaxPort,    \* 0xffff
  Need,       \* Need[m]: 1 port for smb and sftp, 1 + ftpPassivePorts for ftp
  Foreign,    \* the ports that other programs use (all of them, or fewer for TLC)
  Nobody,     \* the owner of a free port
  Stranger    \* any process that is no mount of ours

ASSUME PortsAssumption ==
  /\ First \in Nat /\ MaxPort \in Nat
  /\ Need \in [Mounts -> Nat \ {0}]
  /\ Nobody \notin Mounts /\ Stranger \notin Mounts /\ Nobody # Stranger

VARIABLES
  owner,      \* owner[p]: who listens on port p
  stage,      \* stage[m]: where mount m is
  start,      \* start[m]: the first port of the run m looks at, or has found
  next,       \* next[m]: the port of that run m probes, or its guest binds, next
  steady,     \* history: the ports no one else has had since m's search began
  seen,       \* history: the ports that were free at some time of m's search
  fault       \* history: something came in between besides other mounts

vars == <<owner, stage, start, next, steady, seen, fault>>

Port == First .. MaxPort

Run(s, n) == s .. (s + n - 1)

(* Searching: between two probes; probing: its listener is open.  Found: Plan *)
(* has returned; up: the guest has bound every forward.  Lost: no port, or    *)
(* not all of them; over: ended after it was up.                              *)
Stages == {"searching", "probing", "found", "up", "lost", "over"}

Searches(m) == stage[m] \in {"searching", "probing"}

(* What the histories make of the owners a step leaves. *)
Watch ==
  /\ steady' = [m \in Mounts |->
       IF Searches(m) THEN {p \in steady[m] : owner'[p] \in {Nobody, m}} ELSE steady[m]]
  /\ seen' = [m \in Mounts |->
       IF Searches(m) THEN seen[m] \cup {p \in Port : owner'[p] \in {Nobody, m}} ELSE seen[m]]

Release(m) == [p \in Port |-> IF owner[p] = m THEN Nobody ELSE owner[p]]

Init ==
  /\ owner = [p \in Port |-> Nobody]
  /\ stage = [m \in Mounts |-> "searching"]
  /\ start = [m \in Mounts |-> First]
  /\ next = [m \in Mounts |-> First]
  /\ steady = [m \in Mounts |-> Port]
  /\ seen = [m \in Mounts |-> Port]
  /\ fault = FALSE

(***************************************************************************)
(* The search.                                                             *)
(***************************************************************************)

(* The loop condition of searchRange: start + n - 1 <= 0xffff.  The counter *)
(* is an int, so it goes past the last port instead of wrapping around.     *)
InRange(m) == start[m] + Need[m] - 1 <= MaxPort

Probe(m) ==
  /\ stage[m] = "searching" /\ InRange(m)
  /\ owner[next[m]] = Nobody
  /\ owner' = [owner EXCEPT ![next[m]] = m]
  /\ stage' = [stage EXCEPT ![m] = "probing"]
  /\ Watch
  /\ UNCHANGED <<start, next, fault>>

(* The probe's listener is closed: the next port of the run, or the end. *)
ProbeNext(m) ==
  /\ stage[m] = "probing" /\ next[m] < start[m] + Need[m] - 1
  /\ owner' = [owner EXCEPT ![next[m]] = Nobody]
  /\ stage' = [stage EXCEPT ![m] = "searching"]
  /\ next' = [next EXCEPT ![m] = @ + 1]
  /\ Watch
  /\ UNCHANGED <<start, fault>>

RunIsFree(m) ==
  /\ stage[m] = "probing" /\ next[m] = start[m] + Need[m] - 1
  /\ owner' = [owner EXCEPT ![next[m]] = Nobody]
  /\ stage' = [stage EXCEPT ![m] = "found"]
  /\ next' = [next EXCEPT ![m] = start[m]]
  /\ Watch
  /\ UNCHANGED <<start, fault>>

(* A plausible bug: the search goes on above the whole run. *)
SkipsRun(m) ==
  /\ stage[m] = "searching" /\ InRange(m)
  /\ owner[next[m]] # Nobody
  /\ start' = [start EXCEPT ![m] = @ + Need[m]]
  /\ next' = [next EXCEPT ![m] = start[m] + Need[m]]
  /\ UNCHANGED <<owner, stage, steady, seen, fault>>

(* EADDRINUSE: the search goes on one port above the start of this run, and *)
(* probes the ports it has already seen again.                              *)
PortIsTaken(m) ==
  /\ stage[m] = "searching" /\ InRange(m)
  /\ owner[next[m]] # Nobody
  /\ start' = [start EXCEPT ![m] = @ + 1]
  /\ next' = [next EXCEPT ![m] = start[m] + 1]
  /\ UNCHANGED <<owner, stage, steady, seen, fault>>

NoRun(m) ==
  /\ stage[m] = "searching" /\ ~InRange(m)
  /\ stage' = [stage EXCEPT ![m] = "lost"]
  /\ UNCHANGED <<owner, start, next, steady, seen, fault>>

(* Any other error of the probe ends the search and the command. *)
ProbeFails(m) ==
  /\ stage[m] = "searching" /\ InRange(m)
  /\ stage' = [stage EXCEPT ![m] = "lost"]
  /\ fault' = TRUE
  /\ UNCHANGED <<owner, start, next, steady, seen>>

(***************************************************************************)
(* The guest: QEMU binds its forwards one after the other before it boots, *)
(* docker publishes them before the container runs; both end when one      *)
(* cannot be bound.                                                        *)
(***************************************************************************)
(* A plausible bug: a port that is taken is bound all the same. *)
BindShared(m) ==
  /\ stage[m] = "found"
  /\ owner' = [owner EXCEPT ![next[m]] = m]
  /\ IF next[m] = start[m] + Need[m] - 1
       THEN stage' = [stage EXCEPT ![m] = "up"] /\ UNCHANGED next
       ELSE next' = [next EXCEPT ![m] = @ + 1] /\ UNCHANGED stage
  /\ Watch
  /\ UNCHANGED <<start, fault>>

Bind(m) ==
  /\ stage[m] = "found"
  /\ owner[next[m]] = Nobody
  /\ owner' = [owner EXCEPT ![next[m]] = m]
  /\ IF next[m] = start[m] + Need[m] - 1
       THEN stage' = [stage EXCEPT ![m] = "up"] /\ UNCHANGED next
       ELSE next' = [next EXCEPT ![m] = @ + 1] /\ UNCHANGED stage
  /\ Watch
  /\ UNCHANGED <<start, fault>>

(* A plausible bug: what was bound before the failure is kept. *)
BindFailsHolding(m) ==
  /\ stage[m] = "found"
  /\ owner[next[m]] # Nobody
  /\ stage' = [stage EXCEPT ![m] = "lost"]
  /\ UNCHANGED <<owner, start, next, fault>>
  /\ Watch

BindFails(m) ==
  /\ stage[m] = "found"
  /\ owner[next[m]] # Nobody
  /\ owner' = Release(m)
  /\ stage' = [stage EXCEPT ![m] = "lost"]
  /\ Watch
  /\ UNCHANGED <<start, next, fault>>

(* A mount ends after it was up, or gives up before (a signal, a passphrase *)
(* that is not given): its sockets go with its process.                     *)
End(m) ==
  /\ stage[m] \in {"searching", "probing", "found", "up"}
  /\ owner' = Release(m)
  /\ IF stage[m] = "up"
       THEN stage' = [stage EXCEPT ![m] = "over"] /\ UNCHANGED fault
       ELSE stage' = [stage EXCEPT ![m] = "lost"] /\ fault' = TRUE
  /\ Watch
  /\ UNCHANGED <<start, next>>

StrangerBinds(p) ==
  /\ p \in Foreign
  /\ owner[p] = Nobody
  /\ owner' = [owner EXCEPT ![p] = Stranger]
  /\ fault' = TRUE
  /\ Watch
  /\ UNCHANGED <<stage, start, next>>

StrangerCloses(p) ==
  /\ owner[p] = Stranger
  /\ owner' = [owner EXCEPT ![p] = Nobody]
  /\ Watch
  /\ UNCHANGED <<stage, start, next, fault>>

Search(m) ==
  Probe(m) \/ ProbeNext(m) \/ RunIsFree(m) \/ PortIsTaken(m) \/ NoRun(m) \/ ProbeFails(m)

Next ==
  \/ \E m \in Mounts : Search(m) \/ Bind(m) \/ BindFails(m) \/ End(m)
  \/ \E p \in Port : StrangerBinds(p) \/ StrangerCloses(p)

Spec == Init /\ [][Next]_vars

(***************************************************************************)
(* Properties.                                                             *)
(***************************************************************************)
TypeOK ==
  /\ owner \in [Port -> Mounts \cup {Nobody, Stranger}]
  /\ stage \in [Mounts -> Stages]
  /\ start \in [Mounts -> Nat]
  /\ next \in [Mounts -> Nat]
  /\ steady \in [Mounts -> SUBSET Port]
  /\ seen \in [Mounts -> SUBSET Port]
  /\ fault \in BOOLEAN

HasRun(m) == stage[m] \in {"found", "up", "over"}

(* Where a search ends, against the definition of what it looks for, although *)
(* ports change hands under it: the run it returns lies in the port range, up *)
(* to its very top, every port of it was free at some time of the search, and *)
(* no lower run stayed free throughout; a search that finds nothing has       *)
(* missed no run that stayed free (searchRange, runFree).                     *)
FoundIsFirst ==
  \A m \in Mounts : HasRun(m) =>
    /\ Run(start[m], Need[m]) \subseteq seen[m]
    /\ \A s \in First .. (start[m] - 1) : ~ (Run(s, Need[m]) \subseteq steady[m])

NoneMeansNone ==
  \A m \in Mounts : (stage[m] = "lost" /\ ~InRange(m)) =>
    \A s \in First .. MaxPort : s + Need[m] - 1 <= MaxPort
                     => ~ (Run(s, Need[m]) \subseteq steady[m])

SearchIsRight == FoundIsFirst /\ NoneMeansNone

(* Mounts that start at once never take the last chance from each other: when *)
(* nothing else interferes, one of them gets its ports, whatever order their  *)
(* probes and binds come in, if the port range has room for one at all        *)
(* (portFree, and the forwards bound at boot).                                *)
RoomForOne == \E m \in Mounts : First + Need[m] - 1 <= MaxPort

NotAllLost == (~fault /\ RoomForOne) => \E m \in Mounts : stage[m] # "lost"

(* A guest that is up listens on every port of its run, so that the address of *)
(* a share that is shown reaches that share and no other (smbURL, FTP.Start).  *)
UpIsBound ==
  \A m \in Mounts : stage[m] = "up" =>
    \A p \in Run(start[m], Need[m]) : p \in Port /\ owner[p] = m

(***************************************************************************)
(* The inductive invariant.                                                *)
(***************************************************************************)

(* What a mount holds: the port it probes, or what its guest has bound. *)
Holds(m) ==
  CASE stage[m] = "probing" -> {next[m]}
    [] stage[m] = "found" -> start[m] .. (next[m] - 1)
    [] stage[m] = "up" -> Run(start[m], Need[m])
    [] OTHER -> {}

OwnersAreRight ==
  /\ \A m \in Mounts : Holds(m) \subseteq Port
  /\ \A m \in Mounts, p \in Port : owner[p] = m <=> p \in Holds(m)

(* Where a mount is in its run. *)
PlacesAreRight ==
  \A m \in Mounts :
    /\ First <= start[m]
    /\ HasRun(m) \/ stage[m] = "probing" => InRange(m)
    /\ stage[m] # "lost" => next[m] \in Run(start[m], Need[m])

(* What the histories say of a search: ports others have now are not steady, *)
(* the ports of the run before the next one were free, and every run below   *)
(* the one it looks at was interrupted.                                      *)
HistoriesAreRight ==
  \A m \in Mounts :
    /\ Searches(m) => \A p \in steady[m] : owner[p] \in {Nobody, m}
    /\ Searches(m) => start[m] .. (next[m] - 1) \subseteq seen[m]
    /\ stage[m] = "probing" => next[m] \in seen[m]
    /\ HasRun(m) => Run(start[m], Need[m]) \subseteq seen[m]
    /\ \A s \in First .. (start[m] - 1) : ~ (Run(s, Need[m]) \subseteq steady[m])

(* A mount has a chance as long as its search is in range. *)
HasChance(m) == stage[m] # "lost" /\ InRange(m)

ChanceIsLeft ==
  ~fault =>
    /\ \A p \in Port : owner[p] # Stranger
    /\ RoomForOne => \E m \in Mounts : HasChance(m)

IInv == TypeOK /\ OwnersAreRight /\ PlacesAreRight /\ HistoriesAreRight /\ ChanceIsLeft
=============================================================================
