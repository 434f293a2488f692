---------------------------- MODULE PortsProofs ----------------------------
(***************************************************************************)
(* Proofs about Ports, for any number of mounts, runs of any length and    *)
(* any range of ports: one lemma per action, one step per part of IInv.    *)
(***************************************************************************)
EXTENDS Ports, TLAPS

USE PortsAssumption DEF Port, Run

(* A run has a first port. *)
LEMMA NeedIsPositive == \A m \in Mounts : Need[m] \in Nat /\ Need[m] >= 1
BY SMT

LEMMA InitHolds == Init => IInv
<1> SUFFICES ASSUME Init PROVE IInv
  OBVIOUS
<1>1. TypeOK
  BY DEF Init, TypeOK, Stages
<1>2. \A m \in Mounts : stage[m] = "searching" /\ start[m] = First /\ next[m] = First
  BY DEF Init
<1>3. OwnersAreRight
  BY DEF Init, OwnersAreRight, Holds
<1>4. PlacesAreRight
  <2> SUFFICES ASSUME NEW m \in Mounts
               PROVE  /\ First <= start[m]
                      /\ stage[m] = "searching"
                      /\ next[m] \in Run(start[m], Need[m])
    BY DEF PlacesAreRight, HasRun
  <2>1. Need[m] \in Nat /\ Need[m] >= 1
    BY NeedIsPositive
  <2>2. next[m] = First /\ start[m] = First
    BY <1>2
  <2> QED
    BY <1>2, <2>1, <2>2
<1>5. HistoriesAreRight
  <2> SUFFICES ASSUME NEW m \in Mounts
               PROVE  /\ \A p \in steady[m] : owner[p] = Nobody
                      /\ start[m] .. (next[m] - 1) \subseteq seen[m]
                      /\ \A s \in First .. (start[m] - 1) : ~ (Run(s, Need[m]) \subseteq steady[m])
    BY <1>2 DEF HistoriesAreRight, Searches, HasRun
  <2> QED
    BY <1>2 DEF Init
<1>6. ChanceIsLeft
  BY DEF Init, ChanceIsLeft, RoomForOne, HasChance, InRange
<1> QED
  BY <1>1, <1>3, <1>4, <1>5, <1>6 DEF IInv

-----------------------------------------------------------------------------
(* What Watch does to the histories. *)
LEMMA Watched ==
  ASSUME TypeOK, Watch, NEW k \in Mounts
  PROVE  /\ steady'[k] \subseteq steady[k]
         /\ seen[k] \subseteq seen'[k]
         /\ Searches(k) => \A p \in steady'[k] : owner'[p] \in {Nobody, k}
         /\ Searches(k) => \A p \in Port : owner'[p] \in {Nobody, k} => p \in seen'[k]
BY DEF TypeOK, Watch

-----------------------------------------------------------------------------
(* The search. *)

LEMMA ProbeHolds == ASSUME NEW m \in Mounts, IInv, Probe(m) PROVE IInv'
<1> USE NeedIsPositive DEF IInv, Probe, InRange
<1>0. next[m] \in Port
  BY DEF PlacesAreRight, TypeOK
<1>1. TypeOK'
  BY <1>0 DEF TypeOK, Stages, Watch, Searches
<1>2. OwnersAreRight'
  BY <1>0 DEF OwnersAreRight, Holds, TypeOK
<1>3. PlacesAreRight'
  BY DEF PlacesAreRight, HasRun, TypeOK
<1>4. HistoriesAreRight'
  BY <1>0 DEF HistoriesAreRight, Searches, HasRun, Watch, TypeOK, PlacesAreRight
<1>5. ChanceIsLeft'
  BY <1>0 DEF ChanceIsLeft, RoomForOne, HasChance, TypeOK
<1> QED
  BY <1>1, <1>2, <1>3, <1>4, <1>5

LEMMA ProbeNextHolds == ASSUME NEW m \in Mounts, IInv, ProbeNext(m) PROVE IInv'
<1> USE NeedIsPositive DEF IInv, ProbeNext, InRange
<1>0. next[m] \in Port /\ owner[next[m]] = m
  BY DEF PlacesAreRight, OwnersAreRight, Holds, TypeOK
<1>1. TypeOK'
  BY <1>0 DEF TypeOK, Stages, Watch, Searches
<1>2. OwnersAreRight'
  <2>1. Holds(m) = {next[m]} /\ Holds(m)' = {}
    BY DEF Holds, TypeOK
  <2>2. \A k \in Mounts \ {m} : Holds(k)' = Holds(k)
    BY DEF Holds, TypeOK
  <2>3. \A p \in Port : owner'[p] = IF p = next[m] THEN Nobody ELSE owner[p]
    BY DEF TypeOK
  <2> QED
    BY <1>0, <2>1, <2>2, <2>3 DEF OwnersAreRight
<1>3. PlacesAreRight'
  BY DEF PlacesAreRight, HasRun, TypeOK
<1>4. HistoriesAreRight'
  BY <1>0 DEF HistoriesAreRight, Searches, HasRun, Watch, TypeOK, PlacesAreRight
<1>5. ChanceIsLeft'
  BY <1>0 DEF ChanceIsLeft, RoomForOne, HasChance, TypeOK
<1> QED
  BY <1>1, <1>2, <1>3, <1>4, <1>5

LEMMA RunIsFreeHolds == ASSUME NEW m \in Mounts, IInv, RunIsFree(m) PROVE IInv'
<1> USE NeedIsPositive DEF IInv, RunIsFree, InRange
<1>0. next[m] \in Port /\ owner[next[m]] = m
  BY DEF PlacesAreRight, OwnersAreRight, Holds, TypeOK
<1>1. TypeOK'
  BY <1>0 DEF TypeOK, Stages, Watch, Searches
<1>2. OwnersAreRight'
  <2>1. Holds(m) = {next[m]} /\ Holds(m)' = {}
    BY DEF Holds, TypeOK
  <2>2. \A k \in Mounts \ {m} : Holds(k)' = Holds(k)
    BY DEF Holds, TypeOK
  <2>3. \A p \in Port : owner'[p] = IF p = next[m] THEN Nobody ELSE owner[p]
    BY DEF TypeOK
  <2> QED
    BY <1>0, <2>1, <2>2, <2>3 DEF OwnersAreRight
<1>3. PlacesAreRight'
  BY DEF PlacesAreRight, HasRun, TypeOK
<1>4. HistoriesAreRight'
  BY <1>0 DEF HistoriesAreRight, Searches, HasRun, Watch, TypeOK, PlacesAreRight
<1>5. ChanceIsLeft'
  BY <1>0 DEF ChanceIsLeft, RoomForOne, HasChance, TypeOK
<1> QED
  BY <1>1, <1>2, <1>3, <1>4, <1>5

(* The mount that has the port in the way still has its chance. *)
LEMMA HolderHasChance ==
  ASSUME IInv, ~fault, NEW p \in Port, owner[p] # Nobody
  PROVE  \E k \in Mounts : k = owner[p] /\ p \in Holds(k) /\ HasChance(k)
<1>1. owner[p] \in Mounts
  BY DEF IInv, TypeOK, ChanceIsLeft
<1>2. p \in Holds(owner[p])
  BY <1>1 DEF IInv, OwnersAreRight
<1>3. stage[owner[p]] \in {"probing", "found", "up"}
  BY <1>2 DEF Holds
<1> QED
  BY <1>1, <1>2, <1>3 DEF IInv, PlacesAreRight, HasRun, HasChance

LEMMA PortIsTakenHolds == ASSUME NEW m \in Mounts, IInv, PortIsTaken(m) PROVE IInv'
<1> USE NeedIsPositive DEF IInv, PortIsTaken, InRange
<1>0. next[m] \in Port /\ owner[next[m]] # m
  <2>1. next[m] \in Run(start[m], Need[m]) /\ First <= start[m] /\ start[m] \in Nat
    BY DEF PlacesAreRight, TypeOK
  <2>2. next[m] \in Port
    BY <2>1
  <2>3. Holds(m) = {}
    BY DEF Holds
  <2> QED
    BY <2>2, <2>3 DEF OwnersAreRight
<1>1. TypeOK'
  BY <1>0 DEF TypeOK, Stages
<1>2. OwnersAreRight'
  BY <1>0 DEF OwnersAreRight, Holds, TypeOK
<1>3. PlacesAreRight'
  BY DEF PlacesAreRight, HasRun, TypeOK
<1>4. HistoriesAreRight'
  <2>1. ~ (Run(start[m], Need[m]) \subseteq steady[m])
    BY <1>0 DEF HistoriesAreRight, Searches, PlacesAreRight
  <2>2. \A s \in First .. (start'[m] - 1) : ~ (Run(s, Need[m]) \subseteq steady'[m])
    <3>1. start[m] \in Nat /\ start'[m] = start[m] + 1 /\ steady' = steady
      BY DEF TypeOK
    <3>2. \A s \in First .. (start'[m] - 1) : s = start[m] \/ s \in First .. (start[m] - 1)
      BY <3>1
    <3> QED
      BY <2>1, <3>1, <3>2 DEF HistoriesAreRight
  <2>3. start'[m] .. (next'[m] - 1) = {}
    BY DEF TypeOK
  <2>4. \A k \in Mounts \ {m} : start'[k] = start[k] /\ next'[k] = next[k]
    BY DEF TypeOK
  <2> QED
    BY <2>2, <2>3, <2>4 DEF HistoriesAreRight, Searches, HasRun
<1>5. ChanceIsLeft'
  <2> SUFFICES ASSUME ~fault PROVE \E k \in Mounts : HasChance(k)'
    BY DEF ChanceIsLeft
  <2>1. PICK k \in Mounts : k = owner[next[m]] /\ HasChance(k)
    BY <1>0, HolderHasChance
  <2> QED
    BY <1>0, <2>1 DEF HasChance, TypeOK
<1> QED
  BY <1>1, <1>2, <1>3, <1>4, <1>5

LEMMA NoRunHolds == ASSUME NEW m \in Mounts, IInv, NoRun(m) PROVE IInv'
<1> USE NeedIsPositive DEF IInv, NoRun
<1>1. TypeOK'
  BY DEF TypeOK, Stages
<1>2. OwnersAreRight'
  BY DEF OwnersAreRight, Holds, TypeOK
<1>3. PlacesAreRight'
  BY DEF PlacesAreRight, HasRun, TypeOK, InRange
<1>4. HistoriesAreRight'
  BY DEF HistoriesAreRight, Searches, HasRun, TypeOK
<1>5. ChanceIsLeft'
  BY DEF ChanceIsLeft, RoomForOne, HasChance, InRange, TypeOK
<1> QED
  BY <1>1, <1>2, <1>3, <1>4, <1>5

LEMMA ProbeFailsHolds == ASSUME NEW m \in Mounts, IInv, ProbeFails(m) PROVE IInv'
<1> USE NeedIsPositive DEF IInv, ProbeFails
<1>1. TypeOK'
  BY DEF TypeOK, Stages
<1>2. OwnersAreRight'
  BY DEF OwnersAreRight, Holds, TypeOK
<1>3. PlacesAreRight'
  BY DEF PlacesAreRight, HasRun, TypeOK, InRange
<1>4. HistoriesAreRight'
  BY DEF HistoriesAreRight, Searches, HasRun, TypeOK
<1>5. ChanceIsLeft'
  BY DEF ChanceIsLeft
<1> QED
  BY <1>1, <1>2, <1>3, <1>4, <1>5

-----------------------------------------------------------------------------
(* The guest. *)

LEMMA BindHolds == ASSUME NEW m \in Mounts, IInv, Bind(m) PROVE IInv'
<1> USE NeedIsPositive DEF IInv, Bind, InRange
<1>0. next[m] \in Port /\ next[m] \in Run(start[m], Need[m])
  BY DEF PlacesAreRight, HasRun, TypeOK
<1>1. TypeOK'
  <2>1. steady' \in [Mounts -> SUBSET Port] /\ seen' \in [Mounts -> SUBSET Port]
    BY DEF TypeOK, Watch
  <2>2. stage' \in [Mounts -> Stages]
    BY DEF TypeOK, Stages
  <2>3. next[m] + 1 \in Nat
    BY DEF TypeOK
  <2>4. next' \in [Mounts -> Nat]
    BY <2>3 DEF TypeOK
  <2> QED
    BY <1>0, <2>1, <2>2, <2>4 DEF TypeOK
<1>2. OwnersAreRight'
  <2>1. Holds(m)' = Holds(m) \cup {next[m]}
    BY <1>0 DEF Holds, TypeOK
  <2>2. \A k \in Mounts \ {m} : Holds(k)' = Holds(k)
    BY DEF Holds, TypeOK
  <2>3. \A p \in Port : owner'[p] = IF p = next[m] THEN m ELSE owner[p]
    BY DEF TypeOK
  <2> QED
    BY <1>0, <2>1, <2>2, <2>3 DEF OwnersAreRight
<1>3. PlacesAreRight'
  <2>1. \A k \in Mounts \ {m} : stage'[k] = stage[k] /\ next'[k] = next[k]
    BY DEF TypeOK
  <2>2. next'[m] \in Run(start[m], Need[m]) /\ start[m] + Need[m] - 1 <= MaxPort
    <3>1. start[m] \in Nat /\ next[m] \in Nat /\ Need[m] \in Nat
      BY DEF TypeOK
    <3>2. next'[m] = next[m] \/ (next[m] # start[m] + Need[m] - 1 /\ next'[m] = next[m] + 1)
      BY DEF TypeOK
    <3> QED
      BY <1>0, <3>1, <3>2 DEF PlacesAreRight, HasRun
  <2> QED
    BY <2>1, <2>2 DEF PlacesAreRight, HasRun
<1>4. HistoriesAreRight'
  BY <1>0 DEF HistoriesAreRight, Searches, HasRun, Watch, TypeOK, PlacesAreRight
<1>5. ChanceIsLeft'
  BY <1>0 DEF ChanceIsLeft, RoomForOne, HasChance, TypeOK
<1> QED
  BY <1>1, <1>2, <1>3, <1>4, <1>5

(* A mount that ends gives back what it holds, and no more. *)
LEMMA ReleaseHolds ==
  ASSUME NEW m \in Mounts, IInv, owner' = Release(m), stage'[m] \in {"lost", "over"},
         \A k \in Mounts \ {m} : stage'[k] = stage[k],
         start' = start, next' = next
  PROVE  OwnersAreRight'
<1>1. Holds(m)' = {}
  BY DEF Holds
<1>2. \A k \in Mounts \ {m} : Holds(k)' = Holds(k)
  BY DEF Holds
<1>3. \A p \in Port : owner'[p] = IF owner[p] = m THEN Nobody ELSE owner[p]
  BY DEF Release
<1> QED
  BY <1>1, <1>2, <1>3 DEF IInv, OwnersAreRight

LEMMA BindFailsHolds == ASSUME NEW m \in Mounts, IInv, BindFails(m) PROVE IInv'
<1> USE NeedIsPositive DEF IInv, BindFails
<1>0. next[m] \in Port /\ next[m] \notin Holds(m)
  BY DEF PlacesAreRight, HasRun, InRange, Holds, TypeOK
<1>1. TypeOK'
  BY DEF TypeOK, Stages, Watch, Searches, Release
<1>2. OwnersAreRight'
  BY ReleaseHolds DEF TypeOK
<1>3. PlacesAreRight'
  BY DEF PlacesAreRight, HasRun, TypeOK, InRange
<1>4. HistoriesAreRight'
  <2>1. \A k \in Mounts : /\ Searches(k)' => Searches(k)
                          /\ stage'[k] = "probing" => stage[k] = "probing"
                          /\ HasRun(k)' => HasRun(k)
    BY DEF Searches, HasRun, TypeOK
  <2> QED
    BY <2>1, Watched DEF HistoriesAreRight
<1>5. ChanceIsLeft'
  <2> SUFFICES ASSUME ~fault
               PROVE  /\ \A p \in Port : owner'[p] # Stranger
                      /\ \E k \in Mounts : HasChance(k)'
    BY DEF ChanceIsLeft
  <2>1. PICK k \in Mounts : k = owner[next[m]] /\ next[m] \in Holds(k) /\ HasChance(k)
    BY <1>0, HolderHasChance
  <2>2. k # m
    BY <1>0, <2>1
  <2> QED
    BY <2>1, <2>2 DEF HasChance, InRange, ChanceIsLeft, Release, TypeOK
<1> QED
  BY <1>1, <1>2, <1>3, <1>4, <1>5

LEMMA EndHolds == ASSUME NEW m \in Mounts, IInv, End(m) PROVE IInv'
<1> USE NeedIsPositive DEF IInv, End
<1>1. TypeOK'
  BY DEF TypeOK, Stages, Watch, Searches, Release
<1>2. OwnersAreRight'
  BY ReleaseHolds DEF TypeOK
<1>3. PlacesAreRight'
  BY DEF PlacesAreRight, HasRun, TypeOK, InRange
<1>4. HistoriesAreRight'
  <2>1. \A k \in Mounts : /\ Searches(k)' => Searches(k)
                          /\ stage'[k] = "probing" => stage[k] = "probing"
                          /\ HasRun(k)' => HasRun(k)
    BY DEF Searches, HasRun, TypeOK
  <2> QED
    BY <2>1, Watched DEF HistoriesAreRight
<1>5. ChanceIsLeft'
  <2> SUFFICES ASSUME ~fault', ~fault, stage[m] = "up"
               PROVE  /\ \A p \in Port : owner'[p] # Stranger
                      /\ \E k \in Mounts : HasChance(k)'
    BY DEF ChanceIsLeft, TypeOK
  <2>1. InRange(m)
    BY DEF PlacesAreRight, HasRun
  <2> QED
    BY <2>1 DEF HasChance, InRange, ChanceIsLeft, Release, TypeOK
<1> QED
  BY <1>1, <1>2, <1>3, <1>4, <1>5

-----------------------------------------------------------------------------
(* The other programs. *)

LEMMA StrangerBindsHolds == ASSUME NEW p \in Port, IInv, StrangerBinds(p) PROVE IInv'
<1> USE DEF IInv, StrangerBinds
<1>1. TypeOK'
  BY DEF TypeOK, Watch, Searches
<1>2. OwnersAreRight'
  BY DEF OwnersAreRight, Holds, TypeOK
<1>3. PlacesAreRight'
  BY DEF PlacesAreRight, HasRun, InRange
<1>4. HistoriesAreRight'
  BY DEF HistoriesAreRight, Searches, HasRun, Watch, TypeOK
<1>5. ChanceIsLeft'
  BY DEF ChanceIsLeft
<1> QED
  BY <1>1, <1>2, <1>3, <1>4, <1>5

LEMMA StrangerClosesHolds == ASSUME NEW p \in Port, IInv, StrangerCloses(p) PROVE IInv'
<1> USE DEF IInv, StrangerCloses
<1>1. TypeOK'
  BY DEF TypeOK, Watch, Searches
<1>2. OwnersAreRight'
  BY DEF OwnersAreRight, Holds, TypeOK
<1>3. PlacesAreRight'
  BY DEF PlacesAreRight, HasRun, InRange
<1>4. HistoriesAreRight'
  BY DEF HistoriesAreRight, Searches, HasRun, Watch, TypeOK
<1>5. ChanceIsLeft'
  BY DEF ChanceIsLeft, RoomForOne, HasChance, InRange, TypeOK
<1> QED
  BY <1>1, <1>2, <1>3, <1>4, <1>5

-----------------------------------------------------------------------------
(* The inductive invariant: who listens where, where every search is, what   *)
(* its history shows, and that someone still has a chance (searchRange,      *)
(* runFree, the forwards).                                                   *)
THEOREM PortsInvariantHolds == Spec => []IInv
<1>1. IInv /\ [Next]_vars => IInv'
  <2> SUFFICES ASSUME IInv, [Next]_vars PROVE IInv'
    OBVIOUS
  <2>1. ASSUME NEW m \in Mounts, Search(m) PROVE IInv'
    BY <2>1, ProbeHolds, ProbeNextHolds, RunIsFreeHolds, PortIsTakenHolds, NoRunHolds,
       ProbeFailsHolds DEF Search
  <2>2. ASSUME NEW m \in Mounts, Bind(m) \/ BindFails(m) \/ End(m) PROVE IInv'
    BY <2>2, BindHolds, BindFailsHolds, EndHolds
  <2>3. ASSUME NEW p \in Port, StrangerBinds(p) \/ StrangerCloses(p) PROVE IInv'
    BY <2>3, StrangerBindsHolds, StrangerClosesHolds
  <2>4. CASE UNCHANGED vars
    BY <2>4 DEF vars, IInv, TypeOK, OwnersAreRight, Holds, PlacesAreRight, HasRun, InRange,
       HistoriesAreRight, Searches, ChanceIsLeft, RoomForOne, HasChance
  <2> QED
    BY <2>1, <2>2, <2>3, <2>4 DEF Next
<1> QED
  BY <1>1, InitHolds, PTL DEF Spec

(* A search returns the lowest run that stayed free, and only ports that were *)
(* free; one that finds nothing has missed nothing (FreePortRange).           *)
THEOREM SearchIsCorrect == Spec => []SearchIsRight
<1>1. IInv => SearchIsRight
  <2> SUFFICES ASSUME IInv, NEW m \in Mounts
               PROVE  /\ HasRun(m) =>
                         /\ Run(start[m], Need[m]) \subseteq seen[m]
                         /\ \A s \in First .. (start[m] - 1) : ~ (Run(s, Need[m]) \subseteq steady[m])
                      /\ ~InRange(m) =>
                         \A s \in First .. MaxPort : s + Need[m] - 1 <= MaxPort
                             => ~ (Run(s, Need[m]) \subseteq steady[m])
    BY DEF SearchIsRight, FoundIsFirst, NoneMeansNone
  <2>1. \A s \in First .. (start[m] - 1) : ~ (Run(s, Need[m]) \subseteq steady[m])
    BY DEF IInv, HistoriesAreRight
  <2>2. HasRun(m) => Run(start[m], Need[m]) \subseteq seen[m]
    BY DEF IInv, HistoriesAreRight
  <2>3. start[m] \in Nat /\ Need[m] \in Nat
    BY NeedIsPositive DEF IInv, TypeOK
  <2> QED
    BY <2>1, <2>2, <2>3 DEF InRange
<1> QED
  BY <1>1, PortsInvariantHolds, PTL

(* However the searches and guests of mounts get in each other's way, one of *)
(* them gets its ports.                                                      *)
THEOREM OneGetsItsPorts == Spec => []NotAllLost
<1>1. IInv => NotAllLost
  BY DEF IInv, ChanceIsLeft, HasChance, NotAllLost
<1> QED
  BY <1>1, PortsInvariantHolds, PTL

(* The address of a share that is up is its own. *)
THEOREM UpIsItsOwn == Spec => []UpIsBound
<1>1. IInv => UpIsBound
  BY DEF IInv, OwnersAreRight, Holds, UpIsBound
<1> QED
  BY <1>1, PortsInvariantHolds, PTL
=============================================================================
