---------------------------- MODULE LayersProofs ----------------------------
(***************************************************************************)
(* Proofs about the layers over the disks, for any number of commands and  *)
(* whatever they are for.  Two arguments: a layer that is in use is closed *)
(* by nobody, so what is under a mounted file system stays; and a layer    *)
(* whose turn in the teardown is past is gone, or a fault tells why.       *)
(***************************************************************************)
EXTENDS Layers, TLAPS

(* What a command does, or may still do late, is what it is for; nothing    *)
(* is over its disk that the disk does not hold.                            *)
StepsAreWanted ==
  \A g \in Guest :
    /\ at[g] \in Task => at[g] \in Wanted(g)
    /\ late[g] \subseteq Wanted(g)

LayersAreOwn == \A g \in Guest : open[g] \subseteq errand[g].disk \cup {"loop", "mount"}

(* A layer is gone once the teardown had its turn at it.  Only the loop     *)
(* device may go with the container.                                        *)
UndoneInTurn ==
  \A g \in Guest, l \in Layer :
    Rank[at[g]] > Rank[UndoneBy[l]] /\ l \in open[g]
      => faults[g] # {} \/ (l = "loop" /\ at[g] = "stop" /\ cleared[g])

LInv == TypeOK /\ StepsAreWanted /\ LayersAreOwn /\ ServedIsWhole /\ UndoneInTurn

-----------------------------------------------------------------------------
(* Names and their order.                                                   *)

LEMMA RankValues ==
  /\ Rank["attach"] = 1 /\ Rank["activate"] = 2 /\ Rank["container"] = 3
  /\ Rank["scan"] = 4 /\ Rank["look"] = 5 /\ Rank["format"] = 6 /\ Rank["volume"] = 7
  /\ Rank["make"] = 8 /\ Rank["mount"] = 9 /\ Rank["serve"] = 10 /\ Rank["close"] = 11
  /\ Rank["umount"] = 12 /\ Rank["closeVolume"] = 13 /\ Rank["deactivate"] = 14
  /\ Rank["closeContainer"] = 15 /\ Rank["detach"] = 16 /\ Rank["stop"] = 17
  /\ Rank["over"] = 18
BY DEF Rank

LEMMA StepNames ==
  Step = {"attach", "activate", "container", "scan", "look", "format", "volume", "make", "mount",
          "serve", "close", "umount", "closeVolume", "deactivate", "closeContainer",
          "detach", "stop", "over"}
BY DEF Step, Rank

LEMMA TaskNames ==
  Task = {"attach", "activate", "container", "scan", "look", "format", "volume", "make", "mount",
          "serve", "close"}
BY RankValues, StepNames DEF Task

LEMMA TeardownNames ==
  Teardown = {"umount", "closeVolume", "deactivate", "closeContainer", "detach", "stop"}
BY RankValues, StepNames DEF Teardown

LEMMA RanksAreNumbers == \A s \in Step : Rank[s] \in Nat
BY RankValues, StepNames

LEMMA Turns ==
  /\ \A l \in Layer : Rank[UndoneBy[l]] \in {12, 13, 14, 15, 16}
  /\ Rank[UndoneBy["mount"]] = 12 /\ Rank[UndoneBy["volume"]] = 13
  /\ Rank[UndoneBy["lvm"]] = 14 /\ Rank[UndoneBy["container"]] = 15
  /\ Rank[UndoneBy["loop"]] = 16
BY RankValues DEF UndoneBy, Layer, Mapped

(* The layers under a mount.                                                *)
LEMMA MountIsOnTop ==
  /\ \A l \in Mapped \cup {"loop"} : "mount" \in Above[l]
  /\ Above["volume"] = {"mount"}
  /\ Above["lvm"] = {"volume", "mount"}
  /\ Above["container"] = {"lvm", "volume", "mount"}
BY DEF Above, Mapped

LEMMA WantedIsPlanned ==
  ASSUME TypeOK, NEW g \in Guest
  PROVE  /\ Wanted(g) \subseteq Task
         /\ "container" \in Wanted(g) => "container" \in errand[g].disk
         /\ "volume" \in Wanted(g) => "volume" \in errand[g].disk
         /\ "serve" \in Wanted(g) => "mount" \in Wanted(g)
         /\ errand[g].disk \subseteq Mapped
<1>1. errand[g] \in [job : {"run", "ls", "create"}, disk : SUBSET Mapped]
  BY LayersAssumption DEF TypeOK
<1>2. QED BY <1>1, TaskNames DEF Wanted, ContainerSteps, MountSteps, FormatSteps

(* A command goes through its steps and the teardown's in their order, skips *)
(* none of the teardown, and serves nothing it has not mounted.             *)
LEMMA NextStep ==
  ASSUME TypeOK, NEW g \in Guest, NEW s \in After(g)
  PROVE  /\ s \in Step
         /\ at[g] \in Task => Rank[s] <= 12
         /\ \A t \in Teardown : at[g] = t => Rank[s] <= Rank[t] + 1
         /\ s \in Task => s \in Wanted(g)
         /\ s = "serve" => at[g] = "mount"
<1> DEFINE ahead == {t \in Wanted(g) \cup Teardown \cup {"over"} : Rank[t] > Rank[at[g]]}
<1>1. /\ s \in ahead
      /\ \A t \in ahead : Rank[s] <= Rank[t]
  BY DEF After
<1>2. at[g] \in Step /\ Wanted(g) \subseteq Task
  BY WantedIsPlanned DEF TypeOK
<1>3. s \in Step /\ (s \in Task => s \in Wanted(g))
  BY <1>1, <1>2, StepNames, TaskNames, TeardownNames
<1>4. at[g] \in Task => Rank[s] <= 12
  BY <1>1, RankValues, TaskNames, TeardownNames
<1>5. \A t \in Teardown : at[g] = t => Rank[s] <= Rank[t] + 1
  BY <1>1, RankValues, TeardownNames
<1>6. ASSUME s = "serve" PROVE at[g] = "mount"
  <2>1. "mount" \in Wanted(g)
    BY <1>3, <1>6, WantedIsPlanned, TaskNames
  <2>2. ~(Rank["mount"] > Rank[at[g]])
    BY <1>1, <1>6, <2>1, RankValues
  <2>3. QED BY <1>1, <1>2, <1>6, <2>2, RankValues, StepNames
<1>7. QED BY <1>3, <1>4, <1>5, <1>6

-----------------------------------------------------------------------------
(* What the kernel's operations do to everybody's layers.                   *)

Typed == open' \in [Guest -> SUBSET Layer] /\ faults' \in [Guest -> SUBSET Fault]

Exclusive(o) ==
  \A l \in {"container", "volume"}, g, h \in Guest : l \in o[g] /\ l \in o[h] => g = h

(* What is left behind the teardown is explained.                           *)
Due ==
  \A h \in Guest, k \in Layer :
    Rank[at[h]] > Rank[UndoneBy[k]] /\ k \in open'[h]
      => faults'[h] # {} \/ (k = "loop" /\ at[h] = "stop" /\ cleared[h])

LEMMA AppearsAdds ==
  ASSUME TypeOK, UndoneInTurn, NEW l \in Layer, NEW where \in SUBSET Guest, Appears(l, where)
  PROVE  /\ Typed
         /\ \A h \in Guest : open'[h] = IF h \in where THEN open[h] \cup {l} ELSE open[h]
         /\ Due
BY DEF Appears, TypeOK, Typed, UndoneInTurn, Due, Fault

(* Closing takes layers away, never from under a mount.                     *)
LEMMA RemoveSpares ==
  ASSUME TypeOK, NEW l \in Mapped, NEW seen \in SUBSET Guest, Remove(l, seen)
  PROVE  /\ open' \in [Guest -> SUBSET Layer]
         /\ \A h \in Guest : open'[h] \subseteq open[h]
         /\ \A h \in Guest : "mount" \in open[h] => open'[h] = open[h]
BY MountIsOnTop DEF Remove, Without, Unused, TypeOK, Mapped

(* What every action keeps of the layers; the rest is about the steps.      *)
LayersKept ==
  /\ Typed
  /\ Exclusive(open')
  /\ \A h \in Guest : open'[h] \subseteq errand[h].disk \cup {"loop", "mount"}
  /\ \A h \in Guest : at[h] = "serve" => open[h] \subseteq open'[h]
  /\ Due

LEMMA LessIsKept ==
  ASSUME LInv,
         open' \in [Guest -> SUBSET Layer], faults' \in [Guest -> SUBSET Fault],
         \A h \in Guest : faults[h] \subseteq faults'[h],
         \A h \in Guest : open'[h] \subseteq open[h],
         \A h \in Guest : "mount" \in open[h] => open'[h] = open[h]
  PROVE  LayersKept
BY DEF LayersKept, LInv, TypeOK, Typed, Exclusive, LayersAreOwn, ServedIsWhole, UndoneInTurn, Due

LEMMA SameIsKept ==
  ASSUME LInv, UNCHANGED <<open, faults>>
  PROVE  LayersKept
BY DEF LayersKept, LInv, TypeOK, Typed, Exclusive, LayersAreOwn, ServedIsWhole, UndoneInTurn, Due

LEMMA AppearsIsKept ==
  ASSUME LInv, NEW l \in Layer, NEW where \in SUBSET Guest, Appears(l, where),
         \A h \in where : l \in errand[h].disk \cup {"loop", "mount"},
         l \in {"container", "volume"} =>
           (\A h \in Guest : l \notin open[h]) /\ (\E g \in Guest : where = {g})
  PROVE  LayersKept
<1>1. /\ Typed
      /\ \A h \in Guest : open'[h] = IF h \in where THEN open[h] \cup {l} ELSE open[h]
      /\ Due
  BY AppearsAdds DEF LInv
<1>2. Exclusive(open')
  <2>1. SUFFICES ASSUME NEW k \in {"container", "volume"}, NEW g \in Guest, NEW h \in Guest,
                        k \in open'[g], k \in open'[h]
                 PROVE  g = h
    BY DEF Exclusive
  <2>2. CASE k = l
    <3>1. g \in where /\ h \in where
      BY <1>1, <2>1, <2>2
    <3>2. QED BY <2>2, <3>1
  <2>3. CASE k # l
    <3>1. k \in open[g] /\ k \in open[h]
      BY <1>1, <2>1, <2>3
    <3>2. QED BY <3>1 DEF LInv, TypeOK
  <2>4. QED BY <2>2, <2>3
<1>3. \A h \in Guest : open'[h] \subseteq errand[h].disk \cup {"loop", "mount"}
  <2>1. TAKE h \in Guest
  <2>2. open[h] \subseteq errand[h].disk \cup {"loop", "mount"}
    BY DEF LInv, LayersAreOwn
  <2>3. QED BY <1>1, <2>2
<1>4. \A h \in Guest : open[h] \subseteq open'[h]
  BY <1>1
<1>5. QED
  BY <1>1, <1>2, <1>3, <1>4 DEF LayersKept

(* A step of a command, in its turn or late.                                *)
LEMMA DoesIsKept ==
  ASSUME LInv, NEW g \in Guest, NEW s \in Wanted(g), Does(g, s)
  PROVE  /\ LayersKept
         /\ s = "mount" => errand[g].disk \cup {"loop", "mount"} \subseteq open'[g]
<1> USE DEF LInv
<1>1. CASE s = "attach"
  BY <1>1, AppearsIsKept DEF Does, Layer
<1>2. CASE s \in {"activate", "scan"}
  <2>1. PICK others \in SUBSET Guest : ActivateLVM(others \cup {g})
    BY <1>2 DEF Does
  <2> DEFINE where == {h \in others \cup {g} : "lvm" \in errand[h].disk /\ Reachable(h, "lvm")}
  <2>2. Appears("lvm", where) /\ where \in SUBSET Guest
    BY <2>1 DEF ActivateLVM
  <2>3. \A h \in where : "lvm" \in errand[h].disk
    OBVIOUS
  <2> HIDE DEF where
  <2>4. LayersKept
    BY <2>2, <2>3, AppearsIsKept DEF Layer, Mapped
  <2>5. QED BY <1>2, <2>4
<1>3. CASE s \in {"container", "volume"}
  <2>1. Unlock(g, s)
    BY <1>3 DEF Does
  <2>2. s \in errand[g].disk
    BY <1>3, WantedIsPlanned
  <2>3. LayersKept
    BY <1>3, <2>1, <2>2, AppearsIsKept DEF Unlock, Layer, Mapped
  <2>4. QED BY <1>3, <2>3
<1>4. CASE s = "mount"
  <2>1. Reachable(g, "mount") /\ Appears("mount", {g})
    BY <1>4 DEF Does
  <2>2. LayersKept
    BY <2>1, AppearsIsKept DEF Layer
  <2>3. errand[g].disk \cup {"loop"} \subseteq open[g]
    BY <2>1, WantedIsPlanned, MountIsOnTop DEF Reachable
  <2>4. open'[g] = open[g] \cup {"mount"}
    BY <2>1 DEF Appears, TypeOK
  <2>5. QED BY <2>2, <2>3, <2>4
<1>5. CASE s \in {"make", "look", "format", "serve"}
  <2>1. UNCHANGED <<open, faults>>
    BY <1>5 DEF Does
  <2>2. QED BY <1>5, <2>1, SameIsKept
<1>6. CASE s = "close"
  <2>1. CloseMapping("volume") /\ UNCHANGED faults
    BY <1>6 DEF Does
  <2>2. QED BY <1>6, <2>1, RemoveSpares, LessIsKept DEF CloseMapping, Mapped, TypeOK
<1>7. QED
  BY <1>1, <1>2, <1>3, <1>4, <1>5, <1>6, WantedIsPlanned, TaskNames

-----------------------------------------------------------------------------
(* The actions.  An action of one command moves that command alone, so the  *)
(* invariant is kept if the layers are, and it moves to a fitting step.     *)

Moved(g, s, l) ==
  /\ at' = [at EXCEPT ![g] = s]
  /\ late' = [late EXCEPT ![g] = l]
  /\ UNCHANGED errand

(* A loop device that is to be detached stays so.                           *)
StillCleared ==
  /\ cleared' \in [Guest -> BOOLEAN]
  /\ \A h \in Guest : cleared[h] => cleared'[h]

Fitting(g, s, l) ==
  /\ s \in Step /\ l \in SUBSET Wanted(g)
  /\ s \in Task => s \in Wanted(g)
  /\ s = "serve" => errand[g].disk \cup {"loop", "mount"} \subseteq open'[g]
  /\ \A k \in Layer :
       Rank[s] > Rank[UndoneBy[k]] /\ k \in open'[g]
         => faults'[g] # {} \/ (k = "loop" /\ s = "stop" /\ cleared'[g])

LEMMA FittingKeepsInvariant ==
  ASSUME LInv, NEW g \in Guest, NEW s, NEW l,
         LayersKept, Moved(g, s, l), Fitting(g, s, l), StillCleared
  PROVE  LInv'
<1>1. /\ errand' = errand
      /\ at'[g] = s /\ late'[g] = l
      /\ \A h \in Guest \ {g} : at'[h] = at[h] /\ late'[h] = late[h]
      /\ at' \in [Guest -> Step] /\ late' \in [Guest -> SUBSET Task]
  BY WantedIsPlanned DEF LInv, TypeOK, Moved, Fitting
<1>2. TypeOK'
  BY <1>1 DEF LInv, TypeOK, LayersKept, Typed, Exclusive, StillCleared
<1>3. \A h \in Guest : Wanted(h)' = Wanted(h)
  BY <1>1 DEF Wanted, ContainerSteps, MountSteps, FormatSteps
<1>4. StepsAreWanted'
  BY <1>1, <1>3 DEF LInv, StepsAreWanted, Fitting
<1>5. LayersAreOwn'
  BY <1>1 DEF LayersKept, LayersAreOwn
<1>6. ServedIsWhole'
  <2>1. SUFFICES ASSUME NEW h \in Guest, at'[h] = "serve"
                 PROVE  open'[h] = errand[h].disk \cup {"loop", "mount"}
    BY <1>1 DEF ServedIsWhole
  <2>2. open'[h] \subseteq errand[h].disk \cup {"loop", "mount"}
    BY DEF LayersKept
  <2>3. CASE h = g
    BY <1>1, <2>1, <2>2, <2>3 DEF Fitting
  <2>4. CASE h # g
    <3>1. at[h] = "serve" /\ open[h] \subseteq open'[h]
      BY <1>1, <2>1, <2>4 DEF LayersKept
    <3>2. open[h] = errand[h].disk \cup {"loop", "mount"}
      BY <3>1 DEF LInv, ServedIsWhole
    <3>3. QED BY <2>2, <3>1, <3>2
  <2>5. QED BY <2>3, <2>4
<1>7. UndoneInTurn'
  BY <1>1 DEF LayersKept, Due, Fitting, UndoneInTurn, StillCleared
<1>8. QED
  BY <1>2, <1>4, <1>5, <1>6, <1>7 DEF LInv

(* On the way to the teardown there is nothing to be undone yet.            *)
LEMMA NothingDue ==
  ASSUME NEW s \in Step, Rank[s] <= 12, NEW k \in Layer
  PROVE  ~(Rank[s] > Rank[UndoneBy[k]])
<1>1. Rank[UndoneBy[k]] \in {12, 13, 14, 15, 16}
  BY Turns
<1>2. Rank[s] \in Nat
  BY RanksAreNumbers
<1>3. QED BY <1>1, <1>2

LEMMA SucceedsKeepsInvariant ==
  ASSUME LInv, NEW g \in Guest, Succeeds(g)
  PROVE  LInv'
<1>1. PICK s \in After(g) : at' = [at EXCEPT ![g] = s]
  BY DEF Succeeds, Goes
<1>2. TypeOK /\ at[g] \in Task /\ at[g] \in Wanted(g) /\ late[g] \in SUBSET Wanted(g)
  BY DEF LInv, StepsAreWanted, Succeeds
<1>3. /\ LayersKept
      /\ at[g] = "mount" => errand[g].disk \cup {"loop", "mount"} \subseteq open'[g]
  BY <1>2, DoesIsKept DEF Succeeds
<1>4. /\ s \in Step /\ Rank[s] <= 12
      /\ s \in Task => s \in Wanted(g)
      /\ s = "serve" => at[g] = "mount"
  BY <1>2, NextStep
<1>5. Fitting(g, s, late[g])
  BY <1>2, <1>3, <1>4, NothingDue DEF Fitting
<1>6. Moved(g, s, late[g])
  BY <1>1, <1>2 DEF Moved, Succeeds, TypeOK
<1>7. StillCleared
  BY <1>2 DEF Succeeds, StillCleared, TypeOK
<1>8. QED BY <1>3, <1>5, <1>6, <1>7, FittingKeepsInvariant

(* A step that did not report success, whatever became of it.               *)
LEMMA DoneAnywayIsKept ==
  ASSUME LInv, NEW g \in Guest, NEW s \in Wanted(g), IsDoneAnyway(g, s)
  PROVE  LayersKept
<1>1. CASE UNCHANGED <<open, faults>>
  BY <1>1, SameIsKept
<1>2. CASE s # "attach" /\ Does(g, s)
  BY <1>2, DoesIsKept
<1>3. CASE LeavesLoop(g)
  <2>1. /\ open' = [open EXCEPT ![g] = @ \cup {"loop"}]
        /\ faults' = [faults EXCEPT ![g] = @ \cup {"attach"}]
    BY <1>3 DEF LeavesLoop, Blames
  <2>2. /\ Typed /\ faults'[g] # {}
        /\ \A h \in Guest : open[h] \subseteq open'[h] /\ open'[h] \subseteq open[h] \cup {"loop"}
        /\ \A h \in Guest \ {g} : open'[h] = open[h] /\ faults'[h] = faults[h]
    BY <2>1 DEF LInv, TypeOK, Typed, Fault, Layer
  <2>3. Exclusive(open')
    BY <2>2 DEF LInv, TypeOK, Exclusive
  <2>4. \A h \in Guest : open'[h] \subseteq errand[h].disk \cup {"loop", "mount"}
    BY <2>2 DEF LInv, LayersAreOwn
  <2>5. Due
    BY <2>2 DEF LInv, UndoneInTurn, Due
  <2>6. QED
    BY <2>2, <2>3, <2>4, <2>5 DEF LayersKept
<1>4. QED
  BY <1>1, <1>2, <1>3 DEF IsDoneAnyway

(* A command that gives up goes to the teardown, or closes its volume first.*)
LEMMA WhereGivenUp ==
  ASSUME TypeOK, NEW g \in Guest, at[g] \in Task, GivesUp(g)
  PROVE  \E s \in Step :
           /\ at' = [at EXCEPT ![g] = s]
           /\ Rank[s] <= 12 /\ s # "serve" /\ (s \in Task => s \in Wanted(g))
<1>1. PICK s : /\ at' = [at EXCEPT ![g] = s]
               /\ s = "umount" \/ (s \in After(g) /\ at[g] = "make")
  BY DEF GivesUp, Goes
<1>2. CASE s = "umount"
  BY <1>1, <1>2, RankValues, StepNames, TaskNames
<1>3. CASE s \in After(g) /\ at[g] = "make"
  <2>1. s \in Step /\ Rank[s] <= 12 /\ s # "serve" /\ (s \in Task => s \in Wanted(g))
    BY <1>3, NextStep
  <2>2. QED BY <1>1, <2>1
<1>4. QED BY <1>1, <1>2, <1>3

LEMMA FailsKeepsInvariant ==
  ASSUME LInv, NEW g \in Guest, Fails(g)
  PROVE  LInv'
<1>1. TypeOK /\ at[g] \in Task /\ at[g] \in Wanted(g) /\ late[g] \in SUBSET Wanted(g)
  BY DEF LInv, StepsAreWanted, Fails
<1>2. LayersKept
  BY <1>1, DoneAnywayIsKept DEF Fails
<1>3. PICK s \in Step : /\ at' = [at EXCEPT ![g] = s]
                        /\ Rank[s] <= 12 /\ s # "serve" /\ (s \in Task => s \in Wanted(g))
  BY <1>1, WhereGivenUp DEF Fails
<1>4. Fitting(g, s, late[g])
  BY <1>1, <1>3, NothingDue DEF Fitting
<1>5. Moved(g, s, late[g])
  BY <1>1, <1>3 DEF Moved, Fails, TypeOK
<1>6. StillCleared
  BY <1>1 DEF Fails, StillCleared, TypeOK
<1>7. QED BY <1>2, <1>4, <1>5, <1>6, FittingKeepsInvariant

LEMMA CutOffKeepsInvariant ==
  ASSUME LInv, NEW g \in Guest, CutOff(g)
  PROVE  LInv'
<1>1. TypeOK /\ at[g] \in Task /\ late[g] \cup {at[g]} \in SUBSET Wanted(g)
  BY DEF LInv, StepsAreWanted, CutOff
<1>2. LayersKept
  BY SameIsKept DEF CutOff
<1>3. PICK s \in Step : /\ at' = [at EXCEPT ![g] = s]
                        /\ Rank[s] <= 12 /\ s # "serve" /\ (s \in Task => s \in Wanted(g))
  BY <1>1, WhereGivenUp DEF CutOff
<1>4. Fitting(g, s, late[g] \cup {at[g]})
  BY <1>1, <1>3, NothingDue DEF Fitting
<1>5. Moved(g, s, late[g] \cup {at[g]})
  BY <1>1, <1>3 DEF Moved, CutOff, TypeOK
<1>6. StillCleared
  BY <1>1 DEF CutOff, StillCleared, TypeOK
<1>7. QED BY <1>2, <1>4, <1>5, <1>6, FittingKeepsInvariant

LEMMA IsLateKeepsInvariant ==
  ASSUME LInv, NEW g \in Guest, IsLate(g)
  PROVE  LInv'
<1>1. PICK s \in late[g] : /\ IsDoneAnyway(g, s)
                           /\ late' = [late EXCEPT ![g] = @ \ {s}]
                           /\ UNCHANGED <<errand, at, cleared>>
  BY DEF IsLate
<1>2. /\ TypeOK /\ s \in Wanted(g) /\ late[g] \ {s} \in SUBSET Wanted(g)
      /\ at[g] \in Step /\ (at[g] \in Task => at[g] \in Wanted(g))
  BY DEF LInv, TypeOK, StepsAreWanted
<1>3. LayersKept
  BY <1>1, <1>2, DoneAnywayIsKept
<1>4. Fitting(g, at[g], late[g] \ {s})
  <2>1. at[g] = "serve" => errand[g].disk \cup {"loop", "mount"} \subseteq open'[g]
    BY <1>3 DEF LayersKept, LInv, ServedIsWhole
  <2>2. QED BY <1>1, <1>2, <1>3, <2>1 DEF Fitting, LayersKept, Due
<1>5. Moved(g, at[g], late[g] \ {s})
  BY <1>1, <1>2 DEF Moved, TypeOK
<1>6. StillCleared
  BY <1>1, <1>2 DEF StillCleared, TypeOK
<1>7. QED BY <1>3, <1>4, <1>5, <1>6, FittingKeepsInvariant

(* A step of the teardown has dealt with the layer that is its to undo.     *)
LEMMA TeardownKeepsInvariant ==
  ASSUME LInv, NEW g \in Guest, NEW t \in Teardown \ {"stop"}, at[g] = t,
         Goes(g), LayersKept, UNCHANGED <<errand, late>>, StillCleared,
         \A k \in Layer : UndoneBy[k] = t /\ k \in open'[g]
                           => faults'[g] # {} \/ (t = "detach" /\ cleared'[g])
  PROVE  LInv'
<1>1. PICK s \in After(g) : at' = [at EXCEPT ![g] = s]
  BY DEF Goes
<1>2. TypeOK
  BY DEF LInv
<1>3. s \in Step /\ Rank[s] <= Rank[t] + 1
  BY <1>2, NextStep
<1>4. s \notin Task
  BY <1>1, TaskNames, TeardownNames, RankValues DEF After
<1>5. ASSUME NEW k \in Layer, Rank[s] > Rank[UndoneBy[k]], k \in open'[g]
      PROVE  faults'[g] # {} \/ (k = "loop" /\ s = "stop" /\ cleared'[g])
  <2>2. UndoneBy[k] \in Teardown /\ t \in Step /\ UndoneBy[k] \in Step
    BY TeardownNames, StepNames DEF UndoneBy, Layer, Mapped
  <2>3. CASE UndoneBy[k] = t
    <3>1. t = "detach" => k = "loop"
      BY <2>3 DEF UndoneBy, Layer, Mapped
    <3>2. t = "detach" => s = "stop"
      <4>1. t = "detach" => Rank[s] = 17
        BY <1>1, <1>3, RankValues, RanksAreNumbers DEF After
      <4>2. QED BY <1>3, <4>1, StepNames, RankValues
    <3>3. QED BY <1>5, <2>3, <3>1, <3>2
  <2>4. CASE Rank[t] > Rank[UndoneBy[k]]
    BY <1>5, <2>4 DEF LayersKept, Due
  <2>5. Rank[UndoneBy[k]] = Rank[t] => UndoneBy[k] = t
    BY <2>2, RankValues, TeardownNames
  <2>6. QED
    BY <1>3, <1>5, <2>2, <2>3, <2>4, <2>5, RanksAreNumbers
<1>6. late[g] \in SUBSET Wanted(g)
  BY DEF LInv, StepsAreWanted
<1>7. Fitting(g, s, late[g])
  BY <1>3, <1>4, <1>5, <1>6, TaskNames DEF Fitting
<1>8. Moved(g, s, late[g])
  BY <1>1, <1>2 DEF Moved, TypeOK
<1>9. QED BY <1>7, <1>8, FittingKeepsInvariant

LEMMA UmountKeepsInvariant ==
  ASSUME LInv, NEW g \in Guest, Umount(g)
  PROVE  LInv'
<1>1. TypeOK /\ at[g] = "umount" /\ StillCleared
  BY DEF LInv, Umount, StillCleared, TypeOK
<1>2. \A k \in Layer : UndoneBy[k] = "umount" => k = "mount"
  BY DEF UndoneBy, Layer, Mapped
<1>3. CASE open' = [open EXCEPT ![g] = Without(g, "mount")] /\ UNCHANGED faults
  <2>1. /\ open' \in [Guest -> SUBSET Layer]
        /\ \A h \in Guest : open'[h] \subseteq open[h]
        /\ \A h \in Guest : h # g => open'[h] = open[h]
        /\ "mount" \notin open'[g]
    BY <1>1, <1>3 DEF Without, TypeOK
  <2>2. LayersKept
    BY <1>1, <1>3, <2>1, TaskNames
    DEF LayersKept, LInv, TypeOK, Typed, Exclusive, LayersAreOwn, ServedIsWhole, UndoneInTurn, Due
  <2>3. QED
    BY <1>1, <1>2, <2>1, <2>2, TeardownNames, TeardownKeepsInvariant DEF Umount
<1>4. CASE Blames(g, "busy") /\ UNCHANGED open
  <2>1. /\ faults' \in [Guest -> SUBSET Fault]
        /\ \A h \in Guest : faults[h] \subseteq faults'[h]
        /\ faults'[g] # {}
    BY <1>1, <1>4 DEF Blames, Fault, TypeOK
  <2>2. LayersKept
    BY <1>4, <2>1
    DEF LayersKept, LInv, TypeOK, Typed, Exclusive, LayersAreOwn, ServedIsWhole, UndoneInTurn, Due
  <2>3. QED
    BY <1>1, <2>1, <2>2, TeardownNames, TeardownKeepsInvariant DEF Umount
<1>5. QED BY <1>3, <1>4 DEF Umount

(* What lay above a layer has had its turn before.                          *)
LEMMA NothingAbove ==
  ASSUME LInv, NEW g \in Guest, NEW k \in Mapped, at[g] = UndoneBy[k], faults[g] = {}
  PROVE  Unused(g, k)
<1>1. \A a \in Above[k] : a \in Layer /\ a # "loop" /\ Rank[UndoneBy[k]] > Rank[UndoneBy[a]]
  BY Turns DEF Above, Layer, Mapped
<1>2. QED BY <1>1 DEF Unused, LInv, UndoneInTurn

(* The three steps that take a mapping away, or tell what held it.          *)
LEMMA RemoveKeepsInvariant ==
  ASSUME LInv, NEW g \in Guest, NEW l \in Mapped, NEW seen \in SUBSET Guest,
         at[g] = UndoneBy[l], Remove(l, seen), Missed(g, l), Goes(g),
         UNCHANGED <<errand, cleared, late>>
  PROVE  LInv'
<1>1. TypeOK /\ StillCleared
  BY DEF LInv, StillCleared, TypeOK
<1>2. /\ faults' \in [Guest -> SUBSET Fault]
      /\ \A h \in Guest : faults[h] \subseteq faults'[h]
      /\ l \in open'[g] /\ Unused(g, l) => faults'[g] # {}
  BY <1>1 DEF Missed, Blames, Fault, TypeOK
<1>3. LayersKept
  BY <1>1, <1>2, RemoveSpares, LessIsKept
<1>4. UndoneBy[l] \in Teardown \ {"stop"} /\ \A k \in Layer : UndoneBy[k] = UndoneBy[l] => k = l
  BY TeardownNames DEF UndoneBy, Layer, Mapped
<1>5. l \in open'[g] => faults'[g] # {}
  BY <1>2, NothingAbove
<1>6. QED BY <1>1, <1>3, <1>4, <1>5, TeardownKeepsInvariant

LEMMA DetachKeepsInvariant ==
  ASSUME LInv, NEW g \in Guest, Detach(g)
  PROVE  LInv'
<1>1. /\ TypeOK /\ StillCleared
      /\ at[g] = "detach" /\ "detach" \in Teardown \ {"stop"}
  BY TeardownNames DEF LInv, TypeOK, StillCleared, Detach
<1>2. /\ open' \in [Guest -> SUBSET Layer]
      /\ \A h \in Guest : open'[h] \subseteq open[h]
      /\ \A h \in Guest : "mount" \in open[h] => open'[h] = open[h]
  BY <1>1 DEF TypeOK, Detach
<1>3. LayersKept
  BY <1>1, <1>2, LessIsKept DEF Detach, TypeOK
<1>4. "loop" \in open'[g] => faults'[g] # {} \/ cleared'[g]
  BY <1>1 DEF Detach, TypeOK
<1>5. \A k \in Layer : UndoneBy[k] = "detach" => k = "loop"
  BY DEF UndoneBy, Layer, Mapped
<1>6. QED BY <1>1, <1>3, <1>4, <1>5, TeardownKeepsInvariant DEF Detach

LEMMA EndKeepsInvariant ==
  ASSUME LInv, NEW g \in Guest, Stop(g) \/ Dies(g)
  PROVE  LInv'
<1>1. TypeOK /\ Ends(g)
  BY DEF LInv, Stop, Dies
<1>2. /\ open' \in [Guest -> SUBSET Layer]
      /\ \A h \in Guest : open'[h] \subseteq open[h]
      /\ \A h \in Guest : h # g => open'[h] = open[h] /\ faults'[h] = faults[h]
      /\ faults' \in [Guest -> SUBSET Fault]
      /\ faults[g] \subseteq faults'[g]
      /\ Stop(g) \/ faults'[g] # {}
  BY <1>1 DEF Ends, Stop, Dies, Blames, Fault, TypeOK
<1>3. \A k \in Layer : k \in open'[g] => faults'[g] # {}
  <2>1. SUFFICES ASSUME NEW k \in Layer, k \in open'[g], Stop(g) PROVE faults'[g] # {}
    BY <1>2
  <2>2. PICK j \in open[g] : j \in Layer /\ (j = "loop" => ~cleared[g])
    <3>1. CASE cleared[g] /\ open[g] \subseteq {"loop", "mount"}
      BY <1>1, <2>1, <3>1 DEF Ends, TypeOK
    <3>2. CASE ~cleared[g]
      BY <1>2, <2>1, <3>2
    <3>3. CASE ~(open[g] \subseteq {"loop", "mount"})
      BY <1>1, <3>3 DEF TypeOK
    <3>4. QED BY <1>1, <3>1, <3>2, <3>3 DEF TypeOK
  <2>3. Rank[at[g]] > Rank[UndoneBy[j]]
    BY <2>1, <2>2, Turns, RankValues DEF Stop
  <2>4. QED BY <1>2, <2>2, <2>3 DEF LInv, UndoneInTurn
<1>4. /\ errand' = errand /\ cleared' = cleared
      /\ at'[g] = "over" /\ late'[g] = {}
      /\ \A h \in Guest \ {g} : at'[h] = at[h] /\ late'[h] = late[h]
      /\ at' \in [Guest -> Step] /\ late' \in [Guest -> SUBSET Task]
  BY <1>1, StepNames DEF TypeOK, Ends
<1>5. TypeOK'
  BY <1>2, <1>4 DEF LInv, TypeOK
<1>6. \A h \in Guest : Wanted(h)' = Wanted(h)
  BY <1>4 DEF Wanted, ContainerSteps, MountSteps, FormatSteps
<1>7. StepsAreWanted'
  BY <1>4, <1>6, TaskNames DEF LInv, StepsAreWanted
<1>8. LayersAreOwn' /\ ServedIsWhole'
  BY <1>2, <1>4 DEF LInv, LayersAreOwn, ServedIsWhole
<1>9. UndoneInTurn'
  BY <1>2, <1>3, <1>4 DEF LInv, UndoneInTurn
<1>10. QED BY <1>5, <1>7, <1>8, <1>9 DEF LInv

LEMMA InitHasInvariant == Init => LInv
<1>1. SUFFICES ASSUME Init PROVE LInv
  OBVIOUS
<1>2. TypeOK
  BY <1>1, StepNames, TaskNames DEF Init, TypeOK
<1>3. StepsAreWanted
  BY <1>1 DEF Init, StepsAreWanted, Wanted
<1>4. LayersAreOwn /\ ServedIsWhole /\ UndoneInTurn
  BY <1>1 DEF Init, LayersAreOwn, ServedIsWhole, UndoneInTurn
<1>5. QED BY <1>2, <1>3, <1>4 DEF LInv

LEMMA NextKeepsInvariant == LInv /\ [Next]_vars => LInv'
<1>1. SUFFICES ASSUME LInv, [Next]_vars PROVE LInv'
  OBVIOUS
<1>2. CASE UNCHANGED vars
  <2>1. \A h \in Guest : Wanted(h)' = Wanted(h)
    BY <1>2 DEF vars, Wanted
  <2>2. QED
    BY <1>1, <1>2, <2>1
    DEF vars, LInv, TypeOK, StepsAreWanted, LayersAreOwn, ServedIsWhole, UndoneInTurn
<1>3. ASSUME NEW g \in Guest,
             \/ Succeeds(g) \/ Fails(g) \/ CutOff(g) \/ IsLate(g)
             \/ Umount(g) \/ CloseVolume(g) \/ Deactivate(g) \/ CloseContainer(g)
             \/ Detach(g) \/ Stop(g) \/ Dies(g)
      PROVE  LInv'
  <2>1. CASE Succeeds(g)       BY <1>1, <2>1, SucceedsKeepsInvariant
  <2>2. CASE Fails(g)          BY <1>1, <2>2, FailsKeepsInvariant
  <2>3. CASE CutOff(g)         BY <1>1, <2>3, CutOffKeepsInvariant
  <2>4. CASE IsLate(g)         BY <1>1, <2>4, IsLateKeepsInvariant
  <2>5. CASE Umount(g)         BY <1>1, <2>5, UmountKeepsInvariant
  <2>6. CASE CloseVolume(g)
    BY <1>1, <2>6, RemoveKeepsInvariant DEF CloseVolume, CloseMapping, UndoneBy, Mapped
  <2>7. CASE Deactivate(g)
    <3>1. PICK others \in SUBSET Guest : Remove("lvm", others \cup {g})
      BY <2>7 DEF Deactivate, DeactivateLVM
    <3>2. QED
      BY <1>1, <2>7, <3>1, RemoveKeepsInvariant DEF Deactivate, UndoneBy, Mapped
  <2>8. CASE CloseContainer(g)
    BY <1>1, <2>8, RemoveKeepsInvariant DEF CloseContainer, CloseMapping, UndoneBy, Mapped
  <2>9. CASE Detach(g)         BY <1>1, <2>9, DetachKeepsInvariant
  <2>10. CASE Stop(g) \/ Dies(g) BY <1>1, <2>10, EndKeepsInvariant
  <2>11. QED
    BY <1>3, <2>1, <2>2, <2>3, <2>4, <2>5, <2>6, <2>7, <2>8, <2>9, <2>10
<1>4. QED BY <1>1, <1>2, <1>3 DEF Next

THEOREM LayersInvariant == Spec => []LInv
BY InitHasInvariant, NextKeepsInvariant, PTL DEF Spec

-----------------------------------------------------------------------------
(* The properties.                                                          *)

(* Every variable keeps its type, and no two commands ever come by the same *)
(* LUKS mapping (luks.go:77-82), however many run in one kernel.            *)
THEOREM LayersTypeCorrect == Spec => []TypeOK
BY LayersInvariant, PTL DEF LInv

(* A file system that is served lies on all of its own disk's layers, for   *)
(* any number of commands that fail and tear down meanwhile (mount.go:56).  *)
THEOREM ServedStaysWhole == Spec => []ServedIsWhole
BY LayersInvariant, PTL DEF LInv

(* A command that is over has left nothing in the kernel, or a fault tells  *)
(* why (docker.go:355-370).                                                 *)
THEOREM DisksAreReleased == Spec => []DiskReleased
<1>1. LInv => DiskReleased
  <2>1. SUFFICES ASSUME LInv, NEW g \in Guest, at[g] = "over", open[g] # {}
                 PROVE  faults[g] # {}
    BY DEF DiskReleased
  <2>2. PICK l \in open[g] : l \in Layer
    BY <2>1 DEF LInv, TypeOK
  <2>3. QED BY <2>1, <2>2, Turns, RankValues DEF LInv, UndoneInTurn
<1>2. QED BY LayersInvariant, <1>1, PTL
=============================================================================
