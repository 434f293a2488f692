------------------------------- MODULE Layers -------------------------------
(***************************************************************************)
(* What the commands stack over a disk image (internal/guest, and the      *)
(* attach and teardown scripts of internal/provider/docker/docker.go): a   *)
(* loop device, a LUKS container, the logical volumes in it, a LUKS        *)
(* volume, a mounted file system.                                          *)
(*                                                                         *)
(* The containers of several commands run on one kernel, which has one     *)
(* loop driver and one device mapper: the two LUKS mappings have one name  *)
(* each for everybody, and LVM looks at every disk it can see.  Only       *)
(* mounts are each container's own.                                        *)
(***************************************************************************)
EXTENDS Naturals

CONSTANTS
  Guest,     \* commands that run a container each
  Errand     \* what they may be for, and what their disks hold

Mapped == {"container", "lvm", "volume"}

ASSUME LayersAssumption ==
  Errand \subseteq [job : {"run", "ls", "create"}, disk : SUBSET Mapped]

VARIABLES
  errand,    \* what each command is for
  at,        \* the step it is in
  open,      \* the layers there are over its disk
  cleared,   \* whether its loop device goes when nothing is left above it
  late,      \* the steps whose client was killed, and which may still be done
  faults     \* history: what went wrong that the teardown cannot make good

vars == <<errand, at, open, cleared, late, faults>>

Layer == Mapped \cup {"loop", "mount"}
Above == [loop      |-> {"container", "lvm", "volume", "mount"},
          container |-> {"lvm", "volume", "mount"},
          lvm       |-> {"volume", "mount"},
          volume    |-> {"mount"},
          mount     |-> {}]

UndoneBy == [loop |-> "detach", container |-> "closeContainer", lvm |-> "deactivate",
             volume |-> "closeVolume", mount |-> "umount"]

Rank == [attach |-> 1, activate |-> 2, container |-> 3, scan |-> 4, look |-> 5,
         format |-> 6, volume |-> 7, make |-> 8, mount |-> 9, serve |-> 10, close |-> 11,
         umount |-> 12, closeVolume |-> 13, deactivate |-> 14,
         closeContainer |-> 15, detach |-> 16, stop |-> 17, over |-> 18]

Step     == DOMAIN Rank
Task     == {s \in Step : Rank[s] < 12}
Teardown == {s \in Step : Rank[s] > 11 /\ Rank[s] < 18}

Fault == {"busy", "held", "died", "late", "attach"}

TypeOK ==
  /\ errand \in [Guest -> Errand]
  /\ at \in [Guest -> Step]
  /\ open \in [Guest -> SUBSET Layer]
  /\ cleared \in [Guest -> BOOLEAN]
  /\ late \in [Guest -> SUBSET Task]
  /\ faults \in [Guest -> SUBSET Fault]
  /\ \A l \in {"container", "volume"}, g, h \in Guest :
       l \in open[g] /\ l \in open[h] => g = h

Init ==
  /\ errand \in [Guest -> Errand]
  /\ at = [g \in Guest |-> "attach"]
  /\ open = [g \in Guest |-> {}]
  /\ cleared = [g \in Guest |-> FALSE]
  /\ late = [g \in Guest |-> {}]
  /\ faults = [g \in Guest |-> {}]

-----------------------------------------------------------------------------
(* The way of a command.                                                    *)

(* openLUKSContainer: LVM is scanned again for what is inside.              *)
ContainerSteps(disk) == IF "container" \in disk THEN {"container", "scan"} ELSE {}

(* Mount, and the share of what was mounted.                                *)
MountSteps(disk) == (disk \cap {"volume"}) \cup {"mount", "serve"}

(* Format, on a new disk.                                                   *)
FormatSteps(disk) ==
  {"make"} \cup (IF "volume" \in disk THEN {"format", "volume", "close"} ELSE {})

(* The steps of a command; `ls' opens the container to look inside.         *)
Wanted(g) ==
  LET disk == errand[g].disk
      job  == errand[g].job IN
  {"attach", "activate"} \cup ContainerSteps(disk) \cup
  (CASE job = "run"    -> MountSteps(disk)
     [] job = "create" -> FormatSteps(disk)
     [] job = "ls"     -> {"look"})

(* What comes next: a step of the command, of the teardown, or the end.     *)
After(g) ==
  LET ahead == {s \in Wanted(g) \cup Teardown \cup {"over"} : Rank[s] > Rank[at[g]]} IN
  {s \in ahead : \A t \in ahead : Rank[s] <= Rank[t]}

Goes(g) == \E s \in After(g) : at' = [at EXCEPT ![g] = s]
Blames(g, f) == faults' = [faults EXCEPT ![g] = @ \cup {f}]

-----------------------------------------------------------------------------
(* The kernel.                                                              *)

Reachable(g, l) ==
  \A k \in errand[g].disk \cup {"loop"} : l \in Above[k] => k \in open[g]

Unused(g, l) == open[g] \cap Above[l] = {}

(* Commands that have a disk or what is over it open, those whose client    *)
(* was killed among them.                                                   *)
Holding(g) == (late[g] \cup {at[g]}) \cap (Task \ {"close", "serve"}) # {}

(* A loop device whose detaching was put off goes with its last user.       *)
Without(g, l) ==
  LET rest == open[g] \ {l} IN
  IF cleared[g] /\ rest = {"loop"} /\ late[g] = {} THEN {} ELSE rest

(* A layer goes wherever it is seen, has nothing above it, and is not held. *)
(* (cryptsetup and vgchange try again while a passing scan has it open.)    *)
Remove(l, seen) ==
  \E held \in SUBSET {h \in seen : Holding(h)} :
    open' = [g \in Guest |-> IF g \in seen \ held /\ l \in open[g] /\ Unused(g, l)
                               THEN Without(g, l) ELSE open[g]]

(* cryptsetup close, by a name that is one for all.                         *)
CloseMapping(l) == Remove(l, Guest)

(* vgchange -an, on the disks in sight.                                     *)
DeactivateLVM(seen) == Remove("lvm", seen)

(* A layer appears over the disks of some.  One that comes back after the   *)
(* teardown of its command was done with it is there to stay.               *)
Appears(l, where) ==
  /\ open' = [g \in Guest |-> IF g \in where THEN open[g] \cup {l} ELSE open[g]]
  /\ faults' = [g \in Guest |->
       IF g \in where /\ l \notin open[g] /\ Rank[at[g]] > Rank[UndoneBy[l]]
         THEN faults[g] \cup {"late"} ELSE faults[g]]

(* ActivateLVM: vgchange -ay, on all the disks in sight.                    *)
ActivateLVM(seen) ==
  Appears("lvm", {g \in seen : "lvm" \in errand[g].disk /\ Reachable(g, "lvm")})

(* A plausible bug: two commands come by the same mapping.                  *)
UnlockTwice(g, l) ==
  /\ Reachable(g, l)
  /\ Appears(l, {g})

(* openLUKS: the mapping is new, and the device is there to be opened.      *)
Unlock(g, l) ==
  /\ \A h \in Guest : l \notin open[h]
  /\ Reachable(g, l)
  /\ Appears(l, {g})

(* What a step of a command does to the kernel when it succeeds.            *)
Does(g, s) ==
  \/ s = "attach" /\ Appears("loop", {g})
  \/ s \in {"activate", "scan"} /\ \E others \in SUBSET Guest : ActivateLVM(others \cup {g})
  \/ s \in {"container", "volume"} /\ Unlock(g, s)
  \/ s = "make" /\ Reachable(g, "mount") /\ UNCHANGED <<open, faults>>
  \/ s = "mount" /\ Reachable(g, "mount") /\ Appears("mount", {g})
  \/ s = "close" /\ CloseMapping("volume") /\ UNCHANGED faults
  \/ s \in {"look", "format", "serve"} /\ UNCHANGED <<open, faults>>

-----------------------------------------------------------------------------
(* The command, one step after another.                                     *)

Succeeds(g) ==
  /\ at[g] \in Task
  /\ Does(g, at[g])
  /\ Goes(g)
  /\ UNCHANGED <<errand, cleared, late>>

(* A plausible bug: an error is logged, and the command goes on.            *)
GoesOn(g) ==
  /\ at[g] \in Task
  /\ Goes(g)
  /\ UNCHANGED <<errand, open, cleared, late, faults>>

(* losetup took a device whose name never came back to be detached.         *)
LeavesLoop(g) ==
  /\ open' = [open EXCEPT ![g] = @ \cup {"loop"}]
  /\ Blames(g, "attach")

(* What becomes of a step that did not report success: nothing, or all that *)
(* it was to do.                                                            *)
IsDoneAnyway(g, s) ==
  \/ UNCHANGED <<open, faults>>
  \/ s = "attach" /\ LeavesLoop(g)
  \/ s # "attach" /\ Does(g, s)

(* Every error leads to the teardown, that of mkfs after closing the volume.*)
GivesUp(g) == at' = [at EXCEPT ![g] = "umount"] \/ (at[g] = "make" /\ Goes(g))

(* A wrong passphrase, a device that is not there, a mapping in use, an     *)
(* answer that cannot be read.                                              *)
Fails(g) ==
  /\ at[g] \in Task
  /\ IsDoneAnyway(g, at[g])
  /\ GivesUp(g)
  /\ UNCHANGED <<errand, cleared, late>>

(* The context of a command ends, in a timeout, an interrupt or a request   *)
(* to stop.  That kills the docker CLI; what runs in the container goes on. *)
CutOff(g) ==
  /\ at[g] \in Task \ {"serve"}
  /\ late' = [late EXCEPT ![g] = @ \cup {at[g]}]
  /\ GivesUp(g)
  /\ UNCHANGED <<errand, open, cleared, faults>>

IsLate(g) ==
  \E s \in late[g] :
    /\ IsDoneAnyway(g, s)
    /\ late' = [late EXCEPT ![g] = @ \ {s}]
    /\ UNCHANGED <<errand, at, cleared>>

-----------------------------------------------------------------------------
(* The teardown script, innermost first; its errors are ignored.            *)

(* Nobody may have files open, as the clients of a share can.               *)
Umount(g) ==
  /\ at[g] = "umount"
  /\ \/ open' = [open EXCEPT ![g] = Without(g, "mount")] /\ UNCHANGED faults
     \/ "mount" \in open[g] /\ Blames(g, "busy") /\ UNCHANGED open
  /\ Goes(g)
  /\ UNCHANGED <<errand, cleared, late>>

(* What a command that goes on has open cannot be taken away.               *)
Missed(g, l) ==
  IF l \in open'[g] /\ Unused(g, l) THEN Blames(g, "held") ELSE UNCHANGED faults

CloseVolume(g) ==
  /\ at[g] = "closeVolume"
  /\ CloseMapping("volume") /\ Missed(g, "volume")
  /\ Goes(g)
  /\ UNCHANGED <<errand, cleared, late>>

(* A plausible bug: the logical volumes are left to the container's end.    *)
KeepActive(g) ==
  /\ at[g] = "deactivate"
  /\ Goes(g)
  /\ UNCHANGED <<errand, open, cleared, late, faults>>

Deactivate(g) ==
  /\ at[g] = "deactivate"
  /\ (\E others \in SUBSET Guest : DeactivateLVM(others \cup {g})) /\ Missed(g, "lvm")
  /\ Goes(g)
  /\ UNCHANGED <<errand, cleared, late>>

CloseContainer(g) ==
  /\ at[g] = "closeContainer"
  /\ CloseMapping("container") /\ Missed(g, "container")
  /\ Goes(g)
  /\ UNCHANGED <<errand, cleared, late>>

(* losetup -d, of the device Start was told of, puts off what is in use.    *)
Detach(g) ==
  /\ at[g] = "detach"
  /\ IF "loop" \in open[g] /\ "attach" \notin faults[g]
       THEN /\ cleared' = [cleared EXCEPT ![g] = TRUE]
            /\ open' = [open EXCEPT ![g] = IF @ = {"loop"} /\ late[g] = {} THEN {} ELSE @]
       ELSE UNCHANGED <<open, cleared>>
  /\ Goes(g)
  /\ UNCHANGED <<errand, late, faults>>

(* The container ends, with everything that runs in it, and its mounts.     *)
Ends(g) ==
  /\ open' = [open EXCEPT ![g] =
                IF cleared[g] /\ @ \subseteq {"loop", "mount"} THEN {} ELSE @ \ {"mount"}]
  /\ late' = [late EXCEPT ![g] = {}]
  /\ at' = [at EXCEPT ![g] = "over"]
  /\ UNCHANGED <<errand, cleared>>

Stop(g) == at[g] = "stop" /\ Ends(g) /\ UNCHANGED faults

(* It is killed, or the script cannot be run or is cut off.                 *)
Dies(g) == at[g] # "over" /\ Ends(g) /\ Blames(g, "died")

Next ==
  \E g \in Guest :
    \/ Succeeds(g) \/ Fails(g) \/ CutOff(g) \/ IsLate(g)
    \/ Umount(g) \/ CloseVolume(g) \/ Deactivate(g) \/ CloseContainer(g)
    \/ Detach(g) \/ Stop(g) \/ Dies(g)

Spec == Init /\ [][Next]_vars

-----------------------------------------------------------------------------
(* Properties.                                                              *)

(* A file system that is served has everything it lies on under it, all of  *)
(* the same disk, whatever other commands open, fail at and tear down in    *)
(* the same kernel meanwhile (mount.go:56-110).                             *)
ServedIsWhole ==
  \A g \in Guest : at[g] = "serve" => open[g] = errand[g].disk \cup {"loop", "mount"}

(* A command leaves nothing over its disk in the kernel, whichever of its   *)
(* steps failed or was cut off, unless its container died, its file system  *)
(* was busy, a command that was cut off held a layer or brought one back    *)
(* behind the teardown, or a loop device was taken whose name did not come  *)
(* back (docker.go:263-271, 317-341, 355-370).                              *)
DiskReleased ==
  \A g \in Guest : at[g] = "over" /\ open[g] # {} => faults[g] # {}
=============================================================================
