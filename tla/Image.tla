------------------------------- MODULE Image -------------------------------
(***************************************************************************)
(* The two files lmnt makes in their final place: the guest image of       *)
(* `lmnt build` (internal/cli/build.go, internal/provider/qemu/build.go)   *)
(* and the disk image of `lmnt create` (internal/cli/create.go); the       *)
(* sessions that boot from or mount such a file; and `lmnt clean`          *)
(* (internal/cli/clean.go), which deletes the directory of the guest       *)
(* image.  A name may be removed, and made again, under a process that has *)
(* the file open, so files and the name are kept apart.                    *)
(***************************************************************************)
EXTENDS Naturals, FiniteSets

CONSTANTS
  Makers,    \* the `lmnt build` or `lmnt create` commands for the same path
  Users,     \* the mounts that use the file
  Files,     \* the files that may come to be, as many as are ever made
  NoFile     \* what a free name refers to

ASSUME ImageAssumption ==
  /\ NoFile \notin Files /\ IsFiniteSet(Files) /\ IsFiniteSet(Makers)
  /\ Cardinality(Files) >= Cardinality(Makers) + 2

VARIABLES
  job,       \* which command it is about: "build" or "create"
  locking,   \* QEMU locks a file it has open, the container engine does not
  force,     \* the makers that were given --force
  name,      \* the file at the path
  content,   \* content[f]: "free" (no such file yet), "blank", "half", "whole"
  foreign,   \* the files that no maker has made
  pc,        \* pc[m]: what maker m is at
  failed,    \* the makers whose command is going to return an error
  made,      \* made[m]: the file m has made
  opened,    \* opened[m]: the file that the guest of m writes to
  outcome,   \* outcome[m]: how its command ended
  use,       \* use[u]: what mount u is at; it is in the registry from "boot"
  used,      \* used[u]: the content u's guest found when it opened the file
  clean,     \* what `lmnt clean` is at
  looked,    \* history: the mounts that were registered when it looked
  lost,      \* history: the mounts it took the record of
  fault      \* history: what went wrong, or came in between

fileVars  == <<name, content, foreign>>
makerVars == <<pc, failed, made, opened, outcome>>
userVars  == <<use, used>>
cleanVars == <<clean, looked, lost>>
vars == <<job, locking, force, fileVars, makerVars, userVars, cleanVars, fault>>

(* A maker has its file from the moment it has made it. *)
AtWork == {m \in Makers : pc[m] \in {"start", "work", "stop", "undo"}}

(* The file that comes to be next. *)
Fresh == CHOOSE f \in Files : content[f] = "free"

Init ==
  /\ job \in {"build", "create"}
  /\ locking \in IF job = "build" THEN {TRUE} ELSE BOOLEAN
  /\ force \in SUBSET Makers
  /\ name \in {NoFile, CHOOSE f \in Files : TRUE}
  /\ content = [f \in Files |-> IF f = name THEN "whole" ELSE "free"]
  /\ foreign = Files \cap {name}
  /\ pc = [m \in Makers |-> "look"] /\ failed = {}
  /\ made = [m \in Makers |-> NoFile] /\ opened = [m \in Makers |-> NoFile]
  /\ outcome = [m \in Makers |-> "none"]
  /\ use = [u \in Users |-> "look"] /\ used = [u \in Users |-> "none"]
  /\ clean = "idle" /\ looked = {} /\ lost = {}
  /\ fault = {}

(***************************************************************************)
(* The makers.                                                             *)
(***************************************************************************)
At(m, s) == pc[m] = s

Goes(m, s) == pc' = [pc EXCEPT ![m] = s] /\ UNCHANGED outcome

Ends(m, o) == pc' = [pc EXCEPT ![m] = "over"] /\ outcome' = [outcome EXCEPT ![m] = o]

Raises(w, cond) == fault' = IF cond THEN fault \cup {w} ELSE fault

(* VMImageExists in build, claimPath in create. *)
LookFree(m) ==
  /\ At(m, "look") /\ name = NoFile
  /\ Goes(m, IF job = "build" THEN "fetch" ELSE "make")
  /\ UNCHANGED <<job, locking, force, fileVars, failed, made, opened, userVars, cleanVars, fault>>

LookTaken(m) ==
  /\ At(m, "look") /\ name # NoFile
  /\ IF m \in force THEN Goes(m, "remove") ELSE Ends(m, "refused")
  /\ UNCHANGED <<job, locking, force, fileVars, failed, made, opened, userVars, cleanVars, fault>>

(* --force removes whatever is at the path by now; when that is nothing,     *)
(* build goes on and create fails.                                           *)
RemoveOld(m) ==
  /\ At(m, "remove") /\ (job = "build" \/ name # NoFile)
  /\ name' = NoFile
  /\ Goes(m, IF job = "build" THEN "fetch" ELSE "make")
  /\ Raises("forced", \E x \in AtWork : made[x] = name)
  /\ UNCHANGED <<job, locking, force, content, foreign, failed, made, opened, userVars, cleanVars>>

RemoveOldFails(m) ==
  /\ At(m, "remove") /\ (job = "build" => name # NoFile)
  /\ Ends(m, "failed")
  /\ UNCHANGED <<job, locking, force, fileVars, failed, made, opened, userVars, cleanVars, fault>>

(* EnsureAlpineISO and EnsureFirmware, then the Stat of BuildImage. *)
Fetch(m) ==
  /\ At(m, "fetch")
  /\ Goes(m, "stat")
  /\ UNCHANGED <<job, locking, force, fileVars, failed, made, opened, userVars, cleanVars, fault>>

FetchFails(m) ==
  /\ At(m, "fetch")
  /\ Ends(m, "failed")
  /\ UNCHANGED <<job, locking, force, fileVars, failed, made, opened, userVars, cleanVars, fault>>

StatOutput(m) ==
  /\ At(m, "stat")
  /\ IF name = NoFile THEN Goes(m, "make") ELSE Ends(m, "failed")
  /\ UNCHANGED <<job, locking, force, fileVars, failed, made, opened, userVars, cleanVars, fault>>

(* A file is locked by the guest that has it open. *)
Locked == locking /\ \E m \in Makers : opened[m] = name

NewFile(m) ==
  /\ name = NoFile
  /\ name' = Fresh /\ content' = [content EXCEPT ![Fresh] = "blank"]
  /\ made' = [made EXCEPT ![m] = Fresh]

(* qemu-img create makes a file, or makes the one that has come to be there *)
(* since the Stat a blank one, unless a guest has it open.                  *)
QemuImg(m) ==
  /\ At(m, "make") /\ job = "build"
  /\ \/ NewFile(m) /\ UNCHANGED fault
     \/ /\ name # NoFile /\ ~Locked
        /\ content' = [content EXCEPT ![name] = "blank"]
        /\ made' = [made EXCEPT ![m] = name]
        /\ fault' = fault \cup {"overlap"}
        /\ UNCHANGED name
  /\ Goes(m, "start")
  /\ UNCHANGED <<job, locking, force, foreign, failed, opened, userVars, cleanVars>>

(* An error of qemu-img is returned before the removal of the output is      *)
(* deferred, so what qemu-img leaves stays.                                  *)
QemuImgFails(m) ==
  /\ At(m, "make") /\ job = "build"
  /\ \/ NewFile(m) /\ fault' = fault \cup {"qemu-img"}
     \/ UNCHANGED <<name, content, made, fault>>
  /\ Ends(m, "failed")
  /\ UNCHANGED <<job, locking, force, foreign, failed, opened, userVars, cleanVars>>

(* A plausible bug: the file is opened with O_TRUNC instead of O_EXCL. *)
CreateTruncates(m) ==
  /\ At(m, "make") /\ job = "create"
  /\ \/ NewFile(m)
     \/ name # NoFile /\ content' = [content EXCEPT ![name] = "blank"]
        /\ made' = [made EXCEPT ![m] = name] /\ UNCHANGED name
  /\ Goes(m, "start")
  /\ UNCHANGED <<job, locking, force, foreign, failed, opened, userVars, cleanVars, fault>>

(* createSparseFile: O_EXCL refuses a file that has come to be there since.  *)
CreateFile(m) ==
  /\ At(m, "make") /\ job = "create" /\ name = NoFile
  /\ NewFile(m)
  /\ \/ Goes(m, "start") /\ UNCHANGED failed
     \/ Goes(m, "undo") /\ failed' = failed \cup {m}    \* Truncate or Close fails
  /\ UNCHANGED <<job, locking, force, foreign, opened, userVars, cleanVars, fault>>

CreateRefused(m) ==
  /\ At(m, "make") /\ job = "create" /\ name # NoFile
  /\ Ends(m, "failed")
  /\ UNCHANGED <<job, locking, force, fileVars, failed, made, opened, userVars, cleanVars, fault>>

(* The guest opens whatever is at the path; a container, even what the guest  *)
(* of another command is writing to.                                          *)
Start(m) ==
  /\ At(m, "start") /\ name # NoFile /\ ~Locked
  /\ opened' = [opened EXCEPT ![m] = name]
  /\ content' = [content EXCEPT ![name] = "half"]
  /\ fault' = fault \cup {w \in {"swapped"} : name # made[m]}
                    \cup {w \in {"shared"} : \E x \in Makers : opened[x] = name}
  /\ Goes(m, "work")
  /\ UNCHANGED <<job, locking, force, name, foreign, failed, made, userVars, cleanVars>>

(* No image, no guest, no passphrase, an interrupt: the session ends with an  *)
(* error, and the deferred removal has its turn.                              *)
StartFails(m) ==
  /\ At(m, "start")
  /\ failed' = failed \cup {m}
  /\ Goes(m, "undo")
  /\ UNCHANGED <<job, locking, force, fileVars, made, opened, userVars, cleanVars, fault>>

(* installScript or Guest.Format; two guests that write to one file spoil it. *)
Work(m) ==
  /\ At(m, "work")
  /\ \/ content' = [content EXCEPT ![opened[m]] = "whole"]
     \/ "shared" \in fault /\ UNCHANGED content
  /\ Goes(m, "stop")
  /\ UNCHANGED <<job, locking, force, name, foreign, failed, made, opened, userVars, cleanVars, fault>>

(* A plausible bug: the error of the last step is assigned to another err. *)
WorkFailsUnseen(m) ==
  /\ At(m, "work")
  /\ Goes(m, "stop")
  /\ UNCHANGED <<job, locking, force, fileVars, failed, made, opened, userVars, cleanVars, fault>>

WorkFails(m) ==
  /\ At(m, "work")
  /\ failed' = failed \cup {m}
  /\ Goes(m, "stop")
  /\ UNCHANGED <<job, locking, force, fileVars, made, opened, userVars, cleanVars, fault>>

(* The guest is stopped before the deferred removal.  The session of create  *)
(* may still fail then (Lifecycle), BuildImage ignores what Stop returns.    *)
Stop(m) ==
  /\ At(m, "stop")
  /\ opened' = [opened EXCEPT ![m] = NoFile]
  /\ \/ m \in failed /\ Goes(m, "undo") /\ UNCHANGED failed
     \/ m \notin failed /\ Ends(m, "done") /\ UNCHANGED failed
     \/ m \notin failed /\ job = "create" /\ Goes(m, "undo") /\ failed' = failed \cup {m}
  /\ UNCHANGED <<job, locking, force, fileVars, made, userVars, cleanVars, fault>>

(* A plausible bug: the deferred function looks at an err that := has hidden. *)
UndoForgets(m) ==
  /\ At(m, "undo")
  /\ Ends(m, "failed")
  /\ UNCHANGED <<job, locking, force, fileVars, failed, made, opened, userVars, cleanVars, fault>>

(* The deferred os.Remove, by name. *)
Undo(m) ==
  /\ At(m, "undo")
  /\ name' = NoFile
  /\ Raises("swapped", name \notin {NoFile, made[m]})
  /\ Ends(m, "failed")
  /\ UNCHANGED <<job, locking, force, content, foreign, failed, made, opened, userVars, cleanVars>>

UndoFails(m) ==
  /\ At(m, "undo") /\ name # NoFile
  /\ fault' = fault \cup {"not removed"}
  /\ Ends(m, "failed")
  /\ UNCHANGED <<job, locking, force, fileVars, failed, made, opened, userVars, cleanVars>>

(* A signal ends the command on the spot: build handles none, create's tenth. *)
(* Its guest is a process of its own and may go on for a while.              *)
Killed(m) ==
  /\ pc[m] # "over"
  /\ Ends(m, "killed")
  /\ Raises("killed", m \in AtWork)
  /\ UNCHANGED <<job, locking, force, fileVars, failed, made, opened, userVars, cleanVars>>

GuestEnds(m) ==
  /\ At(m, "over") /\ opened[m] # NoFile
  /\ opened' = [opened EXCEPT ![m] = NoFile]
  /\ UNCHANGED <<job, locking, force, fileVars, pc, failed, made, outcome, userVars, cleanVars, fault>>

(***************************************************************************)
(* The mounts, and the user.                                               *)
(***************************************************************************)

(* session.runQEMU asks VMImageExists, checkTargetAccess opens a disk image. *)
UserLooks(u) ==
  /\ use[u] = "look"
  /\ use' = [use EXCEPT ![u] = IF name = NoFile THEN "over" ELSE "found"]
  /\ UNCHANGED <<job, locking, force, fileVars, makerVars, used, cleanVars, fault>>

(* drive publishes the mount before it starts the guest. *)
UserRegisters(u) ==
  /\ use[u] = "found"
  /\ use' = [use EXCEPT ![u] = "boot"]
  /\ UNCHANGED <<job, locking, force, fileVars, makerVars, used, cleanVars, fault>>

UserBoots(u) ==
  /\ use[u] = "boot" /\ name # NoFile /\ ~Locked
  /\ use' = [use EXCEPT ![u] = "up"]
  /\ used' = [used EXCEPT ![u] = content[name]]
  /\ Raises("early", \E m \in Makers : opened[m] = name \/ (m \in AtWork /\ made[m] = name))
  /\ UNCHANGED <<job, locking, force, fileVars, makerVars, cleanVars>>

UserEnds(u) ==
  /\ use[u] \in {"found", "boot", "up"}
  /\ use' = [use EXCEPT ![u] = "over"]
  /\ UNCHANGED <<job, locking, force, fileVars, makerVars, used, cleanVars, fault>>

(* The user puts a file of their own at the path of a disk image. *)
FilePlaced ==
  /\ job = "create" /\ name = NoFile /\ foreign = {}
  /\ name' = Fresh /\ content' = [content EXCEPT ![Fresh] = "whole"] /\ foreign' = {Fresh}
  /\ UNCHANGED <<job, locking, force, makerVars, userVars, cleanVars, fault>>

(***************************************************************************)
(* clean: Sessions, the question, RemoveAll.                               *)
(***************************************************************************)
Registered == {u \in Users : use[u] \in {"boot", "up"}}

CleanLooks ==
  /\ job = "build" /\ clean = "idle"
  /\ looked' = Registered
  /\ \/ clean' = (IF Registered = {} THEN "asking" ELSE "over") /\ UNCHANGED fault
     \/ clean' = "asking" /\ fault' = fault \cup {"unreadable"}   \* only a warning
  /\ UNCHANGED <<job, locking, force, fileVars, makerVars, userVars, lost>>

CleanRemoves ==
  /\ clean = "asking"
  /\ clean' = "over"
  /\ name' = NoFile
  /\ lost' = Registered
  /\ Raises("cleaned", name # NoFile)
  /\ UNCHANGED <<job, locking, force, content, foreign, makerVars, userVars, looked>>

CleanAborted ==
  /\ clean = "asking"
  /\ clean' = "over"
  /\ UNCHANGED <<job, locking, force, fileVars, makerVars, userVars, looked, lost, fault>>

MakerStep(m) ==
  \/ LookFree(m) \/ LookTaken(m) \/ RemoveOld(m) \/ RemoveOldFails(m)
  \/ Fetch(m) \/ FetchFails(m) \/ StatOutput(m)
  \/ QemuImg(m) \/ QemuImgFails(m) \/ CreateFile(m) \/ CreateRefused(m)
  \/ Start(m) \/ StartFails(m) \/ Work(m) \/ WorkFails(m)
  \/ Stop(m) \/ Undo(m) \/ UndoFails(m) \/ Killed(m) \/ GuestEnds(m)

Next ==
  \/ \E m \in Makers : MakerStep(m)
  \/ \E u \in Users : UserLooks(u) \/ UserRegisters(u) \/ UserBoots(u) \/ UserEnds(u)
  \/ FilePlaced \/ CleanLooks \/ CleanRemoves \/ CleanAborted

Spec == Init /\ [][Next]_vars

(***************************************************************************)
(* Properties.                                                             *)
(***************************************************************************)

(* A half-made image is worse than none (create.go, BuildImage): once every  *)
(* command is over and its guest gone, the file at the path is whole, and    *)
(* no guest of a mount met one that was not, except after a named fault.     *)
HalfMade ==
  /\ AtWork = {} /\ opened = [m \in Makers |-> NoFile]
  /\ name # NoFile /\ content[name] # "whole"

NothingHalfMade ==
  /\ HalfMade => fault \cap {"killed", "qemu-img", "not removed", "overlap", "shared"} # {}
  /\ \A u \in Users :
       used[u] \notin {"none", "whole"}
         => fault \cap {"killed", "qemu-img", "not removed", "overlap", "shared",
                         "early", "swapped"} # {}

(* "Guest image built", "Created": a command that succeeds leaves the file   *)
(* it made, whole, at the path, unless another command of the same path      *)
(* came in between: one with --force, one that ended with an error and       *)
(* removed by name, one whose qemu-img came after the other's or whose       *)
(* container wrote to the same file, or clean.                               *)
DoneMeansThere ==
  [][\A m \in Makers :
       outcome[m] # "done" /\ outcome'[m] = "done"
         => \/ name = made[m] /\ content[name] = "whole"
            \/ fault \cap {"forced", "swapped", "overlap", "shared", "cleaned"} # {}]_vars

(* What somebody else made is spared: a file that no command made stays in   *)
(* place and whole as long as nobody says --force or cleans, whenever it was *)
(* put there; and clean takes no record of a mount that was registered when  *)
(* it looked, if it could look.                                              *)
SparesOthers ==
  /\ force = {} /\ "cleaned" \notin fault
       => \A f \in foreign : name = f /\ content[f] = "whole"
  /\ "unreadable" \notin fault => looked \cap lost = {}
=============================================================================
