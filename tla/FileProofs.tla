----------------------------- MODULE FileProofs -----------------------------
(*****************************************************************************)
(* Proofs about files that come to be under the name they will have, and     *)
(* must be whole when somebody relies on it.                                 *)
(*                                                                           *)
(* Of Image, for any number of commands and mounts: no file is left          *)
(* half-made, a command that succeeds leaves what it made, and what somebody *)
(* else made is spared, except after the faults each of these names.         *)
(* BaseInv says which file each command has made and has open; on top of it  *)
(* stand an invariant for each of the three, every one of them inductive     *)
(* under BaseInv.                                                            *)
(*                                                                           *)
(* Of Download, for any number of processes: only a file whose digest        *)
(* matched is put in place by the process that wrote it, and what a killed   *)
(* attempt left behind never keeps the next one of that process from         *)
(* starting over.  The inductive invariant, DownloadInv, ties the file a     *)
(* process has open to the one that the name <name>.part stands for, which   *)
(* every process may take away or replace.                                   *)
(*****************************************************************************)
EXTENDS Image, Download, FiniteSetTheorems, TLAPS

-----------------------------------------------------------------------------
(* Images.                                                                   *)

Early   == {"look", "remove", "fetch", "stat", "make"}
Working == {"start", "work", "stop", "undo"}
Faults  == {"forced", "overlap", "qemu-img", "swapped", "not removed", "killed", "early",
            "shared", "unreadable", "cleaned"}

ImageTypeOK ==
  /\ job \in {"build", "create"} /\ locking \in BOOLEAN /\ force \subseteq Makers
  /\ name \in Files \cup {NoFile}
  /\ content \in [Files -> {"free", "blank", "half", "whole"}]
  /\ foreign \subseteq Files
  /\ pc \in [Makers -> Early \cup Working \cup {"over"}]
  /\ failed \subseteq Makers
  /\ made \in [Makers -> Files \cup {NoFile}]
  /\ opened \in [Makers -> Files \cup {NoFile}]
  /\ outcome \in [Makers -> {"none", "refused", "failed", "killed", "done"}]
  /\ use \in [Users -> {"look", "found", "boot", "up", "over"}]
  /\ used \in [Users -> {"none", "free", "blank", "half", "whole"}]
  /\ clean \in {"idle", "asking", "over"}
  /\ looked \subseteq Users /\ lost \subseteq Users
  /\ fault \subseteq Faults

(* A file that has come to be was made by a command or placed by the user,   *)
(* who places at most one; so there is always a free one to be made.         *)
FileInv ==
  /\ name # NoFile => content[name] # "free"
  /\ \A m \in Makers : /\ made[m] # NoFile => content[made[m]] # "free"
                       /\ opened[m] # NoFile => content[opened[m]] # "free"
  /\ \A f \in foreign : content[f] # "free"
  /\ \A f \in Files : content[f] # "free" => f \in foreign \/ \E m \in Makers : made[m] = f
  /\ \A f, g \in foreign : f = g

(* A command has made a file while it works on one, and has one open while   *)
(* its guest is at work on it, though not always the one it made.            *)
MakerInv ==
  \A m \in Makers :
    /\ pc[m] \in Early => made[m] = NoFile /\ opened[m] = NoFile /\ m \notin failed
    /\ pc[m] = "remove" => m \in force
    /\ pc[m] \in Working => made[m] # NoFile
    /\ pc[m] \in {"work", "stop"} => opened[m] # NoFile
    /\ opened[m] # NoFile => pc[m] \in {"work", "stop", "over"}
    /\ opened[m] # NoFile => opened[m] = made[m] \/ "swapped" \in fault
    /\ pc[m] = "undo" => m \in failed

(* Only qemu-img, whose Stat is stale, gives two commands the same file, or  *)
(* one that somebody else made.                                              *)
OwnInv ==
  /\ "overlap" \in fault => job = "build"
  /\ \A m \in Makers : made[m] # NoFile /\ "overlap" \notin fault
       => /\ made[m] \notin foreign
          /\ \A x \in Makers : made[x] = made[m] => x = m

BaseInv == ImageTypeOK /\ FileInv /\ MakerInv /\ OwnInv

(* While a command works, the path is that of the file it made, and when it  *)
(* has worked that file is whole.                                            *)
PresentInv ==
  fault \cap {"forced", "swapped", "overlap", "shared", "cleaned"} = {}
    => \A m \in Makers :
         /\ pc[m] \in Working => name = made[m]
         /\ pc[m] = "stop" /\ m \notin failed => content[made[m]] = "whole"

(* A file at the path that is not whole has a command that will see to it:   *)
(* one that is about to start, is at work on it, or will remove it.          *)
WillSeeToIt(m) ==
  \/ pc[m] \in {"start", "undo"}
  \/ pc[m] = "work" /\ opened[m] = name
  \/ pc[m] = "stop" /\ m \in failed

(* As long as every guest got the file that its command made, that command   *)
(* is the one that made the file.                                            *)
MadeIt(m) ==
  /\ made[m] = name
  /\ pc[m] \in {"start", "work", "undo"} \/ (pc[m] = "stop" /\ m \in failed)

HalfFaults == {"killed", "qemu-img", "not removed", "overlap", "shared"}

HalfInv ==
  name # NoFile /\ content[name] # "whole" /\ fault \cap HalfFaults = {}
    => /\ \E m \in Makers : WillSeeToIt(m)
       /\ "swapped" \notin fault => \E m \in Makers : MadeIt(m)

UsedInv ==
  \A u \in Users :
    used[u] \notin {"none", "whole"} => fault \cap (HalfFaults \cup {"early", "swapped"}) # {}

(* What is not the commands' own: of a build that meets it, every command    *)
(* is refused; those of a create make their file where there is none.        *)
SparedInv ==
  force = {} /\ "cleaned" \notin fault
    => /\ \A f \in foreign : name = f /\ content[f] = "whole"
       /\ job = "create"
            => \A m \in Makers : pc[m] \in Working => name = made[m] /\ made[m] \notin foreign
       /\ job = "build" /\ foreign # {}
            => \A m \in Makers : pc[m] \in {"look", "over"}

(* clean asks only when it has seen no mount, or could not see.              *)
CleanInv ==
  /\ clean # "over" => lost = {}
  /\ clean = "asking" /\ "unreadable" \notin fault => looked = {}
  /\ "unreadable" \notin fault => looked \cap lost = {}

ImageInv == BaseInv /\ PresentInv /\ HalfInv /\ UsedInv /\ SparedInv /\ CleanInv

-----------------------------------------------------------------------------
(* There is always a file that has not come to be yet: those that have were  *)
(* made by a command each, but for one that the user may have placed.        *)
LEMMA FreshIsFree ==
  ASSUME BaseInv
  PROVE  Fresh \in Files /\ content[Fresh] = "free"
<1> USE DEF BaseInv, ImageTypeOK
<1>1. \E f \in Files : content[f] = "free"
  <2> SUFFICES ASSUME \A f \in Files : content[f] # "free" PROVE FALSE
    OBVIOUS
  <2> DEFINE Made == {made[m] : m \in Makers}
  <2>1. made \in Surjection(Makers, Made)
    BY DEF Surjection
  <2>2. IsFiniteSet(Made) /\ Cardinality(Made) <= Cardinality(Makers)
    BY <2>1, FS_Surjection, ImageAssumption
  <2>3. IsFiniteSet(foreign) /\ Cardinality(foreign) <= 1
    <3>1. CASE foreign = {}
      <4>1. IsFiniteSet(foreign) /\ Cardinality(foreign) = 0
        BY <3>1, FS_EmptySet, Zenon
      <4> QED
        BY <4>1
    <3>2. ASSUME NEW f, foreign = {f} PROVE IsFiniteSet(foreign) /\ Cardinality(foreign) <= 1
      <4>1. IsFiniteSet(foreign) /\ Cardinality(foreign) = 1
        BY <3>2, FS_Singleton, Zenon
      <4> QED
        BY <4>1
    <3>3. \A f, g \in foreign : f = g
      BY DEF FileInv
    <3>4. foreign = {} \/ \E f : foreign = {f}
      BY <3>3
    <3> QED
      BY <3>1, <3>2, <3>4
  <2>4. Files \subseteq Made \cup foreign
    BY DEF FileInv
  <2>5. IsFiniteSet(Made \cup foreign)
        /\ Cardinality(Made \cup foreign)
             = Cardinality(Made) + Cardinality(foreign) - Cardinality(Made \cap foreign)
    BY <2>2, <2>3, FS_Union
  <2>6. Cardinality(Files) <= Cardinality(Made \cup foreign)
    BY <2>4, <2>5, FS_Subset
  <2>7. /\ Cardinality(Files) \in Nat /\ Cardinality(Makers) \in Nat
        /\ Cardinality(Made) \in Nat /\ Cardinality(foreign) \in Nat
    BY <2>2, <2>3, FS_CardinalityType, ImageAssumption
  <2>8. Cardinality(Made \cap foreign) \in Nat
    BY <2>2, FS_Intersection, FS_CardinalityType
  <2> HIDE DEF Made
  <2> QED
    BY <2>2, <2>3, <2>5, <2>6, <2>7, <2>8, ImageAssumption
<1> QED
  BY <1>1 DEF Fresh

(* What making a file comes to: a file that no command had and nobody else,  *)
(* the one that has come to be at the path, or none.                         *)
MakesNew(m, f) ==
  /\ content[f] = "free" /\ f \notin foreign /\ \A x \in Makers : made[x] # f
  /\ name = NoFile /\ name' = f
  /\ content' = [content EXCEPT ![f] = "blank"]
  /\ made' = [made EXCEPT ![m] = f]
  /\ \/ /\ pc' = [pc EXCEPT ![m] = "start"]
        /\ UNCHANGED <<failed, fault>>
     \/ /\ pc' = [pc EXCEPT ![m] = "undo"]
        /\ failed' = failed \cup {m} /\ UNCHANGED fault
     \/ /\ pc' = [pc EXCEPT ![m] = "over"]
        /\ fault' = fault \cup {"qemu-img"} /\ UNCHANGED failed

MakesTaken(m) ==
  /\ job = "build" /\ name # NoFile
  /\ content' = [content EXCEPT ![name] = "blank"]
  /\ made' = [made EXCEPT ![m] = name]
  /\ pc' = [pc EXCEPT ![m] = "start"]
  /\ fault' = fault \cup {"overlap"}
  /\ UNCHANGED <<name, failed>>

MakesNone(m) ==
  /\ pc' = [pc EXCEPT ![m] = "over"]
  /\ UNCHANGED <<name, content, made, failed, fault>>

Makes(m) == QemuImg(m) \/ QemuImgFails(m) \/ CreateFile(m)

(* qemu-img, failing or not, and createSparseFile do one of these.           *)
LEMMA MakesWhat ==
  ASSUME BaseInv, NEW m \in Makers, Makes(m)
  PROVE  /\ pc[m] = "make"
         /\ outcome' \in {outcome, [outcome EXCEPT ![m] = "failed"]}
         /\ UNCHANGED <<job, locking, force, foreign, opened, userVars, cleanVars>>
         /\ (\E f \in Files : MakesNew(m, f)) \/ MakesTaken(m) \/ MakesNone(m)
<1>1. /\ Fresh \in Files /\ content[Fresh] = "free" /\ Fresh # NoFile
      /\ Fresh \notin foreign /\ \A x \in Makers : made[x] # Fresh
  BY FreshIsFree, ImageAssumption DEF BaseInv, FileInv
<1> DEFINE f == Fresh
<1>2. /\ pc[m] = "make"
      /\ UNCHANGED <<job, locking, force, foreign, opened, userVars, cleanVars>>
  BY DEF Makes, QemuImg, QemuImgFails, CreateFile, At
<1>3. outcome' \in {outcome, [outcome EXCEPT ![m] = "failed"]}
  BY DEF Makes, QemuImg, QemuImgFails, CreateFile, Goes, Ends
<1>4. CASE NewFile(m) /\ Makes(m)
  <2>1. /\ name = NoFile /\ name' = f
        /\ content' = [content EXCEPT ![f] = "blank"]
        /\ made' = [made EXCEPT ![m] = f]
    BY <1>4 DEF NewFile
  <2>2. \/ pc' = [pc EXCEPT ![m] = "start"] /\ UNCHANGED <<failed, fault>>
        \/ /\ pc' = [pc EXCEPT ![m] = "undo"]
           /\ failed' = failed \cup {m} /\ UNCHANGED fault
        \/ /\ pc' = [pc EXCEPT ![m] = "over"]
           /\ fault' = fault \cup {"qemu-img"} /\ UNCHANGED failed
    BY <1>1, <1>4, <2>1 DEF Makes, QemuImg, QemuImgFails, CreateFile, Goes, Ends
  <2>3. MakesNew(m, f)
    BY <1>1, <2>1, <2>2 DEF MakesNew
  <2> QED
    BY <1>1, <1>2, <1>3, <2>3
<1>5. CASE ~NewFile(m)
  BY <1>2, <1>3, <1>5 DEF Makes, QemuImg, QemuImgFails, CreateFile, Goes, Ends, MakesTaken,
     MakesNone
<1> QED
  BY <1>4, <1>5

(* The initial states satisfy the invariant.                                 *)
LEMMA BaseInit == Init => BaseInv
<1> SUFFICES ASSUME Init PROVE BaseInv
  OBVIOUS
<1>1. Cardinality(Files) # 0
  BY ImageAssumption, FS_CardinalityType
<1>2. Files # {}
  BY <1>1, FS_EmptySet, ImageAssumption
<1>3. name \in Files \cup {NoFile}
  BY <1>2 DEF Init
<1>4. locking \in BOOLEAN /\ job \in {"build", "create"} /\ force \subseteq Makers
  BY DEF Init
<1>5. ImageTypeOK
  BY <1>3, <1>4 DEF Init, ImageTypeOK, Early, Working, Faults
<1>6. FileInv /\ MakerInv /\ OwnInv
  BY <1>3, ImageAssumption DEF Init, FileInv, MakerInv, OwnInv, Early, Working
<1> QED
  BY <1>5, <1>6 DEF BaseInv

(* Types: a command that has not made its file yet.                          *)
LEMMA TypeEarly ==
  ASSUME BaseInv, NEW m \in Makers,
         LookFree(m) \/ LookTaken(m) \/ RemoveOld(m) \/ RemoveOldFails(m) \/ Fetch(m)
         \/ FetchFails(m) \/ StatOutput(m) \/ CreateRefused(m)
  PROVE  ImageTypeOK'
<1> USE DEF BaseInv, ImageTypeOK, Early, Working, Faults, fileVars, makerVars, userVars, cleanVars,
        At, Goes, Ends, Raises
<1>1. CASE LookFree(m)
  BY <1>1 DEF LookFree
<1>2. CASE LookTaken(m)
  BY <1>2 DEF LookTaken
<1>3. CASE RemoveOld(m)
  BY <1>3 DEF RemoveOld
<1>4. CASE RemoveOldFails(m)
  BY <1>4 DEF RemoveOldFails
<1>5. CASE Fetch(m)
  BY <1>5 DEF Fetch
<1>6. CASE FetchFails(m)
  BY <1>6 DEF FetchFails
<1>7. CASE StatOutput(m)
  BY <1>7 DEF StatOutput
<1>8. CASE CreateRefused(m)
  BY <1>8 DEF CreateRefused
<1> QED
  BY <1>1, <1>2, <1>3, <1>4, <1>5, <1>6, <1>7, <1>8

(* Types: a command that makes its file, or finds one there.                 *)
LEMMA TypeMake ==
  ASSUME BaseInv, NEW m \in Makers, Makes(m)
  PROVE  ImageTypeOK'
<1> USE DEF BaseInv, ImageTypeOK, Early, Working, Faults, userVars, cleanVars
<1>1. /\ UNCHANGED <<job, locking, force, foreign, opened, userVars, cleanVars>>
      /\ outcome' \in {outcome, [outcome EXCEPT ![m] = "failed"]}
  BY MakesWhat
<1>2. ASSUME NEW f \in Files, MakesNew(m, f) PROVE ImageTypeOK'
  BY <1>1, <1>2 DEF MakesNew
<1>3. CASE MakesTaken(m)
  BY <1>1, <1>3 DEF MakesTaken
<1>4. CASE MakesNone(m)
  BY <1>1, <1>4 DEF MakesNone
<1> QED
  BY <1>2, <1>3, <1>4, MakesWhat

(* Types: a command that has made its file.                                  *)
LEMMA TypeLate ==
  ASSUME BaseInv, NEW m \in Makers,
         Start(m) \/ StartFails(m) \/ Work(m) \/ WorkFails(m) \/ Stop(m) \/ Undo(m)
         \/ UndoFails(m) \/ Killed(m) \/ GuestEnds(m)
  PROVE  ImageTypeOK'
<1> USE DEF BaseInv, ImageTypeOK, Early, Working, Faults, fileVars, makerVars, userVars, cleanVars,
        At, Goes, Ends, Raises
<1>1. CASE Start(m)
  BY <1>1 DEF Start
<1>2. CASE StartFails(m)
  BY <1>2 DEF StartFails
<1>3. CASE Work(m)
  BY <1>3 DEF Work
<1>4. CASE WorkFails(m)
  BY <1>4 DEF WorkFails
<1>5. CASE Stop(m)
  BY <1>5 DEF Stop
<1>6. CASE Undo(m)
  BY <1>6 DEF Undo
<1>7. CASE UndoFails(m)
  BY <1>7 DEF UndoFails
<1>8. CASE Killed(m)
  BY <1>8 DEF Killed
<1>9. CASE GuestEnds(m)
  BY <1>9 DEF GuestEnds
<1> QED
  BY <1>1, <1>2, <1>3, <1>4, <1>5, <1>6, <1>7, <1>8, <1>9

(* Types: a mount.                                                           *)
LEMMA TypeUser ==
  ASSUME BaseInv, NEW u \in Users,
         UserLooks(u) \/ UserRegisters(u) \/ UserBoots(u) \/ UserEnds(u)
  PROVE  ImageTypeOK'
<1> USE DEF BaseInv, ImageTypeOK, Early, Working, Faults, fileVars, makerVars, userVars, cleanVars
<1>1. CASE UserLooks(u)
  BY <1>1 DEF UserLooks, Raises
<1>2. CASE UserRegisters(u)
  BY <1>2 DEF UserRegisters, Raises
<1>3. CASE UserBoots(u)
  BY <1>3 DEF UserBoots, Raises
<1>4. CASE UserEnds(u)
  BY <1>4 DEF UserEnds, Raises
<1> QED
  BY <1>1, <1>2, <1>3, <1>4

(* Types: the user, and clean.                                               *)
LEMMA TypeOther ==
  ASSUME BaseInv, FilePlaced \/ CleanLooks \/ CleanRemoves \/ CleanAborted
  PROVE  ImageTypeOK'
<1> USE DEF BaseInv, ImageTypeOK, Early, Working, Faults, fileVars, makerVars, userVars, cleanVars
<1>1. CASE FilePlaced
  BY <1>1, FreshIsFree DEF FilePlaced, Raises, Registered
<1>2. CASE CleanLooks
  BY <1>2, FreshIsFree DEF CleanLooks, Raises, Registered
<1>3. CASE CleanRemoves
  BY <1>3, FreshIsFree DEF CleanRemoves, Raises, Registered
<1>4. CASE CleanAborted
  BY <1>4, FreshIsFree DEF CleanAborted, Raises, Registered
<1> QED
  BY <1>1, <1>2, <1>3, <1>4


-----------------------------------------------------------------------------
(* What the other steps leave alone.                                         *)

(* The steps of a command that touch neither the path nor a file.            *)
Aside(m) ==
  \/ LookFree(m) \/ LookTaken(m) \/ RemoveOldFails(m) \/ Fetch(m) \/ FetchFails(m)
  \/ StatOutput(m) \/ CreateRefused(m) \/ StartFails(m) \/ WorkFails(m) \/ Stop(m)
  \/ UndoFails(m) \/ Killed(m) \/ GuestEnds(m)

UserStep(u) == UserLooks(u) \/ UserRegisters(u) \/ UserBoots(u) \/ UserEnds(u)

(* They leave the files alone; a guest only ever closes the one it has open. *)
LEMMA AsideLeaves ==
  ASSUME NEW m \in Makers, Aside(m)
  PROVE  /\ UNCHANGED <<job, force, name, content, foreign, made, userVars, cleanVars>>
         /\ opened' = opened \/ opened' = [opened EXCEPT ![m] = NoFile]
  BY DEF Aside, LookFree, LookTaken, RemoveOldFails, Fetch, FetchFails, StatOutput,
     CreateRefused, StartFails, WorkFails, Stop, UndoFails, Killed, GuestEnds, fileVars

(* A mount leaves the commands and their files alone.                        *)
LEMMA UserLeaves ==
  ASSUME NEW u \in Users, UserStep(u)
  PROVE  UNCHANGED <<job, force, name, content, foreign, makerVars, cleanVars>>
  BY DEF UserStep, UserLooks, UserRegisters, UserBoots, UserEnds, fileVars

(* So do clean, which only takes the path away, and the user, who fills it.  *)
LEMMA OtherLeaves ==
  ASSUME FilePlaced \/ CleanLooks \/ CleanRemoves \/ CleanAborted
  PROVE  /\ UNCHANGED <<job, force, makerVars, userVars>>
         /\ CleanLooks \/ CleanAborted => UNCHANGED <<name, content, foreign>>
         /\ CleanRemoves => name' = NoFile /\ UNCHANGED <<content, foreign>>
  BY DEF FilePlaced, CleanLooks, CleanRemoves, CleanAborted, fileVars

(* No fault is forgotten, and only qemu-img makes an overlap.                *)
LEMMA FaultsStay ==
  ASSUME BaseInv, Next
  PROVE  /\ fault \subseteq fault'
         /\ "overlap" \in fault' => "overlap" \in fault \/ \E m \in Makers : Makes(m)
<1> DEFINE Goal == /\ fault \subseteq fault'
                   /\ "overlap" \in fault' => "overlap" \in fault \/ \E m \in Makers : Makes(m)
<1>1. ASSUME NEW m \in Makers, Makes(m) PROVE Goal
  BY <1>1, MakesWhat DEF MakesNew, MakesTaken, MakesNone
<1>2. ASSUME NEW m \in Makers, Aside(m) PROVE Goal
  BY <1>2 DEF Aside, Raises, LookFree, LookTaken, RemoveOldFails, Fetch, FetchFails,
     StatOutput, CreateRefused, StartFails, WorkFails, Stop, UndoFails, Killed, GuestEnds
<1>3. ASSUME NEW m \in Makers, RemoveOld(m) \/ Undo(m) \/ Start(m) \/ Work(m) PROVE Goal
  BY <1>3 DEF Raises, RemoveOld, Undo, Start, Work
<1>4. ASSUME NEW u \in Users, UserStep(u) PROVE Goal
  BY <1>4 DEF UserStep, UserLooks, UserRegisters, UserBoots, UserEnds, Raises
<1>5. CASE FilePlaced \/ CleanLooks \/ CleanRemoves \/ CleanAborted
  BY <1>5 DEF FilePlaced, CleanLooks, CleanRemoves, CleanAborted, Raises
<1> QED
  BY <1>1, <1>2, <1>3, <1>4, <1>5 DEF Next, MakerStep, Aside, Makes, UserStep

-----------------------------------------------------------------------------
(* BaseInv is inductive.                                                     *)

(* Files: the path is freed, a file comes to be, or one that has is written. *)
LEMMA FileKept ==
  ASSUME BaseInv, Next
  PROVE  FileInv'
<1> USE ImageAssumption DEF BaseInv, ImageTypeOK, FileInv, makerVars
<1>1. ASSUME NEW m \in Makers, Aside(m) PROVE FileInv'
  BY <1>1, AsideLeaves
<1>2. ASSUME NEW u \in Users, UserStep(u) PROVE FileInv'
  BY <1>2, UserLeaves
<1>3. CASE CleanLooks \/ CleanRemoves \/ CleanAborted
  BY <1>3, OtherLeaves
<1>4. ASSUME NEW m \in Makers, RemoveOld(m) PROVE FileInv'
  BY <1>4 DEF RemoveOld
<1>5. ASSUME NEW m \in Makers, Undo(m) PROVE FileInv'
  BY <1>5 DEF Undo
<1>6. ASSUME NEW m \in Makers, Makes(m) PROVE FileInv'
  <2>1. UNCHANGED <<foreign, opened>> /\ pc[m] = "make"
    BY <1>6, MakesWhat
  <2>2. made[m] = NoFile
    BY <2>1 DEF MakerInv, Early
  <2>3. ASSUME NEW f \in Files, MakesNew(m, f) PROVE FileInv'
    BY <2>1, <2>2, <2>3 DEF MakesNew
  <2>4. CASE MakesTaken(m)
    BY <2>1, <2>2, <2>4 DEF MakesTaken
  <2>5. CASE MakesNone(m)
    BY <2>1, <2>5 DEF MakesNone
  <2> QED
    BY <1>6, <2>3, <2>4, <2>5, MakesWhat
<1>7. ASSUME NEW m \in Makers, Start(m) PROVE FileInv'
  BY <1>7 DEF Start
<1>8. ASSUME NEW m \in Makers, Work(m) PROVE FileInv'
  <2>1. opened[m] \in Files /\ content[opened[m]] # "free"
    BY <1>8 DEF Work, At, MakerInv
  <2> QED
    BY <1>8, <2>1 DEF Work
<1>9. CASE FilePlaced
  BY <1>9, FreshIsFree DEF FilePlaced
<1> QED
  BY <1>1, <1>2, <1>3, <1>4, <1>5, <1>6, <1>7, <1>8, <1>9
     DEF Next, MakerStep, Aside, Makes, UserStep

(* Commands: each step moves one of them, and leaves what the others have.   *)
LEMMA MakerKept ==
  ASSUME BaseInv, Next
  PROVE  MakerInv'
<1> USE ImageAssumption DEF BaseInv, ImageTypeOK, MakerInv, Early, Working, makerVars,
        At, Goes, Ends
<1>0. fault \subseteq fault'
  BY FaultsStay
<1>1. ASSUME NEW m \in Makers, LookFree(m) PROVE MakerInv'
  BY <1>0, <1>1 DEF LookFree
<1>2. ASSUME NEW m \in Makers, LookTaken(m) PROVE MakerInv'
  BY <1>0, <1>2 DEF LookTaken
<1>3. ASSUME NEW m \in Makers, RemoveOld(m) PROVE MakerInv'
  BY <1>0, <1>3 DEF RemoveOld
<1>4. ASSUME NEW m \in Makers, RemoveOldFails(m) PROVE MakerInv'
  BY <1>0, <1>4 DEF RemoveOldFails
<1>5. ASSUME NEW m \in Makers, Fetch(m) PROVE MakerInv'
  BY <1>0, <1>5 DEF Fetch
<1>6. ASSUME NEW m \in Makers, FetchFails(m) PROVE MakerInv'
  BY <1>0, <1>6 DEF FetchFails
<1>7. ASSUME NEW m \in Makers, StatOutput(m) PROVE MakerInv'
  BY <1>0, <1>7 DEF StatOutput
<1>8. ASSUME NEW m \in Makers, CreateRefused(m) PROVE MakerInv'
  BY <1>0, <1>8 DEF CreateRefused
<1>9. ASSUME NEW m \in Makers, Start(m) PROVE MakerInv'
  <2>1. /\ pc[m] = "start" /\ name # NoFile
        /\ opened' = [opened EXCEPT ![m] = name]
        /\ pc' = [pc EXCEPT ![m] = "work"]
        /\ UNCHANGED <<force, failed, made>>
    BY <1>9 DEF Start
  <2>2. name = made[m] \/ "swapped" \in fault'
    BY <1>9 DEF Start, Raises
  <2> QED
    BY <1>0, <2>1, <2>2
<1>10. ASSUME NEW m \in Makers, StartFails(m) PROVE MakerInv'
  BY <1>0, <1>10 DEF StartFails
<1>11. ASSUME NEW m \in Makers, Work(m) PROVE MakerInv'
  BY <1>0, <1>11 DEF Work
<1>12. ASSUME NEW m \in Makers, WorkFails(m) PROVE MakerInv'
  BY <1>0, <1>12 DEF WorkFails
<1>13. ASSUME NEW m \in Makers, Stop(m) PROVE MakerInv'
  BY <1>0, <1>13 DEF Stop
<1>14. ASSUME NEW m \in Makers, Undo(m) PROVE MakerInv'
  BY <1>0, <1>14 DEF Undo
<1>15. ASSUME NEW m \in Makers, UndoFails(m) PROVE MakerInv'
  BY <1>0, <1>15 DEF UndoFails
<1>16. ASSUME NEW m \in Makers, Killed(m) PROVE MakerInv'
  BY <1>0, <1>16 DEF Killed
<1>17. ASSUME NEW m \in Makers, GuestEnds(m) PROVE MakerInv'
  BY <1>0, <1>17 DEF GuestEnds
<1>18. ASSUME NEW m \in Makers, Makes(m) PROVE MakerInv'
  <2>1. UNCHANGED <<force, opened>> /\ pc[m] = "make"
    BY <1>18, MakesWhat
  <2>2. ASSUME NEW f \in Files, MakesNew(m, f) PROVE MakerInv'
    BY <1>0, <2>1, <2>2 DEF MakesNew
  <2>3. CASE MakesTaken(m)
    BY <1>0, <2>1, <2>3 DEF MakesTaken
  <2>4. CASE MakesNone(m)
    BY <1>0, <2>1, <2>4 DEF MakesNone
  <2> QED
    BY <1>18, <2>2, <2>3, <2>4, MakesWhat
<1>19. ASSUME NEW u \in Users, UserStep(u) PROVE MakerInv'
  BY <1>0, <1>19, UserLeaves
<1>20. CASE FilePlaced \/ CleanLooks \/ CleanRemoves \/ CleanAborted
  BY <1>0, <1>20, OtherLeaves
<1> QED
  BY <1>1, <1>2, <1>3, <1>4, <1>5, <1>6, <1>7, <1>8, <1>9, <1>10, <1>11, <1>12,
     <1>13, <1>14, <1>15, <1>16, <1>17, <1>18, <1>19, <1>20
     DEF Next, MakerStep, Makes, UserStep

(* Whose file is whose: a step that makes none changes nothing of that.      *)
LEMMA OwnKept ==
  ASSUME BaseInv, Next
  PROVE  OwnInv'
<1> USE ImageAssumption DEF BaseInv, ImageTypeOK, OwnInv, makerVars
<1>1. ASSUME NEW m \in Makers, Makes(m) PROVE OwnInv'
  <2>1. UNCHANGED <<job, foreign>>
    BY <1>1, MakesWhat
  <2>2. ASSUME NEW f \in Files, MakesNew(m, f) PROVE OwnInv'
    BY <2>1, <2>2 DEF MakesNew
  <2>3. CASE MakesTaken(m)
    BY <2>1, <2>3 DEF MakesTaken
  <2>4. CASE MakesNone(m)
    BY <2>1, <2>4 DEF MakesNone
  <2> QED
    BY <1>1, <2>2, <2>3, <2>4, MakesWhat
<1>2. CASE FilePlaced
  <2>1. UNCHANGED <<job, made, fault>> /\ foreign' = {Fresh}
    BY <1>2 DEF FilePlaced
  <2>2. \A m \in Makers : made[m] # Fresh
    BY FreshIsFree DEF FileInv
  <2> QED
    BY <2>1, <2>2
<1>3. CASE UNCHANGED <<job, made, foreign>> /\ ~\E m \in Makers : Makes(m)
  BY <1>3, FaultsStay
<1>4. ASSUME NEW m \in Makers, RemoveOld(m) \/ Undo(m) \/ Start(m) \/ Work(m)
      PROVE  UNCHANGED <<job, made, foreign>>
  BY <1>4 DEF RemoveOld, Undo, Start, Work
<1>5. UNCHANGED <<job, made, foreign>> \/ FilePlaced \/ \E m \in Makers : Makes(m)
  BY <1>4, AsideLeaves, UserLeaves, OtherLeaves DEF Next, MakerStep, Aside, Makes, UserStep
<1> QED
  BY <1>1, <1>2, <1>3, <1>5

(* The base is kept by every step, whoever takes it.                         *)
LEMMA BaseKept ==
  ASSUME BaseInv, [Next]_vars
  PROVE  BaseInv'
<1>1. CASE UNCHANGED vars
  BY <1>1 DEF vars, fileVars, makerVars, userVars, cleanVars, BaseInv, ImageTypeOK, FileInv,
     MakerInv, OwnInv
<1>2. CASE Next
  <2>1. ImageTypeOK'
    BY <1>2, TypeEarly, TypeMake, TypeLate, TypeUser, TypeOther DEF Next, MakerStep, Makes
  <2> QED
    BY <1>2, <2>1, FileKept, MakerKept, OwnKept DEF BaseInv
<1> QED
  BY <1>1, <1>2


-----------------------------------------------------------------------------
(* Done means there.                                                         *)

(* Aside of the files, a command only gives up, or gets to where it undoes.  *)
LEMMA AsideMoves ==
  ASSUME BaseInv, NEW m \in Makers, Aside(m)
  PROVE  /\ \A x \in Makers : x # m => pc'[x] = pc[x]
         /\ pc'[m] \in Working => pc[m] \in Working
         /\ pc'[m] = "stop" => m \in failed'
         /\ failed \subseteq failed'
<1> USE DEF BaseInv, ImageTypeOK, MakerInv, Working, makerVars, At, Goes, Ends
<1>1. CASE LookFree(m)
  BY <1>1 DEF LookFree
<1>2. CASE LookTaken(m)
  BY <1>2 DEF LookTaken
<1>3. CASE RemoveOldFails(m)
  BY <1>3 DEF RemoveOldFails
<1>4. CASE Fetch(m)
  BY <1>4 DEF Fetch
<1>5. CASE FetchFails(m)
  BY <1>5 DEF FetchFails
<1>6. CASE StatOutput(m)
  BY <1>6 DEF StatOutput
<1>7. CASE CreateRefused(m)
  BY <1>7 DEF CreateRefused
<1>8. CASE StartFails(m)
  BY <1>8 DEF StartFails
<1>9. CASE WorkFails(m)
  BY <1>9 DEF WorkFails
<1>10. CASE Stop(m)
  BY <1>10 DEF Stop
<1>11. CASE UndoFails(m)
  BY <1>11 DEF UndoFails
<1>12. CASE Killed(m)
  BY <1>12 DEF Killed
<1>13. CASE GuestEnds(m)
  BY <1>13 DEF GuestEnds
<1> QED
  BY <1>1, <1>2, <1>3, <1>4, <1>5, <1>6, <1>7, <1>8, <1>9, <1>10, <1>11, <1>12, <1>13 DEF Aside

(* A command that made a file, and nothing came in between: it is there.     *)
LEMMA PresentKept ==
  ASSUME BaseInv, PresentInv, Next
  PROVE  PresentInv'
<1> USE DEF BaseInv, ImageTypeOK
<1>0. SUFFICES ASSUME fault' \cap {"forced", "swapped", "overlap", "shared", "cleaned"} = {}
               PROVE  \A x \in Makers :
                        /\ pc'[x] \in Working => name' = made'[x]
                        /\ pc'[x] = "stop" /\ x \notin failed' => content'[made'[x]] = "whole"
  BY DEF PresentInv
<1> DEFINE Goal == \A x \in Makers :
                     /\ pc'[x] \in Working => name' = made'[x]
                     /\ pc'[x] = "stop" /\ x \notin failed' => content'[made'[x]] = "whole"
<1>1. fault \cap {"forced", "swapped", "overlap", "shared", "cleaned"} = {}
  BY <1>0, FaultsStay
<1>2. \A x \in Makers :
         /\ pc[x] \in Working => name = made[x] /\ made[x] # NoFile
         /\ pc[x] = "stop" /\ x \notin failed => content[made[x]] = "whole"
  BY <1>1 DEF PresentInv, MakerInv
<1>3. \A x, y \in Makers : pc[x] \in Working /\ pc[y] \in Working => x = y
  BY <1>1, <1>2 DEF OwnInv
<1>4. ASSUME NEW m \in Makers, Aside(m) PROVE Goal
  BY <1>2, <1>4, AsideLeaves, AsideMoves DEF Working
<1>5. ASSUME NEW u \in Users, UserStep(u) PROVE Goal
  BY <1>2, <1>5, UserLeaves DEF makerVars
<1>6. CASE CleanLooks \/ CleanAborted
  BY <1>2, <1>6, OtherLeaves DEF makerVars
<1>7. CASE FilePlaced
  <2>1. name = NoFile /\ UNCHANGED makerVars
    BY <1>7 DEF FilePlaced
  <2> QED
    BY <1>2, <2>1 DEF makerVars, Working
<1>8. CASE CleanRemoves
  <2>1. name = NoFile /\ UNCHANGED makerVars
    BY <1>0, <1>8 DEF CleanRemoves, Raises
  <2> QED
    BY <1>2, <2>1 DEF makerVars, Working
<1>9. ASSUME NEW m \in Makers, RemoveOld(m) PROVE Goal
  <2>1. \A x \in Makers : pc[x] \in Working => made[x] # name
    BY <1>0, <1>9 DEF RemoveOld, Raises, AtWork, Working
  <2>2. \A x \in Makers : pc[x] \notin Working
    BY <1>2, <2>1
  <2>3. \A x \in Makers : pc'[x] \notin Working
    BY <1>9, <2>2 DEF RemoveOld, Goes, Working
  <2> QED
    BY <2>3 DEF Working
<1>10. ASSUME NEW m \in Makers, Undo(m) PROVE Goal
  <2>1. pc[m] = "undo" /\ pc' = [pc EXCEPT ![m] = "over"]
    BY <1>10 DEF Undo, At, Ends
  <2>2. \A x \in Makers : pc'[x] \notin Working
    BY <1>3, <2>1 DEF Working
  <2> QED
    BY <2>2 DEF Working
<1>11. ASSUME NEW m \in Makers, Makes(m) PROVE Goal
  <2>1. pc[m] = "make"
    BY <1>11, MakesWhat
  <2>2. ASSUME NEW f \in Files, MakesNew(m, f) PROVE Goal
    <3>1. \A x \in Makers : pc[x] \notin Working
      BY <1>2, <2>2 DEF MakesNew
    <3>2. name' = f /\ made'[m] = f /\ pc'[m] \in {"start", "undo", "over"}
          /\ \A x \in Makers : x # m => pc'[x] = pc[x]
      BY <2>2 DEF MakesNew
    <3> QED
      BY <3>1, <3>2 DEF Working
  <2>3. CASE MakesTaken(m)
    BY <1>0, <2>3 DEF MakesTaken
  <2>4. CASE MakesNone(m)
    BY <1>2, <2>4 DEF MakesNone, Working
  <2> QED
    BY <1>11, <2>2, <2>3, <2>4, MakesWhat
<1>12. ASSUME NEW m \in Makers, Start(m) PROVE Goal
  <2>1. pc[m] = "start" /\ pc' = [pc EXCEPT ![m] = "work"] /\ UNCHANGED <<name, made>>
    BY <1>12 DEF Start, At, Goes
  <2>2. \A x \in Makers : x # m => pc'[x] \notin Working
    BY <1>3, <2>1 DEF Working
  <2> QED
    BY <1>2, <2>1, <2>2 DEF Working
<1>13. ASSUME NEW m \in Makers, Work(m) PROVE Goal
  <2>1. /\ pc[m] = "work" /\ pc' = [pc EXCEPT ![m] = "stop"] /\ UNCHANGED <<name, made>>
        /\ content' = [content EXCEPT ![opened[m]] = "whole"]
    BY <1>0, <1>1, <1>13 DEF Work, At, Goes
  <2>2. opened[m] = made[m] /\ made[m] \in Files
    BY <1>1, <1>2, <2>1 DEF MakerInv, Working
  <2>3. \A x \in Makers : x # m => pc'[x] \notin Working
    BY <1>3, <2>1 DEF Working
  <2> QED
    BY <1>2, <2>1, <2>2, <2>3 DEF Working
<1> QED
  BY <1>4, <1>5, <1>6, <1>7, <1>8, <1>9, <1>10, <1>11, <1>12, <1>13
     DEF Next, MakerStep, Aside, Makes, UserStep

-----------------------------------------------------------------------------
(* Nothing half-made.                                                        *)

(* A command that is to see to a half-made file goes on to do so.            *)
KeepSight == \A x \in Makers : (WillSeeToIt(x) => WillSeeToIt(x)') /\ (MadeIt(x) => MadeIt(x)')

(* Aside of the files it does, or a fault is recorded.                       *)
LEMMA AsideSees ==
  ASSUME BaseInv, NEW m \in Makers, Aside(m), fault' \cap HalfFaults = {}
  PROVE  KeepSight
<1> USE DEF BaseInv, ImageTypeOK, HalfFaults
<1>1. /\ UNCHANGED <<name, made>>
      /\ \A x \in Makers : x # m => pc'[x] = pc[x] /\ opened'[x] = opened[x]
      /\ failed \subseteq failed'
  BY AsideLeaves, AsideMoves
<1>2. pc[m] \in Working
        => \/ pc[m] = "start" /\ pc'[m] = "undo"
           \/ pc[m] = "work" /\ pc'[m] = "stop" /\ m \in failed'
           \/ pc[m] = "stop" /\ pc'[m] = "undo"
           \/ pc[m] = "stop" /\ m \notin failed
  <2> USE DEF At, Goes, Ends, Raises, AtWork, Working, MakerInv
  <2>1. CASE LookFree(m)
    BY <2>1 DEF LookFree
  <2>2. CASE LookTaken(m)
    BY <2>2 DEF LookTaken
  <2>3. CASE RemoveOldFails(m)
    BY <2>3 DEF RemoveOldFails
  <2>4. CASE Fetch(m)
    BY <2>4 DEF Fetch
  <2>5. CASE FetchFails(m)
    BY <2>5 DEF FetchFails
  <2>6. CASE StatOutput(m)
    BY <2>6 DEF StatOutput
  <2>7. CASE CreateRefused(m)
    BY <2>7 DEF CreateRefused
  <2>8. CASE StartFails(m)
    BY <2>8 DEF StartFails
  <2>9. CASE WorkFails(m)
    BY <2>9 DEF WorkFails
  <2>10. CASE Stop(m)
    BY <2>10 DEF Stop
  <2>11. CASE UndoFails(m)
    BY <2>11 DEF UndoFails
  <2>12. CASE Killed(m)
    BY <2>12 DEF Killed
  <2>13. CASE GuestEnds(m)
    BY <2>13 DEF GuestEnds
  <2> QED
    BY <2>1, <2>2, <2>3, <2>4, <2>5, <2>6, <2>7, <2>8, <2>9, <2>10, <2>11, <2>12, <2>13 DEF Aside
<1>3. (WillSeeToIt(m) => WillSeeToIt(m)') /\ (MadeIt(m) => MadeIt(m)')
  BY <1>1, <1>2 DEF WillSeeToIt, MadeIt, Working
<1>4. SUFFICES ASSUME NEW x \in Makers
               PROVE  (WillSeeToIt(x) => WillSeeToIt(x)') /\ (MadeIt(x) => MadeIt(x)')
  BY DEF KeepSight
<1>5. CASE x = m
  BY <1>3, <1>5 DEF WillSeeToIt, MadeIt
<1>6. CASE x # m
  BY <1>1, <1>6 DEF WillSeeToIt, MadeIt
<1> QED
  BY <1>5, <1>6

(* A file at the path that is not whole has a command that will see to it.   *)
LEMMA HalfKept ==
  ASSUME BaseInv, HalfInv, Next
  PROVE  HalfInv'
<1> USE DEF BaseInv, ImageTypeOK
<1> DEFINE Seen == /\ \E x \in Makers : WillSeeToIt(x)
                   /\ "swapped" \notin fault => \E x \in Makers : MadeIt(x)
<1>0. SUFFICES ASSUME name' # NoFile, content'[name'] # "whole", fault' \cap HalfFaults = {}
               PROVE  Seen'
  BY DEF HalfInv
<1>1. fault \subseteq fault' /\ fault \cap HalfFaults = {}
  BY <1>0, FaultsStay
<1>2. name # NoFile /\ content[name] # "whole" => Seen
  BY <1>1 DEF HalfInv
<1>3. ASSUME NEW m \in Makers, Aside(m) PROVE Seen'
  <2>1. Seen
    BY <1>0, <1>2, <1>3, AsideLeaves
  <2>2. \A x \in Makers : (WillSeeToIt(x) => WillSeeToIt(x)') /\ (MadeIt(x) => MadeIt(x)')
    BY <1>0, <1>3, AsideSees DEF KeepSight
  <2> QED
    BY <1>1, <2>1, <2>2
<1>4. ASSUME UNCHANGED <<name, content, pc, failed, made, opened>> PROVE Seen'
  BY <1>0, <1>1, <1>2, <1>4 DEF WillSeeToIt, MadeIt
<1>5. ASSUME NEW u \in Users, UserStep(u) PROVE Seen'
  BY <1>4, <1>5, UserLeaves DEF makerVars
<1>6. CASE CleanLooks \/ CleanRemoves \/ CleanAborted
  BY <1>0, <1>4, <1>6, OtherLeaves DEF makerVars
<1>7. CASE FilePlaced
  <2>1. name' = Fresh /\ content' = [content EXCEPT ![Fresh] = "whole"]
    BY <1>7 DEF FilePlaced
  <2> QED
    BY <1>0, <2>1, FreshIsFree
<1>8. ASSUME NEW m \in Makers, RemoveOld(m) \/ Undo(m) PROVE Seen'
  BY <1>0, <1>8 DEF RemoveOld, Undo
<1>9. ASSUME NEW m \in Makers, Makes(m) PROVE Seen'
  <2>1. pc[m] = "make" /\ UNCHANGED opened
    BY <1>9, MakesWhat
  <2>2. ASSUME NEW f \in Files, MakesNew(m, f) PROVE Seen'
    <3>1. /\ name' = f /\ made'[m] = f
          /\ pc'[m] = "start" \/ pc'[m] = "undo"
      BY <1>0, <2>2 DEF MakesNew, HalfFaults
    <3> QED
      BY <3>1 DEF WillSeeToIt, MadeIt
  <2>3. CASE MakesTaken(m)
    BY <1>0, <2>3 DEF MakesTaken, HalfFaults
  <2>4. CASE MakesNone(m)
    <3>1. Seen
      BY <1>0, <1>2, <2>4 DEF MakesNone
    <3>2. \A x \in Makers : (WillSeeToIt(x) => WillSeeToIt(x)') /\ (MadeIt(x) => MadeIt(x)')
      BY <2>1, <2>4 DEF MakesNone, WillSeeToIt, MadeIt
    <3> QED
      BY <1>1, <3>1, <3>2
  <2> QED
    BY <1>9, <2>2, <2>3, <2>4, MakesWhat
<1>10. ASSUME NEW m \in Makers, Start(m) PROVE Seen'
  <2>1. /\ pc'[m] = "work" /\ opened'[m] = name'
        /\ UNCHANGED <<name, made>>
    BY <1>10 DEF Start, Goes
  <2>2. made[m] = name \/ "swapped" \in fault'
    BY <1>10 DEF Start, Raises
  <2> QED
    BY <2>1, <2>2 DEF WillSeeToIt, MadeIt
<1>11. ASSUME NEW m \in Makers, Work(m) PROVE Seen'
  <2>1. /\ pc[m] = "work" /\ pc' = [pc EXCEPT ![m] = "stop"]
        /\ UNCHANGED <<name, made, opened, failed>>
        /\ content' = [content EXCEPT ![opened[m]] = "whole"]
    BY <1>1, <1>11 DEF Work, At, Goes, HalfFaults
  <2>2. opened[m] # name /\ name # NoFile /\ content[name] # "whole"
    BY <1>0, <2>1
  <2>3. Seen
    BY <1>2, <2>2
  <2>4. \A x \in Makers : WillSeeToIt(x) => WillSeeToIt(x)'
    BY <2>1, <2>2 DEF WillSeeToIt
  <2>5. "swapped" \notin fault => \A x \in Makers : MadeIt(x) => MadeIt(x)'
    BY <2>1, <2>2 DEF MadeIt, MakerInv
  <2> QED
    BY <1>1, <2>3, <2>4, <2>5
<1> QED
  BY <1>3, <1>5, <1>6, <1>7, <1>8, <1>9, <1>10, <1>11
     DEF Next, MakerStep, Aside, Makes, UserStep

(* What a guest met was whole, or there is a fault to blame.                 *)
LEMMA UsedKept ==
  ASSUME BaseInv, HalfInv, UsedInv, Next
  PROVE  UsedInv'
<1> USE DEF BaseInv, ImageTypeOK
<1>1. CASE UNCHANGED used
  BY <1>1, FaultsStay DEF UsedInv
<1>2. ASSUME NEW u \in Users, UserBoots(u) PROVE UsedInv'
  <2>1. /\ name # NoFile
        /\ used' = [used EXCEPT ![u] = content[name]]
    BY <1>2 DEF UserBoots
  <2>2. ASSUME content[name] # "whole"
        PROVE  fault' \cap (HalfFaults \cup {"early", "swapped"}) # {}
    <3>1. CASE fault \cap (HalfFaults \cup {"swapped"}) # {}
      BY <1>2, <3>1, FaultsStay DEF UserStep
    <3>2. CASE fault \cap (HalfFaults \cup {"swapped"}) = {}
      <4>1. PICK m \in Makers : MadeIt(m)
        BY <2>1, <2>2, <3>2 DEF HalfInv
      <4>2. m \in AtWork /\ made[m] = name
        BY <4>1 DEF MadeIt, AtWork
      <4>3. "early" \in fault'
        BY <1>2, <4>2 DEF UserBoots, Raises
      <4> QED
        BY <4>3
    <3> QED
      BY <3>1, <3>2
  <2> QED
    BY <2>1, <2>2, FaultsStay DEF UsedInv
<1>3. ASSUME NEW m \in Makers, MakerStep(m) PROVE UNCHANGED used
  <2>1. CASE Aside(m)
    BY <2>1, AsideLeaves DEF userVars
  <2>2. CASE Makes(m)
    BY <2>2, MakesWhat DEF userVars
  <2>3. CASE RemoveOld(m) \/ Undo(m) \/ Start(m) \/ Work(m)
    BY <2>3 DEF RemoveOld, Undo, Start, Work, userVars
  <2> QED
    BY <1>3, <2>1, <2>2, <2>3 DEF MakerStep, Aside, Makes
<1>4. CASE FilePlaced \/ CleanLooks \/ CleanRemoves \/ CleanAborted
  BY <1>1, <1>4, OtherLeaves DEF userVars
<1>5. ASSUME NEW u \in Users, UserLooks(u) \/ UserRegisters(u) \/ UserEnds(u)
      PROVE  UNCHANGED used
  BY <1>5 DEF UserLooks, UserRegisters, UserEnds
<1> QED
  BY <1>1, <1>2, <1>3, <1>4, <1>5 DEF Next


-----------------------------------------------------------------------------
(* What somebody else made is spared.                                        *)
LEMMA SparedKept ==
  ASSUME BaseInv, SparedInv, Next
  PROVE  SparedInv'
<1> USE ImageAssumption DEF BaseInv, ImageTypeOK
<1> DEFINE Goal == /\ \A f \in foreign' : name' = f /\ content'[f] = "whole"
                   /\ job' = "create"
                        => \A x \in Makers : pc'[x] \in Working
                                           => name' = made'[x] /\ made'[x] \notin foreign'
                   /\ job' = "build" /\ foreign' # {}
                        => \A x \in Makers : pc'[x] \in {"look", "over"}
<1>0. SUFFICES ASSUME force' = {}, "cleaned" \notin fault' PROVE Goal
  BY DEF SparedInv
<1>1. UNCHANGED <<job, force>>
  <2>1. ASSUME NEW m \in Makers, RemoveOld(m) \/ Undo(m) \/ Start(m) \/ Work(m)
        PROVE  UNCHANGED <<job, force>>
    BY <2>1 DEF RemoveOld, Undo, Start, Work
  <2> QED
    BY <2>1, AsideLeaves, MakesWhat, UserLeaves, OtherLeaves
       DEF Next, MakerStep, Aside, Makes, UserStep
<1>2. force = {} /\ "cleaned" \notin fault
  BY <1>0, <1>1, FaultsStay
<1>3. /\ \A f \in foreign : name = f /\ f # NoFile /\ content[f] = "whole"
      /\ job = "create" => \A x \in Makers : pc[x] \in Working
                                            => /\ name = made[x] /\ made[x] # NoFile
                                               /\ made[x] \notin foreign
      /\ job = "build" /\ foreign # {} => \A x \in Makers : pc[x] \in {"look", "over"}
  BY <1>2 DEF SparedInv, MakerInv
<1>4. job = "create" => \A x, y \in Makers : pc[x] \in Working /\ pc[y] \in Working => x = y
  BY <1>3 DEF OwnInv
<1>5. ASSUME NEW m \in Makers, Aside(m) PROVE Goal
  <2>1. /\ UNCHANGED <<name, content, foreign, made>>
        /\ \A x \in Makers : pc'[x] \in Working => pc[x] \in Working
    BY <1>5, AsideLeaves, AsideMoves
  <2>2. ASSUME job = "build", foreign # {}
        PROVE  \A x \in Makers : pc'[x] \in {"look", "over"}
    <3>1. name # NoFile /\ pc[m] \in {"look", "over"}
      BY <1>3, <2>2
    <3>2. pc'[m] \in {"look", "over"}
      BY <1>2, <1>5, <3>1 DEF Aside, LookFree, LookTaken, RemoveOldFails, Fetch, FetchFails,
         StatOutput, CreateRefused, StartFails, WorkFails, Stop, UndoFails, Killed, GuestEnds,
         At, Ends
    <3> QED
      BY <1>3, <1>5, <2>2, <3>2, AsideMoves
  <2> QED
    BY <1>1, <1>3, <2>1, <2>2
<1>6. ASSUME UNCHANGED <<name, content, foreign, pc, made>> PROVE Goal
  BY <1>1, <1>3, <1>6
<1>7. ASSUME NEW u \in Users, UserStep(u) PROVE Goal
  BY <1>6, <1>7, UserLeaves DEF makerVars
<1>8. CASE CleanLooks \/ CleanAborted
  BY <1>6, <1>8, OtherLeaves DEF makerVars
<1>9. CASE CleanRemoves
  <2>1. name = NoFile /\ name' = NoFile /\ UNCHANGED <<content, foreign, pc, made>>
    BY <1>0, <1>9 DEF CleanRemoves, Raises, makerVars
  <2> QED
    BY <1>6, <2>1
<1>10. CASE FilePlaced
  <2>1. /\ job = "create" /\ name = NoFile /\ UNCHANGED <<pc, made>>
        /\ name' = Fresh /\ foreign' = {Fresh} /\ content' = [content EXCEPT ![Fresh] = "whole"]
    BY <1>10 DEF FilePlaced, makerVars
  <2>2. \A x \in Makers : pc[x] \notin Working
    BY <1>3, <2>1
  <2> QED
    BY <1>1, <2>1, <2>2, FreshIsFree
<1>11. ASSUME NEW m \in Makers, RemoveOld(m) PROVE FALSE
  BY <1>2, <1>11 DEF RemoveOld, At, MakerInv
<1>12. ASSUME NEW m \in Makers, Undo(m) PROVE Goal
  <2>1. /\ pc[m] = "undo" /\ pc' = [pc EXCEPT ![m] = "over"]
        /\ UNCHANGED <<content, foreign, made>>
    BY <1>12 DEF Undo, At, Ends
  <2>2. foreign = {}
    BY <1>3, <2>1 DEF Working
  <2>3. job = "create" => \A x \in Makers : pc'[x] \notin Working
    BY <1>4, <2>1 DEF Working
  <2> QED
    BY <1>1, <2>1, <2>2, <2>3
<1>13. ASSUME NEW m \in Makers, Makes(m) PROVE Goal
  <2>1. pc[m] = "make" /\ UNCHANGED foreign
    BY <1>13, MakesWhat
  <2>2. ASSUME NEW f \in Files, MakesNew(m, f) PROVE Goal
    <3>1. /\ name = NoFile /\ name' = f /\ made' = [made EXCEPT ![m] = f]
          /\ \A x \in Makers : x # m => pc'[x] = pc[x]
      BY <2>2 DEF MakesNew
    <3>2. foreign = {} /\ (job = "create" => \A x \in Makers : pc[x] \notin Working)
      BY <1>3, <3>1
    <3> QED
      BY <1>1, <2>1, <3>1, <3>2
  <2>3. CASE MakesTaken(m)
    BY <1>1, <1>3, <2>1, <2>3 DEF MakesTaken
  <2>4. CASE MakesNone(m)
    BY <1>1, <1>3, <2>1, <2>4 DEF MakesNone, Working
  <2> QED
    BY <1>13, <2>2, <2>3, <2>4, MakesWhat
<1>14. ASSUME NEW m \in Makers, Start(m) PROVE Goal
  <2>1. /\ pc[m] = "start" /\ pc' = [pc EXCEPT ![m] = "work"]
        /\ UNCHANGED <<name, foreign, made>>
    BY <1>14 DEF Start, At, Goes
  <2>2. foreign = {}
    BY <1>3, <2>1 DEF Working
  <2> QED
    BY <1>1, <1>3, <2>1, <2>2 DEF Working
<1>15. ASSUME NEW m \in Makers, Work(m) PROVE Goal
  <2>1. /\ pc[m] = "work" /\ pc' = [pc EXCEPT ![m] = "stop"]
        /\ UNCHANGED <<name, foreign, made>>
    BY <1>15 DEF Work, At, Goes
  <2>2. foreign = {}
    BY <1>3, <2>1 DEF Working
  <2> QED
    BY <1>1, <1>3, <2>1, <2>2 DEF Working
<1> QED
  BY <1>5, <1>7, <1>8, <1>9, <1>10, <1>11, <1>12, <1>13, <1>14, <1>15
     DEF Next, MakerStep, Aside, Makes, UserStep

(* clean takes the record of no mount that it could see.                     *)
LEMMA CleanKept ==
  ASSUME BaseInv, CleanInv, Next
  PROVE  CleanInv'
<1>1. CASE UNCHANGED cleanVars
  BY <1>1, FaultsStay DEF CleanInv, cleanVars
<1>2. ASSUME NEW m \in Makers, RemoveOld(m) \/ Undo(m) \/ Start(m) \/ Work(m)
      PROVE  UNCHANGED cleanVars
  BY <1>2 DEF RemoveOld, Undo, Start, Work
<1>3. CASE (\E m \in Makers : MakerStep(m)) \/ (\E u \in Users : UserStep(u))
  BY <1>1, <1>2, <1>3, AsideLeaves, MakesWhat, UserLeaves DEF MakerStep, Aside, Makes
<1>4. CASE FilePlaced
  BY <1>1, <1>4 DEF FilePlaced
<1>5. CASE CleanLooks
  <2>1. /\ clean = "idle" /\ UNCHANGED lost /\ clean' \in {"asking", "over"}
        /\ looked' = Registered
        /\ clean' = "asking" => Registered = {} \/ "unreadable" \in fault'
    BY <1>5 DEF CleanLooks
  <2> QED
    BY <2>1 DEF CleanInv
<1>6. CASE CleanRemoves
  <2>1. clean = "asking" /\ clean' = "over" /\ UNCHANGED looked
    BY <1>6 DEF CleanRemoves
  <2> QED
    BY <2>1, FaultsStay DEF CleanInv
<1>7. CASE CleanAborted
  BY <1>7 DEF CleanAborted, CleanInv
<1> QED
  BY <1>3, <1>4, <1>5, <1>6, <1>7 DEF Next, UserStep

-----------------------------------------------------------------------------
(* The invariant in whole, whose parts each rest on BaseInv, whatever the    *)
(* number of commands, mounts and files: every file is one command's or the  *)
(* user's, and what is at the path is accounted for (build.go, create.go).   *)
THEOREM ImageInvHolds == Spec => []ImageInv
<1>1. Init => ImageInv
  <2> SUFFICES ASSUME Init PROVE ImageInv
    OBVIOUS
  <2>1. BaseInv
    BY BaseInit
  <2>2. PresentInv /\ HalfInv /\ UsedInv /\ CleanInv
    BY <2>1 DEF BaseInv, ImageTypeOK, Init, PresentInv, HalfInv, UsedInv, CleanInv, Working
  <2>3. SparedInv
    BY DEF Init, SparedInv, Working
  <2> QED
    BY <2>1, <2>2, <2>3 DEF ImageInv
<1>2. ImageInv /\ [Next]_vars => ImageInv'
  <2> SUFFICES ASSUME ImageInv, [Next]_vars PROVE ImageInv'
    OBVIOUS
  <2>1. BaseInv'
    BY BaseKept DEF ImageInv
  <2>2. CASE Next
    BY <2>1, <2>2, PresentKept, HalfKept, UsedKept, SparedKept, CleanKept DEF ImageInv
  <2>3. CASE UNCHANGED vars
    BY <2>1, <2>3 DEF vars, fileVars, makerVars, userVars, cleanVars, ImageInv, PresentInv,
       HalfInv, WillSeeToIt, MadeIt, UsedInv, SparedInv, CleanInv
  <2> QED
    BY <2>2, <2>3
<1> QED
  BY <1>1, <1>2, PTL DEF Spec

(* Once every command is over, whether it succeeded, failed, was interrupted *)
(* or met another one, the file at the path is whole, and no guest of a mount*)
(* found one that was not, except after a fault that is named (create.go:95- *)
(* 103, qemu/build.go:62-70).                                                *)
THEOREM NeverHalfMade == Spec => []NothingHalfMade
<1>1. ImageInv => NothingHalfMade
  <2> SUFFICES ASSUME ImageInv PROVE NothingHalfMade
    OBVIOUS
  <2>1. HalfMade => fault \cap HalfFaults # {}
    BY DEF ImageInv, HalfInv, HalfMade, WillSeeToIt, AtWork
  <2> QED
    BY <2>1 DEF ImageInv, UsedInv, NothingHalfMade, HalfFaults
<1> QED
  BY <1>1, ImageInvHolds, PTL

(* A file that no command made stays at the path, whole, whatever the        *)
(* commands are refused or fail at, unless one was given --force or the user *)
(* cleans; and clean, if it could read the registry, takes the record of no  *)
(* mount that it saw there (create.go:131-175, clean.go:38-43).              *)
THEOREM OthersSpared == Spec => []SparesOthers
<1>1. ImageInv => SparesOthers
  BY DEF ImageInv, SparedInv, CleanInv, SparesOthers
<1> QED
  BY <1>1, ImageInvHolds, PTL

(* A command that says it is done leaves the file it made, whole, at the     *)
(* path, unless another command of the same path came in between             *)
(* (qemu/build.go:103, create.go:124).                                       *)
THEOREM DoneIsThere == Spec => DoneMeansThere
<1> DEFINE Step == \A m \in Makers :
                     outcome[m] # "done" /\ outcome'[m] = "done"
                       => \/ name = made[m] /\ content[name] = "whole"
                          \/ fault \cap {"forced", "swapped", "overlap", "shared", "cleaned"} # {}
<1>1. ImageInv /\ [Next]_vars => [Step]_vars
  <2> SUFFICES ASSUME ImageInv, Next, NEW m \in Makers, outcome[m] # "done", outcome'[m] = "done"
               PROVE  \/ name = made[m] /\ content[name] = "whole"
                      \/ fault \cap {"forced", "swapped", "overlap", "shared", "cleaned"} # {}
    OBVIOUS
  <2> USE DEF ImageInv, BaseInv, ImageTypeOK
  <2>1. ASSUME NEW x \in Makers, Makes(x) PROVE FALSE
    BY <2>1, MakesWhat
  <2>2. ASSUME NEW u \in Users, UserStep(u) PROVE FALSE
    BY <2>2, UserLeaves DEF makerVars
  <2>3. ASSUME FilePlaced \/ CleanLooks \/ CleanRemoves \/ CleanAborted PROVE FALSE
    BY <2>3, OtherLeaves DEF makerVars
  <2>4. ASSUME NEW x \in Makers, RemoveOld(x) \/ Undo(x) \/ Start(x) \/ Work(x) PROVE FALSE
    BY <2>4 DEF RemoveOld, Undo, Start, Work, Goes, Ends
  <2>5. ASSUME NEW x \in Makers, Aside(x) PROVE x = m /\ pc[m] = "stop" /\ m \notin failed
    BY <2>5 DEF Aside, LookFree, LookTaken, RemoveOldFails, Fetch, FetchFails, StatOutput,
       CreateRefused, StartFails, WorkFails, Stop, UndoFails, Killed, GuestEnds, At, Goes, Ends
  <2>6. pc[m] = "stop" /\ m \notin failed
    BY <2>1, <2>2, <2>3, <2>4, <2>5 DEF Next, MakerStep, Aside, Makes, UserStep
  <2> QED
    BY <2>6 DEF PresentInv, Working
<1> QED
  BY <1>1, ImageInvHolds, PTL DEF Spec, DoneMeansThere

-----------------------------------------------------------------------------
(* Downloads.                                                                *)

Stages == {"idle", "stat", "discard", "get", "create", "receive", "check", "rename", "cleanup",
          "ok", "failed"}

DownloadTypeOK ==
  /\ stage \in [Proc -> Stages]
  /\ own \in [Proc -> 0..MaxFile]
  /\ written \in [1..MaxFile -> {"empty", "half", "whole", "bad"}]
  /\ created \in 0..MaxFile
  /\ part \in 0..created /\ dst \in 0..created
  /\ author \in [1..MaxFile -> Proc \cup {Nobody}]
  /\ placer \in Proc \cup {Nobody}

(* A process writes a file of its own, and renames only what it verified.    *)
WriterInv(p) ==
  /\ own[p] # 0 => own[p] <= created /\ author[own[p]] = p
  /\ stage[p] \in {"receive", "check", "rename"} => own[p] # 0
  /\ stage[p] = "rename" => written[own[p]] = "whole"

(* <name>.part is not a file of this process before it has created one, and  *)
(* no other file of this process afterwards.                                 *)
PartInv(p) ==
  part # 0 /\ author[part] = p
    => /\ stage[p] \notin {"get", "create"}
       /\ stage[p] \in {"receive", "check", "rename"} => part = own[p]

DownloadInv ==
  /\ DownloadTypeOK
  /\ \A p \in Proc : WriterInv(p) /\ PartInv(p)
  /\ VerifiedInPlace

-----------------------------------------------------------------------------
(* The initial states satisfy the invariant.                                 *)
LEMMA DownloadInitHolds == DownloadInit => DownloadInv
  BY DownloadAssumption DEF DownloadInit, DownloadInv, DownloadTypeOK, WriterInv, PartInv,
     VerifiedInPlace, Stages

(* Steps that leave the names and the files alone.                           *)
LEMMA MovesKeep ==
  ASSUME DownloadInv, NEW p \in Proc,
         Begin(p) \/ Stat(p) \/ Get(p) \/ ReceiveFails(p) \/ Check(p) \/ Crash(p)
  PROVE  DownloadInv'
<1> USE DownloadAssumption DEF DownloadInv, DownloadTypeOK, WriterInv, PartInv, VerifiedInPlace,
        Stages, placeVars
<1>1. CASE Begin(p)
  BY <1>1 DEF Begin, Proceeds
<1>2. CASE Stat(p)
  BY <1>2 DEF Stat, Proceeds
<1>3. CASE Get(p)
  <2>1. /\ stage[p] = "get"
        /\ UNCHANGED <<own, written, created, part, placeVars, author>>
    BY <1>3 DEF Get
  <2>2. PICK next \in {"create", "failed"} : stage' = [stage EXCEPT ![p] = next]
    BY <1>3 DEF Get
  <2> QED
    BY <2>1, <2>2
<1>4. CASE ReceiveFails(p)
  BY <1>4 DEF ReceiveFails, Proceeds
<1>5. CASE Check(p)
  BY <1>5 DEF Check, Proceeds
<1>6. CASE Crash(p)
  BY <1>6 DEF Crash, Proceeds
<1> QED
  BY <1>1, <1>2, <1>3, <1>4, <1>5, <1>6

(* Steps that move or remove what a name stands for, by that name.           *)
LEMMA NamesKeep ==
  ASSUME DownloadInv, NEW p \in Proc, Discard(p) \/ Rename(p) \/ Cleanup(p)
  PROVE  DownloadInv'
<1> USE DownloadAssumption DEF DownloadInv, DownloadTypeOK, WriterInv, PartInv, VerifiedInPlace,
        Stages, placeVars
<1>1. CASE Discard(p)
  BY <1>1 DEF Discard, Proceeds
<1>2. CASE Rename(p)
  <2>1. CASE part = 0
    BY <1>2, <2>1 DEF Rename, Proceeds
  <2>2. CASE part # 0
    <3>1. /\ stage[p] = "rename" /\ stage' = [stage EXCEPT ![p] = "ok"]
          /\ dst' = part /\ placer' = p /\ part' = 0 /\ own' = [own EXCEPT ![p] = 0]
          /\ UNCHANGED <<written, created, author>>
      BY <1>2, <2>2 DEF Rename, Proceeds
    <3>2. VerifiedInPlace'
      BY <2>2, <3>1
    <3>3. DownloadTypeOK'
      BY <2>2, <3>1
    <3>4. \A q \in Proc : WriterInv(q)' /\ PartInv(q)'
      BY <2>2, <3>1
    <3> QED
      BY <3>2, <3>3, <3>4
  <2> QED
    BY <2>1, <2>2
<1>3. CASE Cleanup(p)
  BY <1>3 DEF Cleanup, Proceeds
<1> QED
  BY <1>1, <1>2, <1>3

(* A new partial file, which no one else has open.                           *)
LEMMA CreateKeeps ==
  ASSUME DownloadInv, NEW p \in Proc, Create(p)
  PROVE  DownloadInv'
<1> USE DownloadAssumption DEF DownloadInv, DownloadTypeOK, WriterInv, PartInv, VerifiedInPlace,
        Stages, placeVars
<1>1. CASE part # 0
  BY <1>1 DEF Create, Proceeds
<1>2. CASE part = 0
  <2>1. /\ created < MaxFile
        /\ stage[p] = "create" /\ stage' = [stage EXCEPT ![p] = "receive"]
        /\ created' = created + 1 /\ part' = created + 1
        /\ own' = [own EXCEPT ![p] = created + 1]
        /\ author' = [author EXCEPT ![created + 1] = p]
        /\ UNCHANGED <<written, placeVars>>
    BY <1>2 DEF Create, Proceeds
  <2>2. /\ DownloadTypeOK'
        /\ \A f \in 1..created : author'[f] = author[f]
        /\ author'[created + 1] = p
    BY <2>1
  <2>3. \A q \in Proc : WriterInv(q)' /\ PartInv(q)'
    <3> TAKE q \in Proc
    <3>1. CASE q = p
      BY <2>1, <2>2, <3>1
    <3>2. CASE q # p
      BY <2>1, <2>2, <3>2
    <3> QED
      BY <3>1, <3>2
  <2>4. VerifiedInPlace'
    BY <2>1, <2>2
  <2> QED
    BY <2>2, <2>3, <2>4
<1> QED
  BY <1>1, <1>2

(* Bytes go to the file that the process has open, whatever its name is now. *)
LEMMA ReceiveKeeps ==
  ASSUME DownloadInv, NEW p \in Proc, NEW what \in {"half", "whole", "bad"}, Receive(p, what)
  PROVE  DownloadInv'
<1> USE DownloadAssumption DEF DownloadInv, DownloadTypeOK, WriterInv, PartInv, VerifiedInPlace,
        Stages, placeVars
<1> QED
  BY DEF Receive, Proceeds

(* The inductive invariant: however the processes interleave, are killed or  *)
(* take each other's partial file away, each writes a file of its own and    *)
(* renames only after a matching digest (download.go:48-126).                *)
THEOREM DownloadInvHolds == DownloadSpec => []DownloadInv
<1>1. DownloadInv /\ [DownloadNext]_downloadVars => DownloadInv'
  <2> SUFFICES ASSUME DownloadInv, [DownloadNext]_downloadVars PROVE DownloadInv'
    OBVIOUS
  <2>1. CASE \E p \in Proc : Begin(p) \/ Stat(p) \/ Get(p) \/ ReceiveFails(p) \/ Check(p)
                              \/ Crash(p)
    BY <2>1, MovesKeep
  <2>2. CASE \E p \in Proc : Discard(p) \/ Rename(p) \/ Cleanup(p)
    BY <2>2, NamesKeep
  <2>3. CASE \E p \in Proc : Create(p)
    BY <2>3, CreateKeeps
  <2>4. CASE \E p \in Proc, what \in {"half", "whole", "bad"} : Receive(p, what)
    BY <2>4, ReceiveKeeps
  <2>5. CASE Delete
    BY <2>5 DEF Delete, DownloadInv, DownloadTypeOK, WriterInv, PartInv, VerifiedInPlace
  <2>6. CASE UNCHANGED downloadVars
    BY <2>6 DEF downloadVars, placeVars, DownloadInv, DownloadTypeOK, WriterInv, PartInv, VerifiedInPlace
  <2> QED
    BY <2>1, <2>2, <2>3, <2>4, <2>5, <2>6 DEF DownloadNext
<1> QED
  BY <1>1, DownloadInitHolds, PTL DEF DownloadSpec

(* The file in place is whole, for any number of processes, unless it was    *)
(* put there by a process that had not written it (download.go:48-49).       *)
THEOREM OnlyVerifiedInPlace == DownloadSpec => []VerifiedInPlace
<1>1. DownloadInv => VerifiedInPlace
  BY DEF DownloadInv
<1> QED
  BY <1>1, DownloadInvHolds, PTL

(* What an attempt of a process left behind, wherever it was killed, does    *)
(* not keep its next attempt from creating the partial file                  *)
(* (download.go:53-57).                                                      *)
THEOREM AlwaysStartsOver == DownloadSpec => []StartsOver
<1>1. DownloadInv => StartsOver
  BY DEF DownloadInv, PartInv, StartsOver
<1> QED
  BY <1>1, DownloadInvHolds, PTL
=============================================================================
