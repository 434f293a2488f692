--------------------------- MODULE RegistryProofs ---------------------------
(***************************************************************************)
(* Proofs about the session registry, for any number of sessions and       *)
(* commands.  The argument: an owner only ever moves forward, so what a    *)
(* client has seen of a session (it was published, its lock was free, its  *)
(* owner was gone) is still true when the client acts on it.               *)
(***************************************************************************)
EXTENDS Registry, TLAPS

(* Where an owner is on its way, as far as a client can tell.              *)
Stages == {Seen, Withdrawn, {"unlinked"} \cup Over, Over}

OwnerStep(s) == Proceed(s) \/ Watch(s) \/ Environment(s)

ClientStep(c) == Step(c) \/ Choice(c)

(* Every action of an owner and its environment leaves the clients alone and *)
(* moves no owner back to an earlier stage.                                *)
LEMMA OwnersOnlyAdvance ==
  ASSUME TypeOK, OwnerInv, NEW s \in Session, OwnerStep(s)
  PROVE  /\ UNCHANGED clientVars
         /\ \A t \in Session : \A stage \in Stages :
              owner[t] \in stage => owner'[t] \in stage
<1> USE DEF Stages, Seen, Withdrawn, Running, Releasing, Over, Unpublished, TypeOK, OwnerInv, Moves
<1>1. CASE ClearStale(s) \/ OpenLock(s) \/ TakeLock(s) \/ WriteTemporary(s) \/ Rename(s)
  BY <1>1 DEF ClearStale, OpenLock, TakeLock, WriteTemporary, Rename
<1>2. CASE Boot(s) \/ Mount(s) \/ End(s) \/ GuestStopped(s)
  BY <1>2 DEF Boot, Mount, End, GuestStopped
<1>3. CASE RemoveRecord(s) \/ ClearStop(s) \/ RemoveLock(s) \/ Unlock(s)
  BY <1>3 DEF RemoveRecord, ClearStop, RemoveLock, Unlock
<1>4. CASE Watch(s) \/ SaveFails(s) \/ StartFails(s)
  BY <1>4 DEF Watch, SaveFails, StartFails
<1>5. CASE Interrupt(s) \/ GuestExits(s) \/ Crash(s)
  BY <1>5 DEF Interrupt, GuestExits, Crash
<1>6. QED BY <1>1, <1>2, <1>3, <1>4, <1>5 DEF OwnerStep, Proceed, Environment

(* What an action of an owner does to the files, the lock and the guest      *)
(* keeps the types and keeps them in step with the owner.                    *)
LEMMA OwnerStepKeepsOwnerInv ==
  ASSUME TypeOK, OwnerInv, ScanInv, NEW s \in Session, OwnerStep(s)
  PROVE  TypeOK' /\ OwnerInv'
<1> USE DEF Running, Releasing, Over, Seen, Unpublished, OwnerPoint, Readable, TypeOK, OwnerInv,
            Moves, ownerVars, files, clientVars
<1>1. CASE ClearStale(s)      BY <1>1 DEF ClearStale
<1>2. CASE OpenLock(s)        BY <1>2 DEF OpenLock
<1>3. CASE TakeLock(s)
  <2>1. ~Probed(s)
    BY <1>3 DEF TakeLock, Probed, ScanInv, Backing
  <2>2. (~Probed(s)) = TRUE
    BY <2>1
  <2>3. /\ owner[s] = "opened"
        /\ flock' = [flock EXCEPT ![s] = TRUE]
        /\ owner' = [owner EXCEPT ![s] = "locked"]
    BY <1>3, <2>1, <2>2, Zenon DEF TakeLock
  <2>4. UNCHANGED <<cancelled, guest, files, clientVars>>
    BY <1>3 DEF TakeLock
  <2>5. QED BY <2>3, <2>4
<1>4. CASE WriteTemporary(s)  BY <1>4 DEF WriteTemporary
<1>5. CASE Rename(s)
  <2>1. UNCHANGED <<cancelled, guest, flock, lockFile, stop, clientVars>>
    BY <1>5 DEF Rename
  <2>2. CASE Moves(s, "written", "published") /\ record' = [record EXCEPT ![s] = "booting"]
    <3>1. TypeOK'    BY <2>1, <2>2
    <3>2. OwnerInv'  BY <2>1, <2>2
    <3>3. QED BY <3>1, <3>2
  <2>3. CASE Moves(s, "rewritten", "serving") /\ record' = [record EXCEPT ![s] = "mounted"]
    <3>1. TypeOK'    BY <2>1, <2>3
    <3>2. OwnerInv'  BY <2>1, <2>3
    <3>3. QED BY <3>1, <3>2
  <2>4. QED BY <1>5, <2>2, <2>3 DEF Rename
<1>6. CASE Boot(s)            BY <1>6 DEF Boot
<1>7. CASE Mount(s)           BY <1>7 DEF Mount
<1>8. CASE End(s)             BY <1>8 DEF End
<1>9. CASE GuestStopped(s)    BY <1>9 DEF GuestStopped
<1>10. CASE RemoveRecord(s)   BY <1>10 DEF RemoveRecord
<1>11. CASE ClearStop(s)      BY <1>11 DEF ClearStop
<1>12. CASE RemoveLock(s)     BY <1>12 DEF RemoveLock
<1>13. CASE Unlock(s)         BY <1>13 DEF Unlock
<1>14. CASE Watch(s)          BY <1>14 DEF Watch
<1>15. CASE SaveFails(s)      BY <1>15 DEF SaveFails
<1>16. CASE StartFails(s)     BY <1>16 DEF StartFails
<1>17. CASE Interrupt(s)      BY <1>17 DEF Interrupt
<1>18. CASE GuestExits(s)     BY <1>18 DEF GuestExits
<1>19. CASE Crash(s)          BY <1>19 DEF Crash
<1>20. QED
  BY <1>1, <1>2, <1>3, <1>4, <1>5, <1>6, <1>7, <1>8, <1>9, <1>10, <1>11, <1>12, <1>13,
     <1>14, <1>15, <1>16, <1>17, <1>18, <1>19 DEF OwnerStep, Proceed, Environment

LEMMA OwnerStepKeepsIInv ==
  ASSUME IInv, NEW s \in Session, OwnerStep(s)
  PROVE  IInv'
<1> USE DEF IInv
<1>1. TypeOK' /\ OwnerInv'
  BY OwnerStepKeepsOwnerInv
<1>2. UNCHANGED clientVars /\ \A t \in Session : \A stage \in Stages :
                                 owner[t] \in stage => owner'[t] \in stage
  BY OwnersOnlyAdvance
<1>3. ScanInv'
  BY <1>2 DEF ScanInv, Backing, Stages, clientVars, TypeOK
<1>4. StopInv'
  BY <1>2 DEF StopInv, Stages, clientVars, TypeOK
<1>5. QED BY <1>1, <1>3, <1>4

-----------------------------------------------------------------------------
(* The clients.  ClientSteps that only read change no state but their own;  *)
(* a client prunes only what its own findings say is over.                  *)
LEMMA ClientStepKeepsOwnerInv ==
  ASSUME IInv, NEW c \in Client, ClientStep(c)
  PROVE  OwnerInv' /\ UNCHANGED owner
<1> USE DEF IInv, TypeOK, OwnerInv, ownerVars, files, Goes
<1>1. CASE PruneRecord(c)
  <2>1. cur[c] \in Session /\ owner[cur[c]] \in Over
    BY <1>1 DEF PruneRecord, ScanInv, Backing
  <2>2. QED BY <1>1, <2>1 DEF PruneRecord, Over, Running, Releasing
<1>2. CASE PruneLock(c)
  <2>1. cur[c] \in Session /\ owner[cur[c]] \in Over
    BY <1>2 DEF PruneLock, ScanInv, Backing
  <2>2. QED BY <1>2, <2>1 DEF PruneLock, Over, Running, Releasing
<1>3. CASE PruneStop(c)
  BY <1>3 DEF PruneStop, Conclude
<1>4. CASE ReadDir(c)
  BY <1>4 DEF ReadDir
<1>5. CASE ProbeLock(c) \/ DropProbe(c) \/ StatLock(c) \/ ProbePID(c)
  BY <1>5 DEF ProbeLock, DropProbe, StatLock, ProbePID, Conclude
<1>6. CASE Finish(c) \/ ReportStopped(c) \/ GiveUp(c) \/ Killed(c)
  BY <1>6 DEF Finish, ReportStopped, GiveUp, Killed
<1>7. ASSUME NEW s \in Session, ReadRecord(c, s) \/ RequestStop(c, s) \/ LookUp(c, s)
      PROVE  OwnerInv' /\ UNCHANGED owner
  BY <1>7 DEF ReadRecord, RequestStop, LookUp, StopInv, ScanInv
<1>8. ASSUME NEW ids \in SUBSET Session, Undertake(c, ids)
      PROVE  OwnerInv' /\ UNCHANGED owner
  BY <1>8 DEF Undertake
<1>9. QED
  BY <1>1, <1>2, <1>3, <1>4, <1>5, <1>6, <1>7, <1>8 DEF ClientStep, Step, Choice

LEMMA ClientStepKeepsTypeOK ==
  ASSUME IInv, NEW c \in Client, ClientStep(c)
  PROVE  TypeOK'
<1> USE RegistryAssumption DEF IInv, TypeOK, ownerVars, files, Goes, ClientPoint, Scanning, Verdict
<1>1. CASE PruneRecord(c)     BY <1>1 DEF PruneRecord
<1>2. CASE PruneLock(c)       BY <1>2 DEF PruneLock
<1>3. CASE PruneStop(c) \/ ProbePID(c) \/ ProbeLock(c)
  <2>1. cur[c] \in Session
    BY <1>3 DEF PruneStop, ProbePID, ProbeLock, ScanInv, Backing
  <2>2. CASE PruneStop(c)
    BY <2>1, <2>2 DEF PruneStop, Conclude
  <2>3. CASE ProbePID(c)
    BY <2>1, <2>3 DEF ProbePID, Conclude
  <2>4. CASE ProbeLock(c)
    <3>1. CASE lockFile[cur[c]] /\ flock[cur[c]]
      <4>1. Conclude(c, TRUE) /\ UNCHANGED files
        BY <2>4, <3>1, Zenon DEF ProbeLock
      <4>2. QED BY <2>1, <4>1 DEF Conclude
    <3>2. CASE ~(lockFile[cur[c]] /\ flock[cur[c]])
      <4>1. /\ pc' = [pc EXCEPT ![c] = IF lockFile[cur[c]] THEN "unlock" ELSE "stat"]
            /\ UNCHANGED <<ownerVars, files, todo, cur, live, wanted, unasked,
                           unchecked, pending>>
        BY <2>4, <3>2, Zenon DEF ProbeLock
      <4>2. QED BY <4>1
    <3>3. QED BY <3>1, <3>2
  <2>5. QED BY <1>3, <2>2, <2>3, <2>4
<1>4. CASE ReadDir(c)         BY <1>4 DEF ReadDir
<1>5. CASE DropProbe(c) \/ StatLock(c)
  BY <1>5 DEF DropProbe, StatLock
<1>6. CASE Finish(c) \/ ReportStopped(c) \/ GiveUp(c) \/ Killed(c)
  BY <1>6 DEF Finish, ReportStopped, GiveUp, Killed
<1>7. ASSUME NEW s \in Session, ReadRecord(c, s) \/ RequestStop(c, s) \/ LookUp(c, s)
      PROVE  TypeOK'
  <2>1. CASE ReadRecord(c, s)
    BY <1>7, <2>1 DEF ReadRecord
  <2>2. CASE RequestStop(c, s)
    BY <1>7, <2>2 DEF RequestStop
  <2>3. CASE LookUp(c, s)
    <3>1. (pending[c] \/ s \in live[c]) \in BOOLEAN
      OBVIOUS
    <3>2. pending' = [pending EXCEPT ![c] = pending[c] \/ s \in live[c]]
      BY <2>3 DEF LookUp
    <3>3. pending' \in [Client -> BOOLEAN]
      BY <3>1, <3>2
    <3>4. QED BY <1>7, <2>3, <3>3 DEF LookUp
  <2>4. QED BY <1>7, <2>1, <2>2, <2>3
<1>8. ASSUME NEW ids \in SUBSET Session, Undertake(c, ids)
      PROVE  TypeOK'
  BY <1>8 DEF Undertake
<1>9. QED
  BY <1>1, <1>2, <1>3, <1>4, <1>5, <1>6, <1>7, <1>8 DEF ClientStep, Step, Choice

(* What a client believes of a session is true of where its owner is.       *)
LEMMA ClientStepKeepsScanInv ==
  ASSUME IInv, NEW c \in Client, ClientStep(c)
  PROVE  ScanInv'
<1> USE RegistryAssumption DEF IInv, ScanInv, Backing, TypeOK, ownerVars, files, Goes, Scanning,
        Conclude
<1>1. CASE PruneRecord(c)     BY <1>1 DEF PruneRecord
<1>2. CASE PruneLock(c)       BY <1>2 DEF PruneLock
<1>3. CASE PruneStop(c)       BY <1>3 DEF PruneStop, Withdrawn
<1>4. CASE ReadDir(c)
  <2>1. \A s \in Session : record[s] # "none" => owner[s] \in Seen
    BY DEF OwnerInv, Seen, Running, Releasing, Over
  <2>2. \A s \in Session : owner[s] \in Seen => record[s] # "none" \/ owner[s] \in Withdrawn
    BY DEF OwnerInv, Seen, Withdrawn
  <2>3. /\ todo' = [todo EXCEPT ![c] = {s \in Session : record[s] # "none"}]
        /\ live' = [live EXCEPT ![c] = {}]
        /\ pc' = [pc EXCEPT ![c] = "entry"]
        /\ UNCHANGED <<cur, wanted, owner>>
    BY <1>4 DEF ReadDir
  <2>4. cur[c] = NoSession
    BY <1>4 DEF ReadDir
  <2>5. QED BY <2>1, <2>2, <2>3, <2>4
<1>5. CASE ProbeLock(c)
  <2>1. owner[cur[c]] \in Seen
    BY <1>5 DEF ProbeLock
  <2>2. ~flock[cur[c]] => owner[cur[c]] \in Over
    BY <1>5, <2>1 DEF ProbeLock, OwnerInv, Seen
  <2>3. ~lockFile[cur[c]] => owner[cur[c]] \in {"unlinked"} \cup Over
    BY <1>5, <2>1 DEF ProbeLock, OwnerInv, Seen
  <2>4. CASE lockFile[cur[c]] /\ flock[cur[c]]
    BY <1>5, <2>1, <2>4 DEF ProbeLock
  <2>5. CASE ~(lockFile[cur[c]] /\ flock[cur[c]])
    <3>1. UNCHANGED <<owner, todo, cur, live, wanted>>
      BY <1>5, <2>5 DEF ProbeLock
    <3>2. pc' = [pc EXCEPT ![c] = IF lockFile[cur[c]] THEN "unlock" ELSE "stat"]
      BY <1>5, <2>5 DEF ProbeLock
    <3>3. QED BY <1>5, <2>2, <2>3, <2>5, <3>1, <3>2 DEF ProbeLock
  <2>6. QED BY <2>4, <2>5
<1>6. CASE DropProbe(c)       BY <1>6 DEF DropProbe
<1>7. CASE StatLock(c)
  <2>1. lockFile[cur[c]] => owner[cur[c]] \in Over
    BY <1>7 DEF StatLock, OwnerInv
  <2>2. QED BY <1>7, <2>1 DEF StatLock
<1>8. CASE ProbePID(c)
  BY <1>8 DEF ProbePID, Seen, Releasing
<1>9. CASE Finish(c) \/ ReportStopped(c) \/ GiveUp(c) \/ Killed(c)
  BY <1>9 DEF Finish, ReportStopped, GiveUp, Killed, Verdict
<1>10. ASSUME NEW s \in Session, ReadRecord(c, s)
       PROVE  ScanInv'
  <2>1. record[s] \notin Readable => owner[s] \in Withdrawn
    BY <1>10 DEF ReadRecord, OwnerInv, Seen, Withdrawn
  <2>2. QED BY <1>10, <2>1 DEF ReadRecord
<1>11. ASSUME NEW s \in Session, RequestStop(c, s) \/ LookUp(c, s)
       PROVE  ScanInv'
  BY <1>11 DEF RequestStop, LookUp
<1>12. ASSUME NEW ids \in SUBSET Session, Undertake(c, ids)
       PROVE  ScanInv'
  BY <1>12 DEF Undertake
<1>13. QED
  BY <1>1, <1>2, <1>3, <1>4, <1>5, <1>6, <1>7, <1>8, <1>9, <1>10, <1>11, <1>12
     DEF ClientStep, Step, Choice

(* What a command has concluded of the mounts it is to stop stays true.     *)
LEMMA ClientStepKeepsStopInv ==
  ASSUME IInv, NEW c \in Client, ClientStep(c)
  PROVE  StopInv'
<1> USE RegistryAssumption DEF IInv, StopInv, TypeOK, ownerVars, files, Goes, Scanning, Conclude
<1>1. CASE PruneRecord(c) \/ PruneLock(c) \/ PruneStop(c)
  BY <1>1 DEF PruneRecord, PruneLock, PruneStop
<1>2. CASE ReadDir(c)
  BY <1>2 DEF ReadDir
<1>3. CASE ProbeLock(c) \/ DropProbe(c)
  BY <1>3 DEF ProbeLock, DropProbe
<1>4. CASE StatLock(c) \/ ProbePID(c)
  BY <1>4 DEF StatLock, ProbePID
<1>5. CASE Finish(c) \/ ReportStopped(c) \/ GiveUp(c) \/ Killed(c)
  BY <1>5 DEF Finish, ReportStopped, GiveUp, Killed, Verdict
<1>6. ASSUME NEW s \in Session, ReadRecord(c, s) \/ RequestStop(c, s)
      PROVE  StopInv'
  BY <1>6 DEF ReadRecord, RequestStop
<1>7. ASSUME NEW s \in Session, LookUp(c, s)
      PROVE  StopInv'
  <2>1. cur[c] = NoSession /\ todo[c] = {}
    BY <1>7 DEF LookUp, ScanInv, Backing
  <2>2. s \in wanted[c] /\ (s \in live[c] \/ owner[s] \in Withdrawn)
    BY <1>7, <2>1 DEF LookUp, ScanInv
  <2>3. pending'[c] = (pending[c] \/ s \in live[c])
    BY <1>7, Zenon DEF LookUp
  <2>4. \A d \in Client : d # c => pending'[d] = pending[d]
    BY <1>7 DEF LookUp
  <2>5. /\ pc' = [pc EXCEPT ![c] = "await"]
        /\ unchecked' = [unchecked EXCEPT ![c] = unchecked[c] \ {s}]
        /\ UNCHANGED <<owner, wanted, unasked>>
    BY <1>7 DEF LookUp
  <2>6. pc[c] = "entry"
    BY <1>7 DEF LookUp
  <2>7. QED BY <2>2, <2>3, <2>4, <2>5, <2>6
<1>8. ASSUME NEW ids \in SUBSET Session, Undertake(c, ids)
      PROVE  StopInv'
  BY <1>8 DEF Undertake
<1>9. QED
  BY <1>1, <1>2, <1>3, <1>4, <1>5, <1>6, <1>7, <1>8 DEF ClientStep, Step, Choice

-----------------------------------------------------------------------------
LEMMA NextCases ==
  Next <=> (\E s \in Session : OwnerStep(s)) \/ (\E c \in Client : ClientStep(c))
  BY Zenon DEF Next, OwnerStep, ClientStep

(* The invariant is inductive.                                              *)
THEOREM InvariantHolds == Spec => []IInv
<1>1. Init => IInv
  BY DEF Init, IInv, TypeOK, OwnerInv, ScanInv, StopInv, Backing, OwnerPoint, ClientPoint,
         Scanning, Verdict, Unpublished, Running, Releasing, Over, Readable, Withdrawn, Seen
<1>2. IInv /\ [Next]_vars => IInv'
  <2> SUFFICES ASSUME IInv, [Next]_vars PROVE IInv'
    OBVIOUS
  <2>1. ASSUME NEW s \in Session, OwnerStep(s) PROVE IInv'
    BY <2>1, OwnerStepKeepsIInv
  <2>2. ASSUME NEW c \in Client, ClientStep(c) PROVE IInv'
    BY <2>2, ClientStepKeepsTypeOK, ClientStepKeepsOwnerInv, ClientStepKeepsScanInv,
       ClientStepKeepsStopInv DEF IInv
  <2>3. CASE UNCHANGED vars
    BY <2>3 DEF IInv, TypeOK, OwnerInv, ScanInv, StopInv, vars, ownerVars, clientVars, files
  <2>4. QED BY <2>1, <2>2, <2>3, NextCases
<1>3. QED BY <1>1, <1>2, PTL DEF Spec

(* Every variable keeps its type.                                           *)
THEOREM TypeCorrect == Spec => []TypeOK
<1>1. IInv => TypeOK
  BY DEF IInv
<1>2. QED BY <1>1, InvariantHolds, PTL

(* As long as a guest has the disk and its owner lives, every listing finds *)
(* a readable record whose lock is held, so the mount is listed and never   *)
(* pruned (session.go:317-320).                                             *)
THEOREM GuestIsCovered == Spec => []RecordCoversGuest
<1>1. IInv => RecordCoversGuest
  BY DEF IInv, TypeOK, OwnerInv, RecordCoversGuest, Readable, Running, Releasing
<1>2. QED BY <1>1, InvariantHolds, PTL

(* `lmnt stop` never reports success while one of its mounts still has the  *)
(* disk in the guest of a living owner (mounts.go:162-163).                 *)
THEOREM StopIsTruthful == Spec => []StoppedIsStopped
<1>1. IInv => StoppedIsStopped
  BY DEF IInv, OwnerInv, StopInv, StoppedIsStopped, Withdrawn, Running, Releasing, Over, TypeOK
<1>2. QED BY <1>1, InvariantHolds, PTL

(* A listing never makes a mount that is starting fail to register.         *)
THEOREM RegistrationSucceeds == Spec => []NeverRefused
<1>1. IInv => NeverRefused
  BY DEF IInv, OwnerInv, NeverRefused
<1>2. QED BY <1>1, InvariantHolds, PTL

(* A stop request that has been written is removed only by an owner whose   *)
(* guest is gone, or once there is no owner (sessions.go:142, 300).         *)
THEOREM RequestsSurvive == Spec => StopHeeded
<1>1. ASSUME IInv, [Next]_vars, NEW s \in Session, stop[s], ~stop'[s]
      PROVE  owner[s] \in Releasing \cup Over
  <2> USE <1>1 DEF IInv, TypeOK
  <2>1. ASSUME NEW t \in Session, OwnerStep(t) PROVE owner[s] \in Releasing \cup Over
    <3>1. CASE ClearStale(t)
      <4>1. t = s /\ owner[s] = "new"
        BY <3>1 DEF ClearStale, Moves
      <4>2. QED BY <4>1 DEF OwnerInv, Seen, Running, Releasing, Over
    <3>2. CASE ClearStop(t)
      BY <3>2 DEF ClearStop, Moves, Releasing
    <3>3. CASE UNCHANGED stop
      BY <3>3
    <3>4. QED
      BY <2>1, <3>1, <3>2, <3>3
         DEF OwnerStep, Proceed, Environment, OpenLock, TakeLock, WriteTemporary, Rename, Boot,
             Mount, End, GuestStopped, RemoveRecord, RemoveLock, Unlock, Watch, SaveFails,
             StartFails, Interrupt, GuestExits, Crash, files
  <2>2. ASSUME NEW c \in Client, ClientStep(c) PROVE owner[s] \in Releasing \cup Over
    <3>1. CASE PruneStop(c)
      <4>1. cur[c] \in Session /\ owner[cur[c]] \in Over
        BY <3>1 DEF PruneStop, ScanInv, Backing
      <4>2. QED BY <3>1, <4>1 DEF PruneStop
    <3>2. CASE \E t \in Session : RequestStop(c, t)
      BY <3>2 DEF RequestStop
    <3>3. CASE UNCHANGED stop
      BY <3>3
    <3>4. QED
      BY <2>2, <3>1, <3>2, <3>3
         DEF ClientStep, Step, Choice, ReadDir, ProbeLock, DropProbe, StatLock, ProbePID,
             PruneRecord, PruneLock, Finish, ReportStopped, ReadRecord, LookUp, GiveUp, Killed,
             Undertake, Conclude, files
  <2>3. CASE UNCHANGED vars
    BY <2>3 DEF vars, files
  <2>4. QED BY <1>1, <2>1, <2>2, <2>3, NextCases
<1>2. IInv /\ [Next]_vars =>
        [\A s \in Session : stop[s] /\ ~stop'[s] => owner[s] \in Releasing \cup Over]_vars
  BY <1>1
<1>3. QED BY <1>2, InvariantHolds, PTL DEF Spec, StopHeeded

-----------------------------------------------------------------------------
(* The registry implements StopService.                                     *)
(* A step of an owner attaches, detaches or abandons its disk, or leaves    *)
(* the phase of every disk as it is.                                        *)
LEMMA OwnerStepImplements ==
  ASSUME IInv, NEW s \in Session, OwnerStep(s)
  PROVE  [Service!Next]_(Service!vars)
<1>0. /\ owner \in [Session -> OwnerPoint] /\ owner' \in [Session -> OwnerPoint]
      /\ guest \in [Session -> BOOLEAN] /\ cancelled \in [Session -> BOOLEAN]
      /\ guest[s] => owner[s] \in (Running \ {"published"}) \cup {"crashed"}
      /\ owner'[s] # "unregistered"
  BY OwnerStepKeepsOwnerInv DEF IInv, TypeOK, OwnerInv
<1>1. UNCHANGED clientVars
  BY OwnersOnlyAdvance DEF IInv
<1>2. UNCHANGED <<wanted, Asked, {c \in Client : pc[c] = "stopped"}>>
  BY <1>1 DEF clientVars, Asked
<1>3. \A t \in Session \ {s} : PhaseOf(t)' = PhaseOf(t)
  <2>1. \A t \in Session \ {s} :
          owner'[t] = owner[t] /\ guest'[t] = guest[t] /\ cancelled'[t] = cancelled[t]
    BY <1>0
       DEF OwnerStep, Proceed, Environment, ClearStale, OpenLock, TakeLock, WriteTemporary, Rename,
           Boot, Mount, End, GuestStopped, RemoveRecord, ClearStop, RemoveLock, Unlock, Watch,
           SaveFails, StartFails, Interrupt, GuestExits, Crash, Moves
  <2>2. QED BY <2>1 DEF PhaseOf, HeldUp, Waits
<1>4. \/ PhaseOf(s)' = PhaseOf(s)
      \/ PhaseOf(s) = "absent" /\ PhaseOf(s)' \in Service!Attached
      \/ PhaseOf(s) \in Service!Attached /\ PhaseOf(s)' \in Service!Attached
      \/ PhaseOf(s) \in {"absent", "attached", "held"} /\ PhaseOf(s)' = "detached"
      \/ PhaseOf(s) # "abandoned" /\ PhaseOf(s)' = "abandoned"
  <2> USE <1>0 DEF Moves, PhaseOf, HeldUp, Waits, Unpublished, Running, Releasing, Over, OwnerPoint,
                   Service!Attached
  <2>1. CASE ClearStale(s)      BY <2>1 DEF ClearStale
  <2>2. CASE OpenLock(s)        BY <2>2 DEF OpenLock
  <2>3. CASE TakeLock(s)        BY <2>3 DEF TakeLock
  <2>4. CASE WriteTemporary(s)  BY <2>4 DEF WriteTemporary
  <2>5. CASE Rename(s)          BY <2>5 DEF Rename
  <2>6. CASE Boot(s)            BY <2>6 DEF Boot
  <2>7. CASE Mount(s)           BY <2>7 DEF Mount
  <2>8. CASE End(s)             BY <2>8 DEF End
  <2>9. CASE GuestStopped(s)    BY <2>9 DEF GuestStopped
  <2>10. CASE RemoveRecord(s)   BY <2>10 DEF RemoveRecord
  <2>11. CASE ClearStop(s)      BY <2>11 DEF ClearStop
  <2>12. CASE RemoveLock(s)     BY <2>12 DEF RemoveLock
  <2>13. CASE Unlock(s)         BY <2>13 DEF Unlock
  <2>14. CASE Watch(s)          BY <2>14 DEF Watch
  <2>15. CASE SaveFails(s)      BY <2>15 DEF SaveFails
  <2>16. CASE StartFails(s)     BY <2>16 DEF StartFails
  <2>17. CASE Interrupt(s)      BY <2>17 DEF Interrupt
  <2>18. CASE GuestExits(s)     BY <2>18 DEF GuestExits
  <2>19. CASE Crash(s)          BY <2>19 DEF Crash
  <2>20. QED
    BY <2>1, <2>2, <2>3, <2>4, <2>5, <2>6, <2>7, <2>8, <2>9, <2>10, <2>11, <2>12, <2>13,
       <2>14, <2>15, <2>16, <2>17, <2>18, <2>19 DEF OwnerStep, Proceed, Environment
<1>5. Phase' = [Phase EXCEPT ![s] = PhaseOf(s)'] /\ Phase[s] = PhaseOf(s)
  BY <1>3 DEF Phase
<1>6. CASE PhaseOf(s)' = PhaseOf(s)
  BY <1>2, <1>5, <1>6 DEF Service!vars, Phase
<1>7. CASE PhaseOf(s) = "absent" /\ PhaseOf(s)' \in Service!Attached
  BY <1>2, <1>5, <1>7 DEF Service!Next, Service!Attach
<1>8. CASE PhaseOf(s) \in Service!Attached /\ PhaseOf(s)' \in Service!Attached
  BY <1>2, <1>5, <1>8 DEF Service!Next, Service!Hold
<1>9. CASE PhaseOf(s) \in {"absent", "attached", "held"} /\ PhaseOf(s)' = "detached"
  BY <1>2, <1>5, <1>9 DEF Service!Next, Service!Detach, Service!Attached
<1>10. CASE PhaseOf(s) # "abandoned" /\ PhaseOf(s)' = "abandoned"
  BY <1>2, <1>5, <1>10 DEF Service!Next, Service!Abandon
<1>11. QED BY <1>4, <1>6, <1>7, <1>8, <1>9, <1>10

(* A step of a client undertakes, asks or reports, or changes nothing the   *)
(* service speaks of.                                                       *)
LEMMA ClientStepImplements ==
  ASSUME IInv, NEW c \in Client, ClientStep(c)
  PROVE  [Service!Next]_(Service!vars)
<1> USE DEF IInv, TypeOK
<1> DEFINE Reported == {d \in Client : pc[d] = "stopped"}
<1>1. UNCHANGED Phase
  BY DEF ClientStep, Step, Choice, ReadDir, ProbeLock, DropProbe, StatLock, ProbePID, PruneRecord,
         PruneLock, PruneStop, Finish, ReportStopped, ReadRecord, RequestStop, LookUp, GiveUp,
         Killed, Undertake, Conclude, ownerVars, Phase, PhaseOf, HeldUp, Waits
<1>2. CASE ReportStopped(c)
  <2>1. wanted[c] # {} /\ UNCHANGED <<wanted, Asked>>
    BY <1>2 DEF ReportStopped, Goes, StopInv, Asked
  <2>2. \A s \in wanted[c] : s \in Asked /\ Phase[s] \in Service!Gone
    <3>1. \A s \in wanted[c] : owner[s] \in Withdrawn /\ unasked[c] = {}
      BY <1>2 DEF ReportStopped, Goes, StopInv
    <3>2. \A s \in wanted[c] : PhaseOf(s) \in Service!Gone
      BY <3>1 DEF PhaseOf, OwnerInv, Service!Gone, Withdrawn, Releasing, Over, Running, Unpublished
    <3>3. QED BY <3>1, <3>2 DEF Asked, Phase
  <2>3. Reported' = Reported \cup {c}
    BY <1>2 DEF ReportStopped, Goes
  <2>4. Service!Report(c)
    BY <1>1, <2>1, <2>2, <2>3 DEF Service!Report
  <2>5. QED BY <2>4 DEF Service!Next
<1>3. ASSUME NEW s \in Session, RequestStop(c, s)
      PROVE  [Service!Next]_(Service!vars)
  <2>1. s \in wanted[c] /\ UNCHANGED wanted
    BY <1>3 DEF RequestStop, StopInv
  <2>2. Asked' = Asked \cup {s}
    BY <1>3, <2>1 DEF RequestStop, Asked
  <2>3. Reported' = Reported
    BY <1>3 DEF RequestStop
  <2>4. Service!Ask(c, s)
    BY <1>1, <2>1, <2>2, <2>3 DEF Service!Ask
  <2>5. QED BY <2>4 DEF Service!Next
<1>4. ASSUME NEW ids \in SUBSET Session, Undertake(c, ids)
      PROVE  [Service!Next]_(Service!vars)
  <2>1. wanted[c] = {} /\ ids # {} /\ wanted' = [wanted EXCEPT ![c] = ids]
    BY <1>4 DEF Undertake
  <2>2. Asked' = Asked
    BY <1>4 DEF Undertake, Asked, StopInv
  <2>3. Reported' = Reported
    BY <1>4 DEF Undertake, Goes
  <2>4. Service!Undertake(c, ids)
    BY <1>1, <2>1, <2>2, <2>3 DEF Service!Undertake
  <2>5. QED BY <2>4 DEF Service!Next
<1>5. CASE UNCHANGED <<wanted, unasked, Reported>>
  BY <1>1, <1>5 DEF Service!vars, Asked
<1>6. ASSUME ~ReportStopped(c), \A s \in Session : ~RequestStop(c, s),
             \A ids \in SUBSET Session : ~Undertake(c, ids)
      PROVE  UNCHANGED <<wanted, unasked, Reported>>
  BY <1>6 DEF ClientStep, Step, Choice, ReadDir, ProbeLock, DropProbe, StatLock, ProbePID,
              PruneRecord, PruneLock, PruneStop, Finish, ReadRecord, LookUp, GiveUp, Killed,
              Conclude, Goes, Verdict
<1>7. QED BY <1>2, <1>3, <1>4, <1>5, <1>6

THEOREM RegistryImplementsStopService == Spec => Implements
<1>1. Init => Service!Init
  BY DEF Init, Service!Init, Phase, PhaseOf, Asked, Unpublished
<1>2. IInv /\ [Next]_vars => [Service!Next]_(Service!vars)
  <2> SUFFICES ASSUME IInv, [Next]_vars
               PROVE  [Service!Next]_(Service!vars)
    OBVIOUS
  <2>1. ASSUME NEW s \in Session, OwnerStep(s)
        PROVE  [Service!Next]_(Service!vars)
    BY <2>1, OwnerStepImplements
  <2>2. ASSUME NEW c \in Client, ClientStep(c)
        PROVE  [Service!Next]_(Service!vars)
    BY <2>2, ClientStepImplements
  <2>3. CASE UNCHANGED vars
    BY <2>3 DEF vars, ownerVars, clientVars, Service!vars, Phase, PhaseOf, HeldUp, Waits, Asked
  <2>4. QED BY <2>1, <2>2, <2>3, NextCases
<1>3. QED BY <1>1, <1>2, InvariantHolds, PTL DEF Spec, Implements, Service!Spec
=============================================================================
