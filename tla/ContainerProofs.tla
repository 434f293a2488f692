---------------------------- MODULE ContainerProofs ----------------------------
(***************************************************************************)
(* Proofs about Container: that Exited is closed only on a container that  *)
(* is gone, that no container outlives Run, that the loop device is        *)
(* released, and that a container keeps the promises of the Provider       *)
(* interface, except after the failures that each of these names.  They    *)
(* rest on an inductive invariant, ContainerInv, which says for each step  *)
(* of Start and Stop what the engine may then have of the container and    *)
(* of the loop device.                                                     *)
(***************************************************************************)
EXTENDS Container, TLAPS

StartSteps == {"image", "run", "attach"}
StopSteps  == {"teardown", "stop", "settle"}
Faults     == {"run", "attach", "teardown", "stop", "died", "wait", "settle"}

ContainerTypeOK ==
  /\ main \in {"starting", "task", "stopping", "draining", "over"}
  /\ exited \in BOOLEAN /\ exitErr \in {"nil", "error"}
  /\ at \in StartSteps \cup StopSteps \cup {"outside", "failed"}
  /\ box \in {"none", "running", "gone"}
  /\ watching \in BOOLEAN /\ stopping \in BOOLEAN /\ disk \in BOOLEAN
  /\ attached \in BOOLEAN /\ loopName \in BOOLEAN
  /\ faults \subseteq Faults

(* Start starts, or tears down what it started; Stop tears down; in between  *)
(* and after, the main goroutine is in neither.                              *)
PlaceInv ==
  /\ main = "starting" => at \in StartSteps \cup StopSteps
  /\ main \in {"task", "draining"} => at = "outside"
  /\ main = "stopping" => at \in StopSteps
  /\ main = "over" => at \in {"outside", "failed"}

(* There is a container from docker run on.  After Stop, or a Start that     *)
(* failed, one still runs only when docker run or docker stop failed.        *)
BoxInv ==
  /\ at \in {"image", "run"} => box = "none" /\ ~exited
  /\ box = "none" => at \in {"image", "run", "failed"}
  /\ at = "settle" => box = "gone"
  /\ main \in {"draining", "over"} /\ box = "running" => faults \cap {"run", "stop"} # {}

(* A device is attached under a name that Start knows, or attaching failed   *)
(* half way.  Before docker stop a container is gone only because it died,   *)
(* so that a device which the teardown was to release and did not is there   *)
(* because the container died, the teardown failed, or had no name for it.   *)
LoopInv ==
  /\ at \in {"image", "run"} => ~attached
  /\ attached => loopName \/ "attach" \in faults
  /\ box = "gone" /\ (at \in {"attach", "teardown", "stop"} \/ main = "task")
       => "died" \in faults
  /\ attached /\ (at \in {"stop", "settle", "failed"} \/ main \in {"draining", "over"})
       => faults \cap {"died", "attach", "teardown"} # {}

(* Exited is closed only when the container is gone, unless docker wait      *)
(* lost sight of it or docker run was cut off; until then Err says nothing.  *)
ExitedInv ==
  /\ exited /\ box = "running" => faults \cap {"wait", "run"} # {}
  /\ ~exited => exitErr = "nil"

ContainerInv == ContainerTypeOK /\ PlaceInv /\ BoxInv /\ ExitedInv /\ LoopInv

-----------------------------------------------------------------------------
(* The initial states satisfy the invariant.                                *)
LEMMA InitHolds == Init => ContainerInv
  BY DEF Init, RunInit, ContainerInv, ContainerTypeOK, PlaceInv, BoxInv, ExitedInv, LoopInv,
     StartSteps, StopSteps, Faults

(* Start keeps it, up to what it has to tear down.                          *)
LEMMA StartKeeps ==
  ASSUME ContainerInv, Image \/ Run \/ NothingToAttach \/ StartFails \/ Attach \/ AttachFails
  PROVE  ContainerInv'
<1> USE DEF ContainerInv, ContainerTypeOK, PlaceInv, BoxInv, ExitedInv, LoopInv,
           StartSteps, StopSteps, Faults,
           runVars, channelVars, contextVars, commandVars, containerVars
<1>1. CASE Image
  BY <1>1 DEF Image, Goes, Alive
<1>2. CASE Run
  BY <1>2 DEF Run, Goes, Alive
<1>3. CASE StartFails
  BY <1>3 DEF StartFails, Alive, Fails, FinishWith, StartReturnsError, Moves
<1>4. CASE Attach
  BY <1>4 DEF Attach, Goes, Alive, StartReturns, Moves
<1>6. CASE NothingToAttach
  BY <1>6 DEF NothingToAttach, Goes, Alive, StartReturns, Moves
<1>5. CASE AttachFails
  <2>1. /\ Goes("attach", "teardown") /\ stopping' = TRUE
        /\ UNCHANGED <<runVars, channelVars, box, watching, disk, loopName>>
    BY <1>5 DEF AttachFails
  <2>2. CASE UNCHANGED <<attached, faults>>
    BY <2>1, <2>2 DEF Goes, Alive
  <2>3. CASE box = "running" /\ attached' = TRUE /\ Fails("attach")
    BY <2>1, <2>3 DEF Goes, Alive, Fails
  <2> QED
    BY <1>5, <2>2, <2>3 DEF AttachFails
<1> QED
  BY <1>1, <1>2, <1>3, <1>4, <1>5, <1>6

(* Stop keeps it, which a Start that fails calls too.                       *)
LEMMA StopKeeps ==
  ASSUME ContainerInv, Teardown \/ Stop \/ StopFails \/ Settle
  PROVE  ContainerInv'
<1> USE DEF ContainerInv, ContainerTypeOK, PlaceInv, BoxInv, ExitedInv, LoopInv,
           StartSteps, StopSteps, Faults,
           runVars, channelVars, contextVars, commandVars, containerVars
<1>1. CASE Teardown
  <2>1. /\ Goes("teardown", "stop")
        /\ UNCHANGED <<runVars, channelVars, box, watching, stopping, disk, loopName>>
    BY <1>1 DEF Teardown
  <2>2. CASE box = "running" /\ attached' = (attached /\ ~loopName) /\ UNCHANGED faults
    <3>1. attached' \in BOOLEAN /\ (attached' => attached /\ ~loopName)
      BY <2>2
    <3> QED
      BY <2>1, <2>2, <3>1 DEF Goes, Alive
  <2>3. CASE box # "running" /\ UNCHANGED <<attached, faults>>
    BY <2>1, <2>3 DEF Goes, Alive
  <2>4. CASE box = "running" /\ Fails("teardown") /\ UNCHANGED attached
    BY <2>1, <2>4 DEF Goes, Alive, Fails
  <2> QED
    BY <1>1, <2>2, <2>3, <2>4 DEF Teardown
<1>2. CASE Stop
  BY <1>2 DEF Stop, Goes, Alive
<1>3. CASE StopFails
  BY <1>3 DEF StopFails, Alive, Fails, ReturnWith, StartReturnsError, StopReturns, Moves
<1>4. CASE Settle
  <2>1. /\ Alive /\ at = "settle"
        /\ UNCHANGED <<box, watching, stopping, disk, attached, loopName>>
    BY <1>4 DEF Settle
  <2>2. CASE exited /\ ReturnWith(FALSE) /\ UNCHANGED <<channelVars, faults>>
    BY <2>1, <2>2 DEF Alive, ReturnWith, StartReturnsError, StopReturns, Moves
  <2>3. CASE ReturnWith(TRUE) /\ Fails("settle") /\ UNCHANGED channelVars
    BY <2>1, <2>3 DEF Alive, Fails, ReturnWith, StartReturnsError, StopReturns, Moves
  <2>4. CASE ReturnWith(FALSE) /\ FinishWith("nil") /\ UNCHANGED faults
    BY <2>1, <2>4 DEF Alive, FinishWith, ReturnWith, StartReturnsError, StopReturns, Moves
  <2> QED
    BY <1>4, <2>2, <2>3, <2>4 DEF Settle
<1> QED
  BY <1>1, <1>2, <1>3, <1>4

(* The container and its watcher keep it.                                   *)
LEMMA WatchKeeps ==
  ASSUME ContainerInv, Die \/ Watch \/ WatchFails
  PROVE  ContainerInv'
<1> USE DEF ContainerInv, ContainerTypeOK, PlaceInv, BoxInv, ExitedInv, LoopInv,
           StartSteps, StopSteps, Faults,
           runVars, channelVars, contextVars, commandVars, containerVars
<1>1. CASE Die
  BY <1>1 DEF Die, Fails
<1>2. CASE Watch
  BY <1>2 DEF Watch, Alive, FinishWith
<1>3. CASE WatchFails
  BY <1>3 DEF WatchFails, Alive, Fails, FinishWith
<1> QED
  BY <1>1, <1>2, <1>3

(* The goroutines of RunContext and the user keep it.                       *)
LEMMA LifecycleKeeps ==
  ASSUME ContainerInv,
           (\E err \in {"nil", "error", "canceled"} : Work(err))
        \/ (TakeSignal /\ UNCHANGED containerVars)
        \/ (HandlerReturns /\ UNCHANGED containerVars)
        \/ (NoticeExit /\ UNCHANGED containerVars) \/ (Conclude /\ UNCHANGED containerVars)
        \/ (Press /\ UNCHANGED containerVars) \/ (Cancelled /\ UNCHANGED containerVars)
        \/ (Ask /\ UNCHANGED containerVars) \/ (Answer /\ UNCHANGED containerVars)
  PROVE  ContainerInv'
<1> USE DEF ContainerInv, ContainerTypeOK, PlaceInv, BoxInv, ExitedInv, LoopInv,
           StartSteps, StopSteps, Faults,
           runVars, channelVars, contextVars, commandVars, containerVars
<1>1. CASE (\E err \in {"nil", "error", "canceled"} : Work(err))
  BY <1>1 DEF Work, TaskReturns, Moves
<1>2. CASE (TakeSignal /\ UNCHANGED containerVars)
  BY <1>2 DEF TakeSignal
<1>3. CASE (HandlerReturns /\ UNCHANGED containerVars)
  BY <1>3 DEF HandlerReturns
<1>4. CASE (NoticeExit /\ UNCHANGED containerVars)
  BY <1>4 DEF NoticeExit
<1>5. CASE (Conclude /\ UNCHANGED containerVars)
  BY <1>5 DEF Conclude, Moves
<1>6. CASE (Press /\ UNCHANGED containerVars)
  BY <1>6 DEF Press
<1>7. CASE (Cancelled /\ UNCHANGED containerVars)
  BY <1>7 DEF Cancelled
<1>8. CASE (Ask /\ UNCHANGED containerVars)
  BY <1>8 DEF Ask, Alive
<1>9. CASE (Answer /\ UNCHANGED containerVars)
  BY <1>9 DEF Answer, Alive
<1> QED
  BY <1>1, <1>2, <1>3, <1>4, <1>5, <1>6, <1>7, <1>8, <1>9

(* The inductive invariant: wherever Start and Stop are, and whatever has    *)
(* failed, died or been interrupted, the engine has the container and the    *)
(* loop device that the steps taken so far account for (docker.go:211-471).  *)
THEOREM ContainerInvHolds == Spec => []ContainerInv
<1>1. ContainerInv /\ [Next]_vars => ContainerInv'
  <2> SUFFICES ASSUME ContainerInv, [Next]_vars PROVE ContainerInv'
    OBVIOUS
  <2>1. CASE Progress
    BY <2>1, StartKeeps, StopKeeps DEF Progress
  <2>2. CASE (\E err \in {"nil", "error", "canceled"} : Work(err)) \/ Common \/ User
    BY <2>2, LifecycleKeeps DEF Common, User
  <2>3. CASE Die \/ Watch \/ WatchFails
    BY <2>3, WatchKeeps
  <2>4. CASE UNCHANGED vars
    BY <2>4 DEF vars, runVars, channelVars, containerVars, ContainerInv, ContainerTypeOK,
       PlaceInv, BoxInv, ExitedInv, LoopInv
  <2> QED
    BY <2>1, <2>2, <2>3, <2>4 DEF Next
<1> QED
  BY <1>1, InitHolds, PTL DEF Spec

(* Exited is never closed on a container that runs, unless docker wait lost  *)
(* sight of it or docker run was cut off, and Err is settled when it is      *)
(* (provider.go:31-36).                                                      *)
THEOREM ExitedOnceGone == Spec => []ExitedInv
<1>1. ContainerInv => ExitedInv
  BY DEF ContainerInv
<1> QED
  BY <1>1, ContainerInvHolds, PTL

(* When Run has returned no container is left running, unless docker run     *)
(* was cut off or docker stop failed: not after a Start that failed, an      *)
(* interrupt, a teardown that failed or a watcher that gave up               *)
(* (docker.go:223-224, 437-439).                                             *)
THEOREM StoppedAfterwards == Spec => []NoContainerLeft
<1>1. ContainerInv => NoContainerLeft
  BY DEF ContainerInv, BoxInv, NoContainerLeft
<1> QED
  BY <1>1, ContainerInvHolds, PTL

(* When Run has returned no loop device is left attached, unless the         *)
(* container died under it, attaching it failed half way or the teardown     *)
(* failed (docker.go:355-370).                                               *)
THEOREM ReleasedAfterwards == Spec => []LoopReleased
<1>1. ContainerInv => LoopReleased
  BY DEF ContainerInv, LoopInv, LoopReleased
<1> QED
  BY <1>1, ContainerInvHolds, PTL

-----------------------------------------------------------------------------
(***************************************************************************)
(* A container is a Provider.                                              *)
(***************************************************************************)

Allowed == Excused \/ [Promise!Next]_(Promise!vars)

(* A step that changes nothing of what the promise speaks of.               *)
LEMMA Unseen ==
  ASSUME ContainerInv, UNCHANGED <<main, box, exited, exitErr>>,
         at' = at \/ (at # "failed" /\ at' # "failed")
  PROVE  Allowed
  BY DEF Allowed, Promise!vars

(* Start brings the container up at one step and returns at a later one; a  *)
(* Start that fails with no container closes Exited itself.                 *)
LEMMA StartRefines ==
  ASSUME ContainerInv, Image \/ Run \/ NothingToAttach \/ StartFails \/ Attach \/ AttachFails
  PROVE  Allowed
<1> USE DEF ContainerInv, ContainerTypeOK, PlaceInv, BoxInv, ExitedInv, StartSteps, StopSteps
<1>1. CASE Image \/ AttachFails
  <2>1. /\ UNCHANGED <<main, box, exited, exitErr>>
        /\ at # "failed" /\ at' # "failed"
    BY <1>1 DEF Image, AttachFails, Goes, runVars, channelVars
  <2> QED
    BY <2>1, Unseen
<1>2. CASE Run
  <2>1. /\ at = "run" /\ at' = "attach" /\ box' = "running"
        /\ UNCHANGED <<main, exited, exitErr>>
    BY <1>2 DEF Run, Goes, runVars, channelVars
  <2>2. main = "starting" /\ box = "none" /\ ~exited
    BY <2>1
  <2> QED
    BY <2>1, <2>2 DEF Allowed, Promise!Next, Promise!Boot
<1>3. CASE NothingToAttach \/ Attach
  <2>1. /\ at = "attach" /\ at' = "outside" /\ main = "starting" /\ main' = "task"
        /\ UNCHANGED <<box, exited, exitErr>>
    BY <1>3 DEF NothingToAttach, Attach, Goes, StartReturns, Moves, channelVars
  <2>2. box # "none"
    BY <2>1
  <2> QED
    BY <2>1, <2>2 DEF Allowed, Promise!Next, Promise!Ready
<1>4. CASE StartFails
  <2>1. /\ at \in {"image", "run"} /\ at' = "failed" /\ exited' = TRUE
        /\ exitErr' = IF exited THEN exitErr ELSE "nil"
        /\ main = "starting" /\ main' = "over"
        /\ box' = box \/ "run" \in faults'
    BY <1>4 DEF StartFails, Fails, FinishWith, StartReturnsError, Moves
  <2>2. CASE box' = box
    <3>1. box = "none" /\ exitErr' = exitErr
      BY <2>1
    <3> QED
      BY <2>1, <2>2, <3>1 DEF Allowed, Promise!Next, Promise!Fail
  <2>3. CASE "run" \in faults'
    BY <2>3 DEF Allowed, Excused
  <2> QED
    BY <2>1, <2>2, <2>3
<1> QED
  BY <1>1, <1>2, <1>3, <1>4

(* docker stop sees the guest go.  Stop, when it returns, may close Exited  *)
(* in the place of the watcher; a Start that it ends has then failed.       *)
LEMMA StopRefines ==
  ASSUME ContainerInv, Teardown \/ Stop \/ StopFails \/ Settle
  PROVE  Allowed
<1> USE DEF ContainerInv, ContainerTypeOK, PlaceInv, BoxInv, ExitedInv, StartSteps, StopSteps
<1>1. CASE Teardown
  <2>1. /\ UNCHANGED <<main, box, exited, exitErr>>
        /\ at # "failed" /\ at' # "failed"
    BY <1>1 DEF Teardown, Goes, runVars, channelVars
  <2> QED
    BY <2>1, Unseen
<1>2. CASE Stop
  <2>1. /\ at = "stop" /\ at' = "settle" /\ box' = "gone"
        /\ UNCHANGED <<main, exited, exitErr>>
    BY <1>2 DEF Stop, Goes, runVars, channelVars
  <2>2. box \in {"running", "gone"}
    BY <2>1
  <2> QED
    BY <2>1, <2>2 DEF Allowed, Promise!Next, Promise!Die, Promise!vars
<1>3. CASE StopFails
  <2>1. /\ at = "stop" /\ "stop" \in faults'
        /\ at' = IF main = "starting" THEN "failed" ELSE "outside"
        /\ main = "starting" => main' = "over"
        /\ main # "starting" => main = "stopping" /\ main' = "draining"
        /\ UNCHANGED <<box, exited, exitErr>>
    BY <1>3 DEF StopFails, Fails, ReturnWith, StartReturnsError, StopReturns, Moves, channelVars
  <2>2. CASE main = "starting"
    BY <2>1, <2>2 DEF Allowed, Excused
  <2>3. CASE main # "starting"
    BY <2>1, <2>3 DEF Allowed, Promise!vars
  <2> QED
    BY <2>2, <2>3
<1>4. CASE Settle
  <2>1. /\ at = "settle" /\ box = "gone" /\ box' = box
        /\ at' = IF main = "starting" THEN "failed" ELSE "outside"
        /\ main = "starting" => main' = "over"
        /\ main # "starting" => main = "stopping" /\ main' = "draining"
        /\ \/ exited /\ UNCHANGED <<exited, exitErr>>
           \/ UNCHANGED <<exited, exitErr>> /\ "settle" \in faults'
           \/ exited' = TRUE /\ exitErr' = IF exited THEN exitErr ELSE "nil"
    BY <1>4 DEF Settle, Fails, FinishWith, ReturnWith, StartReturnsError, StopReturns, Moves,
                channelVars
  <2>2. \/ exited' = TRUE /\ exitErr' = exitErr
        \/ UNCHANGED <<exited, exitErr>> /\ "settle" \in faults'
    BY <2>1
  <2>3. CASE main = "starting"
    <3>1. CASE exited' = TRUE /\ exitErr' = exitErr
      BY <2>1, <2>3, <3>1 DEF Allowed, Promise!Next, Promise!Fail
    <3>2. CASE "settle" \in faults'
      BY <2>1, <2>3, <3>2 DEF Allowed, Excused
    <3> QED
      BY <2>2, <3>1, <3>2
  <2>4. CASE main # "starting"
    <3>1. CASE UNCHANGED <<exited, exitErr>>
      BY <2>1, <2>4, <3>1 DEF Allowed, Promise!vars
    <3>2. CASE ~exited /\ exited' = TRUE /\ exitErr' = exitErr
      BY <2>1, <2>4, <3>2 DEF Allowed, Promise!Next, Promise!Close
    <3> QED
      BY <2>2, <3>1, <3>2
  <2> QED
    BY <2>3, <2>4
<1> QED
  BY <1>1, <1>2, <1>3, <1>4

(* The container goes, and then its watcher closes Exited.                  *)
LEMMA WatchRefines ==
  ASSUME ContainerInv, Die \/ Watch \/ WatchFails
  PROVE  Allowed
<1> USE DEF ContainerInv, ContainerTypeOK, PlaceInv, BoxInv, ExitedInv, StartSteps, StopSteps
<1>1. CASE Die
  <2>1. /\ box = "running" /\ box' = "gone"
        /\ UNCHANGED <<main, at, exited, exitErr>>
    BY <1>1 DEF Die, runVars, channelVars
  <2> QED
    BY <2>1 DEF Allowed, Promise!Next, Promise!Die
<1>2. CASE Watch
  <2>1. /\ box = "gone" /\ exited' = TRUE
        /\ \E st \in {"nil", "error"} : exitErr' = IF exited THEN exitErr ELSE st
        /\ UNCHANGED <<main, at, box>>
    BY <1>2 DEF Watch, FinishWith, runVars
  <2>2. CASE exited
    BY <2>1, <2>2 DEF Allowed, Promise!vars
  <2>3. CASE ~exited
    BY <2>1, <2>3 DEF Allowed, Promise!Next, Promise!Close
  <2> QED
    BY <2>2, <2>3
<1>3. CASE WatchFails
  BY <1>3 DEF WatchFails, Fails, Allowed, Excused
<1> QED
  BY <1>1, <1>2, <1>3

(* Of RunContext's own steps, the caller sees only that it concludes.       *)
LEMMA LifecycleRefines ==
  ASSUME ContainerInv, (\E err \in {"nil", "error", "canceled"} : Work(err)) \/ Common \/ User
  PROVE  Allowed
<1> USE DEF ContainerInv, ContainerTypeOK, PlaceInv, BoxInv, ExitedInv, StartSteps, StopSteps
<1>1. CASE \E err \in {"nil", "error", "canceled"} : Work(err)
  <2>1. /\ main = "task" /\ main' = "stopping" /\ at' = "teardown"
        /\ UNCHANGED <<box, exited, exitErr>>
    BY <1>1 DEF Work, TaskReturns, Moves, channelVars
  <2> QED
    BY <2>1 DEF Allowed, Promise!vars
<1>2. CASE Conclude /\ UNCHANGED containerVars
  <2>1. /\ exited /\ main = "draining" /\ main' = "over"
        /\ UNCHANGED <<at, box, exited, exitErr>>
    BY <1>2 DEF Conclude, Moves, channelVars, containerVars
  <2> QED
    BY <2>1 DEF Allowed, Promise!Next, Promise!Tell
<1>3. CASE (TakeSignal \/ HandlerReturns \/ NoticeExit \/ Ask \/ Press \/ Cancelled \/ Answer)
             /\ UNCHANGED containerVars
  <2>1. UNCHANGED <<main, at, box, exited, exitErr>>
    BY <1>3 DEF TakeSignal, HandlerReturns, NoticeExit, Ask, Press, Cancelled, Answer, channelVars,
       containerVars
  <2> QED
    BY <2>1, Unseen
<1> QED
  BY <1>1, <1>2, <1>3 DEF Common, User

(* A container under RunContext keeps the promises of the Provider at every *)
(* step: one guest, a Start that fails only when that guest is gone, Exited *)
(* closed once and after it, a caller that is told last.  Only a docker run *)
(* that was cut off and a docker wait that failed break them, and for a     *)
(* Start that fails, a docker stop that failed or took all the time there   *)
(* was (provider.go:19-47, docker.go:225-240, 446-474).                     *)
THEOREM ContainerKeepsPromise == Spec => KeepsPromise
<1>1. Init => Promise!Init
  BY DEF Init, RunInit, Promise!Init
<1>2. ContainerInv /\ [Next]_vars => [Allowed]_vars
  <2> SUFFICES ASSUME ContainerInv, [Next]_vars, ~UNCHANGED vars PROVE Allowed
    OBVIOUS
  <2> QED
    BY StartRefines, StopRefines, WatchRefines, LifecycleRefines DEF Next, Progress
<1>3. Spec => [][Allowed]_vars
  BY <1>2, ContainerInvHolds, PTL DEF Spec
<1> QED
  BY <1>1, <1>3, PTL DEF Spec, KeepsPromise, Allowed

(* In a session in which none of the four has happened, a container is a    *)
(* Provider like any other, whatever else fails, dies or is interrupted     *)
(* (provider.go:19-47).                                                     *)
Costly == {"run", "wait", "stop", "settle"}

THEOREM ContainerIsProvider == Spec /\ [](faults \cap Costly = {}) => Promise!Spec
<1>1. [Excused \/ [Promise!Next]_(Promise!vars)]_vars /\ (faults \cap Costly = {})'
        => [Promise!Next]_(Promise!vars)
  <2> SUFFICES ASSUME [Excused \/ [Promise!Next]_(Promise!vars)]_vars, faults' \cap Costly = {}
               PROVE  [Promise!Next]_(Promise!vars)
    BY DEF Costly
  <2>1. ~Excused
    BY DEF Excused, Costly
  <2>2. CASE UNCHANGED vars
    BY <2>2 DEF vars, runVars, channelVars, containerVars, Promise!vars
  <2> QED
    BY <2>1, <2>2
<1> QED
  BY <1>1, ContainerKeepsPromise, PTL DEF KeepsPromise, Promise!Spec
==============================================================================
