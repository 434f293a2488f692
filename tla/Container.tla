------------------------------ MODULE Container ------------------------------
(***************************************************************************)
(* A guest container (internal/provider/docker/docker.go) under the        *)
(* lifecycle of provider.Run.  Everything is done by running the docker    *)
(* CLI, which can fail, can be killed with its context half way, and can   *)
(* lose sight of the container.  What has gone wrong is remembered in      *)
(* `faults', for the properties to say what each failure may cost.         *)
(***************************************************************************)
EXTENDS Lifecycle

VARIABLES
  at,        \* where the main goroutine is inside Start or Stop
  box,       \* the container, as the container engine has it
  watching,  \* whether the watch goroutine waits in `docker wait`
  stopping,  \* whether Stop has been called
  disk,      \* whether there is a disk image to attach
  attached,  \* whether it is attached to a loop device of the engine's kernel
  loopName,  \* whether Start knows which one
  faults     \* history: what has failed

containerVars == <<at, box, watching, stopping, disk, attached, loopName, faults>>
vars          == <<runVars, channelVars, containerVars>>

Init ==
  /\ RunInit
  /\ at = "image" /\ box = "none" /\ watching = FALSE
  /\ stopping = FALSE /\ disk \in BOOLEAN /\ attached = FALSE
  /\ loopName = FALSE /\ faults = {}

Goes(from, to) == Alive /\ at = from /\ at' = to

Fails(what) == faults' = faults \cup {what}

(* finish: the first to close Exited decides what Err reports.              *)
FinishWith(err) ==
  /\ exited' = TRUE
  /\ exitErr' = IF exited THEN exitErr ELSE err

-----------------------------------------------------------------------------
(* Start.                                                                   *)

(* EnsureImage.                                                             *)
Image ==
  /\ Goes("image", "run")
  /\ UNCHANGED <<runVars, channelVars, box, watching, stopping, disk, attached,
                 loopName, faults>>

(* docker run, then the watcher of the container.                           *)
Run ==
  /\ Goes("run", "attach")
  /\ box' = "running" /\ watching' = TRUE
  /\ UNCHANGED <<runVars, channelVars, stopping, disk, attached, loopName, faults>>

(* docker is missing, the image cannot be had, or docker run fails, before  *)
(* there is a container or, when its context is done and it is killed,      *)
(* possibly after.  Stop then has nothing to stop.                          *)
StartFails ==
  /\ Alive /\ at \in {"image", "run"}
  /\ at' = "failed"
  /\ \/ UNCHANGED <<box, faults>>
     \/ at = "run" /\ cause # "none" /\ box' = "running" /\ Fails("run")
  /\ stopping' = TRUE
  /\ FinishWith("nil")
  /\ StartReturnsError
  /\ UNCHANGED <<watching, disk, attached, loopName>>

(* Without a disk that is all there is to start.                            *)
NothingToAttach ==
  /\ Goes("attach", "outside")
  /\ ~disk
  /\ StartReturns
  /\ UNCHANGED <<channelVars, box, watching, stopping, disk, attached, loopName, faults>>

(* The attach script has printed the loop device it took.                   *)
Attach ==
  /\ Goes("attach", "outside")
  /\ disk /\ box = "running"
  /\ attached' = TRUE /\ loopName' = TRUE
  /\ StartReturns
  /\ UNCHANGED <<channelVars, box, watching, stopping, disk, faults>>

(* It has not, or was killed, or failed with the device already taken.      *)
AttachFails ==
  /\ Goes("attach", "teardown")
  /\ disk
  /\ stopping' = TRUE
  /\ \/ UNCHANGED <<attached, faults>>
     \/ box = "running" /\ attached' = TRUE /\ Fails("attach")
  /\ UNCHANGED <<runVars, channelVars, box, watching, disk, loopName>>

-----------------------------------------------------------------------------
(* The task, and Stop, which Start calls too.                               *)

Work(err) ==
  /\ TaskReturns(err)
  /\ at' = "teardown"
  /\ stopping' = TRUE
  /\ UNCHANGED <<channelVars, box, watching, disk, attached, loopName, faults>>

(* Stop returns to Start, which returns the error it already had, or to     *)
(* RunContext.                                                              *)
ReturnWith(err) ==
  /\ at' = IF main = "starting" THEN "failed" ELSE "outside"
  /\ IF main = "starting" THEN StartReturnsError ELSE StopReturns(err)

(* A plausible bug: the container is stopped before the disk is released.   *)
SkipTeardown ==
  /\ Goes("teardown", "stop")
  /\ UNCHANGED <<runVars, channelVars, box, watching, stopping, disk, attached,
                 loopName, faults>>

(* A plausible bug: a teardown that fails keeps Stop from going on.         *)
TeardownIsFatal ==
  /\ Alive /\ at = "teardown"
  /\ \/ at' = "stop" /\ attached' = (attached /\ ~loopName) /\ UNCHANGED <<runVars, faults>>
     \/ Fails("teardown") /\ ReturnWith(TRUE) /\ UNCHANGED attached
  /\ UNCHANGED <<channelVars, box, watching, stopping, disk, loopName>>

(* The teardown script, in the container: it can only release a device that *)
(* Start has got to know, and its failures are ignored.                     *)
Teardown ==
  /\ Goes("teardown", "stop")
  /\ \/ box = "running" /\ attached' = (attached /\ ~loopName) /\ UNCHANGED faults
     \/ box # "running" /\ UNCHANGED <<attached, faults>>
     \/ box = "running" /\ Fails("teardown") /\ UNCHANGED attached
  /\ UNCHANGED <<runVars, channelVars, box, watching, stopping, disk, loopName>>

(* docker stop returns once the container has gone or when it had before.   *)
Stop ==
  /\ Goes("stop", "settle")
  /\ box' = "gone"
  /\ UNCHANGED <<runVars, channelVars, watching, stopping, disk, attached,
                 loopName, faults>>

(* A plausible bug: a Stop whose time is up closes Exited all the same.     *)
StopGivesUp ==
  /\ Alive /\ at = "stop"
  /\ Fails("stop")
  /\ FinishWith("nil")
  /\ ReturnWith(TRUE)
  /\ UNCHANGED <<box, watching, stopping, disk, attached, loopName>>

(* docker stop fails or its time is up: Stop returns with Exited open.      *)
StopFails ==
  /\ Alive /\ at = "stop"
  /\ Fails("stop")
  /\ ReturnWith(TRUE)
  /\ UNCHANGED <<channelVars, box, watching, stopping, disk, attached, loopName>>

(* The watcher has closed Exited, or the deadline of the context passes, or *)
(* stopGrace does, after which Stop closes it itself.                       *)
Settle ==
  /\ Alive /\ at = "settle"
  /\ \/ exited /\ ReturnWith(FALSE) /\ UNCHANGED <<channelVars, faults>>
     \/ ReturnWith(TRUE) /\ Fails("settle") /\ UNCHANGED channelVars
     \/ ReturnWith(FALSE) /\ FinishWith("nil") /\ UNCHANGED faults
  /\ UNCHANGED <<box, watching, stopping, disk, attached, loopName>>

-----------------------------------------------------------------------------
(* The container and its watcher.                                           *)

(* The container is killed, or its kernel dies, without anyone asking.      *)
Die ==
  /\ box = "running"
  /\ box' = "gone"
  /\ Fails("died")
  /\ UNCHANGED <<runVars, channelVars, at, watching, stopping, disk, attached, loopName>>

(* docker wait returns, and it is an error unless Stop has been called.     *)
Watch ==
  /\ Alive /\ watching /\ box = "gone"
  /\ watching' = FALSE
  /\ FinishWith(IF stopping THEN "nil" ELSE "error")
  /\ UNCHANGED <<runVars, at, box, stopping, disk, attached, loopName, faults>>

(* docker wait itself fails: the container is taken for gone.               *)
WatchFails ==
  /\ Alive /\ watching /\ box = "running"
  /\ watching' = FALSE
  /\ Fails("wait")
  /\ FinishWith(IF stopping THEN "nil" ELSE "error")
  /\ UNCHANGED <<runVars, at, box, stopping, disk, attached, loopName>>

-----------------------------------------------------------------------------
Progress == Image \/ Run \/ NothingToAttach \/ StartFails \/ Attach \/ AttachFails
            \/ Teardown \/ Stop \/ StopFails \/ Settle
Common   == (TakeSignal \/ HandlerReturns \/ NoticeExit \/ Ask \/ Conclude) /\ UNCHANGED containerVars
User     == (Press \/ Cancelled \/ Answer) /\ UNCHANGED containerVars

Next ==
  \/ Progress
  \/ \E err \in {"nil", "error", "canceled"} : Work(err)
  \/ Common \/ User \/ Die \/ Watch \/ WatchFails

Spec == Init /\ [][Next]_vars

(* Every docker command returns, for it has a context or a container to     *)
(* wait for, and a task heeds its context when it does not wait for its     *)
(* user, which it does a few times at most.                                 *)
Fairness ==
  /\ WF_vars(Progress)
  /\ WF_vars(TakeSignal /\ UNCHANGED containerVars)
  /\ WF_vars(HandlerReturns /\ UNCHANGED containerVars)
  /\ WF_vars(NoticeExit /\ UNCHANGED containerVars)
  /\ WF_vars(Conclude /\ UNCHANGED containerVars)
  /\ SF_vars(Work("canceled"))
  /\ WF_vars(Watch)

FairSpec == Spec /\ Fairness

-----------------------------------------------------------------------------
(* Properties.                                                              *)

(* A container keeps the promises of the Provider interface, step by step,  *)
(* unless docker run was cut off or docker wait lost sight of it; a Start   *)
(* that fails needs docker stop and the watcher to end in time as well, to  *)
(* have torn the guest down and closed Exited (provider.go:22-23, 31-37).   *)
Promise == INSTANCE Provider WITH
  guest <- CASE box = "none" -> "absent" [] box = "running" -> "running" [] OTHER -> "gone",
  start <- CASE main = "starting" -> "pending" [] at = "failed" -> "failed" [] OTHER -> "ready",
  exited <- exited, err <- exitErr, told <- main = "over"

Excused ==
  \/ faults' \cap {"run", "wait"} # {}
  \/ main = "starting" /\ main' = "over" /\ faults' \cap {"stop", "settle"} # {}

KeepsPromise == Promise!Init /\ [][Excused \/ [Promise!Next]_(Promise!vars)]_vars

(* A container outlives Run only when docker run was cut off, or when       *)
(* docker stop failed; no other failure, interrupt or death of a container  *)
(* leaves one behind (docker.go:223-224, 437-439).                          *)
NoContainerLeft ==
  main = "over" /\ box = "running" => faults \cap {"run", "stop"} # {}

(* The loop device is released, whatever interrupts the session, unless the *)
(* container died under it, attaching it failed half way, or the teardown   *)
(* did (docker.go:355-370).                                                 *)
LoopReleased ==
  main = "over" /\ attached => faults \cap {"died", "attach", "teardown"} # {}

(* An interrupt, or a stop request, ends the session, unless docker stop    *)
(* fails: RunContext then waits for a container nobody stops.  A container  *)
(* that dies ends it (provider.go:120-127).  Only a task that has asked for *)
(* a passphrase and never gets a line does not see either (luks.go:22-32).  *)
SessionEnds ==
  /\ outer ~> (~Alive \/ "stop" \in faults \/ []asking)
  /\ box = "gone" ~> (~Alive \/ []asking)
=============================================================================
