------------------------------- MODULE Machine -------------------------------
(***************************************************************************)
(* A QEMU virtual machine (internal/provider/qemu/machine.go) under the    *)
(* lifecycle of provider.Run.  Besides the goroutines of the lifecycle     *)
(* there are the reaper of the QEMU process, which closes Exited, and the  *)
(* watchdog, which kills the machine when the host mounts the device it    *)
(* was given.  The guest may freeze, exit by itself, or not answer.        *)
(***************************************************************************)
EXTENDS Lifecycle

VARIABLES
  at,        \* where the main goroutine is inside Start or Stop
  vm,        \* the QEMU process; a dead one has not been reaped yet
  status,    \* its exit status, once it is dead
  hostKey,   \* whether the guest has told its host key, so that ssh can be used
  termed,    \* whether the process has been sent SIGTERM
  killed,    \* history: whether the watchdog has killed it
  shutErr,   \* whether shutdown() ended in an error
  frozen,    \* whether the guest has stopped answering
  watchdog,  \* the watchDevices goroutine
  passed,    \* whether a device of the host is passed to the guest
  mounted    \* whether the host has mounted that device

processVars == <<vm, status, termed, killed>>
deviceVars  == <<passed, mounted>>
machineVars == <<at, processVars, hostKey, shutErr, frozen, watchdog, deviceVars>>
vars        == <<runVars, channelVars, machineVars>>

Init ==
  /\ RunInit
  /\ at = "guard" /\ vm = "none" /\ status = "nil" /\ hostKey = FALSE
  /\ termed = FALSE /\ killed = FALSE /\ shutErr = FALSE /\ frozen = FALSE
  /\ watchdog = "off"
  /\ passed \in BOOLEAN /\ mounted \in {FALSE, passed}

(* An action of the process that leaves the rest of the lifecycle alone.    *)
Goes(from, to) == Alive /\ at = from /\ at' = to

(* finish: the first to close Exited decides what Err reports.              *)
FinishWith(err) ==
  /\ exited' = TRUE
  /\ exitErr' = IF exited THEN exitErr ELSE err

-----------------------------------------------------------------------------
(* Start, in the main goroutine.                                            *)

(* guardDevicesUnmounted: no passed device may be mounted on the host.      *)
Guard ==
  /\ Goes("guard", "launch")
  /\ passed => ~mounted
  /\ UNCHANGED <<runVars, channelVars, processVars, hostKey, shutErr, frozen, watchdog, deviceVars>>

(* It is, or mount(8) cannot be asked.                                      *)
Refuse ==
  /\ Goes("guard", "failed")
  /\ passed
  /\ FinishWith("nil")
  /\ StartReturnsError
  /\ UNCHANGED <<processVars, hostKey, shutErr, frozen, watchdog, deviceVars>>

(* boot, up to the process running, its reaper and its watchdog.            *)
Launch ==
  /\ Goes("launch", "login")
  /\ vm' = "running"
  /\ watchdog' = IF passed THEN "ticking" ELSE "off"
  /\ UNCHANGED <<runVars, channelVars, status, termed, killed, hostKey, shutErr, frozen, deviceVars>>

(* No key, no port, no binary, no process: Stop finds no process to stop.   *)
LaunchFails ==
  /\ Goes("launch", "failed")
  /\ FinishWith("nil")
  /\ StartReturnsError
  /\ UNCHANGED <<processVars, hostKey, shutErr, frozen, watchdog, deviceVars>>

(* The login prompt, which the console may have seen before QEMU died.      *)
Login ==
  /\ Goes("login", "setup")
  /\ UNCHANGED <<runVars, channelVars, processVars, hostKey, shutErr, frozen, watchdog, deviceVars>>

(* runScript printed the host key of the guest.                             *)
Setup ==
  /\ Goes("setup", "dial")
  /\ hostKey' = TRUE
  /\ UNCHANGED <<runVars, channelVars, processVars, shutErr, frozen, watchdog, deviceVars>>

(* dialSSH gets through: the guest is ready and Start returns.              *)
Dial ==
  /\ Goes("dial", "outside")
  /\ vm = "running" /\ ~frozen
  /\ StartReturns
  /\ UNCHANGED <<channelVars, processVars, hostKey, shutErr, frozen, watchdog, deviceVars>>

(* Whatever answers over the network does not when the guest is frozen, and *)
(* an ssh handshake has no deadline of its own; a dead QEMU closes it.      *)
Answers == ~frozen \/ vm # "running"

(* A timeout, a cancelled context, a console that closed or bad output:     *)
(* Start stops what came up, with a background context.                     *)
BootFails ==
  /\ Alive
  /\ at \in {"login", "setup", "dial"}
  /\ at = "dial" => Answers
  /\ at' = IF hostKey THEN "poweroff" ELSE "terminate"
  /\ UNCHANGED <<runVars, channelVars, processVars, hostKey, shutErr, frozen, watchdog, deviceVars>>

-----------------------------------------------------------------------------
(* The task, and Stop, in the main goroutine.                               *)

(* The task returns and RunContext calls Stop: Start returned, so there is  *)
(* a process and a host key.                                                *)
Work(err) ==
  /\ TaskReturns(err)
  /\ err = "nil" => Answers
  /\ at' = "poweroff"
  /\ UNCHANGED <<channelVars, processVars, hostKey, shutErr, frozen, watchdog, deviceVars>>

(* poweroff() has run the command, or could not.  Only its dialling minds   *)
(* the deadline; opening the session and running the command do not.        *)
PowerOff ==
  /\ Alive /\ at = "poweroff" /\ Answers
  /\ at' \in {"grace", "terminate"}
  /\ UNCHANGED <<runVars, channelVars, processVars, hostKey, shutErr, frozen, watchdog, deviceVars>>

(* The process exits within ShutdownTimeout, or the time is up.             *)
Grace ==
  /\ Alive /\ at = "grace"
  /\ at' \in IF exited THEN {"await", "terminate"} ELSE {"terminate"}
  /\ UNCHANGED <<runVars, channelVars, processVars, hostKey, shutErr, frozen, watchdog, deviceVars>>

(* hostos.Terminate.  The process group of a dead process may be gone; the  *)
(* error is ignored when the reaper is seen to have collected it.           *)
Terminate ==
  /\ Goes("terminate", "await")
  /\ termed' = (vm = "running")
  /\ shutErr' \in IF vm = "running" \/ exited THEN {FALSE} ELSE BOOLEAN
  /\ UNCHANGED <<runVars, channelVars, vm, status, killed, hostKey, frozen, watchdog, deviceVars>>

(* A plausible bug: Start does not wait for the process it terminated.      *)
AbortAtOnce ==
  /\ Goes("await", "failed")
  /\ StartReturnsError
  /\ UNCHANGED <<channelVars, processVars, hostKey, shutErr, frozen, watchdog, deviceVars>>

(* Stop returns to Start, whose own finish changes nothing any more.        *)
AbortStart ==
  /\ Goes("await", "failed")
  /\ exited
  /\ StartReturnsError
  /\ UNCHANGED <<channelVars, processVars, hostKey, shutErr, frozen, watchdog, deviceVars>>

(* Stop returns to RunContext: Exited is closed, or StopTimeout has passed. *)
Stop ==
  /\ Goes("await", "outside")
  /\ \/ exited /\ StopReturns(shutErr)
     \/ StopReturns(TRUE)
  /\ UNCHANGED <<channelVars, processVars, hostKey, shutErr, frozen, watchdog, deviceVars>>

-----------------------------------------------------------------------------
(* The process, its reaper and its watchdog.                                *)

(* QEMU ends: by itself, because the guest powered off, or of SIGTERM.      *)
Exits(st) ==
  /\ vm = "running"
  /\ vm' = "dead"
  /\ status' = st
  /\ UNCHANGED <<runVars, channelVars, at, hostKey, termed, killed, shutErr, frozen,
                 watchdog, deviceVars>>

(* The guest stops answering for good.                                      *)
Freeze ==
  /\ vm = "running" /\ ~frozen
  /\ frozen' = TRUE
  /\ UNCHANGED <<runVars, channelVars, at, processVars, hostKey, shutErr, watchdog, deviceVars>>

(* A plausible bug: a process that has ended is taken for one that was      *)
(* stopped.                                                                 *)
ReapWithoutStatus ==
  /\ Alive /\ vm = "dead"
  /\ vm' = "reaped"
  /\ FinishWith("nil")
  /\ UNCHANGED <<runVars, at, status, termed, killed, hostKey, shutErr, frozen, watchdog, deviceVars>>

(* cmd.Wait returns.                                                        *)
Reap ==
  /\ Alive /\ vm = "dead"
  /\ vm' = "reaped"
  /\ FinishWith(status)
  /\ UNCHANGED <<runVars, at, status, termed, killed, hostKey, shutErr, frozen, watchdog, deviceVars>>

(* A tick that finds the device mounted.                                    *)
Bark ==
  /\ Alive /\ watchdog = "ticking" /\ mounted
  /\ watchdog' = "off"
  /\ IF vm = "running"
       THEN vm' = "dead" /\ status' = "error" /\ killed' = TRUE
       ELSE UNCHANGED <<vm, status, killed>>
  /\ UNCHANGED <<runVars, channelVars, at, termed, hostKey, shutErr, frozen, deviceVars>>

(* A plausible bug: mount(8) failing once ends the watch.                   *)
WatchdogGivesUp ==
  /\ Alive /\ watchdog = "ticking"
  /\ watchdog' = "off"
  /\ UNCHANGED <<runVars, channelVars, at, processVars, hostKey, shutErr, frozen, deviceVars>>

(* The context it was given is done, or the machine has gone.               *)
WatchdogReturns ==
  /\ Alive /\ watchdog = "ticking"
  /\ cause # "none" \/ exited
  /\ watchdog' = "off"
  /\ UNCHANGED <<runVars, channelVars, at, processVars, hostKey, shutErr, frozen, deviceVars>>

(* The host mounts the passed device, which nothing prevents it from doing. *)
HostMounts ==
  /\ passed /\ ~mounted
  /\ mounted' = TRUE
  /\ UNCHANGED <<runVars, channelVars, at, processVars, hostKey, shutErr, frozen, watchdog, passed>>

-----------------------------------------------------------------------------
Boot     == Guard \/ Launch \/ Login \/ Setup \/ Dial \/ BootFails
Shutdown == PowerOff \/ Grace \/ Terminate \/ AbortStart \/ Stop
Common   == (TakeSignal \/ HandlerReturns \/ NoticeExit \/ Ask \/ Conclude) /\ UNCHANGED machineVars
User     == (Press \/ Cancelled \/ Answer) /\ UNCHANGED machineVars

Next ==
  \/ Boot \/ Refuse \/ LaunchFails
  \/ \E err \in {"nil", "error", "canceled"} : Work(err)
  \/ Shutdown \/ Common \/ User
  \/ \E st \in {"nil", "error"} : Exits(st)
  \/ Freeze \/ Reap \/ Bark \/ WatchdogReturns \/ HostMounts

Spec == Init /\ [][Next]_vars

(* Each goroutine keeps taking its steps and each timeout passes; a task    *)
(* heeds its context when the guest answers and it does not wait for its    *)
(* user, which it does a few times at most; SIGTERM ends QEMU.  The guest   *)
(* need not power off, and nobody has to type anything or mount a device.   *)
Fairness ==
  /\ WF_vars(Boot \/ Refuse) /\ WF_vars(Shutdown)
  /\ WF_vars(TakeSignal /\ UNCHANGED machineVars)
  /\ WF_vars(HandlerReturns /\ UNCHANGED machineVars)
  /\ WF_vars(NoticeExit /\ UNCHANGED machineVars)
  /\ WF_vars(Conclude /\ UNCHANGED machineVars)
  /\ SF_vars(Answers /\ Work("canceled"))
  /\ WF_vars(termed /\ \E st \in {"nil", "error"} : Exits(st))
  /\ WF_vars(Reap) /\ WF_vars(Bark) /\ WF_vars(WatchdogReturns)

FairSpec == Spec /\ Fairness

-----------------------------------------------------------------------------
(* Properties.                                                              *)

(* When Run has returned, however it came to that, no QEMU process is left  *)
(* behind: a failed Start has torn the guest down and Exited is closed      *)
(* (provider.go:25-27, machine.go:203-209).                                 *)
GoneWhenOver == main = "over" => exited /\ vm \in {"none", "reaped"}

(* What Run returns is true: neither a machine that the watchdog killed, at *)
(* whatever point of boot, task or shutdown, nor a task that failed or was  *)
(* cut short is a success (machine.go:475, provider.go:138-155); what is    *)
(* reported as interrupted was, though it may have been after the task; and *)
(* what cut the task short is what is reported.                             *)
ReportsTruly ==
  main = "over"
    => /\ killed \/ taskErr # "nil" => result # {}
       /\ "interrupted" \in result <=> cause = "interrupt"
       /\ seen # "none" => cause = seen
       /\ cause = "interrupt" => outer

(* An interrupt, or a stop request, ends the session of a guest that        *)
(* answers, wherever it catches it (provider.go:61-63); and a guest that    *)
(* dies ends the session, during boot and shutdown too, frozen before or    *)
(* not (provider.go:120-127).  Only a task that has asked for a passphrase  *)
(* and never gets a line does not see either (luks.go:22-32).               *)
SessionEnds ==
  /\ outer ~> (~Alive \/ frozen \/ []asking)
  /\ vm = "dead" ~> (~Alive \/ []asking)

(* A device that the host mounts behind the back of a guest that has it is  *)
(* taken from the guest: the watchdog kills it, or a shutdown that is under *)
(* way and not stuck ends it (README.md:27, machine.go:446-447).  A session *)
(* that was cancelled has no watchdog any more (machine.go:464), so that a  *)
(* task that does not see it at a prompt leaves the device with the guest.  *)
MountedIsKilled ==
  (mounted /\ vm = "running")
    ~> (vm # "running" \/ forced \/ frozen \/ [](asking /\ cause # "none"))

(* A QEMU machine keeps the promises of the Provider interface.             *)
Promise == INSTANCE Provider WITH
  guest <- CASE vm = "none" -> "absent" [] vm = "running" -> "running" [] OTHER -> "gone",
  start <- CASE main = "starting" -> "pending" [] at = "failed" -> "failed" [] OTHER -> "ready",
  exited <- exited, err <- exitErr, told <- main = "over"

KeepsPromise == Promise!Spec
=============================================================================
