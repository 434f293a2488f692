---------------------------- MODULE MachineProofs ----------------------------
(***************************************************************************)
(* Proofs about the QEMU provider: the life of the machine (Machine) and   *)
(* the setup over its serial console (Console).                            *)
(*                                                                         *)
(* Of Machine: that no QEMU process outlives the session, that what the    *)
(* session returns is what happened, and that a machine keeps the promises *)
(* of the Provider interface.  All three rest on an inductive invariant,   *)
(* MachineInv, which ties where the main goroutine is in Start and Stop to *)
(* where it is in RunContext, and the process to the channel Exited.       *)
(*                                                                         *)
(* Of Console: that what provision reports is what became of the setup     *)
(* script.  ConsoleInv, its inductive invariant, says in which order the   *)
(* lines are that the guest has written and collect has not yet taken.     *)
(***************************************************************************)
EXTENDS Machine, Console, SequenceTheorems, TLAPS

BootSteps == {"guard", "launch", "login", "setup", "dial"}
StopSteps == {"poweroff", "grace", "terminate", "await"}

MachineTypeOK ==
  /\ main \in {"starting", "task", "stopping", "draining", "over"}
  /\ forced \in BOOLEAN /\ outer \in BOOLEAN /\ signal \in BOOLEAN
  /\ cause \in {"none", "interrupt", "guest"}
  /\ handler \in 0..ForceQuitAt
  /\ taskErr \in {"nil", "error", "canceled"} /\ stopErr \in BOOLEAN
  /\ seen \in {"none", "interrupt", "guest"}
  /\ result \subseteq {"interrupted", "start", "task", "guest", "stop"}
  /\ exited \in BOOLEAN /\ exitErr \in {"nil", "error"}
  /\ at \in BootSteps \cup StopSteps \cup {"outside", "failed"}
  /\ vm \in {"none", "running", "dead", "reaped"} /\ status \in {"nil", "error"}
  /\ hostKey \in BOOLEAN /\ termed \in BOOLEAN /\ killed \in BOOLEAN
  /\ shutErr \in BOOLEAN /\ frozen \in BOOLEAN
  /\ watchdog \in {"off", "ticking"} /\ passed \in BOOLEAN /\ mounted \in BOOLEAN

(* Start boots, or tears down what it booted; Stop shuts down; in between    *)
(* and after, the main goroutine is in neither.                              *)
PlaceInv ==
  /\ main = "starting" => at \in BootSteps \cup StopSteps
  /\ main \in {"task", "draining"} => at = "outside"
  /\ main = "stopping" => at \in StopSteps
  /\ main = "over" => at \in {"outside", "failed"}

(* There is a process from Launch on, and Exited is closed by its reaper, or *)
(* by a Start that never had one; until then Err is not settled.             *)
ProcessInv ==
  /\ at \in {"guard", "launch"} => vm = "none"
  /\ vm = "none" => at \in {"guard", "launch", "failed"}
  /\ exited <=> vm = "reaped" \/ (vm = "none" /\ at = "failed")
  /\ at = "failed" => exited
  /\ main = "over" => exited
  /\ ~exited => exitErr = "nil"
  /\ vm = "reaped" => exitErr = status

(* A context keeps its first cause, which for an interrupt is that of the    *)
(* outer one; a killed process has an error for its status.                  *)
CauseInv ==
  /\ cause = "interrupt" => outer
  /\ outer => cause # "none"
  /\ main \in {"starting", "task"} => seen = "none" /\ taskErr = "nil"
  /\ seen # "none" => cause = seen
  /\ taskErr = "canceled" => seen # "none"
  /\ killed => vm \in {"dead", "reaped"} /\ status = "error"

ResultInv ==
  main = "over"
    => /\ killed \/ taskErr # "nil" => result # {}
       /\ "interrupted" \in result <=> cause = "interrupt"

MachineInv == MachineTypeOK /\ PlaceInv /\ ProcessInv /\ CauseInv /\ ResultInv

-----------------------------------------------------------------------------
(* The initial states satisfy the invariant.                                 *)
LEMMA InitHolds == Init => MachineInv
<1> SUFFICES ASSUME Init PROVE MachineInv
  OBVIOUS
<1>1. passed \in BOOLEAN /\ mounted \in BOOLEAN
  BY DEF Init
<1>2. result \subseteq {"interrupted", "start", "task", "guest", "stop"}
  BY DEF Init, RunInit
<1>3. handler \in 0..ForceQuitAt
  BY LifecycleAssumption DEF Init, RunInit
<1>4. MachineTypeOK
  BY <1>1, <1>2, <1>3 DEF Init, RunInit, MachineTypeOK, BootSteps
<1>5. PlaceInv /\ ProcessInv /\ CauseInv /\ ResultInv
  BY DEF Init, RunInit, PlaceInv, ProcessInv, CauseInv, ResultInv, BootSteps
<1> QED
  BY <1>4, <1>5 DEF MachineInv

(* Start, up to the guest being ready.                                       *)
LEMMA BootKeeps ==
  ASSUME MachineInv,
           Guard \/ Refuse \/ Launch \/ LaunchFails \/ Login \/ Setup \/ Dial \/ BootFails
  PROVE  MachineInv'
<1> USE LifecycleAssumption
    DEF MachineInv, MachineTypeOK, PlaceInv, ProcessInv, CauseInv, ResultInv,
        BootSteps, StopSteps,
        runVars, channelVars, contextVars, commandVars, processVars, deviceVars, machineVars
<1>1. CASE Guard
  BY <1>1 DEF Guard, Goes, Alive
<1>2. CASE Refuse
  BY <1>2 DEF Refuse, Goes, Alive, FinishWith, StartReturnsError, Moves
<1>3. CASE Launch
  BY <1>3 DEF Launch, Goes, Alive
<1>4. CASE LaunchFails
  BY <1>4 DEF LaunchFails, Goes, Alive, FinishWith, StartReturnsError, Moves
<1>5. CASE Login
  BY <1>5 DEF Login, Goes, Alive
<1>6. CASE Setup
  BY <1>6 DEF Setup, Goes, Alive
<1>7. CASE Dial
  BY <1>7 DEF Dial, Goes, Alive, StartReturns, Moves
<1>8. CASE BootFails
  BY <1>8 DEF BootFails, Alive
<1> QED
  BY <1>1, <1>2, <1>3, <1>4, <1>5, <1>6, <1>7, <1>8

(* Stop, which a Start that fails calls too.                                 *)
LEMMA ShutdownKeeps ==
  ASSUME MachineInv, PowerOff \/ Grace \/ Terminate \/ AbortStart \/ Stop
  PROVE  MachineInv'
<1> USE LifecycleAssumption
    DEF MachineInv, MachineTypeOK, PlaceInv, ProcessInv, CauseInv, ResultInv,
        BootSteps, StopSteps,
        runVars, channelVars, contextVars, commandVars, processVars, deviceVars, machineVars
<1>1. CASE PowerOff
  BY <1>1 DEF PowerOff, Alive
<1>2. CASE Grace
  BY <1>2 DEF Grace, Alive
<1>3. CASE Terminate
  <2>1. termed' \in BOOLEAN /\ shutErr' \in BOOLEAN
    BY <1>3 DEF Terminate
  <2>2. /\ Goes("terminate", "await")
        /\ UNCHANGED <<runVars, channelVars, vm, status, killed, hostKey, frozen, watchdog,
                       deviceVars>>
    BY <1>3 DEF Terminate
  <2> QED
    BY <2>1, <2>2 DEF Goes, Alive
<1>4. CASE AbortStart
  BY <1>4 DEF AbortStart, Goes, Alive, StartReturnsError, Moves
<1>5. CASE Stop
  <2>1. PICK err \in BOOLEAN : StopReturns(err)
    BY <1>5 DEF Stop
  <2>2. /\ Goes("await", "outside")
        /\ UNCHANGED <<channelVars, processVars, hostKey, shutErr, frozen, watchdog, deviceVars>>
    BY <1>5 DEF Stop
  <2> QED
    BY <2>1, <2>2 DEF Goes, Alive, StopReturns, Moves
<1> QED
  BY <1>1, <1>2, <1>3, <1>4, <1>5

(* The process, its reaper and its watchdog.                                 *)
LEMMA ProcessKeeps ==
  ASSUME MachineInv,
           (\E st \in {"nil", "error"} : Exits(st)) \/ Freeze \/ Reap \/ Bark
        \/ WatchdogReturns \/ HostMounts
  PROVE  MachineInv'
<1> USE LifecycleAssumption
    DEF MachineInv, MachineTypeOK, PlaceInv, ProcessInv, CauseInv, ResultInv,
        BootSteps, StopSteps,
        runVars, channelVars, contextVars, commandVars, processVars, deviceVars, machineVars
<1>1. CASE (\E st \in {"nil", "error"} : Exits(st))
  BY <1>1 DEF Exits
<1>2. CASE Freeze
  BY <1>2 DEF Freeze
<1>3. CASE Reap
  BY <1>3 DEF Reap, Alive, FinishWith
<1>4. CASE Bark
  <2>1. CASE vm = "running"
    BY <1>4, <2>1 DEF Bark, Alive
  <2>2. CASE vm # "running"
    BY <1>4, <2>2 DEF Bark, Alive
  <2> QED
    BY <2>1, <2>2
<1>5. CASE WatchdogReturns
  BY <1>5 DEF WatchdogReturns, Alive
<1>6. CASE HostMounts
  BY <1>6 DEF HostMounts
<1> QED
  BY <1>1, <1>2, <1>3, <1>4, <1>5, <1>6

(* A signal that the handler takes, the first, the last or one in between.   *)
LEMMA TakeSignalKeeps ==
  ASSUME MachineInv, TakeSignal, UNCHANGED machineVars
  PROVE  MachineInv'
<1>1. /\ main # "over"
      /\ UNCHANGED <<main, taskErr, seen, stopErr, result, exited, exitErr>>
      /\ UNCHANGED <<at, vm, status, hostKey, termed, killed, shutErr, frozen>>
      /\ UNCHANGED <<watchdog, passed, mounted>>
  BY DEF TakeSignal, Alive, commandVars, channelVars, machineVars, processVars, deviceVars
<1>2. signal' \in BOOLEAN /\ forced' \in BOOLEAN
  BY DEF TakeSignal
<1>3. handler' \in 0..ForceQuitAt
  BY LifecycleAssumption DEF TakeSignal, MachineInv, MachineTypeOK
<1>4. CancelOuter \/ UNCHANGED <<outer, cause>>
  BY Zenon DEF TakeSignal
<1>5. /\ outer' \in BOOLEAN
      /\ cause' \in {"none", "interrupt", "guest"}
      /\ cause # "none" => cause' = cause
      /\ cause' = "interrupt" => outer'
      /\ outer' => cause' # "none"
  <2>1. CASE CancelOuter
    BY <2>1 DEF CancelOuter, MachineInv, MachineTypeOK, CauseInv
  <2>2. CASE UNCHANGED <<outer, cause>>
    BY <2>2 DEF MachineInv, MachineTypeOK, CauseInv
  <2> QED
    BY <1>4, <2>1, <2>2
<1>6. MachineTypeOK'
  BY <1>1, <1>2, <1>3, <1>5 DEF MachineInv, MachineTypeOK
<1>7. PlaceInv' /\ ProcessInv' /\ ResultInv'
  BY <1>1 DEF MachineInv, PlaceInv, ProcessInv, ResultInv
<1>8. CauseInv'
  BY <1>1, <1>5 DEF MachineInv, CauseInv
<1> QED
  BY <1>6, <1>7, <1>8 DEF MachineInv

(* The goroutines of RunContext, and the user.                               *)
LEMMA LifecycleKeeps ==
  ASSUME MachineInv,
           (\E err \in {"nil", "error", "canceled"} : Work(err))
        \/ (TakeSignal /\ UNCHANGED machineVars)
        \/ (HandlerReturns /\ UNCHANGED machineVars)
        \/ (NoticeExit /\ UNCHANGED machineVars) \/ (Conclude /\ UNCHANGED machineVars)
        \/ (Press /\ UNCHANGED machineVars) \/ (Cancelled /\ UNCHANGED machineVars)
        \/ (Ask /\ UNCHANGED machineVars) \/ (Answer /\ UNCHANGED machineVars)
  PROVE  MachineInv'
<1> USE LifecycleAssumption
    DEF MachineInv, MachineTypeOK, PlaceInv, ProcessInv, CauseInv, ResultInv,
        BootSteps, StopSteps,
        runVars, channelVars, contextVars, commandVars, processVars, deviceVars, machineVars
<1>1. CASE (\E err \in {"nil", "error", "canceled"} : Work(err))
  BY <1>1 DEF Work, TaskReturns, Moves
<1>2. CASE (TakeSignal /\ UNCHANGED machineVars)
  BY <1>2, TakeSignalKeeps
<1>3. CASE (HandlerReturns /\ UNCHANGED machineVars)
  BY <1>3 DEF HandlerReturns, Alive
<1>4. CASE (NoticeExit /\ UNCHANGED machineVars)
  BY <1>4 DEF NoticeExit, Alive
<1>5. CASE (Conclude /\ UNCHANGED machineVars)
  BY <1>5 DEF Conclude, Moves, Outcome
<1>6. CASE (Press /\ UNCHANGED machineVars)
  BY <1>6 DEF Press, Alive
<1>7. CASE (Cancelled /\ UNCHANGED machineVars)
  BY <1>7 DEF Cancelled, Alive, CancelOuter
<1>8. CASE (Ask /\ UNCHANGED machineVars)
  BY <1>8 DEF Ask, Alive
<1>9. CASE (Answer /\ UNCHANGED machineVars)
  BY <1>9 DEF Answer, Alive
<1> QED
  BY <1>1, <1>2, <1>3, <1>4, <1>5, <1>6, <1>7, <1>8, <1>9

(* The inductive invariant.                                                  *)
THEOREM MachineInvHolds == Spec => []MachineInv
<1>1. MachineInv /\ [Next]_vars => MachineInv'
  <2> SUFFICES ASSUME MachineInv, [Next]_vars PROVE MachineInv'
    OBVIOUS
  <2>1. CASE Boot \/ Refuse \/ LaunchFails
    BY <2>1, BootKeeps DEF Boot
  <2>2. CASE Shutdown
    BY <2>2, ShutdownKeeps DEF Shutdown
  <2>3. CASE (\E st \in {"nil", "error"} : Exits(st)) \/ Freeze \/ Reap \/ Bark
               \/ WatchdogReturns \/ HostMounts
    BY <2>3, ProcessKeeps
  <2>4. CASE (\E err \in {"nil", "error", "canceled"} : Work(err)) \/ Common \/ User
    BY <2>4, LifecycleKeeps DEF Common, User
  <2>5. CASE UNCHANGED vars
    BY <2>5 DEF vars, runVars, channelVars, contextVars, commandVars, machineVars, processVars,
       deviceVars, MachineInv, MachineTypeOK, PlaceInv, ProcessInv, CauseInv, ResultInv
  <2> QED
    BY <2>1, <2>2, <2>3, <2>4, <2>5 DEF Next
<1> QED
  BY <1>1, InitHolds, PTL DEF Spec

-----------------------------------------------------------------------------
(* No QEMU process outlives the session: when Run has returned, whether      *)
(* Start failed at any of its steps, the task ended, or the guest died under *)
(* either, Exited is closed and the process, if there was one, was reaped    *)
(* (provider.go:25-27, machine.go:203-209).                                  *)
THEOREM GoneAfterwards == Spec => []GoneWhenOver
<1>1. MachineInv => GoneWhenOver
  BY DEF MachineInv, MachineTypeOK, ProcessInv, GoneWhenOver
<1> QED
  BY <1>1, MachineInvHolds, PTL

(* What Run returns is what happened: a machine the watchdog killed and a    *)
(* task that failed or was cut short are never a success, and "interrupted"  *)
(* is reported exactly when an interrupt is what cancelled the context       *)
(* (machine.go:475, provider.go:138-155).                                    *)
THEOREM ReportsWhatHappened == Spec => []ReportsTruly
<1>1. MachineInv => ReportsTruly
  BY DEF MachineInv, CauseInv, ResultInv, ReportsTruly
<1> QED
  BY <1>1, MachineInvHolds, PTL

-----------------------------------------------------------------------------
(* The refinement: each step of the machine is a step of the Provider or is  *)
(* invisible to it.                                                          *)

(* Start is pending until the guest is ready, or until it has failed.        *)
LEMMA BootRefines ==
  ASSUME MachineInv, Boot \/ Refuse \/ LaunchFails
  PROVE  [Promise!Next]_(Promise!vars)
<1> USE DEF MachineInv, PlaceInv, ProcessInv, BootSteps, StopSteps
<1>1. CASE Guard \/ Login \/ Setup \/ BootFails
  <2>1. UNCHANGED <<main, vm, exited, exitErr>>
    BY <1>1 DEF Guard, Login, Setup, BootFails, runVars, channelVars, processVars
  <2>2. at # "failed" /\ at' # "failed"
    BY <1>1 DEF Guard, Login, Setup, BootFails, Goes
  <2> QED
    BY <2>1, <2>2 DEF Promise!vars
<1>2. CASE Launch
  <2>1. /\ at = "launch" /\ at' = "login" /\ vm' = "running"
        /\ UNCHANGED <<main, exited, exitErr>>
    BY <1>2 DEF Launch, Goes, runVars, channelVars
  <2>2. main = "starting"
    BY <2>1 DEF MachineTypeOK
  <2> QED
    BY <2>1, <2>2 DEF Promise!Next, Promise!Boot
<1>3. CASE Dial
  <2>1. /\ main = "starting" /\ main' = "task" /\ at' = "outside" /\ vm = "running"
        /\ UNCHANGED <<vm, exited, exitErr>>
    BY <1>3 DEF Dial, Goes, StartReturns, Moves, channelVars, processVars
  <2> QED
    BY <2>1 DEF Promise!Next, Promise!Ready
<1>4. CASE Refuse \/ LaunchFails
  <2>1. /\ at \in {"guard", "launch"} /\ at' = "failed" /\ exited' = TRUE
        /\ exitErr' = IF exited THEN exitErr ELSE "nil"
        /\ main = "starting" /\ main' = "over" /\ vm' = vm
    BY <1>4 DEF Refuse, LaunchFails, Goes, FinishWith, StartReturnsError, Moves, processVars
  <2> QED
    BY <2>1 DEF Promise!Next, Promise!Fail
<1> QED
  BY <1>1, <1>2, <1>3, <1>4 DEF Boot

(* A shutdown tells a Start that fails, not the caller, that all is over.    *)
LEMMA ShutdownRefines ==
  ASSUME MachineInv, Shutdown
  PROVE  [Promise!Next]_(Promise!vars)
<1> USE DEF MachineInv, PlaceInv, ProcessInv, BootSteps, StopSteps
<1>1. CASE PowerOff \/ Grace \/ Terminate
  <2>1. UNCHANGED <<main, vm, exited, exitErr>>
    BY <1>1 DEF PowerOff, Grace, Terminate, runVars, channelVars, processVars
  <2>2. at # "failed" /\ at' # "failed"
    BY <1>1 DEF PowerOff, Grace, Terminate, Goes
  <2> QED
    BY <2>1, <2>2 DEF Promise!vars
<1>2. CASE AbortStart
  <2>1. /\ at = "await" /\ at' = "failed" /\ exited
        /\ main = "starting" /\ main' = "over"
        /\ UNCHANGED <<vm, exited, exitErr>>
    BY <1>2 DEF AbortStart, Goes, StartReturnsError, Moves, channelVars, processVars
  <2>2. vm = "reaped"
    BY <2>1
  <2> QED
    BY <2>1, <2>2 DEF Promise!Next, Promise!Fail, MachineTypeOK
<1>3. CASE Stop
  <2>1. /\ at = "await" /\ at' = "outside" /\ main = "stopping" /\ main' = "draining"
        /\ UNCHANGED <<vm, exited, exitErr>>
    BY <1>3 DEF Stop, Goes, StopReturns, Moves, channelVars, processVars
  <2> QED
    BY <2>1 DEF Promise!vars
<1> QED
  BY <1>1, <1>2, <1>3 DEF Shutdown

(* The process dies, and then its reaper closes Exited.                      *)
LEMMA ProcessRefines ==
  ASSUME MachineInv, (\E st \in {"nil", "error"} : Exits(st)) \/ Freeze \/ Reap \/ Bark
                       \/ WatchdogReturns \/ HostMounts
  PROVE  [Promise!Next]_(Promise!vars)
<1> USE DEF MachineInv, PlaceInv, ProcessInv, BootSteps, StopSteps
<1>1. CASE (\E st \in {"nil", "error"} : Exits(st)) \/ (Bark /\ vm = "running")
  <2>1. /\ vm = "running" /\ vm' = "dead"
        /\ UNCHANGED <<main, at, exited, exitErr>>
    BY <1>1 DEF Exits, Bark, runVars, channelVars
  <2> QED
    BY <2>1 DEF Promise!Next, Promise!Die
<1>2. CASE Reap
  <2>1. /\ vm = "dead" /\ vm' = "reaped" /\ exited' = TRUE
        /\ exitErr' = IF exited THEN exitErr ELSE status
        /\ UNCHANGED <<main, at>>
    BY <1>2 DEF Reap, FinishWith, runVars
  <2>2. status \in {"nil", "error"} /\ ~exited
    BY <2>1 DEF MachineTypeOK
  <2> QED
    BY <2>1, <2>2 DEF Promise!Next, Promise!Close
<1>3. CASE Freeze \/ WatchdogReturns \/ HostMounts \/ (Bark /\ vm # "running")
  <2>1. UNCHANGED <<main, at, vm, exited, exitErr>>
    BY <1>3 DEF Freeze, WatchdogReturns, HostMounts, Bark, runVars, channelVars, processVars
  <2> QED
    BY <2>1 DEF Promise!vars
<1> QED
  BY <1>1, <1>2, <1>3

(* Of RunContext's own steps, the caller sees only that it concludes.        *)
LEMMA LifecycleRefines ==
  ASSUME MachineInv, (\E err \in {"nil", "error", "canceled"} : Work(err)) \/ Common \/ User
  PROVE  [Promise!Next]_(Promise!vars)
<1> USE DEF MachineInv, PlaceInv, ProcessInv, BootSteps, StopSteps
<1>1. CASE \E err \in {"nil", "error", "canceled"} : Work(err)
  <2>1. /\ main = "task" /\ main' = "stopping" /\ at' = "poweroff"
        /\ UNCHANGED <<vm, exited, exitErr>>
    BY <1>1 DEF Work, TaskReturns, Moves, channelVars, processVars
  <2> QED
    BY <2>1 DEF Promise!vars
<1>2. CASE Conclude /\ UNCHANGED machineVars
  <2>1. /\ exited /\ main = "draining" /\ main' = "over"
        /\ UNCHANGED <<at, vm, exited, exitErr>>
    BY <1>2 DEF Conclude, Moves, channelVars, machineVars, processVars
  <2> QED
    BY <2>1 DEF Promise!Next, Promise!Tell
<1>3. CASE (TakeSignal \/ HandlerReturns \/ NoticeExit \/ Ask \/ Press \/ Cancelled \/ Answer)
             /\ UNCHANGED machineVars
  <2>1. UNCHANGED <<main, at, vm, exited, exitErr>>
    BY <1>3 DEF TakeSignal, HandlerReturns, NoticeExit, Ask, Press, Cancelled, Answer, channelVars,
       machineVars, processVars
  <2> QED
    BY <2>1 DEF Promise!vars
<1> QED
  BY <1>1, <1>2, <1>3 DEF Common, User

(* A QEMU machine under RunContext keeps the promises of the Provider: one   *)
(* guest, a Start that fails only when that guest is gone, Exited closed     *)
(* once and after it, Err settled by then, and a caller that is told last    *)
(* (provider.go:19-47).                                                      *)
THEOREM MachineKeepsPromise == Spec => KeepsPromise
<1>1. Init => Promise!Init
  BY DEF Init, RunInit, Promise!Init
<1>2. MachineInv /\ [Next]_vars => [Promise!Next]_(Promise!vars)
  <2> SUFFICES ASSUME MachineInv, [Next]_vars PROVE [Promise!Next]_(Promise!vars)
    OBVIOUS
  <2>1. CASE UNCHANGED vars
    <3>1. UNCHANGED <<main, at, vm, exited, exitErr>>
      BY <2>1 DEF vars, runVars, channelVars, machineVars, processVars
    <3> QED
      BY <3>1 DEF Promise!vars
  <2> QED
    BY <2>1, BootRefines, ShutdownRefines, ProcessRefines, LifecycleRefines DEF Next
<1> QED
  BY <1>1, <1>2, MachineInvHolds, PTL DEF Spec, KeepsPromise, Promise!Spec

-----------------------------------------------------------------------------
(***************************************************************************)
(* The serial console.                                                       *)
(***************************************************************************)

Line    == {"prompt", "noise", "echo", "begin", "key", "end", "end_and_more"}
Earlier == {"boot", "getty", "login", "shell"}
Ended   == {"idle", "hung", "dead"}

ConsoleTypeOK ==
  /\ guest \in Earlier \cup {"begin", "work", "end"} \cup Ended
  /\ exitStatus \in {0, 1} /\ noise \in Nat
  /\ half \in {"none", "noise", "echo", "begin", "key", "end"}
  /\ wire \in Seq(Line) /\ lines \in Seq(Line)
  /\ input \in Seq({"root", "script"})
  /\ closed \in BOOLEAN /\ login \in BOOLEAN
  /\ host \in {"await", "root", "pause", "collect", "ready", "exit", "no_key", "garbled",
               "closed", "timeout", "write"}
  /\ started \in BOOLEAN /\ gotKey \in BOOLEAN
  /\ fault \subseteq {"noise", "eaten", "hung", "died", "dropped", "timeout"}

(* The lines that the guest has written and collect has not taken.           *)
Stream == lines \o wire

Comes(x, s) == \E i \in 1 .. Len(s) : s[i] = x

(* Each y in s has an x before it.                                           *)
Preceded(y, x, s) == \A j \in 1 .. Len(s) : s[j] = y => \E i \in 1 .. j - 1 : s[i] = x

(* No y in s has an x before it.                                             *)
NeverAfter(y, x, s) == \A i, j \in 1 .. Len(s) : i < j /\ s[i] = x => s[j] # y

(* The echo of the script, which ends like the line with END, comes before   *)
(* BEGIN; so whoever has seen BEGIN does not meet it.                        *)
EchoInv ==
  /\ guest \in Earlier => ~Comes("echo", Stream)
  /\ guest \in Earlier \cup {"begin"} => ~started /\ ~Comes("begin", Stream)
  /\ started => ~Comes("echo", Stream)
  /\ NeverAfter("echo", "begin", Stream)

(* END is written when the script has ended, and with something else behind  *)
(* it only when the kernel wrote that or the console ended inside the line.  *)
EndInv ==
  /\ Comes("end", Stream) => guest \in Ended
  /\ Comes("end_and_more", Stream) => "noise" \in fault \/ closed

(* Unless a line was lost or broken, BEGIN comes before the key, and the key *)
(* of a script that ended well before END.                                   *)
KeyInv ==
  fault \cap {"dropped", "noise"} = {}
    => /\ guest = "work" => started \/ Comes("begin", Stream)
       /\ guest = "end" /\ exitStatus = 0 => gotKey \/ Comes("key", Stream)
       /\ started \/ Preceded("key", "begin", Stream)
       /\ exitStatus = 0 => gotKey \/ Preceded("end", "key", Stream)

(* A line the guest did not finish comes after what it finished, for as long *)
(* as the reader has not met it.                                             *)
HalfInv ==
  /\ half # "none" => guest \in {"hung", "dead"}
  /\ half = "echo" /\ ~closed => ~started /\ ~Comes("begin", Stream)
  /\ fault \cap {"dropped", "noise"} = {} /\ ~closed
       => /\ half = "key" => started \/ Comes("begin", Stream)
          /\ half = "end" /\ exitStatus = 0 => gotKey \/ Comes("key", Stream)

DeadInv ==
  /\ guest = "dead" => "died" \in fault
  /\ closed => guest = "dead"

ConsoleInv == ConsoleTypeOK /\ EchoInv /\ EndInv /\ KeyInv /\ HalfInv /\ DeadInv /\ ReportsTheScript

(* A line that is written comes last.                                        *)
LEMMA WrittenLast ==
  ASSUME NEW s \in Seq(Line), NEW e \in Line
  PROVE  /\ \A x : Comes(x, Append(s, e)) <=> Comes(x, s) \/ x = e
         /\ \A x, y : Preceded(y, x, s) /\ (y # e \/ Comes(x, s)) => Preceded(y, x, Append(s, e))
         /\ \A x, y : NeverAfter(y, x, s) /\ (y # e \/ ~Comes(x, s))
                        => NeverAfter(y, x, Append(s, e))
<1> DEFINE t == Append(s, e)
<1>1. /\ Len(t) = Len(s) + 1 /\ Len(s) \in Nat
      /\ \A i \in 1 .. Len(s) : t[i] = s[i]
      /\ t[Len(s) + 1] = e
  OBVIOUS
<1> HIDE DEF t
<1>2. ASSUME NEW x PROVE Comes(x, t) <=> Comes(x, s) \/ x = e
  BY <1>1 DEF Comes
<1>3. ASSUME NEW x, NEW y, Preceded(y, x, s), y # e \/ Comes(x, s) PROVE Preceded(y, x, t)
  <2> SUFFICES ASSUME NEW j \in 1 .. Len(t), t[j] = y PROVE \E i \in 1 .. j - 1 : t[i] = x
    BY DEF Preceded
  <2>1. CASE j \in 1 .. Len(s)
    <3>1. PICK i \in 1 .. j - 1 : s[i] = x
      BY <1>1, <1>3, <2>1 DEF Preceded
    <3> QED
      BY <1>1, <2>1, <3>1
  <2>2. CASE j = Len(s) + 1
    <3>1. PICK i \in 1 .. Len(s) : s[i] = x
      BY <1>1, <1>3, <2>2 DEF Comes
    <3> QED
      BY <1>1, <2>2, <3>1
  <2> QED
    BY <1>1, <2>1, <2>2
<1>4. ASSUME NEW x, NEW y, NeverAfter(y, x, s), y # e \/ ~Comes(x, s) PROVE NeverAfter(y, x, t)
  <2> SUFFICES ASSUME NEW i \in 1 .. Len(t), NEW j \in 1 .. Len(t), i < j, t[i] = x
               PROVE  t[j] # y
    BY DEF NeverAfter
  <2>1. i \in 1 .. Len(s) /\ s[i] = x
    BY <1>1
  <2>2. CASE j \in 1 .. Len(s)
    BY <1>1, <1>4, <2>1, <2>2 DEF NeverAfter
  <2>3. CASE j = Len(s) + 1
    BY <1>1, <1>4, <2>1, <2>3 DEF Comes
  <2> QED
    BY <1>1, <2>2, <2>3
<1> QED
  BY <1>2, <1>3, <1>4 DEF t

(* s without its k-th line.                                                  *)
Without(s, k, t) ==
  /\ k \in 1 .. Len(s) /\ Len(t) = Len(s) - 1
  /\ \A i \in 1 .. Len(t) : t[i] = IF i < k THEN s[i] ELSE s[i + 1]

(* A line that is taken or lost leaves the others in their order.            *)
LEMMA OthersStay ==
  ASSUME NEW s \in Seq(Line), NEW t \in Seq(Line), NEW k, Without(s, k, t)
  PROVE  /\ \A x : Comes(x, t) => Comes(x, s)
         /\ \A x : Comes(x, s) => Comes(x, t) \/ s[k] = x
         /\ \A x, y : Preceded(y, x, s) /\ s[k] # x => Preceded(y, x, t)
         /\ \A x, y : NeverAfter(y, x, s) => NeverAfter(y, x, t)
<1>1. /\ Len(s) \in Nat /\ Len(t) \in Nat /\ k \in 1 .. Len(s) /\ Len(t) = Len(s) - 1
      /\ \A i \in 1 .. Len(t) : /\ i < k => t[i] = s[i]
                                /\ i >= k => t[i] = s[i + 1]
  BY DEF Without
<1>2. ASSUME NEW x, Comes(x, t) PROVE Comes(x, s)
  <2>1. PICK i \in 1 .. Len(t) : t[i] = x
    BY <1>2 DEF Comes
  <2> QED
    BY <1>1, <2>1 DEF Comes
<1>3. ASSUME NEW x, NEW i \in 1 .. Len(s), s[i] = x, i # k
      PROVE  \E n \in 1 .. Len(t) : t[n] = x /\ n <= i /\ (i > k => n < i)
  <2>1. CASE i < k
    BY <1>1, <1>3, <2>1
  <2>2. CASE i > k
    <3> DEFINE n == i - 1
    <3>1. n \in 1 .. Len(t) /\ n >= k /\ n + 1 = i
      BY <1>1, <2>2
    <3>2. t[n] = s[n + 1]
      BY <1>1, <3>1
    <3>3. t[n] = x /\ n <= i /\ n < i
      BY <1>3, <3>1, <3>2
    <3> QED
      BY <3>1, <3>3
  <2> QED
    BY <1>1, <1>3, <2>1, <2>2
<1>4. ASSUME NEW x, NEW y, Preceded(y, x, s), s[k] # x PROVE Preceded(y, x, t)
  <2> SUFFICES ASSUME NEW j \in 1 .. Len(t), t[j] = y PROVE \E n \in 1 .. j - 1 : t[n] = x
    BY DEF Preceded
  <2>1. CASE j < k
    <3>1. PICK i \in 1 .. j - 1 : s[i] = x
      BY <1>1, <1>4, <2>1 DEF Preceded
    <3> QED
      BY <1>1, <2>1, <3>1
  <2>2. CASE j >= k
    <3>1. j + 1 \in 1 .. Len(s) /\ s[j + 1] = y
      BY <1>1, <2>2
    <3>2. PICK i \in 1 .. j : s[i] = x
      BY <1>4, <3>1 DEF Preceded
    <3> i \in 1 .. Len(s) /\ i # k
      BY <1>1, <1>4, <2>2, <3>2
    <3>3. PICK n \in 1 .. Len(t) : t[n] = x /\ n <= i /\ (i > k => n < i)
      BY <1>3, <3>2
    <3>4. n <= j - 1
      BY <1>1, <1>4, <2>2, <3>2, <3>3
    <3> QED
      BY <3>3, <3>4
  <2> QED
    BY <1>1, <2>1, <2>2
<1>5. ASSUME NEW x, NEW y, NeverAfter(y, x, s) PROVE NeverAfter(y, x, t)
  <2> SUFFICES ASSUME NEW i \in 1 .. Len(t), NEW j \in 1 .. Len(t), i < j, t[i] = x, t[j] = y
               PROVE  FALSE
    BY DEF NeverAfter
  <2>1. PICK m \in 1 .. Len(s) : s[m] = x /\ m <= i + 1 /\ (i < k => m = i)
    <3>1. i \in 1 .. Len(s) /\ i + 1 \in 1 .. Len(s)
      BY <1>1
    <3>2. CASE i < k
      BY <1>1, <3>1, <3>2
    <3>3. CASE ~(i < k)
      <4>1. t[i] = s[i + 1]
        BY <1>1, <3>3
      <4> QED
        BY <3>1, <3>3, <4>1
    <3> QED
      BY <3>2, <3>3
  <2>2. PICK n \in 1 .. Len(s) : s[n] = y /\ n >= j /\ (j >= k => n = j + 1)
    <3>1. j \in 1 .. Len(s) /\ j + 1 \in 1 .. Len(s)
      BY <1>1
    <3>2. CASE j < k
      BY <1>1, <3>1, <3>2
    <3>3. CASE ~(j < k)
      <4>1. t[j] = s[j + 1]
        BY <1>1, <3>3
      <4> QED
        BY <3>1, <3>3, <4>1
    <3> QED
      BY <3>2, <3>3
  <2>3. m < n
    BY <1>1, <2>1, <2>2
  <2> QED
    BY <1>5, <2>1, <2>2, <2>3 DEF NeverAfter
<1>6. ASSUME NEW x, Comes(x, s) PROVE Comes(x, t) \/ s[k] = x
  <2>1. PICK i \in 1 .. Len(s) : s[i] = x
    BY <1>6 DEF Comes
  <2>2. CASE i # k
    BY <1>3, <2>1, <2>2 DEF Comes
  <2> QED
    BY <2>1, <2>2
<1> QED
  BY <1>2, <1>4, <1>5, <1>6

(* The first line has none before it.                                        *)
LEMMA FirstLine ==
  ASSUME NEW s \in Seq(Line), s # <<>>
  PROVE  /\ \A x, y : Preceded(y, x, s) => s[1] # y
         /\ \A x, y : NeverAfter(y, x, s) /\ s[1] = x => ~Comes(y, Tail(s))
         /\ Comes(s[1], s)
         /\ Without(s, 1, Tail(s))
<1>1. /\ Len(s) \in Nat /\ Len(s) >= 1 /\ Len(Tail(s)) = Len(s) - 1
      /\ \A i \in 1 .. Len(Tail(s)) : Tail(s)[i] = s[i + 1]
  OBVIOUS
<1>2. \A x, y : Preceded(y, x, s) => s[1] # y
  BY <1>1 DEF Preceded
<1>3. ASSUME NEW x, NEW y, NeverAfter(y, x, s), s[1] = x, Comes(y, Tail(s)) PROVE FALSE
  <2>1. PICK i \in 1 .. Len(Tail(s)) : Tail(s)[i] = y
    BY <1>3 DEF Comes
  <2>2. s[i + 1] = y /\ i + 1 \in 1 .. Len(s) /\ 1 \in 1 .. Len(s) /\ 1 < i + 1
    BY <1>1, <2>1
  <2> QED
    BY <1>3, <2>2 DEF NeverAfter
<1>4. Comes(s[1], s) /\ Without(s, 1, Tail(s))
  BY <1>1 DEF Comes, Without
<1> QED
  BY <1>2, <1>3, <1>4

(* What is lost with the end of the pipe leaves what came before it.         *)
LEMMA BeginningStays ==
  ASSUME NEW u \in Seq(Line), NEW v \in Seq(Line)
  PROVE  /\ \A x : Comes(x, u) => Comes(x, u \o v)
         /\ \A x, y : Preceded(y, x, u \o v) => Preceded(y, x, u)
         /\ \A x, y : NeverAfter(y, x, u \o v) => NeverAfter(y, x, u)
<1> DEFINE s == u \o v
<1>1. /\ Len(u) \in Nat /\ Len(s) \in Nat /\ Len(s) >= Len(u)
      /\ \A i \in 1 .. Len(u) : s[i] = u[i]
  BY ConcatProperties
<1> HIDE DEF s
<1>2. \A x : Comes(x, u) => Comes(x, s)
  BY <1>1 DEF Comes
<1>3. ASSUME NEW x, NEW y, Preceded(y, x, s) PROVE Preceded(y, x, u)
  <2> SUFFICES ASSUME NEW j \in 1 .. Len(u), u[j] = y PROVE \E i \in 1 .. j - 1 : u[i] = x
    BY DEF Preceded
  <2>1. PICK i \in 1 .. j - 1 : s[i] = x
    BY <1>1, <1>3 DEF Preceded
  <2> QED
    BY <1>1, <2>1
<1>4. \A x, y : NeverAfter(y, x, s) => NeverAfter(y, x, u)
  BY <1>1 DEF NeverAfter
<1> QED
  BY <1>2, <1>3, <1>4 DEF s

LEMMA AllButFirst ==
  ASSUME NEW x \in Line, NEW s \in Seq(Line)
  PROVE  Tail(<<x>> \o s) = s
<1> DEFINE t == <<x>> \o s
<1>1. <<x>> \in Seq(Line) /\ Len(<<x>>) = 1
  OBVIOUS
<1>2. /\ t \in Seq(Line) /\ Len(t) = Len(s) + 1
      /\ \A i \in 1 .. Len(s) : t[i + 1] = s[i]
  BY <1>1, ConcatProperties, LenProperties
<1> HIDE DEF t
<1>3. t # <<>>
  BY <1>2, LenProperties, EmptySeq
<1>4. /\ Tail(t) \in Seq(Line) /\ Len(Tail(t)) = Len(s)
      /\ \A i \in 1 .. Len(s) : Tail(t)[i] = s[i]
  BY <1>2, <1>3, LenProperties, HeadTailProperties
<1>5. Tail(t) = s
  BY <1>4, SeqEqual
<1> QED
  BY <1>5 DEF t

(* What the steps of the guest, the reader and collect do to the stream.     *)
LEMMA StreamMoves ==
  ASSUME NEW u \in Seq(Line), NEW v \in Seq(Line)
  PROVE  /\ u \o v \in Seq(Line)
         /\ \A e \in Line : u \o Append(v, e) = Append(u \o v, e)
         /\ u # <<>> => /\ Tail(u) \o v = Tail(u \o v) /\ u \o v # <<>>
                        /\ Head(u) = (u \o v)[1]
         /\ v # <<>> => /\ Append(u, Head(v)) \o Tail(v) = u \o v
                        /\ Without(u \o v, Len(u) + 1, u \o Tail(v))
                        /\ (u \o v)[Len(u) + 1] = Head(v)
<1>1. /\ u \o v \in Seq(Line) /\ Len(u) \in Nat /\ Len(v) \in Nat
      /\ Len(u \o v) = Len(u) + Len(v)
      /\ \A i \in 1 .. Len(u \o v) : /\ i <= Len(u) => (u \o v)[i] = u[i]
                                     /\ i > Len(u) => (u \o v)[i] = v[i - Len(u)]
  BY ConcatProperties
<1>2. ASSUME NEW e \in Line PROVE u \o Append(v, e) = Append(u \o v, e)
  <2>1. <<e>> \in Seq(Line)
    OBVIOUS
  <2>2. Append(v, e) = v \o <<e>> /\ Append(u \o v, e) = (u \o v) \o <<e>>
    BY <1>1, AppendIsConcat
  <2> QED
    BY <2>1, <2>2, ConcatAssociative
<1>3. ASSUME u # <<>>
      PROVE  Tail(u) \o v = Tail(u \o v) /\ u \o v # <<>> /\ Head(u) = (u \o v)[1]
  <2>1. /\ Tail(u) \in Seq(Line) /\ u = <<Head(u)>> \o Tail(u) /\ <<Head(u)>> \in Seq(Line)
        /\ Len(u) >= 1 /\ Head(u) = u[1]
    BY <1>3, HeadTailProperties
  <2>2. Len(u \o v) >= 1 /\ (u \o v)[1] = u[1]
    BY <1>1, <2>1
  <2>3. u \o v # <<>>
    BY <2>2
  <2>4. Tail(u) \o v = Tail(u \o v)
    <3>1. u \o v = <<Head(u)>> \o (Tail(u) \o v)
      BY <2>1, ConcatAssociative
    <3>2. Tail(u) \o v \in Seq(Line) /\ Head(u) \in Line
      BY <1>3, <2>1, ConcatProperties
    <3> QED
      BY <3>1, <3>2, AllButFirst
  <2> QED
    BY <2>1, <2>2, <2>3, <2>4
<1>4. ASSUME v # <<>>
      PROVE  /\ Append(u, Head(v)) \o Tail(v) = u \o v
             /\ Without(u \o v, Len(u) + 1, u \o Tail(v))
             /\ (u \o v)[Len(u) + 1] = Head(v)
  <2>1. /\ Tail(v) \in Seq(Line) /\ Head(v) \in Line
        /\ Len(Tail(v)) = Len(v) - 1 /\ Len(v) >= 1 /\ Head(v) = v[1]
        /\ \A i \in 1 .. Len(Tail(v)) : Tail(v)[i] = v[i + 1]
    BY <1>4
  <2>2. /\ u \o Tail(v) \in Seq(Line) /\ Len(u \o Tail(v)) = Len(u) + Len(Tail(v))
        /\ \A i \in 1 .. Len(u \o Tail(v)) :
             /\ i <= Len(u) => (u \o Tail(v))[i] = u[i]
             /\ i > Len(u) => (u \o Tail(v))[i] = Tail(v)[i - Len(u)]
    BY <2>1, ConcatProperties
  <2>3. Append(u, Head(v)) \o Tail(v) = u \o v
    <3>1. /\ Append(u, Head(v)) = u \o <<Head(v)>> /\ <<Head(v)>> \in Seq(Line)
          /\ <<Head(v)>> \o Tail(v) = v
      BY <1>4, <2>1, AppendIsConcat, HeadTailProperties
    <3> QED
      BY <2>1, <3>1, ConcatAssociative
  <2>4. (u \o v)[Len(u) + 1] = Head(v)
    BY <1>1, <2>1
  <2>5. ASSUME NEW i \in 1 .. Len(u \o Tail(v))
        PROVE  (u \o Tail(v))[i] = IF i < Len(u) + 1 THEN (u \o v)[i] ELSE (u \o v)[i + 1]
    <3>1. CASE i <= Len(u)
      BY <1>1, <2>1, <2>2, <3>1
    <3>2. CASE i > Len(u)
      <4>1. i - Len(u) \in 1 .. Len(Tail(v)) /\ (i + 1) - Len(u) = (i - Len(u)) + 1
        BY <1>1, <2>1, <2>2, <3>2
      <4>2. i + 1 \in 1 .. Len(u \o v)
        BY <1>1, <2>1, <2>2, <3>2
      <4> QED
        BY <1>1, <2>1, <2>2, <3>2, <4>1, <4>2
    <3> QED
      BY <1>1, <3>1, <3>2
  <2> QED
    BY <1>1, <2>1, <2>2, <2>3, <2>4, <2>5 DEF Without
<1> QED
  BY <1>1, <1>2, <1>3, <1>4
(* A line written to the pipe, in the terms of the invariant.                *)
LEMMA StreamGrows ==
  ASSUME ConsoleTypeOK, NEW e \in Line, wire' = Append(wire, e), UNCHANGED lines
  PROVE  /\ wire' \in Seq(Line)
         /\ \A x : Comes(x, Stream') <=> Comes(x, Stream) \/ x = e
         /\ \A x, y : Preceded(y, x, Stream) /\ (y # e \/ Comes(x, Stream))
                        => Preceded(y, x, Stream')
         /\ \A x, y : NeverAfter(y, x, Stream) /\ (y # e \/ ~Comes(x, Stream))
                        => NeverAfter(y, x, Stream')
<1>1. lines \in Seq(Line) /\ wire \in Seq(Line)
  BY DEF ConsoleTypeOK
<1>2. Stream' = Append(Stream, e) /\ Stream \in Seq(Line)
  BY <1>1, StreamMoves DEF Stream
<1>3. wire' \in Seq(Line)
  BY <1>1
<1> HIDE DEF Stream
<1> QED
  BY <1>2, <1>3, WrittenLast

(* A line lost from the stream, or taken from it.                            *)
LEMMA StreamShrinks ==
  ASSUME Stream \in Seq(Line), Stream' \in Seq(Line), NEW k, Without(Stream, k, Stream')
  PROVE  /\ \A x : Comes(x, Stream') => Comes(x, Stream)
         /\ \A x : Comes(x, Stream) => Comes(x, Stream') \/ Stream[k] = x
         /\ \A x, y : Preceded(y, x, Stream) /\ Stream[k] # x => Preceded(y, x, Stream')
         /\ \A x, y : NeverAfter(y, x, Stream) => NeverAfter(y, x, Stream')
BY OthersStay

(***************************************************************************)
(* The steps of the guest.                                                   *)
(***************************************************************************)

(* What the guest writes is the line, or what a message of the kernel makes  *)
(* of it.                                                                    *)
LEMMA WhatIsWritten ==
  ASSUME ConsoleTypeOK, NEW line \in Line \ {"end_and_more"}, Prints(line)
  PROVE  /\ noise' \in Nat
         /\ fault \subseteq fault' /\ fault' \subseteq fault \cup {"noise"}
         /\ \E e \in Line : /\ wire' = Append(wire, e)
                            /\ e # line => "noise" \in fault' /\ e \in {"noise", "end_and_more"}
                            /\ e = "end_and_more" => line = "end"
BY DEF ConsoleTypeOK, Prints, Broken, Line

LEMMA GuestWrites ==
  ASSUME ConsoleInv, Prompt \/ LogIn \/ ReadLine \/ Begin \/ PrintKey \/ End
  PROVE  ConsoleInv'
<1>1. PICK line \in {"prompt", "noise", "echo", "begin", "key", "end"} :
        /\ Prints(line)
        /\ UNCHANGED <<exitStatus, half, lines, closed, login, host, started, gotKey>>
        /\ \/ guest = "boot"  /\ guest' = "getty" /\ line = "prompt"
           \/ guest = "getty" /\ guest' = "login" /\ line = "noise"
           \/ guest = "shell" /\ guest' = "begin" /\ line = "echo"
           \/ guest = "begin" /\ guest' = "work"  /\ line = "begin"
           \/ guest = "work"  /\ guest' = "end"   /\ line = "key"
           \/ guest = "end"   /\ guest' = "idle"  /\ line = "end"
        /\ input' = input \/ (input # <<>> /\ input' = Tail(input))
  <2>1. CASE Prompt
    BY <2>1 DEF Prompt, Says, hostVars
  <2>2. CASE LogIn
    BY <2>2 DEF LogIn, Says, hostVars
  <2>3. CASE ReadLine
    BY <2>3 DEF ReadLine, Says, hostVars
  <2>4. CASE Begin
    BY <2>4 DEF Begin, Says, hostVars
  <2>5. CASE PrintKey
    BY <2>5 DEF PrintKey, Says, hostVars
  <2>6. CASE End
    BY <2>6 DEF End, Says, hostVars
  <2> QED
    BY <2>1, <2>2, <2>3, <2>4, <2>5, <2>6
<1>2. line \in Line \ {"end_and_more"} /\ ConsoleTypeOK
  BY <1>1 DEF Line, ConsoleInv
<1>3. /\ noise' \in Nat
      /\ fault \subseteq fault' /\ fault' \subseteq fault \cup {"noise"}
  BY <1>1, <1>2, WhatIsWritten
<1>4. PICK e \in Line : /\ wire' = Append(wire, e)
                        /\ e # line => "noise" \in fault' /\ e \in {"noise", "end_and_more"}
                        /\ e = "end_and_more" => line = "end"
  BY <1>1, <1>2, WhatIsWritten
<1>5. /\ wire' \in Seq(Line)
      /\ \A x : Comes(x, Stream') <=> Comes(x, Stream) \/ x = e
      /\ \A x, y : Preceded(y, x, Stream) /\ (y # e \/ Comes(x, Stream))
                     => Preceded(y, x, Stream')
      /\ \A x, y : NeverAfter(y, x, Stream) /\ (y # e \/ ~Comes(x, Stream))
                     => NeverAfter(y, x, Stream')
  BY <1>1, <1>2, <1>4, StreamGrows
<1> HIDE DEF Stream
<1>6. ConsoleTypeOK'
  <2>1. input' \in Seq({"root", "script"})
    <3>1. input \in Seq({"root", "script"})
      BY DEF ConsoleInv, ConsoleTypeOK
    <3>2. input # <<>> => Tail(input) \in Seq({"root", "script"})
      BY <3>1
    <3> QED
      BY <1>1, <3>1, <3>2
  <2> QED
    BY <1>1, <1>2, <1>3, <1>5, <2>1 DEF ConsoleTypeOK, Earlier, Ended
<1>7. EchoInv'
  BY <1>1, <1>4, <1>5 DEF ConsoleInv, EchoInv, Earlier
<1>8. EndInv'
  BY <1>1, <1>3, <1>4, <1>5 DEF ConsoleInv, EndInv, Ended
<1>9. KeyInv'
  <2> SUFFICES ASSUME fault' \cap {"dropped", "noise"} = {} PROVE KeyInv'
    BY DEF KeyInv
  <2>1. e = line /\ fault \cap {"dropped", "noise"} = {}
    BY <1>3, <1>4
  <2> QED
    BY <1>1, <1>5, <2>1 DEF ConsoleInv, KeyInv
<1>10. DeadInv' /\ ReportsTheScript'
  BY <1>1, <1>3 DEF ConsoleInv, DeadInv, ReportsTheScript, Ended
<1>11. HalfInv'
  BY <1>1 DEF ConsoleInv, HalfInv
<1> QED
  BY <1>6, <1>7, <1>8, <1>9, <1>10, <1>11 DEF ConsoleInv

LEMMA ChatKeeps ==
  ASSUME ConsoleInv, Chat
  PROVE  ConsoleInv'
<1>1. /\ UNCHANGED <<guest, exitStatus, half, input, lines, closed, login, host, started, gotKey,
                     fault>>
      /\ wire' = Append(wire, "noise") /\ noise > 0 /\ noise' = noise - 1
      /\ guest \notin {"hung", "dead"}
  BY DEF Chat, hostVars
<1>2. "noise" \in Line /\ ConsoleTypeOK
  BY DEF Line, ConsoleInv
<1>3. /\ wire' \in Seq(Line)
      /\ \A x : x # "noise" => (Comes(x, Stream') <=> Comes(x, Stream))
      /\ \A x, y : Preceded(y, x, Stream) /\ y # "noise" => Preceded(y, x, Stream')
      /\ \A x, y : NeverAfter(y, x, Stream) /\ y # "noise" => NeverAfter(y, x, Stream')
  BY <1>1, <1>2, StreamGrows
<1> HIDE DEF Stream
<1>4. ConsoleTypeOK'
  BY <1>1, <1>2, <1>3 DEF ConsoleTypeOK
<1>5. EchoInv' /\ EndInv' /\ KeyInv'
  BY <1>1, <1>3 DEF ConsoleInv, EchoInv, EndInv, KeyInv
<1>6. DeadInv' /\ HalfInv' /\ ReportsTheScript'
  BY <1>1 DEF ConsoleInv, DeadInv, HalfInv, ReportsTheScript
<1> QED
  BY <1>4, <1>5, <1>6 DEF ConsoleInv

(* The steps that leave the stream alone: of the guest, and of provision     *)
(* when it takes no line.                                                    *)
LEMMA StreamUntouched ==
  ASSUME ConsoleInv,
         HandOver \/ StepFails \/ Hangs \/ Dies \/ AwaitLogin \/ SendRoot \/ SendScript
           \/ TakeClosed \/ TimesOut \/ UNCHANGED consoleVars
  PROVE  ConsoleInv'
<1>1. UNCHANGED <<lines, wire, closed, login, started, gotKey, noise>>
  BY DEF HandOver, StepFails, Hangs, Dies, AwaitLogin, SendRoot, SendScript, Send,
         TakeClosed, TimesOut, consoleVars, guestVars, hostVars
<1>2. Stream' = Stream
  BY <1>1 DEF Stream
<1> HIDE DEF Stream
<1>3. /\ fault \subseteq fault'
      /\ fault' \cap {"dropped", "noise"} = fault \cap {"dropped", "noise"}
      /\ fault' \subseteq {"noise", "eaten", "hung", "died", "dropped", "timeout"}
      /\ input' \in Seq({"root", "script"})
  <2>1. /\ input \in Seq({"root", "script"}) /\ <<>> \in Seq({"root", "script"})
        /\ \A what \in {"root", "script"} : Append(input, what) \in Seq({"root", "script"})
        /\ fault \subseteq {"noise", "eaten", "hung", "died", "dropped", "timeout"}
    BY DEF ConsoleInv, ConsoleTypeOK
  <2>2. \/ input' = input \/ input' = <<>>
        \/ \E what \in {"root", "script"} : input' = Append(input, what)
    BY DEF HandOver, StepFails, Hangs, Dies, AwaitLogin, SendRoot, SendScript, Send,
           TakeClosed, TimesOut, consoleVars, guestVars, hostVars
  <2>3. fault' = fault \/ \E f \in {"eaten", "hung", "died", "timeout"} : fault' = fault \cup {f}
    BY DEF HandOver, StepFails, Hangs, Dies, AwaitLogin, SendRoot, SendScript, Send,
           TakeClosed, TimesOut, consoleVars, guestVars, hostVars
  <2> QED
    BY <2>1, <2>2, <2>3
<1>4. /\ \/ guest' = guest
         \/ guest = "login" /\ guest' = "shell"
         \/ guest = "work" /\ guest' = "end" /\ exitStatus' = 1
         \/ guest' = "hung" /\ guest # "dead"
         \/ guest' = "dead" /\ "died" \in fault'
      /\ exitStatus' = exitStatus \/ (guest = "work" /\ guest' = "end" /\ exitStatus' = 1)
  <2>1. CASE HandOver \/ AwaitLogin \/ SendRoot \/ SendScript \/ TakeClosed \/ TimesOut
                \/ UNCHANGED consoleVars
    BY <2>1 DEF HandOver, AwaitLogin, SendRoot, SendScript, Send, TakeClosed, TimesOut,
                consoleVars, guestVars, hostVars
  <2>2. CASE StepFails \/ Hangs \/ Dies
    BY <2>2 DEF StepFails, Hangs, Dies, hostVars
  <2> QED
    BY <2>1, <2>2
<1>5. \/ host' = host
      \/ host' \in {"root", "pause", "collect", "timeout"}
      \/ host' = "closed" /\ closed
      \/ host' = "write" /\ guest = "dead" /\ guest' = guest
  BY DEF HandOver, StepFails, Hangs, Dies, AwaitLogin, SendRoot, SendScript, Send, HostGoes,
         TakeClosed, TimesOut, consoleVars, guestVars, hostVars
<1>11. \/ half' = half /\ (guest' = guest \/ half = "none" \/ guest' = "dead")
       \/ /\ guest \notin {"hung", "dead"} /\ guest' \in {"hung", "dead"}
          /\ exitStatus' = exitStatus
          /\ \/ half' \in {"none", "noise", "begin"}
             \/ half' = "echo" /\ guest = "shell"
             \/ half' = "key" /\ guest = "work"
             \/ half' = "end" /\ guest = "end"
  <2>1. CASE AwaitLogin \/ SendRoot \/ SendScript \/ TakeClosed \/ TimesOut
                \/ UNCHANGED consoleVars
    BY <2>1 DEF AwaitLogin, SendRoot, SendScript, Send, TakeClosed, TimesOut,
                consoleVars, guestVars, hostVars
  <2>2. CASE HandOver \/ StepFails
    BY <2>2 DEF HandOver, StepFails, hostVars, ConsoleInv, HalfInv
  <2>3. CASE Hangs \/ Dies
    <3>1. CASE guest = "hung"
      BY <2>3, <3>1 DEF Hangs, Dies
    <3>2. CASE guest # "hung"
      <4>1. /\ guest \notin {"hung", "dead"} /\ guest' \in {"hung", "dead"}
            /\ exitStatus' = exitStatus /\ half' \in {"none", "noise", Writing}
        BY <2>3, <3>2 DEF Hangs, Dies, StopsWriting
      <4>2. \/ Writing \in {"noise", "begin"}
            \/ Writing = "echo" /\ guest = "shell"
            \/ Writing = "key" /\ guest = "work"
            \/ Writing = "end" /\ guest = "end"
        BY DEF Writing
      <4> QED
        BY <4>1, <4>2
    <3> QED
      BY <3>1, <3>2
  <2> QED
    BY <2>1, <2>2, <2>3
<1>6. ConsoleTypeOK'
  BY <1>1, <1>3, <1>4, <1>5, <1>11 DEF ConsoleInv, ConsoleTypeOK, Earlier, Ended
<1>12. HalfInv'
  <2>1. CASE half' = half /\ (guest' = guest \/ half = "none" \/ guest' = "dead")
    <3>1. half' # "none" => guest' \in {"hung", "dead"} /\ exitStatus' = exitStatus
      BY <1>4, <2>1 DEF ConsoleInv, HalfInv
    <3> QED
      BY <1>1, <1>2, <1>3, <2>1, <3>1 DEF ConsoleInv, HalfInv
  <2>2. CASE half' = "echo" /\ guest = "shell"
    BY <1>1, <1>2, <1>11, <2>2 DEF ConsoleInv, EchoInv, HalfInv, Earlier
  <2>3. CASE half' = "key" /\ guest = "work"
    BY <1>1, <1>2, <1>3, <1>11, <2>3 DEF ConsoleInv, KeyInv, HalfInv
  <2>4. CASE half' = "end" /\ guest = "end"
    BY <1>1, <1>2, <1>3, <1>11, <2>4 DEF ConsoleInv, KeyInv, HalfInv
  <2>5. CASE half' \in {"none", "noise", "begin"} /\ guest' \in {"hung", "dead"}
    BY <2>5 DEF HalfInv
  <2> QED
    BY <1>11, <2>1, <2>2, <2>3, <2>4, <2>5
<1>7. EchoInv' /\ EndInv'
  BY <1>1, <1>2, <1>3, <1>4 DEF ConsoleInv, EchoInv, EndInv, Earlier, Ended
<1>8. KeyInv'
  BY <1>1, <1>2, <1>3, <1>4 DEF ConsoleInv, KeyInv
<1>9. DeadInv'
  BY <1>1, <1>3, <1>4 DEF ConsoleInv, DeadInv
<1>10. ReportsTheScript'
  BY <1>1, <1>3, <1>4, <1>5 DEF ConsoleInv, DeadInv, ReportsTheScript, Ended
<1> QED
  BY <1>6, <1>7, <1>8, <1>9, <1>10, <1>12 DEF ConsoleInv

(***************************************************************************)
(* The reader, and collect.                                                  *)
(***************************************************************************)

(* A line moves to the channel, or is lost: the prompt always, and           *)
(* any other because there is no room, of which a sentinel is missed.        *)
LEMMA ReadKeeps ==
  ASSUME ConsoleInv, Read
  PROVE  ConsoleInv'
<1>1. /\ UNCHANGED <<guest, exitStatus, noise, half, input, closed, host, started, gotKey>>
      /\ wire # <<>> /\ wire' = Tail(wire)
      /\ fault \subseteq fault' /\ fault' \subseteq fault \cup {"dropped"}
      /\ login' \in BOOLEAN
      /\ \/ lines' = Append(lines, Head(wire))
         \/ /\ lines' = lines
            /\ Head(wire) \in Sentinels => "dropped" \in fault'
  BY DEF ConsoleInv, ConsoleTypeOK, Read, Emit, guestVars, hostVars, Sentinels
<1>2. lines \in Seq(Line) /\ wire \in Seq(Line)
  BY DEF ConsoleInv, ConsoleTypeOK
<1>3. /\ Head(wire) \in Line /\ wire' \in Seq(Line)
      /\ Append(lines, Head(wire)) \in Seq(Line) /\ lines' \in Seq(Line)
  <2>1. Head(wire) \in Line /\ wire' \in Seq(Line)
    BY <1>1, <1>2
  <2>2. Append(lines, Head(wire)) \in Seq(Line)
    BY <1>2, <2>1
  <2> QED
    BY <1>1, <1>2, <2>1, <2>2
<1>4. Stream \in Seq(Line) /\ Stream' \in Seq(Line)
  BY <1>2, <1>3, StreamMoves DEF Stream
<1>5. \/ Stream' = Stream
      \/ /\ Head(wire) \in Sentinels => "dropped" \in fault'
         /\ Without(Stream, Len(lines) + 1, Stream')
         /\ Stream[Len(lines) + 1] = Head(wire)
  <2>1. /\ Append(lines, Head(wire)) \o Tail(wire) = Stream
        /\ Without(Stream, Len(lines) + 1, lines \o Tail(wire))
        /\ Stream[Len(lines) + 1] = Head(wire)
    BY <1>1, <1>2, StreamMoves DEF Stream
  <2>2. CASE lines' = Append(lines, Head(wire))
    BY <1>1, <2>1, <2>2 DEF Stream
  <2>3. CASE lines' = lines /\ (Head(wire) \in Sentinels => "dropped" \in fault')
    <3>1. Stream' = lines \o Tail(wire)
      BY <1>1, <2>3 DEF Stream
    <3> QED
      BY <2>1, <2>3, <3>1
  <2> QED
    BY <1>1, <2>2, <2>3
<1> HIDE DEF Stream
<1>6. /\ \A x : Comes(x, Stream') => Comes(x, Stream)
      /\ \A x, y : NeverAfter(y, x, Stream) => NeverAfter(y, x, Stream')
      /\ fault' \cap {"dropped", "noise"} = {}
           => \A x \in {"begin", "key", "end"} :
                /\ Comes(x, Stream) => Comes(x, Stream')
                /\ \A y : Preceded(y, x, Stream) => Preceded(y, x, Stream')
  <2>1. CASE Stream' = Stream
    BY <2>1
  <2>2. CASE /\ Head(wire) \in Sentinels => "dropped" \in fault'
             /\ Without(Stream, Len(lines) + 1, Stream')
             /\ Stream[Len(lines) + 1] = Head(wire)
    <3>1. /\ \A x : Comes(x, Stream') => Comes(x, Stream)
          /\ \A x : Comes(x, Stream) => Comes(x, Stream') \/ Head(wire) = x
          /\ \A x, y : Preceded(y, x, Stream) /\ Head(wire) # x => Preceded(y, x, Stream')
          /\ \A x, y : NeverAfter(y, x, Stream) => NeverAfter(y, x, Stream')
      BY <1>4, <2>2, StreamShrinks
    <3>2. fault' \cap {"dropped", "noise"} = {} => Head(wire) \notin {"begin", "key", "end"}
      BY <2>2 DEF Sentinels
    <3> QED
      BY <3>1, <3>2
  <2> QED
    BY <1>5, <2>1, <2>2
<1>7. ConsoleTypeOK'
  BY <1>1, <1>3 DEF ConsoleInv, ConsoleTypeOK
<1>8. EchoInv' /\ EndInv'
  BY <1>1, <1>6 DEF ConsoleInv, EchoInv, EndInv
<1>9. KeyInv'
  <2> SUFFICES ASSUME fault' \cap {"dropped", "noise"} = {} PROVE KeyInv'
    BY DEF KeyInv
  <2>1. fault \cap {"dropped", "noise"} = {}
    BY <1>1
  <2> QED
    BY <1>1, <1>6, <2>1 DEF ConsoleInv, KeyInv
<1>10. DeadInv' /\ ReportsTheScript'
  BY <1>1 DEF ConsoleInv, DeadInv, ReportsTheScript
<1>11. HalfInv'
  BY <1>1, <1>6 DEF ConsoleInv, HalfInv
<1> QED
  BY <1>7, <1>8, <1>9, <1>10, <1>11 DEF ConsoleInv

(* The first line of v has all of u before it.                               *)
LEMMA NextLine ==
  ASSUME NEW u \in Seq(Line), NEW v \in Seq(Line), v # <<>>
  PROVE  /\ Comes(Head(v), u \o v)
         /\ \A x : Preceded(Head(v), x, u \o v) => Comes(x, u)
         /\ \A x : NeverAfter(Head(v), x, u \o v) => ~Comes(x, u)
<1> DEFINE s == u \o v
           k == Len(u) + 1
<1>1. /\ k \in 1 .. Len(s) /\ s[k] = Head(v) /\ Len(u) \in Nat /\ Len(s) \in Nat
      /\ \A i \in 1 .. Len(u) : s[i] = u[i]
  BY ConcatProperties
<1> HIDE DEF s
<1>2. Comes(Head(v), s)
  BY <1>1 DEF Comes
<1>3. ASSUME NEW x, Preceded(Head(v), x, s) PROVE Comes(x, u)
  BY <1>1, <1>3 DEF Preceded, Comes
<1>4. ASSUME NEW x, NeverAfter(Head(v), x, s) PROVE ~Comes(x, u)
  BY <1>1, <1>4 DEF NeverAfter, Comes
<1> QED
  BY <1>2, <1>3, <1>4 DEF s

(* What the reader has of a line at the end of the pipe comes last, and what *)
(* came before that line comes before it.                                    *)
LEMMA CloseKeeps ==
  ASSUME ConsoleInv, Close
  PROVE  ConsoleInv'
<1>1. /\ UNCHANGED <<guest, exitStatus, noise, half, input, login, host, started, gotKey>>
      /\ guest = "dead" /\ ~closed /\ closed' = TRUE /\ wire' = <<>>
      /\ fault \subseteq fault' /\ fault' \subseteq fault \cup {"dropped"}
  BY DEF Close, Emit, guestVars, hostVars
<1>2. lines \in Seq(Line) /\ wire \in Seq(Line) /\ wire' \in Seq(Line)
  BY <1>1 DEF ConsoleInv, ConsoleTypeOK
<1>3. Stream' = lines'
  <2>1. lines' \in Seq(Line) => lines' \o <<>> = lines'
    BY ConcatEmptySeq
  <2>2. lines' \in Seq(Line)
    <3>1. \A x \in Line : Append(lines, x) \in Seq(Line)
      BY <1>2
    <3>2. \A x : \A e \in Cut(x) : x \in Line \cup {half} => e \in Line
      BY DEF Cut, Line, ConsoleInv, ConsoleTypeOK
    <3>3. wire # <<>> => Head(wire) \in Line
      BY <1>2
    <3> QED
      BY <1>2, <3>1, <3>2, <3>3 DEF Close, Emit
  <2> QED
    BY <1>1, <2>1, <2>2 DEF Stream
<1>4. /\ \A x : Comes(x, lines) => Comes(x, Stream)
      /\ \A x, y : Preceded(y, x, Stream) => Preceded(y, x, lines)
      /\ \A x, y : NeverAfter(y, x, Stream) => NeverAfter(y, x, lines)
  BY <1>2, BeginningStays DEF Stream
<1>5. /\ wire # <<>> => /\ Comes(Head(wire), Stream)
                        /\ \A x : Preceded(Head(wire), x, Stream) => Comes(x, lines)
                        /\ \A x : NeverAfter(Head(wire), x, Stream) => ~Comes(x, lines)
      /\ wire = <<>> => Stream = lines
  BY <1>2, NextLine, ConcatEmptySeq DEF Stream
<1> HIDE DEF Stream
<1>6. CASE lines' = lines
  <2>1. ConsoleTypeOK'
    BY <1>1, <1>2, <1>6 DEF ConsoleInv, ConsoleTypeOK
  <2>2. EchoInv' /\ EndInv' /\ KeyInv'
    BY <1>1, <1>3, <1>4, <1>6 DEF ConsoleInv, EchoInv, EndInv, KeyInv, Ended, Earlier
  <2>3. HalfInv' /\ DeadInv' /\ ReportsTheScript'
    BY <1>1 DEF ConsoleInv, HalfInv, DeadInv, ReportsTheScript
  <2> QED
    BY <2>1, <2>2, <2>3 DEF ConsoleInv
<1>7. ASSUME NEW from, NEW e \in Cut(from), lines' = Append(lines, e), UNCHANGED fault,
             \/ wire # <<>> /\ from = Head(wire)
             \/ wire = <<>> /\ half # "none" /\ from = half
      PROVE  ConsoleInv'
  <2>1. /\ e \in Line
        /\ e \in {"echo", "key"} => from = e
        /\ e = "end" => from \in {"end", "end_and_more"}
    BY DEF Cut, Line
  <2>2. /\ lines' \in Seq(Line)
        /\ \A x : Comes(x, Stream') <=> Comes(x, lines) \/ x = e
        /\ \A x, y : Preceded(y, x, lines) /\ (y # e \/ Comes(x, lines)) => Preceded(y, x, Stream')
        /\ \A x, y : NeverAfter(y, x, lines) /\ (y # e \/ ~Comes(x, lines))
                       => NeverAfter(y, x, Stream')
    BY <1>2, <1>3, <1>7, <2>1, WrittenLast
  <2>3. ConsoleTypeOK'
    BY <1>1, <1>2, <1>7, <2>2 DEF ConsoleInv, ConsoleTypeOK
  <2>4. EchoInv'
    <3>1. e = "echo" => ~started /\ ~Comes("begin", lines)
      BY <1>1, <1>5, <1>7, <2>1 DEF ConsoleInv, EchoInv, HalfInv
    <3> QED
      BY <1>1, <1>4, <2>2, <3>1 DEF ConsoleInv, EchoInv, Earlier
  <2>5. EndInv'
    BY <1>1 DEF EndInv, Ended
  <2>6. KeyInv'
    <3> SUFFICES ASSUME fault \cap {"dropped", "noise"} = {} PROVE KeyInv'
      BY <1>7 DEF KeyInv
    <3>1. e = "key" => started \/ Comes("begin", lines)
      BY <1>1, <1>5, <1>7, <2>1 DEF ConsoleInv, KeyInv, HalfInv
    <3>2. e = "end" => from = "end"
      BY <1>1, <1>5, <1>7, <2>1 DEF ConsoleInv, EndInv, ConsoleTypeOK
    <3>3. e = "end" /\ exitStatus = 0 => gotKey \/ Comes("key", lines)
      BY <1>1, <1>5, <1>7, <3>2 DEF ConsoleInv, KeyInv, HalfInv
    <3> QED
      BY <1>1, <1>4, <2>2, <3>1, <3>3 DEF ConsoleInv, KeyInv
  <2>7. HalfInv' /\ DeadInv' /\ ReportsTheScript'
    BY <1>1 DEF ConsoleInv, HalfInv, DeadInv, ReportsTheScript
  <2> QED
    BY <2>3, <2>4, <2>5, <2>6, <2>7 DEF ConsoleInv
<1> QED
  BY <1>6, <1>7 DEF Close, Emit

LEMMA TakeKeeps ==
  ASSUME ConsoleInv, Take
  PROVE  ConsoleInv'
<1> DEFINE line == Head(lines)
<1>1. /\ UNCHANGED <<guest, exitStatus, noise, half, input, wire, closed, login, fault>>
      /\ host = "collect" /\ lines # <<>> /\ lines' = Tail(lines)
      /\ \/ ~started /\ started' = (line = "begin") /\ UNCHANGED <<host, gotKey>>
         \/ /\ started /\ line \in {"end", "end_and_more", "echo"}
            /\ host' = Result(line) /\ UNCHANGED <<started, gotKey>>
         \/ /\ started /\ line \in {"noise", "begin", "key"}
            /\ gotKey' = (gotKey \/ line = "key") /\ UNCHANGED <<host, started>>
  BY DEF Take, guestVars
<1>2. lines \in Seq(Line) /\ wire \in Seq(Line)
  BY DEF ConsoleInv, ConsoleTypeOK
<1>3. lines' \in Seq(Line) /\ line \in Line
  BY <1>1, <1>2
<1>4. /\ Stream \in Seq(Line) /\ Stream' \in Seq(Line)
      /\ Stream # <<>> /\ line = Stream[1] /\ Stream' = Tail(Stream)
  BY <1>1, <1>2, <1>3, StreamMoves DEF Stream
<1> HIDE DEF Stream, line
<1>5. /\ Comes(line, Stream)
      /\ \A x, y : Preceded(y, x, Stream) => line # y
      /\ \A x, y : NeverAfter(y, x, Stream) /\ line = x => ~Comes(y, Stream')
      /\ Without(Stream, 1, Stream')
  BY <1>4, FirstLine
<1>6. /\ \A x : Comes(x, Stream') => Comes(x, Stream)
      /\ \A x : Comes(x, Stream) => Comes(x, Stream') \/ line = x
      /\ \A x, y : Preceded(y, x, Stream) /\ line # x => Preceded(y, x, Stream')
      /\ \A x, y : NeverAfter(y, x, Stream) => NeverAfter(y, x, Stream')
  BY <1>4, <1>5, StreamShrinks
<1>7. ConsoleTypeOK'
  <2>1. started' \in BOOLEAN /\ gotKey' \in BOOLEAN
    BY <1>1 DEF ConsoleInv, ConsoleTypeOK
  <2>2. host' \in {"collect", "ready", "exit", "no_key", "garbled"}
    BY <1>1 DEF Result
  <2> QED
    BY <1>1, <1>2, <1>3, <2>1, <2>2 DEF ConsoleInv, ConsoleTypeOK
<1>8. EchoInv'
  <2>1. started' => started \/ line = "begin"
    BY <1>1
  <2>2. line = "begin" => guest \notin Earlier \cup {"begin"}
    BY <1>5 DEF ConsoleInv, EchoInv
  <2> QED
    BY <1>1, <1>5, <1>6, <2>1, <2>2 DEF ConsoleInv, EchoInv
<1>9. EndInv'
  BY <1>1, <1>6 DEF ConsoleInv, EndInv
<1>10. KeyInv'
  <2> SUFFICES ASSUME fault \cap {"dropped", "noise"} = {} PROVE KeyInv'
    BY <1>1 DEF KeyInv
  <2>1. started \/ (started' = (line = "begin") /\ gotKey' = gotKey /\ line # "key")
    BY <1>1, <1>5 DEF ConsoleInv, KeyInv
  <2>2. (started => started') /\ (gotKey => gotKey')
    <3>1. started => started'
      BY <1>1
    <3>2. gotKey => gotKey'
      <4>1. gotKey \in BOOLEAN
        BY DEF ConsoleInv, ConsoleTypeOK
      <4>2. gotKey' = gotKey \/ gotKey' = (gotKey \/ line = "key")
        BY <1>1
      <4> QED
        BY <4>1, <4>2
    <3> QED
      BY <3>1, <3>2
  <2>3. started /\ line = "key" => gotKey'
    BY <1>1
  <2>4. /\ guest = "work" => started' \/ Comes("begin", Stream')
        /\ guest = "end" /\ exitStatus = 0 => gotKey' \/ Comes("key", Stream')
    BY <1>6, <2>1, <2>2, <2>3 DEF ConsoleInv, KeyInv
  <2>5. started' \/ Preceded("key", "begin", Stream')
    BY <1>6, <2>1, <2>2 DEF ConsoleInv, KeyInv
  <2>6. exitStatus = 0 => gotKey' \/ Preceded("end", "key", Stream')
    BY <1>6, <2>1, <2>2, <2>3 DEF ConsoleInv, KeyInv
  <2> QED
    BY <1>1, <2>4, <2>5, <2>6 DEF KeyInv
<1>11. DeadInv'
  BY <1>1 DEF ConsoleInv, DeadInv
<1>13. HalfInv'
  <2>1. CASE closed \/ half \notin {"echo", "key", "end"}
    BY <1>1, <2>1 DEF ConsoleInv, HalfInv
  <2>2. CASE ~closed /\ half = "echo"
    <3>1. ~started /\ ~Comes("begin", Stream) /\ line # "begin"
      BY <1>5, <2>2 DEF ConsoleInv, HalfInv
    <3> QED
      BY <1>1, <1>6, <2>2, <3>1 DEF ConsoleInv, HalfInv
  <2>3. CASE ~closed /\ half \in {"key", "end"}
    <3> SUFFICES ASSUME fault \cap {"dropped", "noise"} = {} PROVE HalfInv'
      BY <1>1, <2>3 DEF ConsoleInv, HalfInv
    <3>1. started \/ (started' = (line = "begin") /\ gotKey' = gotKey /\ line # "key")
      BY <1>1, <1>5 DEF ConsoleInv, KeyInv
    <3>2. (started => started') /\ (gotKey => gotKey') /\ (started /\ line = "key" => gotKey')
      <4>1. started \in BOOLEAN /\ gotKey \in BOOLEAN
        BY DEF ConsoleInv, ConsoleTypeOK
      <4>2. started => started'
        BY <1>1
      <4>3. gotKey' = gotKey \/ gotKey' = (gotKey \/ line = "key")
        BY <1>1
      <4>4. started /\ line = "key" => gotKey'
        BY <1>1
      <4> QED
        BY <4>1, <4>2, <4>3, <4>4
    <3>3. half = "key" => started' \/ Comes("begin", Stream')
      BY <1>6, <2>3, <3>1, <3>2 DEF ConsoleInv, HalfInv
    <3>4. half = "end" /\ exitStatus = 0 => gotKey' \/ Comes("key", Stream')
      BY <1>6, <2>3, <3>1, <3>2 DEF ConsoleInv, HalfInv
    <3> QED
      BY <1>1, <2>3, <3>3, <3>4 DEF ConsoleInv, HalfInv
  <2> QED
    BY <2>1, <2>2, <2>3
<1>12. ReportsTheScript'
  <2>1. CASE host' = host
    BY <1>1, <2>1 DEF ConsoleInv, ReportsTheScript
  <2>2. CASE started /\ line \in {"end", "end_and_more", "echo"} /\ host' = Result(line)
    <3>1. line # "echo"
      BY <1>5, <2>2 DEF ConsoleInv, EchoInv
    <3>2. CASE line = "end_and_more"
      <4>1. host' = "garbled" /\ ("noise" \in fault \/ "died" \in fault)
        BY <1>5, <2>2, <3>2 DEF ConsoleInv, EndInv, DeadInv, Result
      <4> QED
        BY <1>1, <4>1 DEF ReportsTheScript
    <3>3. CASE line = "end"
      <4>1. guest \in Ended
        BY <1>5, <3>3 DEF ConsoleInv, EndInv
      <4>2. fault \cap {"dropped", "noise"} = {} /\ exitStatus = 0 => gotKey
        BY <1>5, <3>3 DEF ConsoleInv, KeyInv
      <4>3. \/ host' = "exit" /\ exitStatus # 0
            \/ host' = "ready" /\ exitStatus = 0
            \/ host' = "no_key" /\ exitStatus = 0 /\ ~gotKey
        BY <2>2, <3>3 DEF Result
      <4> QED
        BY <1>1, <4>1, <4>2, <4>3 DEF ReportsTheScript, Ended
    <3> QED
      BY <2>2, <3>1, <3>2, <3>3
  <2> QED
    BY <1>1, <2>1, <2>2
<1> QED
  BY <1>7, <1>8, <1>9, <1>10, <1>11, <1>12, <1>13 DEF ConsoleInv

(***************************************************************************)
(* The theorems.                                                             *)
(***************************************************************************)

LEMMA ConsoleInitHolds == ConsoleInit => ConsoleInv
<1> SUFFICES ASSUME ConsoleInit PROVE ConsoleInv
  OBVIOUS
<1>1. wire = <<>> /\ lines = <<>> /\ <<>> \in Seq(Line) /\ <<>> \in Seq({"root", "script"})
  BY DEF ConsoleInit
<1>2. Stream = <<>> /\ Len(Stream) = 0
  BY <1>1, ConcatEmptySeq DEF Stream
<1> HIDE DEF Stream
<1>3. \A x, y : ~Comes(x, Stream) /\ Preceded(y, x, Stream) /\ NeverAfter(y, x, Stream)
  BY <1>2 DEF Comes, Preceded, NeverAfter
<1>4. ConsoleTypeOK
  BY <1>1, ConsoleAssumption DEF ConsoleInit, ConsoleTypeOK, Earlier
<1>5. EchoInv /\ EndInv /\ KeyInv /\ HalfInv
  BY <1>3 DEF ConsoleInit, EchoInv, EndInv, KeyInv, HalfInv
<1>6. DeadInv /\ ReportsTheScript
  BY DEF ConsoleInit, DeadInv, ReportsTheScript
<1> QED
  BY <1>4, <1>5, <1>6 DEF ConsoleInv

(* The order of the lines on the console and what it says of the script:     *)
(* every step keeps it, however long the channel and the pipe are and however*)
(* much the kernel writes in between.                                        *)
THEOREM ConsoleInvHolds == ConsoleSpec => []ConsoleInv
<1>1. ConsoleInv /\ [ConsoleNext]_consoleVars => ConsoleInv'
  BY GuestWrites, ChatKeeps, StreamUntouched, ReadKeeps, CloseKeeps, TakeKeeps
     DEF ConsoleNext, GuestGoesOn, Reader, HostGoesOn
<1> QED
  BY ConsoleInitHolds, <1>1, PTL DEF ConsoleSpec

(* provision goes on to ssh only when the setup script has ended well and    *)
(* its host key was read, reports a status only when that was the status,    *)
(* and whatever else it reports has a line lost or broken, or a guest that   *)
(* died, behind it (serial.go collect, machine.go provision).                *)
THEOREM ScriptIsReported == ConsoleSpec => []ReportsTheScript
<1>1. ConsoleInv => ReportsTheScript
  BY DEF ConsoleInv
<1> QED
  BY ConsoleInvHolds, <1>1, PTL
=============================================================================
