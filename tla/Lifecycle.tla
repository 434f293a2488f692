------------------------------ MODULE Lifecycle ------------------------------
(***************************************************************************)
(* provider.Run and provider.RunContext (internal/provider/provider.go):   *)
(* how a command drives a provider through its life.  The main goroutine   *)
(* starts the guest, runs a task against it and stops it; a second one     *)
(* counts the interrupts of the user; a third one cancels the task when    *)
(* the guest dies.  They meet in two contexts, Run's own (outer) and the   *)
(* one RunContext derives from it (cause).                                 *)
(*                                                                         *)
(* The provider is left open: a module for one of them extends this one,   *)
(* says what Start and Stop do, and closes the channel Exited.             *)
(***************************************************************************)
EXTENDS Integers

CONSTANT ForceQuitAt   \* the interrupt that ends the process, the tenth

ASSUME LifecycleAssumption == ForceQuitAt \in Nat /\ ForceQuitAt > 1

VARIABLES
  main,      \* what the main goroutine is in
  forced,    \* whether the process has been ended without cleanup
  outer,     \* whether Run's context is cancelled, which is always an interrupt
  cause,     \* why RunContext's context is cancelled, "none" when it is not
  handler,   \* the interrupt the handler waits for, 0 when it has returned
  signal,    \* whether a signal waits in the channel, which holds one
  asking,    \* whether the task reads a passphrase from the terminal
  taskErr,   \* what the task returned
  seen,      \* history: the cause when the task returned
  stopErr,   \* whether Stop returned an error
  result,    \* what Run returned, {} for nil
  exited,    \* whether the channel Exited is closed
  exitErr    \* what Err then reports

commandVars == <<asking, taskErr, seen, stopErr, result>>
contextVars == <<outer, cause, handler, signal>>
runVars     == <<main, forced, contextVars, commandVars>>
channelVars == <<exited, exitErr>>

RunInit ==
  /\ main = "starting" /\ forced = FALSE /\ outer = FALSE /\ cause = "none"
  /\ handler = 1 /\ signal = FALSE /\ asking = FALSE
  /\ taskErr = "nil" /\ seen = "none" /\ stopErr = FALSE /\ result = {}
  /\ exited = FALSE /\ exitErr = "nil"

Alive == main # "over" /\ ~forced

-----------------------------------------------------------------------------
(* Cancelling.                                                              *)

(* A plausible bug: RunContext's context is not derived from Run's.         *)
CancelOuterOnly ==
  /\ outer' = TRUE
  /\ UNCHANGED cause

(* cancel(ErrInterrupted) on Run's context, which RunContext's inherits; the *)
(* first cause a context is given is the one it keeps.                      *)
CancelOuter ==
  /\ outer' = TRUE
  /\ cause' = IF cause = "none" THEN "interrupt" ELSE cause

(* SIGINT, SIGTERM or SIGHUP; one that finds the channel full is dropped.   *)
Press ==
  /\ Alive /\ ~signal
  /\ signal' = TRUE
  /\ UNCHANGED <<main, forced, outer, cause, handler, commandVars, channelVars>>

(* The handler takes a signal: the first cancels, the tenth exits.  It may  *)
(* choose to do so when its context is done too.                            *)
TakeSignal ==
  /\ Alive /\ handler > 0 /\ signal
  /\ signal' = FALSE
  /\ handler' = IF handler < ForceQuitAt THEN handler + 1 ELSE 0
  /\ IF handler = 1 THEN CancelOuter ELSE UNCHANGED <<outer, cause>>
  /\ forced' = (handler = ForceQuitAt)
  /\ UNCHANGED <<main, commandVars, channelVars>>

HandlerReturns ==
  /\ Alive /\ handler > 0 /\ outer
  /\ handler' = 0
  /\ UNCHANGED <<main, forced, outer, cause, signal, commandVars, channelVars>>

(* The caller cancels, as the watcher of a stop request does.               *)
Cancelled ==
  /\ Alive /\ ~outer
  /\ CancelOuter
  /\ UNCHANGED <<main, forced, handler, signal, commandVars, channelVars>>

(* A plausible bug: the exit of the guest is waited for after the task.     *)
NoticeExitLate ==
  /\ Alive /\ main \in {"stopping", "draining"}
  /\ exited /\ cause = "none"
  /\ cause' = "guest"
  /\ UNCHANGED <<main, forced, outer, handler, signal, commandVars, channelVars>>

(* The guest dying underneath the task ends the task.                       *)
NoticeExit ==
  /\ Alive /\ main # "starting"
  /\ exited /\ cause = "none"
  /\ cause' = "guest"
  /\ UNCHANGED <<main, forced, outer, handler, signal, commandVars, channelVars>>

-----------------------------------------------------------------------------
(* The main goroutine.                                                      *)

Moves(from, to) == ~forced /\ main = from /\ main' = to

(* Start returns; what it did to the channel is for the provider to say.    *)
StartReturns ==
  /\ Moves("starting", "task")
  /\ UNCHANGED <<forced, contextVars, commandVars>>

StartReturnsError ==
  /\ Moves("starting", "over")
  /\ result' = {IF cause = "interrupt" THEN "interrupted" ELSE "start"}
  /\ UNCHANGED <<forced, contextVars, asking, taskErr, seen, stopErr>>

(* TerminalPrompt reads a passphrase, and neither the end of the context nor *)
(* that of the guest gets the task out of it, only a line from the user.    *)
Ask ==
  /\ Alive /\ main = "task" /\ ~asking
  /\ asking' = TRUE
  /\ UNCHANGED <<main, forced, contextVars, taskErr, seen, stopErr, result, channelVars>>

Answer ==
  /\ Alive /\ asking
  /\ asking' = FALSE
  /\ UNCHANGED <<main, forced, contextVars, taskErr, seen, stopErr, result, channelVars>>

(* The task is done, has failed, or heeds the context.                      *)
TaskReturns(err) ==
  /\ Moves("task", "stopping")
  /\ ~asking
  /\ err = "canceled" => cause # "none"
  /\ taskErr' = err
  /\ seen' = cause
  /\ UNCHANGED <<forced, contextVars, asking, stopErr, result>>

StopReturns(err) ==
  /\ Moves("stopping", "draining")
  /\ stopErr' = err
  /\ UNCHANGED <<forced, contextVars, asking, taskErr, seen, result>>

Outcome ==
  LET stopped == IF stopErr THEN {"stop"} ELSE {} IN
  CASE cause = "interrupt"  -> {"interrupted"} \cup stopped
    [] cause # "interrupt" /\ taskErr = "error" -> {"task"} \cup stopped
    [] cause # "interrupt" /\ taskErr # "error" /\ exitErr = "error" -> {"guest"} \cup stopped
    [] OTHER -> IF stopErr THEN stopped ELSE IF taskErr = "canceled" THEN {"task"} ELSE {}

(* A plausible bug: Run returns as soon as Stop has.                        *)
ConcludeAtOnce ==
  /\ Moves("draining", "over")
  /\ result' = Outcome
  /\ UNCHANGED <<forced, contextVars, asking, taskErr, seen, stopErr, channelVars>>

(* <-p.Exited(), and what RunContext makes of all that happened.            *)
Conclude ==
  /\ exited
  /\ Moves("draining", "over")
  /\ result' = Outcome
  /\ UNCHANGED <<forced, contextVars, asking, taskErr, seen, stopErr, channelVars>>
=============================================================================
