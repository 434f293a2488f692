------------------------------ MODULE Console ------------------------------
(***************************************************************************)
(* The serial console of a QEMU guest (internal/provider/qemu/serial.go)   *)
(* and what provision does over it (machine.go): wait for the login        *)
(* prompt, log in, type the setup script as one line and read back what it *)
(* printed between two sentinels.  A goroutine reads the console all the   *)
(* time, into a channel that holds some lines and loses what does not fit; *)
(* the kernel of the guest may write to the console whenever it likes.     *)
(***************************************************************************)
EXTENDS Naturals, Sequences

CONSTANTS
  Capacity,  \* the lines the channel holds, 256 in the code
  Pipe,      \* the lines in the pipe from QEMU, a bound for the checker
  Chatter    \* the lines of noise the guest prints, a bound for the checker

ASSUME ConsoleAssumption == {Capacity, Pipe} \subseteq Nat \ {0} /\ Chatter \in Nat

VARIABLES
  guest,      \* what the guest is at
  exitStatus, \* the exit status of the script, once it has ended
  noise,      \* the lines of noise to come
  half,       \* the line in the middle of which it hung or died, or none
  input,      \* what was typed and not yet read
  wire,       \* the lines in the pipe
  lines,      \* the channel between reader and collect
  closed,     \* whether the reader has closed it
  login,      \* whether the reader has seen the prompt
  host,       \* what provision is at, in the end the result
  started,    \* collect: BEGIN was seen
  gotKey,     \* collect: the marked line of the host key was among the output
  fault       \* history: what went wrong

guestVars == <<guest, exitStatus, noise, half>>
hostVars  == <<host, started, gotKey>>
consoleVars == <<guestVars, input, wire, lines, closed, login, hostVars, fault>>

Over == host \in {"ready", "exit", "no_key", "garbled", "closed", "timeout", "write"}

ConsoleInit ==
  /\ guest = "boot" /\ exitStatus = 0 /\ noise = Chatter /\ half = "none"
  /\ input = <<>> /\ wire = <<>> /\ lines = <<>> /\ closed = FALSE /\ login = FALSE
  /\ host = "await" /\ started = FALSE /\ gotKey = FALSE
  /\ fault = {}

(***************************************************************************)
(* The guest: its getty, login and shell, and the kernel.  A line is       *)
(* written whole, or a message of the kernel gets into it: it is no longer *)
(* recognised, or an exit status has something behind it.  A guest that     *)
(* hangs or dies may have begun a line that it never ends.                  *)
(***************************************************************************)
Broken(line) == IF line = "end" THEN {"noise", "end_and_more"} ELSE {"noise"}

Prints(line) ==
  /\ Len(wire) < Pipe
  /\ \/ wire' = Append(wire, line) /\ UNCHANGED <<noise, fault>>
     \/ /\ noise > 0 /\ noise' = noise - 1
        /\ \E b \in Broken(line) : wire' = Append(wire, b)
        /\ fault' = fault \cup {"noise"}

Says(from, line, to) ==
  /\ guest = from /\ guest' = to
  /\ Prints(line)
  /\ UNCHANGED <<half, lines, closed, login, hostVars>>

Chat ==
  /\ guest \notin {"hung", "dead"} /\ noise > 0 /\ Len(wire) < Pipe
  /\ noise' = noise - 1 /\ wire' = Append(wire, "noise")
  /\ UNCHANGED <<guest, exitStatus, half, input, lines, closed, login, hostVars, fault>>

Prompt == Says("boot", "prompt", "getty") /\ UNCHANGED <<exitStatus, input>>

LogIn ==
  /\ input # <<>> /\ input' = Tail(input)
  /\ Says("getty", "noise", "login") /\ UNCHANGED exitStatus

(* login hands over to the shell; what was typed before that may be lost.  *)
HandOver ==
  /\ guest = "login" /\ guest' = "shell"
  /\ \/ UNCHANGED <<input, fault>>
     \/ input # <<>> /\ input' = <<>> /\ fault' = fault \cup {"eaten"}
  /\ UNCHANGED <<exitStatus, noise, half, wire, lines, closed, login, hostVars>>

(* The shell echoes the line, which holds both sentinels. *)
ReadLine ==
  /\ input # <<>> /\ input' = Tail(input)
  /\ Says("shell", "echo", "begin") /\ UNCHANGED exitStatus

Begin == Says("begin", "begin", "work") /\ UNCHANGED <<exitStatus, input>>

PrintKey == Says("work", "key", "end") /\ UNCHANGED <<exitStatus, input>>

StepFails ==
  /\ guest = "work" /\ guest' = "end"
  /\ exitStatus' = 1
  /\ UNCHANGED <<noise, half, input, wire, lines, closed, login, hostVars, fault>>

End == Says("end", "end", "idle") /\ UNCHANGED <<exitStatus, input>>

(* A guest stops between two lines, in one of the kernel's, or in its own.  *)
Writing ==
  CASE guest = "shell" /\ input # <<>> -> "echo"
    [] guest = "begin"                 -> "begin"
    [] guest = "work"                  -> "key"
    [] guest = "end"                   -> "end"
    [] OTHER                           -> "noise"

StopsWriting == half' \in {"none", "noise", Writing}

Hangs ==
  /\ guest \notin {"hung", "dead"}
  /\ guest' = "hung" /\ fault' = fault \cup {"hung"} /\ StopsWriting
  /\ UNCHANGED <<exitStatus, noise, input, wire, lines, closed, login, hostVars>>

Dies ==
  /\ guest # "dead"
  /\ guest' = "dead" /\ fault' = fault \cup {"died"}
  /\ IF guest = "hung" THEN UNCHANGED half ELSE StopsWriting
  /\ UNCHANGED <<exitStatus, noise, input, wire, lines, closed, login, hostVars>>

(***************************************************************************)
(* The reader.                                                             *)
(***************************************************************************)
Sentinels == {"begin", "key", "end", "end_and_more"}

(* A plausible bug: the reader waits for room instead of dropping the line. *)
ReadAndWait ==
  /\ wire # <<>> /\ wire' = Tail(wire)
  /\ \/ Head(wire) = "prompt" /\ login' = TRUE /\ UNCHANGED lines
     \/ /\ Head(wire) # "prompt" /\ Len(lines) < Capacity
        /\ lines' = Append(lines, Head(wire)) /\ UNCHANGED login
  /\ UNCHANGED <<guestVars, input, closed, hostVars, fault>>

(* emit: a line that does not fit is lost. *)
Emit(line) ==
  IF Len(lines) < Capacity
  THEN lines' = Append(lines, line) /\ UNCHANGED fault
  ELSE /\ fault' = IF line \in Sentinels THEN fault \cup {"dropped"} ELSE fault
       /\ UNCHANGED lines

(* The prompt has no newline; it becomes a line with the echo of the name,  *)
(* which LogIn prints.                                                      *)
Read ==
  /\ wire # <<>> /\ wire' = Tail(wire)
  /\ \/ Head(wire) = "prompt" /\ login' = TRUE /\ UNCHANGED <<lines, fault>>
     \/ Head(wire) # "prompt" /\ Emit(Head(wire)) /\ UNCHANGED login
  /\ UNCHANGED <<guestVars, input, closed, hostVars>>

(* What the beginning of a line reads as.  The echo begins with BEGIN; END   *)
(* may have lost its status (a status that lost digits is still not zero).  *)
Cut(line) ==
  CASE line = "echo"                     -> {"noise", "begin", "echo"}
    [] line \in {"begin", "key"}         -> {"noise", line}
    [] line \in {"end", "end_and_more"}  -> {"noise", "end", "end_and_more"}
    [] OTHER                             -> {"noise"}

(* The end of the pipe, which reaping QEMU closes with what is left in it.  *)
(* The reader emits what it has of the line it was in: of the next in the   *)
(* pipe, or of the one the guest did not finish.                            *)
Close ==
  /\ guest = "dead" /\ ~closed
  /\ closed' = TRUE /\ wire' = <<>>
  /\ \/ UNCHANGED <<lines, fault>>
     \/ wire # <<>> /\ \E line \in Cut(Head(wire)) : Emit(line)
     \/ wire = <<>> /\ half # "none" /\ \E line \in Cut(half) : Emit(line)
  /\ UNCHANGED <<guestVars, input, login, hostVars>>

(***************************************************************************)
(* provision, and collect.                                                 *)
(***************************************************************************)
HostGoes(from, to) == host = from /\ host' = to

AwaitLogin ==
  /\ login /\ HostGoes("await", "root")
  /\ UNCHANGED <<guestVars, input, wire, lines, closed, login, started, gotKey, fault>>

(* send: writing to a process that is gone is an error. *)
Send(from, what, to) ==
  /\ \/ HostGoes(from, to) /\ input' = Append(input, what)
     \/ HostGoes(from, "write") /\ guest = "dead" /\ UNCHANGED input
  /\ UNCHANGED <<guestVars, wire, lines, closed, login, started, gotKey, fault>>

SendRoot == Send("root", "root", "pause")

(* The second after "root", then runScript. *)
SendScript == Send("pause", "script", "collect")

(* provision, with what collect returned. *)
Result(line) ==
  CASE line # "end"                       -> "garbled"
    [] line = "end" /\ exitStatus # 0     -> "exit"
    [] OTHER                              -> IF gotKey THEN "ready" ELSE "no_key"

(* A plausible bug: collect does not wait for BEGIN. *)
TakeAny ==
  LET line == Head(lines) IN
  /\ host = "collect" /\ lines # <<>> /\ lines' = Tail(lines)
  /\ \/ line \in {"end", "end_and_more", "echo"} /\ host' = Result(line) /\ UNCHANGED gotKey
     \/ line \in {"noise", "begin", "key"} /\ gotKey' = (gotKey \/ line = "key") /\ UNCHANGED host
  /\ UNCHANGED <<guestVars, input, wire, closed, login, started, fault>>

(* Before BEGIN everything is skipped, the echo too; then it is output, up  *)
(* to a line with END and a number.                                         *)
Take ==
  LET line == Head(lines) IN
  /\ host = "collect" /\ lines # <<>> /\ lines' = Tail(lines)
  /\ \/ ~started /\ started' = (line = "begin") /\ UNCHANGED <<host, gotKey>>
     \/ /\ started /\ line \in {"end", "end_and_more", "echo"}
        /\ host' = Result(line) /\ UNCHANGED <<started, gotKey>>
     \/ /\ started /\ line \in {"noise", "begin", "key"}
        /\ gotKey' = (gotKey \/ line = "key") /\ UNCHANGED <<host, started>>
  /\ UNCHANGED <<guestVars, input, wire, closed, login, fault>>

TakeClosed ==
  /\ lines = <<>> /\ closed /\ HostGoes("collect", "closed")
  /\ UNCHANGED <<guestVars, input, wire, lines, closed, login, started, gotKey, fault>>

(* BootTimeout, SetupTimeout, or the caller's context. *)
TimesOut ==
  /\ host \in {"await", "pause", "collect"}
  /\ host' = "timeout" /\ fault' = fault \cup {"timeout"}
  /\ UNCHANGED <<guestVars, input, wire, lines, closed, login, started, gotKey>>

GuestGoesOn == Prompt \/ LogIn \/ HandOver \/ ReadLine \/ Begin \/ PrintKey \/ StepFails \/ End
Reader      == Read \/ Close
HostGoesOn  == AwaitLogin \/ SendRoot \/ SendScript \/ Take \/ TakeClosed

ConsoleNext == GuestGoesOn \/ Chat \/ Hangs \/ Dies \/ Reader \/ HostGoesOn \/ TimesOut

ConsoleSpec == ConsoleInit /\ [][ConsoleNext]_consoleVars

(* The goroutines run, and a guest that has not hung goes on.  No timeout   *)
(* is needed for what follows, and none is assumed to pass.                 *)
ConsoleFairSpec ==
  /\ ConsoleSpec
  /\ WF_consoleVars(GuestGoesOn) /\ WF_consoleVars(Reader) /\ WF_consoleVars(HostGoesOn)

(***************************************************************************)
(* Properties.                                                             *)
(***************************************************************************)

(* What provision makes of the script is what became of it: it goes on to   *)
(* ssh only with the host key of a script that ended well, reports an exit  *)
(* status only when that was the status, and everything else it may report  *)
(* has a cause: a line that was lost or broken, or a guest that is dead; of *)
(* one that died inside the line with END the status cannot be read.        *)
ReportsTheScript ==
  /\ host = "ready"  => guest \in {"idle", "hung", "dead"} /\ exitStatus = 0
  /\ host = "exit"   => exitStatus # 0
  /\ host = "no_key" => fault \cap {"dropped", "noise"} # {}
  /\ host = "garbled" => fault \cap {"noise", "died"} # {}
  /\ host \in {"closed", "write"} => "died" \in fault

(* However much the guest prints while it boots and nobody reads, the setup *)
(* ends without a timeout, unless the prompt, a sentinel or the typed line  *)
(* itself is hit (serial.go:81-82, 108-110).                                *)
Resynchronizes == <>(Over \/ fault # {})
=============================================================================
