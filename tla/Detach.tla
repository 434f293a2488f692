------------------------------- MODULE Detach -------------------------------
(***************************************************************************)
(* A background mount (internal/cli/detach.go, run.go, session.go, the     *)
(* start sequences of internal/share): the parent, `lmnt run --detach` or  *)
(* the wizard of `lmnt tui`, collects the secrets its child is going to    *)
(* ask for, writes them into a pipe one line each, and then waits for the  *)
(* child to publish a mounted record, to end, or for a deadline.  The      *)
(* child reads a line wherever a terminal session would ask its user.      *)
(*                                                                         *)
(* Time passes in units of 15 seconds, the budget of a quick guest         *)
(* command; it is counted only while the parent waits.                     *)
(***************************************************************************)
EXTENDS Naturals, Sequences, SequencesExt

CONSTANTS
  Backends,       \* the share protocols that are tried: of "smb", "ftp", "sftp"
  BootTimeout,    \* --boot-timeout
  SetupTimeout    \* --setup-timeout

ASSUME DetachAssumption ==
  /\ Backends \subseteq {"smb", "ftp", "sftp"}
  /\ BootTimeout \in Nat \ {0} /\ SetupTimeout \in Nat \ {0}

VARIABLES
  kind,     \* whose child it is: "run" or "tui"
  provider, \* where the guest of the child runs: "qemu" or "docker"
  wanted,   \* the secrets the options call for
  backend,  \* the share protocol
  parent,   \* what the parent is at
  todo,     \* the secrets it has still to ask its user for
  secrets,  \* the secrets it has still to write
  report,   \* what it has told its user
  seen,     \* awaitMount: the record has been there before
  pipe,     \* the lines that wait in the child's stdin
  open,     \* whether the parent's end of that pipe is open
  child,    \* what the child is at
  left,     \* the steps before it, the first one is under way
  got,      \* got[k]: what the child has read for secret k
  record,   \* its record: "none", "booting", "mounted"
  clock,    \* how long the parent has waited
  since,    \* how long the child's step has taken
  slow,     \* history: the time spent in steps that are not the boot or the setup
  did       \* history: the steps the child has done

spec == <<kind, provider, wanted, backend>>
parentVars == <<parent, todo, secrets, report, seen>>
childVars == <<child, left, got, record, did>>
timeVars == <<clock, since, slow>>
vars == <<spec, parentVars, pipe, open, childVars, timeVars>>

Secret == {"share", "container", "volume"}

If(w, s) == IF w THEN s ELSE <<>>

(* A plausible bug: the passphrases are asked for from the inside out.       *)
InnermostFirst(w) ==
  If("share" \in w, <<"share">>) \o If("volume" \in w, <<"volume">>)
    \o If("container" \in w, <<"container">>)

(* The secrets in the order `lmnt run --detach` asks for them ...            *)
RunOrder(w) ==
  If("share" \in w, <<"share">>) \o If("container" \in w, <<"container">>)
    \o If("volume" \in w, <<"volume">>)

(* ... and in the order the wizard hands over those it has collected.        *)
TuiOrder(w) ==
  If("share" \in w, <<"share">>) \o If("container" \in w, <<"container">>)
    \o If("volume" \in w, <<"volume">>)

(* The options of the child's command line that make it ask, the ones the    *)
(* user typed or the ones rendered from the wizard's form; secrets are not   *)
(* among them.                                                               *)
mountArgs(w) ==
  {"--ask-share-password" : k \in w \cap {"share"}}
    \cup {"--luks-container" : k \in w \cap {"container"}}
    \cup {"--luks" : k \in w \cap {"volume"}}

(* What run makes of them.                                                   *)
Wants(args) ==
  {"share" : a \in args \cap {"--ask-share-password"}}
    \cup {"container" : a \in args \cap {"--luks-container", "--luks-container-entire-drive"}}
    \cup {"volume" : a \in args \cap {"--luks"}}

(* What Start of each backend does in the guest.                             *)
SmbSteps  == <<"user", "config", "samba", "smbpasswd">>
FtpSteps  == <<"user", "chpasswd", "config", "vsftpd">>
SftpSteps == <<"user", "chpasswd", "config", "host_keys", "sshd">>

ShareSteps(b) == CASE b = "smb" -> SmbSteps [] b = "ftp" -> FtpSteps [] b = "sftp" -> SftpSteps

(* The wait for a secret comes right before the step that uses it.           *)
MountSteps(w) ==
  If("container" \in w, <<"ask_container", "open_container", "lvm_in_container">>)
    \o If("volume" \in w, <<"ask_volume", "open_volume">>)
    \o <<"mount">>

(* What a session does before and while its guest boots: checkTargetAccess,  *)
(* runQEMU or runDocker, and drive.  Start of a container is one step, with  *)
(* the build of its image.                                                   *)
SessionSteps(p) ==
  IF p = "qemu" THEN <<"check_target", "prepare", "publish", "boot", "setup", "lvm">>
                ELSE <<"check_target", "prepare", "publish", "start", "lvm">>

(* Both devices go through CheckDevice before anything is asked about them.  *)
DeviceSteps == <<"check_devices">>

(* A plausible bug: the record says mounted before the share is started.     *)
SavesFirst(p, w, b) ==
  <<"plan">> \o If("share" \in w, <<"ask_share">>)
    \o SessionSteps(p) \o DeviceSteps \o MountSteps(w) \o <<"save">> \o ShareSteps(b)

(* run in the child, from its start to the record of the mounted session.    *)
Steps(p, w, b) ==
  <<"plan">> \o If("share" \in w, <<"ask_share">>)
    \o SessionSteps(p) \o DeviceSteps \o MountSteps(w) \o ShareSteps(b) \o <<"save">>

Asks == [s \in {"ask_share", "ask_container", "ask_volume"} |->
           CASE s = "ask_share" -> "share"
             [] s = "ask_container" -> "container"
             [] s = "ask_volume" -> "volume"]

IsAsking == child = "running" /\ left # <<>> /\ Head(left) \in DOMAIN Asks

(* Steps without a limit: a read from the pipe; what comes before the record, *)
(* with the download of the firmware; the start of a container, which heeds   *)
(* neither of the two timeouts; writing the record.                           *)
Unbounded ==
  DOMAIN Asks \cup {"plan", "check_target", "prepare", "publish", "start", "check_devices", "save"}

(* The timeouts of the others, in units: LUKSTimeout is a minute, Timeout    *)
(* one unit.                                                                 *)
Limit(s) ==
  CASE s = "boot" -> BootTimeout
    [] s = "setup" -> SetupTimeout
    [] s \in {"open_container", "open_volume"} -> 4
    [] OTHER -> 1

Minute == 4

(* A plausible bug: the setup is not allowed for.                            *)
BootAndAMinute == BootTimeout + Minute

Deadline == SetupTimeout + BootTimeout + Minute

Init ==
  /\ kind \in {"run", "tui"} /\ provider \in {"qemu", "docker"}
  /\ wanted \in SUBSET Secret
  /\ backend \in Backends
  /\ IF kind = "run"
       THEN parent = "collecting" /\ todo = RunOrder(wanted) /\ secrets = <<>>
       ELSE parent = "spawning" /\ todo = <<>> /\ secrets = TuiOrder(wanted)
  /\ report = "none" /\ seen = FALSE
  /\ pipe = <<>> /\ open = TRUE
  /\ child = "unborn" /\ left = <<>> /\ record = "none"
  /\ got = [k \in Secret |-> "nothing"]
  /\ clock = 0 /\ since = 0 /\ slow = 0
  /\ did = {}

(***************************************************************************)
(* The parent.                                                             *)
(***************************************************************************)
Over(r) == parent' = "over" /\ report' = r

(* collectPassphrases: one prompt after the other on the parent's terminal. *)
Collect ==
  /\ parent = "collecting" /\ todo # <<>>
  /\ secrets' = Append(secrets, Head(todo))
  /\ todo' = Tail(todo)
  /\ UNCHANGED <<spec, parent, report, seen, pipe, open, childVars, timeVars>>

CollectFails ==
  /\ parent = "collecting" /\ todo # <<>>
  /\ Over("cancelled")
  /\ secrets' = <<>>
  /\ UNCHANGED <<spec, todo, seen, pipe, open, childVars, timeVars>>

(* The child works out for itself, from its arguments, what it will ask.    *)
Spawn ==
  /\ parent = "spawning" \/ (parent = "collecting" /\ todo = <<>>)
  /\ parent' = "writing"
  /\ child' = "running" /\ left' = Steps(provider, Wants(mountArgs(wanted)), backend)
  /\ UNCHANGED <<spec, todo, secrets, report, seen, pipe, open, got, record, did, timeVars>>

SpawnFails ==
  /\ parent = "spawning" \/ (parent = "collecting" /\ todo = <<>>)
  /\ Over("failed")
  /\ UNCHANGED <<spec, todo, secrets, seen, pipe, open, childVars, timeVars>>

(* writePassphrases. *)
WriteLine ==
  /\ parent = "writing" /\ secrets # <<>> /\ child # "gone"
  /\ pipe' = Append(pipe, Head(secrets))
  /\ secrets' = Tail(secrets)
  /\ UNCHANGED <<spec, parent, todo, report, seen, open, childVars, timeVars>>

(* Its deferred Close, at the end of the lines or when the pipe is broken. *)
ClosePipe ==
  /\ parent = "writing" /\ (secrets = <<>> \/ child = "gone")
  /\ open' = FALSE /\ parent' = "waiting"
  /\ UNCHANGED <<spec, todo, secrets, report, seen, pipe, childVars, timeVars>>

(* A record is listed while its owner lives (Registry). *)
Listed == record # "none" /\ child # "gone"

(* findSession, in every round of awaitShare and awaitMount. *)
FindMounted ==
  /\ parent = "waiting" /\ Listed /\ record = "mounted"
  /\ Over("up")
  /\ UNCHANGED <<spec, todo, secrets, seen, pipe, open, childVars, timeVars>>

FindBooting ==
  /\ parent = "waiting" /\ kind = "tui" /\ Listed /\ record = "booting"
  /\ seen' = TRUE
  /\ UNCHANGED <<spec, parent, todo, secrets, report, pipe, open, childVars, timeVars>>

FindFails ==
  /\ parent = "waiting"
  /\ Over("failed")
  /\ UNCHANGED <<spec, todo, secrets, seen, pipe, open, childVars, timeVars>>

(* awaitShare has the child's exit status, awaitMount goes by the record. *)
FindStopped ==
  /\ parent = "waiting"
  /\ \/ kind = "run" /\ child = "gone"
     \/ kind = "tui" /\ seen /\ ~Listed
  /\ Over("stopped")
  /\ UNCHANGED <<spec, todo, secrets, seen, pipe, open, childVars, timeVars>>

Late ==
  /\ parent = "waiting" /\ clock = Deadline
  /\ Over("late")
  /\ UNCHANGED <<spec, todo, secrets, seen, pipe, open, childVars, timeVars>>

(* Ctrl+C, or the TUI quits: the parent's end of the pipe closes with it; its *)
(* child has a process group of its own and does not notice.                  *)
ParentKilled ==
  /\ parent # "over"
  /\ Over("killed")
  /\ open' = FALSE
  /\ UNCHANGED <<spec, todo, secrets, seen, pipe, childVars, timeVars>>

(***************************************************************************)
(* The child.                                                              *)
(***************************************************************************)
Advance ==
  /\ left' = Tail(left)
  /\ did' = did \cup {Head(left)}
  /\ since' = 0

AtStep == child = "running" /\ left # <<>>

(* stdinPrompt: the next line, whatever it was written for. *)
Answer ==
  /\ IsAsking /\ pipe # <<>>
  /\ got' = [got EXCEPT ![Asks[Head(left)]] = Head(pipe)]
  /\ pipe' = Tail(pipe)
  /\ Advance
  /\ UNCHANGED <<spec, parentVars, open, child, record, clock, slow>>

(* A task that fails, or a session that is asked to stop, shuts its guest down. *)
ShutsDown ==
  /\ child' = "stopping" /\ since' = 0
  /\ UNCHANGED <<spec, parentVars, pipe, open, left, got, record, did, clock, slow>>

(* A plausible bug: the end of the lines is taken for one that is still to come. *)
ReadAgain == IsAsking /\ pipe = <<>> /\ ~open /\ UNCHANGED vars

(* A plausible bug: the end of the lines is taken for an empty passphrase.   *)
EmptyAtEnd ==
  /\ IsAsking /\ pipe = <<>> /\ ~open
  /\ got' = [got EXCEPT ![Asks[Head(left)]] = "empty"]
  /\ Advance
  /\ UNCHANGED <<spec, parentVars, pipe, open, child, record, clock, slow>>

(* The end of the lines: "a passphrase it was not given". *)
NoAnswer == IsAsking /\ pipe = <<>> /\ ~open /\ ShutsDown

(* The steps of the guest, and what comes before it. *)
Step ==
  /\ AtStep /\ Head(left) \notin DOMAIN Asks \cup {"publish", "save"}
  /\ Advance
  /\ UNCHANGED <<spec, parentVars, pipe, open, child, got, record, clock, slow>>

(* session.publish *)
Publish ==
  /\ AtStep /\ Head(left) = "publish"
  /\ record' = "booting"
  /\ Advance
  /\ UNCHANGED <<spec, parentVars, pipe, open, child, got, clock, slow>>

(* env.UpdateSession: a record that cannot be saved is a warning, the share  *)
(* stays up.                                                                 *)
Save ==
  /\ AtStep /\ Head(left) = "save"
  /\ record' = "mounted" \/ UNCHANGED record
  /\ child' = "serving"
  /\ Advance
  /\ UNCHANGED <<spec, parentVars, pipe, open, got, clock, slow>>

Fail == child \in {"running", "serving"} /\ ~IsAsking /\ ShutsDown

TimeOut ==
  /\ AtStep /\ Head(left) \notin Unbounded /\ since = Limit(Head(left))
  /\ ShutsDown

(* The record goes after the guest, the process with it. *)
Exit ==
  /\ child = "stopping"
  /\ child' = "gone" /\ record' = "none"
  /\ UNCHANGED <<spec, parentVars, pipe, open, left, got, did, timeVars>>

Crash ==
  /\ child \in {"running", "serving", "stopping"}
  /\ child' = "gone"
  /\ UNCHANGED <<spec, parentVars, pipe, open, left, got, record, did, timeVars>>

(***************************************************************************)
(* A unit of time passes.  The parent looks many times in one, and a step  *)
(* of the child does not outlast its limit.                                *)
(***************************************************************************)
ParentIsBusy ==
  \/ Listed /\ record = "mounted"
  \/ kind = "run" /\ child = "gone"
  \/ kind = "tui" /\ ((Listed /\ ~seen) \/ (seen /\ ~Listed))

Tick ==
  /\ parent = "waiting" /\ clock < Deadline /\ ~ParentIsBusy
  /\ AtStep /\ Head(left) \notin Unbounded => since < Limit(Head(left))
  /\ clock' = clock + 1
  /\ since' = IF AtStep /\ Head(left) \notin Unbounded THEN since + 1 ELSE 0
  /\ slow' = IF AtStep /\ Head(left) \in {"boot", "setup"} THEN slow ELSE slow + 1
  /\ UNCHANGED <<spec, parentVars, pipe, open, childVars>>

ParentStep ==
  \/ Collect \/ CollectFails \/ Spawn \/ SpawnFails \/ WriteLine \/ ClosePipe
  \/ FindMounted \/ FindBooting \/ FindFails \/ FindStopped \/ Late \/ ParentKilled

ChildStep ==
  Answer \/ NoAnswer \/ Step \/ Publish \/ Save \/ Fail \/ TimeOut \/ Exit \/ Crash

Next == ParentStep \/ ChildStep \/ Tick

(* The parent writes and polls, the child reads, and timeouts fire; nobody   *)
(* has to type a passphrase, to get on with a boot, or to shut down.         *)
Fairness ==
  /\ WF_vars(WriteLine) /\ WF_vars(ClosePipe)
  /\ WF_vars(Late)
  /\ WF_vars(Answer) /\ WF_vars(NoAnswer)
  /\ WF_vars(TimeOut)
  /\ WF_vars(FindMounted) /\ WF_vars(FindBooting) /\ WF_vars(FindStopped)
  /\ WF_vars(Tick)

Spec == Init /\ [][Next]_vars /\ Fairness

(***************************************************************************)
(* Properties.                                                             *)
(***************************************************************************)
TypeOK ==
  /\ kind \in {"run", "tui"} /\ provider \in {"qemu", "docker"}
  /\ wanted \subseteq Secret /\ backend \in Backends
  /\ parent \in {"collecting", "spawning", "writing", "waiting", "over"}
  /\ todo \in Seq(Secret) /\ secrets \in Seq(Secret) /\ pipe \in Seq(Secret)
  /\ report \in {"none", "cancelled", "failed", "up", "stopped", "late", "killed"}
  /\ seen \in BOOLEAN /\ open \in BOOLEAN
  /\ child \in {"unborn", "running", "serving", "stopping", "gone"}
  /\ IsSuffix(left, Steps(provider, wanted, backend))
  /\ did \subseteq ToSet(Steps(provider, wanted, backend))
  /\ got \in [Secret -> Secret \cup {"nothing"}]
  /\ record \in {"none", "booting", "mounted"}
  /\ clock \in 0..Deadline /\ since \in 0..Deadline /\ slow \in 0..Deadline

(* Every prompt of the child is answered with the secret its user typed for   *)
(* it, and none is left over for no one, whichever of them the options want   *)
(* (collectPassphrases and startMount against run and guest.Mount).           *)
RightSecret ==
  /\ \A k \in Secret : got[k] \in {"nothing", k}
  /\ child = "serving" => pipe = <<>> /\ \A k \in wanted : got[k] = k

(* "up" is told only of a mount whose disk is mounted and whose share runs    *)
(* with its password set; "stopped" only of one that has withdrawn its record *)
(* or is gone (awaitShare, awaitMount).                                       *)
ReportIsTrue ==
  /\ report = "up" =>
       {"mount"} \cup ToSet(ShareSteps(backend)) \subseteq did
  /\ report = "stopped" => child = "gone"

(* "did not come up in time" is told only when a minute or more was not spent *)
(* on the boot or the setup of a machine, for which the user has set limits   *)
(* of their own (the deadline of awaitShare).  The start of a container has   *)
(* no limit (session.go:150-171) and counts as time spent elsewhere: it may   *)
(* take all of the deadline by itself.                                        *)
LateMeansSlow == report = "late" => slow >= Minute

(* Nobody waits for ever: a child that asks is answered or ends, even when    *)
(* its parent is killed with lines still to write (writePassphrases,          *)
(* stdinPrompt), and a parent that waits tells its user something in the end  *)
(* (awaitShare, awaitMount).                                                  *)
NobodyWaits ==
  /\ IsAsking ~> ~IsAsking
  /\ parent = "waiting" ~> parent = "over"
=============================================================================
