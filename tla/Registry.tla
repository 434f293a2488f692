------------------------------ MODULE Registry ------------------------------
(***************************************************************************)
(* The session registry that background mounts, `lmnt mounts`, `lmnt stop` *)
(* and the TUI share (internal/datadir/sessions.go), the owner of a        *)
(* session that publishes and withdraws its record around the life of its  *)
(* guest (internal/cli/session.go, drive and publish), and the commands    *)
(* that list sessions and ask them to stop (internal/cli/mounts.go).       *)
(*                                                                         *)
(* The registry is a directory of files no process coordinates: for a      *)
(* session, <id>.json (the record), <id>.lock (a file its owner holds an   *)
(* exclusive flock on) and <id>.stop (a stop request).  Every file         *)
(* operation is a step of its own and the processes interleave freely.     *)
(***************************************************************************)
CONSTANTS
  Session,    \* the sessions; an id is random and has one owner in its life
  Client,     \* processes that run `lmnt mounts` or `lmnt stop`, once each
  Crashable,  \* the sessions whose owner may be killed (SIGKILL, OOM)
  NoSession   \* what a client between two directory entries is looking at

ASSUME RegistryAssumption ==
  /\ Crashable \subseteq Session
  /\ NoSession \notin Session

VARIABLES
  owner,      \* where the owner of a session is in drive()
  cancelled,  \* whether the context of a session has been cancelled
  guest,      \* whether a guest with the disk attached is running
  record,     \* the content of <id>.json, "none" when there is no file
  lockFile,   \* whether <id>.lock exists
  flock,      \* whether the owner holds the exclusive lock on it
  stop,       \* whether <id>.stop exists
  pc,         \* where a client is
  todo,       \* the entries of its directory listing a client has yet to look at
  cur,        \* the entry a client is looking at
  live,       \* the sessions the current listing of a client found alive so far
  wanted,     \* the sessions a client has undertaken to stop
  unasked,    \* those of them it has not written a stop request for yet
  unchecked,  \* those of them it has not looked up yet in this pass
  pending     \* whether this pass has found one of them alive

files      == <<record, lockFile, stop>>
ownerVars  == <<owner, cancelled, guest, flock>>
clientVars == <<pc, todo, cur, live, wanted, unasked, unchecked, pending>>
vars == <<ownerVars, files, clientVars>>

-----------------------------------------------------------------------------
(* The points of drive() an owner can be at, in the order it passes them. *)

Unpublished == {"new", "cleared", "opened", "locked", "written"}
Running     == {"published", "booting", "up", "rewritten", "serving", "stopping"}
Releasing   == {"stopped", "unrecorded", "unstopped", "unlinked"}
Over        == {"done", "crashed"}
OwnerPoint  == Unpublished \cup Running \cup Releasing \cup Over \cup {"unregistered"}

(* The content of a record: its Mounted field tells booting from mounted.  *)
Readable == {"booting", "mounted"}

Verdict     == {"listed", "stopped", "gaveUp", "killed"}
Scanning    == {"entry", "probe", "unlock", "stat", "pid", "rmRecord", "rmLock", "rmStop"}
ClientPoint == {"idle", "await", "ask"} \cup Scanning \cup Verdict

TypeOK ==
  /\ owner \in [Session -> OwnerPoint]
  /\ cancelled \in [Session -> BOOLEAN]
  /\ guest \in [Session -> BOOLEAN]
  /\ record \in [Session -> {"none"} \cup Readable]
  /\ lockFile \in [Session -> BOOLEAN]
  /\ flock \in [Session -> BOOLEAN]
  /\ stop \in [Session -> BOOLEAN]
  /\ pc \in [Client -> ClientPoint]
  /\ todo \in [Client -> SUBSET Session]
  /\ cur \in [Client -> Session \cup {NoSession}]
  /\ live \in [Client -> SUBSET Session]
  /\ wanted \in [Client -> SUBSET Session]
  /\ unasked \in [Client -> SUBSET Session]
  /\ unchecked \in [Client -> SUBSET Session]
  /\ pending \in [Client -> BOOLEAN]

Init ==
  /\ owner = [s \in Session |-> "new"]
  /\ cancelled = [s \in Session |-> FALSE]
  /\ guest = [s \in Session |-> FALSE]
  /\ record = [s \in Session |-> "none"]
  /\ lockFile = [s \in Session |-> FALSE]
  /\ flock = [s \in Session |-> FALSE]
  /\ stop = [s \in Session |-> FALSE]
  /\ pc = [c \in Client |-> "idle"]
  /\ todo = [c \in Client |-> {}]
  /\ cur = [c \in Client |-> NoSession]
  /\ live = [c \in Client |-> {}]
  /\ wanted = [c \in Client |-> {}]
  /\ unasked = [c \in Client |-> {}]
  /\ unchecked = [c \in Client |-> {}]
  /\ pending = [c \in Client |-> FALSE]

-----------------------------------------------------------------------------
(* The owner of a session: session.drive.  The context is only looked at   *)
(* once the guest is being started, so a cancelled owner still publishes.  *)

(* An action that moves only the owner of s along and leaves its files alone. *)
Moves(s, from, to) ==
  /\ owner[s] = from
  /\ owner' = [owner EXCEPT ![s] = to]

(* dir.ClearStop(s.id), then the stop watcher starts.                       *)
ClearStale(s) ==
  /\ Moves(s, "new", "cleared")
  /\ stop' = [stop EXCEPT ![s] = FALSE]
  /\ UNCHANGED <<cancelled, guest, flock, record, lockFile, clientVars>>

(* A plausible bug: the record is saved before the lock is taken.           *)
SaveBeforeLock(s) ==
  /\ Moves(s, "cleared", "opened")
  /\ lockFile' = [lockFile EXCEPT ![s] = TRUE]
  /\ record' = [record EXCEPT ![s] = "booting"]
  /\ UNCHANGED <<cancelled, guest, flock, stop, clientVars>>

(* LockFile: create the lock file, then flock(LOCK_EX|LOCK_NB) it, which a  *)
(* reader that is probing the file at this moment makes fail.               *)
OpenLock(s) ==
  /\ Moves(s, "cleared", "opened")
  /\ lockFile' = [lockFile EXCEPT ![s] = TRUE]
  /\ UNCHANGED <<cancelled, guest, flock, record, stop, clientVars>>

Probed(s) == \E c \in Client : pc[c] = "unlock" /\ cur[c] = s

TakeLock(s) ==
  /\ owner[s] = "opened"
  /\ flock' = [flock EXCEPT ![s] = ~Probed(s)]
  /\ owner' = [owner EXCEPT ![s] = IF Probed(s) THEN "unregistered" ELSE "locked"]
  /\ UNCHANGED <<cancelled, guest, files, clientVars>>

(* A plausible bug: the record is rewritten in place, not renamed into it.  *)
WriteInPlace(s) ==
  /\ \/ Moves(s, "locked", "written")
     \/ Moves(s, "up", "rewritten")
  /\ record' = [record EXCEPT ![s] = "partial"]
  /\ UNCHANGED <<cancelled, guest, flock, lockFile, stop, clientVars>>

(* SaveSession: the record goes to a temporary file, which a rename puts in *)
(* place whole.  A failure makes publish release what it holds.             *)
WriteTemporary(s) ==
  /\ \/ Moves(s, "locked", "written")
     \/ Moves(s, "up", "rewritten")
  /\ UNCHANGED <<cancelled, guest, flock, files, clientVars>>

Rename(s) ==
  /\ \/ Moves(s, "written", "published") /\ record' = [record EXCEPT ![s] = "booting"]
     \/ Moves(s, "rewritten", "serving") /\ record' = [record EXCEPT ![s] = "mounted"]
  /\ UNCHANGED <<cancelled, guest, flock, lockFile, stop, clientVars>>

(* publish releases and gives up; UpdateSession only warns.                 *)
SaveFails(s) ==
  /\ \/ owner[s] \in {"locked", "written"}
        /\ owner' = [owner EXCEPT ![s] = "stopped"]
     \/ owner[s] \in {"up", "rewritten"}
        /\ owner' = [owner EXCEPT ![s] = "serving"]
  /\ UNCHANGED <<cancelled, guest, flock, files, clientVars>>

(* The runner starts the guest with the disk attached; Start can also fail  *)
(* before there is one.                                                     *)
Boot(s) ==
  /\ Moves(s, "published", "booting")
  /\ guest' = [guest EXCEPT ![s] = TRUE]
  /\ UNCHANGED <<cancelled, flock, files, clientVars>>

StartFails(s) ==
  /\ Moves(s, "published", "stopped")
  /\ UNCHANGED <<cancelled, guest, flock, files, clientVars>>

(* A plausible bug: a stale stop request is cleared once the guest is up.   *)
ClearStaleLate(s) ==
  /\ Moves(s, "booting", "up")
  /\ ~cancelled[s] /\ guest[s]
  /\ stop' = [stop EXCEPT ![s] = FALSE]
  /\ UNCHANGED <<cancelled, guest, flock, record, lockFile, clientVars>>

(* The task has mounted the file system and goes on to update the record.   *)
Mount(s) ==
  /\ Moves(s, "booting", "up")
  /\ ~cancelled[s] /\ guest[s]
  /\ UNCHANGED <<cancelled, guest, flock, files, clientVars>>

(* The session ends: Start or the task fails while it prepares the guest,   *)
(* or the context is cancelled or the guest exits, at any point.            *)
End(s) ==
  /\ \/ owner[s] \in {"booting", "up"}
     \/ owner[s] = "serving" /\ (cancelled[s] \/ ~guest[s])
  /\ owner' = [owner EXCEPT ![s] = "stopping"]
  /\ UNCHANGED <<cancelled, guest, flock, files, clientVars>>

(* A plausible bug: Stop timing out is taken for the end of the guest.      *)
StopWithoutExit(s) ==
  /\ Moves(s, "stopping", "stopped")
  /\ UNCHANGED <<cancelled, guest, flock, files, clientVars>>

(* p.Stop and <-p.Exited() in RunContext: the guest is gone.                *)
GuestStopped(s) ==
  /\ Moves(s, "stopping", "stopped")
  /\ guest' = [guest EXCEPT ![s] = FALSE]
  /\ UNCHANGED <<cancelled, flock, files, clientVars>>

(* The deferred release of LockSession: DeleteSession removes the record,   *)
(* then the stop request; then the lock file goes and the lock with it.     *)
RemoveRecord(s) ==
  /\ Moves(s, "stopped", "unrecorded")
  /\ record' = [record EXCEPT ![s] = "none"]
  /\ UNCHANGED <<cancelled, guest, flock, lockFile, stop, clientVars>>

ClearStop(s) ==
  /\ Moves(s, "unrecorded", "unstopped")
  /\ stop' = [stop EXCEPT ![s] = FALSE]
  /\ UNCHANGED <<cancelled, guest, flock, record, lockFile, clientVars>>

RemoveLock(s) ==
  /\ Moves(s, "unstopped", "unlinked")
  /\ lockFile' = [lockFile EXCEPT ![s] = FALSE]
  /\ UNCHANGED <<cancelled, guest, flock, record, stop, clientVars>>

Unlock(s) ==
  /\ Moves(s, "unlinked", "done")
  /\ flock' = [flock EXCEPT ![s] = FALSE]
  /\ UNCHANGED <<cancelled, guest, files, clientVars>>

(* The stop watcher of a session: a tick that finds the stop file cancels   *)
(* the session's context.  It runs until drive has returned.                *)
Watch(s) ==
  /\ owner[s] \notin {"new"} \cup Over \cup {"unregistered"}
  /\ stop[s] /\ ~cancelled[s]
  /\ cancelled' = [cancelled EXCEPT ![s] = TRUE]
  /\ UNCHANGED <<owner, guest, flock, files, clientVars>>

(* Ctrl+C in the terminal of the owner, or the end of its process group.    *)
Interrupt(s) ==
  /\ owner[s] \in Running
  /\ ~cancelled[s]
  /\ cancelled' = [cancelled EXCEPT ![s] = TRUE]
  /\ UNCHANGED <<owner, guest, flock, files, clientVars>>

(* The guest exits by itself, whether or not its owner is there to see it.  *)
GuestExits(s) ==
  /\ guest[s]
  /\ guest' = [guest EXCEPT ![s] = FALSE]
  /\ UNCHANGED <<owner, cancelled, flock, files, clientVars>>

(* The owner is killed: its files stay, the system drops its lock, and a    *)
(* guest, which runs in a process group of its own or in the container      *)
(* engine, lives on.                                                        *)
Crash(s) ==
  /\ s \in Crashable
  /\ owner[s] \notin {"new", "unregistered"} \cup Over
  /\ owner' = [owner EXCEPT ![s] = "crashed"]
  /\ flock' = [flock EXCEPT ![s] = FALSE]
  /\ UNCHANGED <<cancelled, guest, files, clientVars>>

Proceed(s) ==
  \/ ClearStale(s) \/ OpenLock(s) \/ TakeLock(s)
  \/ WriteTemporary(s) \/ Rename(s)
  \/ Boot(s) \/ Mount(s) \/ End(s) \/ GuestStopped(s)
  \/ RemoveRecord(s) \/ ClearStop(s) \/ RemoveLock(s) \/ Unlock(s)

Environment(s) ==
  \/ SaveFails(s) \/ StartFails(s)
  \/ Interrupt(s) \/ GuestExits(s) \/ Crash(s)

-----------------------------------------------------------------------------
(* Listing the sessions: Sessions() reads the directory once and then looks *)
(* at its records one by one, in steps that interleave with everyone else.  *)

Goes(c, from, to) ==
  /\ pc[c] = from
  /\ pc' = [pc EXCEPT ![c] = to]

(* os.ReadDir.  A pass over the sessions to stop that found one of them     *)
(* alive starts again here, a tick later.                                   *)
ReadDir(c) ==
  /\ \/ pc[c] = "idle"
     \/ pc[c] = "await" /\ (unchecked[c] # {} \/ pending[c])
  /\ pc' = [pc EXCEPT ![c] = "entry"]
  /\ todo' = [todo EXCEPT ![c] = {s \in Session : record[s] # "none"}]
  /\ live' = [live EXCEPT ![c] = {}]
  /\ unchecked' = [unchecked EXCEPT ![c] = IF @ = {} THEN wanted[c] ELSE @]
  /\ pending' = [pending EXCEPT ![c] = @ /\ unchecked[c] # {}]
  /\ UNCHANGED <<ownerVars, files, cur, wanted, unasked>>

(* os.ReadFile and Unmarshal: a record that has gone or that is not one is  *)
(* skipped.                                                                 *)
ReadRecord(c, s) ==
  /\ pc[c] = "entry" /\ s \in todo[c]
  /\ todo' = [todo EXCEPT ![c] = @ \ {s}]
  /\ IF record[s] \in Readable
       THEN /\ pc' = [pc EXCEPT ![c] = "probe"]
            /\ cur' = [cur EXCEPT ![c] = s]
       ELSE UNCHANGED <<pc, cur>>
  /\ UNCHANGED <<ownerVars, files, live, wanted, unasked, unchecked, pending>>

(* The session under scrutiny goes on the list, or not; on to the next one. *)
Conclude(c, alive) ==
  /\ pc' = [pc EXCEPT ![c] = "entry"]
  /\ live' = [live EXCEPT ![c] = IF alive THEN @ \cup {cur[c]} ELSE @]
  /\ cur' = [cur EXCEPT ![c] = NoSession]
  /\ UNCHANGED <<ownerVars, todo, wanted, unasked, unchecked, pending>>

(* FileLocked: the owner's lock makes flock(LOCK_SH|LOCK_NB) fail.  On a    *)
(* file nobody has locked it succeeds, and is held for a moment.            *)
ProbeLock(c) ==
  /\ pc[c] = "probe"
  /\ IF lockFile[cur[c]] /\ flock[cur[c]]
       THEN Conclude(c, TRUE) /\ UNCHANGED files
       ELSE /\ pc' = [pc EXCEPT ![c] = IF lockFile[cur[c]] THEN "unlock" ELSE "stat"]
            /\ UNCHANGED <<ownerVars, files, todo, cur, live, wanted, unasked,
                           unchecked, pending>>

DropProbe(c) ==
  /\ Goes(c, "unlock", "stat")
  /\ UNCHANGED <<ownerVars, files, todo, cur, live, wanted, unasked, unchecked, pending>>

(* A plausible bug: whether the owner lives is asked of its PID alone.      *)
AskPIDOnly(c) ==
  /\ pc[c] = "stat"
  /\ pc' = [pc EXCEPT ![c] = "pid"]
  /\ UNCHANGED <<ownerVars, files, todo, cur, live, wanted, unasked, unchecked, pending>>

(* sessionAlive: a lock file nobody holds means that the owner is gone.     *)
StatLock(c) ==
  /\ pc[c] = "stat"
  /\ pc' = [pc EXCEPT ![c] = IF lockFile[cur[c]] THEN "rmRecord" ELSE "pid"]
  /\ UNCHANGED <<ownerVars, files, todo, cur, live, wanted, unasked, unchecked, pending>>

(* ProcessAlive, when there is no lock file.  The PID of an owner that is   *)
(* over may still be there, or be another process by now.                   *)
ProbePID(c) ==
  /\ pc[c] = "pid"
  /\ \/ Conclude(c, TRUE) /\ UNCHANGED files
     \/ /\ owner[cur[c]] \in Over
        /\ pc' = [pc EXCEPT ![c] = "rmRecord"]
        /\ UNCHANGED <<ownerVars, files, todo, cur, live, wanted, unasked,
                       unchecked, pending>>

(* The files of a session whose owner is gone are removed one by one.       *)
PruneRecord(c) ==
  /\ Goes(c, "rmRecord", "rmLock")
  /\ record' = [record EXCEPT ![cur[c]] = "none"]
  /\ UNCHANGED <<ownerVars, lockFile, stop, todo, cur, live, wanted, unasked,
                 unchecked, pending>>

PruneLock(c) ==
  /\ Goes(c, "rmLock", "rmStop")
  /\ lockFile' = [lockFile EXCEPT ![cur[c]] = FALSE]
  /\ UNCHANGED <<ownerVars, record, stop, todo, cur, live, wanted, unasked,
                 unchecked, pending>>

PruneStop(c) ==
  /\ pc[c] = "rmStop"
  /\ stop' = [stop EXCEPT ![cur[c]] = FALSE]
  /\ Conclude(c, FALSE)
  /\ UNCHANGED <<record, lockFile>>

-----------------------------------------------------------------------------
(* The commands, around their listings.                                     *)

(* `lmnt mounts` prints the listing; `lmnt stop` ends here too when nothing *)
(* runs or an id it was given is not on the list.                           *)
Finish(c) ==
  /\ Goes(c, "entry", "listed")
  /\ todo[c] = {} /\ wanted[c] = {}
  /\ UNCHANGED <<ownerVars, files, todo, cur, live, wanted, unasked, unchecked, pending>>

(* `lmnt stop` goes on with the ids it was given, or --all of them.         *)
Undertake(c, ids) ==
  /\ Goes(c, "entry", "ask")
  /\ todo[c] = {} /\ wanted[c] = {}
  /\ ids # {} /\ ids \subseteq live[c]
  /\ wanted' = [wanted EXCEPT ![c] = ids]
  /\ unasked' = [unasked EXCEPT ![c] = ids]
  /\ unchecked' = [unchecked EXCEPT ![c] = ids]
  /\ live' = [live EXCEPT ![c] = {}]
  /\ UNCHANGED <<ownerVars, files, todo, cur, pending>>

(* RequestStop for each id in turn; awaitStopped comes next.                *)
RequestStop(c, s) ==
  /\ pc[c] = "ask" /\ s \in unasked[c]
  /\ stop' = [stop EXCEPT ![s] = TRUE]
  /\ unasked' = [unasked EXCEPT ![c] = @ \ {s}]
  /\ pc' = [pc EXCEPT ![c] = IF unasked[c] = {s} THEN "await" ELSE "ask"]
  /\ UNCHANGED <<ownerVars, record, lockFile, todo, cur, live, wanted, unchecked, pending>>

(* A plausible bug: only the last session that was looked up counts.        *)
LookUpForgets(c, s) ==
  /\ Goes(c, "entry", "await")
  /\ todo[c] = {} /\ s \in unchecked[c]
  /\ unchecked' = [unchecked EXCEPT ![c] = @ \ {s}]
  /\ pending' = [pending EXCEPT ![c] = s \in live[c]]
  /\ live' = [live EXCEPT ![c] = {}]
  /\ UNCHANGED <<ownerVars, files, todo, cur, wanted, unasked>>

(* findSession: each id is looked up in a listing of its own.               *)
LookUp(c, s) ==
  /\ Goes(c, "entry", "await")
  /\ todo[c] = {} /\ s \in unchecked[c]
  /\ unchecked' = [unchecked EXCEPT ![c] = @ \ {s}]
  /\ pending' = [pending EXCEPT ![c] = @ \/ s \in live[c]]
  /\ live' = [live EXCEPT ![c] = {}]
  /\ UNCHANGED <<ownerVars, files, todo, cur, wanted, unasked>>

(* A pass that found none of them alive: "Stopped".                         *)
ReportStopped(c) ==
  /\ Goes(c, "await", "stopped")
  /\ unchecked[c] = {} /\ ~pending[c]
  /\ UNCHANGED <<ownerVars, files, todo, cur, live, wanted, unasked, unchecked, pending>>

(* The deadline of awaitStopped, or Ctrl+C while it waits.                  *)
GiveUp(c) ==
  /\ Goes(c, "await", "gaveUp")
  /\ unchecked[c] = {} /\ pending[c]
  /\ UNCHANGED <<ownerVars, files, todo, cur, live, wanted, unasked, unchecked, pending>>

(* A client can be killed anywhere, half way through pruning included.      *)
Killed(c) ==
  /\ pc[c] \notin Verdict \cup {"idle"}
  /\ pc' = [pc EXCEPT ![c] = "killed"]
  /\ todo' = [todo EXCEPT ![c] = {}]
  /\ cur' = [cur EXCEPT ![c] = NoSession]
  /\ live' = [live EXCEPT ![c] = {}]
  /\ UNCHANGED <<ownerVars, files, wanted, unasked, unchecked, pending>>

Step(c) ==
  \/ ReadDir(c) \/ ProbeLock(c) \/ DropProbe(c) \/ StatLock(c) \/ ProbePID(c)
  \/ PruneRecord(c) \/ PruneLock(c) \/ PruneStop(c)
  \/ Finish(c) \/ ReportStopped(c)
  \/ \E s \in Session : ReadRecord(c, s) \/ RequestStop(c, s) \/ LookUp(c, s)

Choice(c) ==
  \/ GiveUp(c) \/ Killed(c)
  \/ \E ids \in SUBSET Session : Undertake(c, ids)

Next ==
  \/ \E s \in Session : Proceed(s) \/ Watch(s) \/ Environment(s)
  \/ \E c \in Client : Step(c) \/ Choice(c)

Spec == Init /\ [][Next]_vars

(* Where an owner may have to wait for ever, whatever its context says: for *)
(* a task that reads a passphrase from the terminal (luks.go:22-32), for a  *)
(* guest that is frozen when it is to power off (machine.go:434-441), for a *)
(* container that docker stop has failed to stop (provider.go:135).         *)
Waits(s) == owner[s] = "booting" \/ (owner[s] = "stopping" /\ guest[s])

(* The owner, where it need not wait, its watcher and a running command     *)
(* keep taking their steps.  Nobody has to type a command, a passphrase or  *)
(* Ctrl+C, no guest has to go, and nothing has to crash, fail or reach a    *)
(* deadline.                                                                *)
Fairness ==
  /\ \A s \in Session : WF_vars(~Waits(s) /\ Proceed(s)) /\ WF_vars(Watch(s))
  /\ \A c \in Client : WF_vars(pc[c] # "idle" /\ Step(c))

FairSpec == Spec /\ Fairness

-----------------------------------------------------------------------------
(* Properties.                                                              *)

(* The record of a session covers its guest: as long as a guest has the     *)
(* disk and its owner lives, the record can be read and its lock is held,   *)
(* so that every listing reports the mount and no listing ever prunes it    *)
(* (session.go:317-320, sessions.go:320-343).                               *)
RecordCoversGuest ==
  \A s \in Session :
    guest[s] /\ owner[s] # "crashed" => record[s] \in Readable /\ lockFile[s] /\ flock[s]

(* A `lmnt stop` that reports success has stopped what it was asked to:     *)
(* none of its mounts still has the disk in the guest of a living owner     *)
(* (mounts.go:162-163).                                                     *)
StoppedIsStopped ==
  \A c \in Client : pc[c] = "stopped" =>
    \A s \in wanted[c] : guest[s] => owner[s] = "crashed"

(* The shared lock that a listing takes for a moment never makes a mount    *)
(* that is starting fail to register (sessions.go:119, hostos.go:153).      *)
NeverRefused == \A s \in Session : owner[s] # "unregistered"

(* A stop request is not lost: the file goes only when the owner has        *)
(* stopped its guest, or is dead (sessions.go:142, session.go:310).         *)
StopHeeded ==
  [][\A s \in Session : stop[s] /\ ~stop'[s] => owner[s] \in Releasing \cup Over]_vars

(* A listing that comes upon the record of a crashed owner prunes it unless *)
(* it is killed first, even when another process has taken over the PID     *)
(* (sessions.go:105-107).                                                   *)
CrashedIsPruned ==
  \A s \in Session, c \in Client :
    (owner[s] = "crashed" /\ s \in todo[c]) ~> (record[s] = "none" \/ pc[c] = "killed")

(* A mount that was told to stop and is held up on the way.                 *)
HeldUp(s) == cancelled[s] /\ Waits(s)

(* `lmnt stop` comes to an end by itself, without its deadline: the mounts  *)
(* it asked get to know, go away, and it notices.  Only one that was told   *)
(* and waits for ever, for its user, a frozen guest or a container, keeps   *)
(* it from ending (mounts.go:170-196).                                      *)
StopEnds ==
  \A c \in Client :
    pc[c] = "ask" ~> (pc[c] \in Verdict \/ [](\E s \in wanted[c] : HeldUp(s)))

(* Why these hold: an inductive invariant.  What an owner has published is  *)
(* determined by where it is, and what a client believes of a session is    *)
(* backed by the session having got at least that far.                      *)
Seen      == Running \cup Releasing \cup Over
Withdrawn == Releasing \cup Over

OwnerInv ==
  \A s \in Session :
    /\ record[s] # "none" => owner[s] \in Running \cup {"stopped", "crashed"}
    /\ owner[s] \in Running => record[s] # "none"
    /\ flock[s] <=> owner[s] \in {"locked", "written"} \cup Running \cup Releasing
    /\ lockFile[s] => owner[s] # "unlinked"
    /\ owner[s] \in {"opened", "locked", "written"} \cup Running \cup (Releasing \ {"unlinked"})
         => lockFile[s]
    /\ guest[s] => owner[s] \in (Running \ {"published"}) \cup {"crashed"}
    /\ stop[s] => owner[s] \in Seen
    /\ owner[s] # "unregistered"

Backing == [probe    |-> Seen,                  unlock |-> Over,
            stat     |-> {"unlinked"} \cup Over, pid    |-> {"unlinked"} \cup Over,
            rmRecord |-> Over,                  rmLock |-> Over,
            rmStop   |-> Over]

ScanInv ==
  \A c \in Client :
    /\ pc[c] \in DOMAIN Backing => cur[c] \in Session /\ owner[cur[c]] \in Backing[pc[c]]
    /\ pc[c] \notin DOMAIN Backing => cur[c] = NoSession
    /\ \A s \in todo[c] \cup live[c] \cup wanted[c] : owner[s] \in Seen
    /\ pc[c] \in Scanning =>
         \A s \in wanted[c] : s \in todo[c] \cup live[c] \cup {cur[c]} \/ owner[s] \in Withdrawn

StopInv ==
  \A c \in Client :
    /\ unasked[c] \cup unchecked[c] \subseteq wanted[c]
    /\ pc[c] = "idle" => wanted[c] = {}
    /\ pc[c] \in {"await", "stopped"} => wanted[c] # {}
    /\ pc[c] \in {"idle", "await", "stopped"} \cup Scanning => unasked[c] = {}
    /\ ~pending[c] => \A s \in wanted[c] \ unchecked[c] : owner[s] \in Withdrawn
    /\ pc[c] = "stopped" => unchecked[c] = {} /\ ~pending[c]

IInv == TypeOK /\ OwnerInv /\ ScanInv /\ StopInv

(* The registry and the commands implement the promise of StopService.      *)
Asked == UNION {wanted[c] \ unasked[c] : c \in Client}
PhaseOf(s) ==
  IF owner[s] = "crashed" THEN "abandoned"
  ELSE IF owner[s] \in Unpublished \cup {"published"} THEN "absent"
  ELSE IF ~guest[s] THEN "detached"
  ELSE IF HeldUp(s) THEN "held" ELSE "attached"
Phase == [s \in Session |-> PhaseOf(s)]

Service == INSTANCE StopService WITH
  phase <- Phase, subject <- wanted, asked <- Asked,
  reported <- {c \in Client : pc[c] = "stopped"}

Implements       == Service!Spec
ImplementsFairly == Service!FairSpec

(* sessions_test.go: "A session that exits must leave no stop request       *)
(* behind for the next one", read once nobody is in the middle of writing.  *)
NoStopLeftBehind ==
  \A s \in Session :
    owner[s] = "done" /\ (\A c \in Client : pc[c] # "ask") => ~stop[s]
=============================================================================
