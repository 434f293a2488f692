------------------------------ MODULE Download ------------------------------
(***************************************************************************)
(* Fetching a pinned asset into the data directory                         *)
(* (internal/datadir/download.go).  The body goes to <name>.part and is    *)
(* renamed to <name> when its digest is the pinned one.  The names belong  *)
(* to whoever uses the directory: another lmnt process may fetch the same  *)
(* asset, and a process that is killed leaves its partial file behind.     *)
(***************************************************************************)
EXTENDS Integers

CONSTANTS
  Proc,      \* lmnt processes that need the asset
  MaxFile,   \* the partial files that are created, a bound for the checker
  Nobody     \* the author of a file that has not come to be

ASSUME DownloadAssumption == MaxFile \in Nat

VARIABLES
  stage,     \* where a process is in ensure()
  own,       \* the file a process has open for writing, 0 when none
  written,   \* what has been written to each file that was ever created
  created,   \* how many there are
  part,      \* the file <name>.part names, 0 when there is none
  dst,       \* the file <name> names, 0 when there is none
  author,    \* history: who created a file
  placer     \* history: who put the file at <name>

placeVars == <<dst, placer>>
downloadVars == <<stage, own, written, created, part, placeVars, author>>

DownloadInit ==
  /\ stage = [p \in Proc |-> "idle"] /\ own = [p \in Proc |-> 0]
  /\ written = [f \in 1..MaxFile |-> "empty"]
  /\ created = 0 /\ part = 0 /\ dst = 0
  /\ author = [f \in 1..MaxFile |-> Nobody] /\ placer = Nobody

Proceeds(p, from, to) == stage[p] = from /\ stage' = [stage EXCEPT ![p] = to]

(* A process asks for the asset, or asks again.                             *)
Begin(p) ==
  /\ stage[p] \in {"idle", "ok", "failed"} /\ created < MaxFile
  /\ stage' = [stage EXCEPT ![p] = "stat"]
  /\ UNCHANGED <<own, written, created, part, placeVars, author>>

(* A file that is there is verified, one that is not is fetched.            *)
Stat(p) ==
  /\ Proceeds(p, "stat", IF dst = 0 THEN "discard"
                         ELSE IF written[dst] = "whole" THEN "ok" ELSE "failed")
  /\ UNCHANGED <<own, written, created, part, placeVars, author>>

(* A plausible bug: a partial file of an earlier attempt is left there.     *)
KeepPartial(p) ==
  /\ Proceeds(p, "discard", "get")
  /\ UNCHANGED <<own, written, created, part, placeVars, author>>

Discard(p) ==
  /\ Proceeds(p, "discard", "get")
  /\ part' = 0
  /\ UNCHANGED <<own, written, created, placeVars, author>>

Get(p) ==
  /\ stage[p] = "get"
  /\ stage' \in {[stage EXCEPT ![p] = next] : next \in {"create", "failed"}}
  /\ UNCHANGED <<own, written, created, part, placeVars, author>>

(* O_EXCL: the partial file must be new.                                    *)
Create(p) ==
  /\ created < MaxFile
  /\ IF part # 0
       THEN Proceeds(p, "create", "failed") /\ UNCHANGED <<own, created, part, author>>
       ELSE /\ Proceeds(p, "create", "receive")
            /\ created' = created + 1
            /\ part' = created' /\ own' = [own EXCEPT ![p] = created']
            /\ author' = [author EXCEPT ![created'] = p]
  /\ UNCHANGED <<written, placeVars>>

(* io.Copy, into the file and the digest; the server may send anything.     *)
Receive(p, what) ==
  /\ \/ Proceeds(p, "receive", "receive") /\ written[own[p]] = "empty" /\ what = "half"
     \/ Proceeds(p, "receive", "check") /\ written[own[p]] = "half" /\ what \in {"whole", "bad"}
  /\ written' = [written EXCEPT ![own[p]] = what]
  /\ UNCHANGED <<own, created, part, placeVars, author>>

(* The connection breaks, the context is cancelled, or the disk is full.    *)
ReceiveFails(p) ==
  /\ Proceeds(p, "receive", "cleanup")
  /\ UNCHANGED <<own, written, created, part, placeVars, author>>

(* A plausible bug: the digest is not looked at.                            *)
SkipCheck(p) ==
  /\ Proceeds(p, "check", "rename")
  /\ UNCHANGED <<own, written, created, part, placeVars, author>>

(* The digest of the stream, which is what this process wrote.              *)
Check(p) ==
  /\ Proceeds(p, "check", IF written[own[p]] = "whole" THEN "rename" ELSE "cleanup")
  /\ UNCHANGED <<own, written, created, part, placeVars, author>>

(* Sync, close and rename, by name.                                         *)
Rename(p) ==
  /\ Proceeds(p, "rename", IF part = 0 THEN "cleanup" ELSE "ok")
  /\ IF part = 0 THEN UNCHANGED <<own, part, placeVars>>
     ELSE dst' = part /\ placer' = p /\ part' = 0 /\ own' = [own EXCEPT ![p] = 0]
  /\ UNCHANGED <<written, created, author>>

(* The deferred close, and removal of the partial file by its name.         *)
Cleanup(p) ==
  /\ Proceeds(p, "cleanup", "failed")
  /\ part' = 0 /\ own' = [own EXCEPT ![p] = 0]
  /\ UNCHANGED <<written, created, placeVars, author>>

(* The process is killed and started again.                                 *)
Crash(p) ==
  /\ stage[p] \notin {"idle", "ok", "failed"}
  /\ stage' = [stage EXCEPT ![p] = "idle"] /\ own' = [own EXCEPT ![p] = 0]
  /\ UNCHANGED <<written, created, part, placeVars, author>>

(* The user deletes the asset, to have it downloaded again.                 *)
Delete ==
  /\ dst # 0
  /\ dst' = 0
  /\ UNCHANGED <<stage, own, written, created, part, author, placer>>

DownloadNext ==
  \/ \E p \in Proc :
       \/ Begin(p) \/ Stat(p) \/ Discard(p) \/ Get(p) \/ Create(p)
       \/ \E what \in {"half", "whole", "bad"} : Receive(p, what)
       \/ ReceiveFails(p) \/ Check(p) \/ Rename(p) \/ Cleanup(p) \/ Crash(p)
  \/ Delete

DownloadSpec == DownloadInit /\ [][DownloadNext]_downloadVars

-----------------------------------------------------------------------------
(* Properties.                                                              *)

(* Only a file whose digest matched is in place (download.go:48-49: "only    *)
(* when the digest matches is the file renamed to dst"), so that a process   *)
(* that is told to go ahead finds a good one; except that the partial file   *)
(* has one name for all processes, and one of them may have renamed, after   *)
(* its own digest matched, the file that another was writing.                *)
VerifiedInPlace == dst # 0 /\ written[dst] # "whole" => placer # author[dst]

(* What an earlier attempt of a process left behind, at whatever point it    *)
(* was killed, does not keep the next from starting over (download.go:53-57);*)
(* only a file that another process has created since then does.             *)
StartsOver == \A p \in Proc : stage[p] = "create" /\ part # 0 => author[part] # p
=============================================================================
