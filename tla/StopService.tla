----------------------------- MODULE StopService -----------------------------
(***************************************************************************)
(* What `lmnt stop` promises, without files, locks or polling.             *)
(*                                                                         *)
(* A mount attaches its disk to a guest at most once and detaches it once, *)
(* or its owner dies and leaves it behind.  It may be held to its disk, by *)
(* a user, a guest or an engine that keeps it waiting, and need not ever   *)
(* get away from there.  A command undertakes to stop some mounts, asks    *)
(* each of them, and reports "Stopped" only when none of them is attached  *)
(* to a guest that somebody still looks after.  Because a mount never      *)
(* attaches again, the report stays true.                                  *)
(***************************************************************************)
CONSTANTS Session, Client

VARIABLES
  phase,     \* the disk of a mount
  subject,   \* the mounts a command has undertaken to stop
  asked,     \* the mounts that have been asked to stop
  reported   \* the commands that have reported "Stopped"

vars == <<phase, subject, asked, reported>>

Attached == {"attached", "held"}
Gone     == {"detached", "abandoned"}

Init ==
  /\ phase = [s \in Session |-> "absent"]
  /\ subject = [c \in Client |-> {}]
  /\ asked = {}
  /\ reported = {}

Attach(s) ==
  /\ phase[s] = "absent"
  /\ \E p \in Attached : phase' = [phase EXCEPT ![s] = p]
  /\ UNCHANGED <<subject, asked, reported>>

(* It begins to be held, or is let go.                                      *)
Hold(s) ==
  /\ phase[s] \in Attached
  /\ \E p \in Attached : phase' = [phase EXCEPT ![s] = p]
  /\ UNCHANGED <<subject, asked, reported>>

Detach(s) ==
  /\ phase[s] \in {"absent"} \cup Attached
  /\ phase' = [phase EXCEPT ![s] = "detached"]
  /\ UNCHANGED <<subject, asked, reported>>

Abandon(s) ==
  /\ phase[s] # "abandoned"
  /\ phase' = [phase EXCEPT ![s] = "abandoned"]
  /\ UNCHANGED <<subject, asked, reported>>

Undertake(c, ids) ==
  /\ subject[c] = {} /\ ids # {}
  /\ subject' = [subject EXCEPT ![c] = ids]
  /\ UNCHANGED <<phase, asked, reported>>

Ask(c, s) ==
  /\ s \in subject[c]
  /\ asked' = asked \cup {s}
  /\ UNCHANGED <<phase, subject, reported>>

Report(c) ==
  /\ subject[c] # {}
  /\ \A s \in subject[c] : s \in asked /\ phase[s] \in Gone
  /\ reported' = reported \cup {c}
  /\ UNCHANGED <<phase, subject, asked>>

Next ==
  \/ \E s \in Session : Attach(s) \/ Hold(s) \/ Detach(s) \/ Abandon(s)
  \/ \E c \in Client : \/ Report(c)
                       \/ \E s \in Session : Ask(c, s)
                       \/ \E ids \in SUBSET Session : Undertake(c, ids)

Spec == Init /\ [][Next]_vars

(* A mount that has been asked to stop gets to know: it detaches, or is held *)
(* to its disk by what keeps it waiting, and no request is lost on it.      *)
Fairness ==
  \A s \in Session :
    WF_vars(s \in asked /\ phase[s] \in {"absent", "attached"}
              /\ (Hold(s) \/ Detach(s) \/ Abandon(s)))

FairSpec == Spec /\ Fairness
=============================================================================
