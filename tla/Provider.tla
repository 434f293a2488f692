------------------------------ MODULE Provider ------------------------------
(***************************************************************************)
(* What the interface provider.Provider promises of any guest, as its      *)
(* comments put it (internal/provider/provider.go:19-47).                  *)
(*                                                                         *)
(* There is at most one guest in the life of a provider.  Start returns an *)
(* error only when the guest is torn down and Exited is closed.  Exited is *)
(* closed once, when the guest is gone, and Err is settled by then.  Who   *)
(* has been told that the guest is gone can rely on it.                    *)
(***************************************************************************)
VARIABLES
  guest,    \* the guest: not started yet, running, or gone
  start,    \* what Start has returned
  exited,   \* whether Exited is closed
  err,      \* what Err reports
  told      \* whether the caller has been told that all is over

vars == <<guest, start, exited, err, told>>

Init ==
  /\ guest = "absent" /\ start = "pending"
  /\ exited = FALSE /\ err = "nil" /\ told = FALSE

Boot ==
  /\ guest = "absent" /\ start = "pending" /\ ~exited
  /\ guest' = "running"
  /\ UNCHANGED <<start, exited, err, told>>

Ready ==
  /\ start = "pending" /\ guest # "absent"
  /\ start' = "ready"
  /\ UNCHANGED <<guest, exited, err, told>>

Die ==
  /\ guest = "running"
  /\ guest' = "gone"
  /\ UNCHANGED <<start, exited, err, told>>

Close ==
  /\ ~exited /\ guest # "running"
  /\ exited' = TRUE
  /\ err' \in {"nil", "error"}
  /\ UNCHANGED <<guest, start, told>>

(* A Start that fails closes Exited itself when nobody has.                 *)
Fail ==
  /\ start = "pending" /\ guest # "running"
  /\ start' = "failed" /\ told' = TRUE
  /\ exited' = TRUE
  /\ UNCHANGED <<guest, err>>

Tell ==
  /\ start = "ready" /\ exited /\ ~told
  /\ told' = TRUE
  /\ UNCHANGED <<guest, start, exited, err>>

Next == Boot \/ Ready \/ Die \/ Close \/ Fail \/ Tell

Spec == Init /\ [][Next]_vars
=============================================================================
