----------------------------- MODULE MCRegistry -----------------------------
(***************************************************************************)
(* The registry for TLC: two mounts and one command at a time, or one      *)
(* mount and two commands.  The mounts are interchangeable when all or     *)
(* none of their owners may crash, and so are the commands; the runs that  *)
(* check liveness do without the symmetry.                                 *)
(***************************************************************************)
EXTENDS Registry, TLC

CONSTANTS s1, s2, c1, c2

TwoMounts   == {s1, s2}
OneMount    == {s1}
OneCommand  == {c1}
TwoCommands == {c1, c2}

SomeMounts == Permutations(TwoMounts)
=============================================================================
