------------------------------ MODULE MCLayers ------------------------------
(* Instances of Layers for TLC.                                             *)
EXTENDS Layers, TLC

CONSTANTS g1, g2

TwoGuests == {g1, g2}
AnyOrder  == Permutations(TwoGuests)

(* A disk with a plain file system, a LUKS volume, logical volumes in a     *)
(* LUKS container, and an encrypted one among them; one to be made.         *)
Errands ==
  {[job |-> "run", disk |-> d] : d \in {{}, {"volume"}, {"container", "lvm"}, Mapped}} \cup
  {[job |-> "ls", disk |-> {"container", "lvm"}], [job |-> "create", disk |-> {"volume"}]}
=============================================================================
