------------------------------ MODULE MCPorts ------------------------------
(* Three mounts and a few ports: a needs one port, b and c need several in a row. *)
EXTENDS Ports, TLC

CONSTANTS a, b, c

MCNeed == (a :> 1) @@ (b :> 2) @@ (c :> 2)
=============================================================================
