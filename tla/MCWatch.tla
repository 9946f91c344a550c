-------------------------------- MODULE MCWatch --------------------------------
(* Instances of SshWatch for TLC. *)
EXTENDS SshWatch
===============================================================================
