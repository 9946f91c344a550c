-------------------------------- MODULE MCCnupm --------------------------------
(* Instances of CnupmDump for TLC: switches of the command line. *)
EXTENDS CnupmDump

\* The switches of bee-cnupmstart.sh, and -k.
Started == {[fork |-> FALSE, empty |-> TRUE]}
StartedOrForking == Started \cup {[fork |-> TRUE, empty |-> FALSE]}
===============================================================================
