------------------------------- MODULE MCFlowIface ------------------------------
(***************************************************************************)
(* Small instances of the interface processes for TLC.                     *)
(***************************************************************************)
EXTENDS FlowIface, TLC

CONSTANTS c1, c2, d1, d2, em0, em1

\* Every property holds, by what it says, from the moment calls have met: TLC goes
\* no further there.
UntilTheyMeet == settled
===============================================================================
