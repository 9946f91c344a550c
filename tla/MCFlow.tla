--------------------------------- MODULE MCFlow --------------------------------
(***************************************************************************)
(* Small instances of the flow table for TLC.                              *)
(***************************************************************************)
EXTENDS FlowTable, TLC

CONSTANTS c1, c2, c3, k1, k2, k3

Cmd(op, flush, append, size) ==
    [op |-> op, flush |-> flush, append |-> append, size |-> size]

Symmetry == Permutations(Callers) \cup Permutations(Keys)

\* Every command, and sizes that are too small, too large, or refused while the
\* table is full.
AllCmds == {Cmd("flush", FALSE, FALSE, 0), Cmd("poll", FALSE, FALSE, 0),
            Cmd("show", FALSE, FALSE, 0), Cmd("show", TRUE, FALSE, 0),
            Cmd("save", TRUE, TRUE, 0), Cmd("save", FALSE, FALSE, 0),
            Cmd("load", TRUE, FALSE, 0), Cmd("load", FALSE, FALSE, 0)}
           \cup {Cmd("flows", FALSE, FALSE, size) : size \in 0 .. 4}
===============================================================================
