-------------------------------- MODULE MCAccess -------------------------------
(***************************************************************************)
(* Small instances of gates and permission updates for TLC.                *)
(***************************************************************************)
EXTENDS BeeAccess, TLC

CONSTANTS s1, s2, n1, n2

Symmetry == Permutations(Sessions)

Acc(no, tag, bal) == [no |-> no, tag |-> tag, bal |-> bal, tcredit |-> 0, res |-> 0]
Net(a, b) == [addr |-> a, bits |-> b]
Gate(res, uid, acc, name) == [res |-> res, uid |-> uid, acc |-> acc, name |-> name]
Cmd(op, res, acc, by, name) ==
    [op |-> op, res |-> res, acc |-> acc, by |-> by, name |-> name]

\* Two accounts; a block of two addresses and a mail name belong to the first.
TwoAccs == <<Acc(1, {}, 5), Acc(2, {}, 0)>>
TwoGates == <<Gate("inet", 0, 1, Net(0, 1)), Gate("mail", 0, 1, n1)>>
Switches == {[tag |-> {}, bal |-> 0], [tag |-> {"OFF"}, bal |-> 5], [tag |-> {"UNLIMIT"}, bal |-> 0]}

\* Addresses inside, next to and around the block, one given with a length that
\* wraps, deletion with and without a name, by number and by name.
GateCmds == {Cmd("addgate", "inet", 2, AnyName, Net(1, 2)),
             Cmd("addgate", "inet", 2, AnyName, Net(2, 258)),
             Cmd("addgate", "inet", 2, AnyName, Net(0, 0)),
             Cmd("addgate", "mail", 2, AnyName, n2),
             Cmd("delgate", "inet", 1, AnyName, AnyName),
             Cmd("delgate", "mail", 1, n1, n1),
             Cmd("new_vpn", "adder", 0, n2, Net(2, 1)),
             Cmd("new_contract", "adder", 0, n2, AnyName)}

\* Gate and account changes that the second of two updates has to know of.
StaleCmds == {Cmd("addgate", "inet", 2, AnyName, Net(2, 2))}
===============================================================================
