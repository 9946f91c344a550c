--------------------------------- MODULE MCBee ---------------------------------
(***************************************************************************)
(* Small instances of the billing core for TLC.  Each cfg names the        *)
(* commands its clients may send and the accounts that exist.              *)
(***************************************************************************)
EXTENDS BeeAudit, TLC

CONSTANTS s1, s2, s3

Cmd(op, acc, x, y) == [op |-> op, acc |-> acc, x |-> x, y |-> y]
Acc(no, tag, bal)  == [no |-> no, tag |-> tag, bal |-> bal, tcredit |-> 0, res |-> 0]

Symmetry == Permutations(Sessions)

NoCards   == << >>
TwoCards  == <<2, 3>>
NoFees    == {0}
DailyFees == {0, 3}

\* One account near zero: credit up to a limit or by a part of what is there,
\* traffic, the daily charge, a pay card, holds, a correction, new accounts, and
\* a client that keeps both files to itself.
LedgerAccs == <<Acc(1, {}, 1)>>
LedgerCmds == {Cmd("add", 1, 3, 3), Cmd("res", 1, 2, 0), Cmd("res", 2, 1, 0),
               Cmd("freeze", 1, 0, 0), Cmd("unfreeze", 1, 0, 0),
               Cmd("fix", 1, 5, 1), Cmd("setcredit", 1, 4, 0), Cmd("new", 0, 0, 0),
               Cmd("charge", 0, 0, 0), Cmd("card", 1, 0, 1), Cmd("add_part", 1, 2, 0),
               Cmd("lock", 0, 0, 0), Cmd("unlock", 0, 0, 0)}

\* Two accounts, the first with its records logged when sums are zero, the
\* second with a wrong internal number; two-way traffic, the unlimited mode, the
\* recovery and new accounts, with a crash or an I/O error anywhere.
AuditAccs == <<Acc(1, {"RES", "LOG"}, 4), Acc(3, {"OFF"}, 2)>>
AuditCmds == {Cmd("bires", 1, 1, 2), Cmd("unlimit", 1, 0, 0), Cmd("fix", 2, 7, 1),
              Cmd("new", 0, 0, 0)}

\* A negative account at the end of the file, and the daily charge.
ChargeAccs == <<Acc(1, {}, 4), Acc(2, {}, -1)>>
ChargeCmds == {Cmd("charge", 0, 0, 0), Cmd("res", 1, 2, 0)}

\* An account that is off, the switches, and traffic.
OffAccs == <<Acc(1, {"OFF"}, 4)>>
OffCmds == {Cmd("off", 1, 0, 0), Cmd("on", 1, 0, 0), Cmd("unlimit", 1, 0, 0),
            Cmd("res", 1, 2, 0)}
===============================================================================
