------------------------------ MODULE BeeAccount ------------------------------
(***************************************************************************)
(* The account record of the bee billing core, the status acci_get() gives *)
(* it and the arithmetic of one transaction (lib/db/acc.c, core/core.c).   *)
(*                                                                         *)
(* Money is counted in hundredths, so the code's "balance < 0.01" is       *)
(* "bal < 1" here.  Record fields that no transaction reads (PAYMAN tag,   *)
(* start/stop dates, monthly counters, time stamps, CRC) are left out.     *)
(***************************************************************************)
EXTENDS Integers

CONSTANT DefaultLimit       \* tariffs_limit[].min of the account's tariff
ASSUME LimitAssumption == DefaultLimit \in Int

Tags == {"DELETED", "BROKEN", "FROZEN", "OFF", "UNLIMIT", "RES", "LOG"}

AccRec == [no : Nat, tag : SUBSET Tags, bal : Int, tcredit : Int, res : Int]

\* Result codes of acci_get() and of the operations built on it.
Valid     == {"SUCCESS", "NEGATIVE", "ACC_UNLIMIT"}          \* rc >= 0
Invalid   == {"NOT_FOUND", "ACC_DELETED", "ACC_BROKEN", "ACC_FROZEN",
              "ACC_OFF", "IO_ERROR", "ACC_NOCHARGE"}         \* rc < 0
Codes     == Valid \cup Invalid

\* acc_t with every byte zero, the record a command hands to acc_add().
ZeroAcc == [no |-> 0, tag |-> {}, bal |-> 0, tcredit |-> 0, res |-> 0]

\* The order of the tests is the code's: an earlier flag hides a later one.
acci_get(file, n) ==
    IF n \notin DOMAIN file THEN "NOT_FOUND"
    ELSE LET a == file[n] IN
         IF "DELETED" \in a.tag THEN "ACC_DELETED"
         ELSE IF "BROKEN" \in a.tag THEN "ACC_BROKEN"
         ELSE IF "FROZEN" \in a.tag THEN "ACC_FROZEN"
         ELSE IF "OFF" \in a.tag THEN "ACC_OFF"
         ELSE IF a.no # n THEN "ACC_BROKEN"
         ELSE IF "UNLIMIT" \in a.tag THEN "ACC_UNLIMIT"
         ELSE IF a.bal < 1 THEN "NEGATIVE"
         ELSE "SUCCESS"

\* The copy acci_get() leaves in the caller's buffer: a record that does not
\* carry its own number is marked broken there, not in the file.
Loaded(file, n) ==
    IF /\ file[n].no # n
       /\ file[n].tag \cap {"DELETED", "BROKEN", "FROZEN", "OFF"} = {}
    THEN [file[n] EXCEPT !.tag = @ \cup {"BROKEN"}]
    ELSE file[n]

\* The status codes whose record is written back by a transaction ...
Writable(rc) == rc \in Valid \cup {"ACC_OFF"}

\* Mutant: an unlimited account pays for traffic.
MutantApplies(rc, resid) == Writable(rc)

\* ... and those whose balance the transaction changes.
Applies(rc, resid) ==
    \/ rc \in {"SUCCESS", "NEGATIVE", "ACC_OFF"}
    \/ rc = "ACC_UNLIMIT" /\ resid = "ADDER"

\* The least balance that still gives access: the temporary credit if one is
\* set, otherwise the limit of the account's tariff.
acc_limit(a) == IF a.tcredit # 0 THEN a.tcredit ELSE DefaultLimit

accs_state(a) == IF a.bal < acc_limit(a) + 1 THEN "NEGATIVE" ELSE "SUCCESS"

\* What "add <acc> <sum> <limit>" really adds; limit 0 means no limit.
AdderSum(bal, sum, limit) ==
    IF limit # 0 /\ bal + sum > limit THEN limit - bal ELSE sum
===============================================================================
