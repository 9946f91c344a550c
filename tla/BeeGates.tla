------------------------------- MODULE BeeGates -------------------------------
(***************************************************************************)
(* Gates of the bee billing core (lib/db/links.c): which resource identity *)
(* (mail box, login, inet address) belongs to which account.  This module  *)
(* has the table and its operations; BeeAccess has the processes.          *)
(*                                                                         *)
(* The code has addresses of 32 bits; here they have Width bits.  A gate   *)
(* of an address resource is named by the block it stands for, as the text *)
(* "addr/bits" that reslink_new() and reslinks_load() make of every name.  *)
(***************************************************************************)
EXTENDS Integers, SequencesExt

CONSTANTS Width,            \* bits of an address
          Names,            \* names of gates of resources without addresses
          AnyName           \* a name left out of a command
ASSUME WidthAssumption == Width \in Nat /\ Width <= 32

Resources == {"inet", "mail", "adder", "intra", "list", "login", "label", "maxrate"}
fAddr(res) == res = "inet"
\* The resources with a count procedure, the only ones permissions are written for.
Counted == {"inet", "mail", "adder", "intra"}

Block == [addr : 0 .. 2^Width - 1, bits : 0 .. Width]
Ident == Block \cup Names
GateRec == [res : Resources, uid : Nat, acc : Nat, name : Ident]

\* Number of one bits of the mask: zero in records without an address.
Bits(l) == IF fAddr(l.res) THEN l.name.bits ELSE 0

Prefix(a, bits) == a \div 2^(Width - bits)

\* lookup_baddr(): blocks of zero bits never match.
Matches(l, a) == Bits(l) # 0 /\ Prefix(l.name.addr, Bits(l)) = Prefix(a, Bits(l))

\* lookup_intersect() compares under the shorter of the two masks, and skips
\* table entries with an empty mask (but not a new block with one).
Intersects(l, new) ==
    /\ Bits(l) # 0
    /\ LET short == IF Bits(l) < new.bits THEN Bits(l) ELSE new.bits
       IN Prefix(l.name.addr, short) = Prefix(new.addr, short)

\* make_addrandmask(): the length is kept in a signed char before it is checked,
\* and an address with bits outside its mask is refused.
make_addrandmask(given) ==
    LET bits == ((given.bits + 128) % 256) - 128 IN
    IF bits \in 0 .. Width /\ given.addr % 2^(Width - bits) = 0
    THEN {[addr |-> given.addr, bits |-> bits]}
    ELSE {}

\* The table a process gets from reslinks_load(): each gate of the file, those
\* that intersect an earlier one disabled.
reslinks_load(links) ==
    [i \in DOMAIN links |->
        [gate  |-> links[i],
         allow |-> fAddr(links[i].res) =>
                      \A j \in 1 .. i - 1 : ~ Intersects(links[j], links[i].name)]]

\* What reslinks_save() writes of it.
reslinks_save(tab) == [i \in DOMAIN tab |-> tab[i].gate]

\* reslink_new(): the number of a new gate is above those of its resource.
MaxUid(tab, res) ==
    LET uids == {tab[i].gate.uid : i \in {j \in DOMAIN tab : tab[j].gate.res = res}}
    IN  IF uids = {} THEN -1 ELSE CHOOSE u \in uids : \A v \in uids : v <= u

\* The name a new gate gets, none if it is refused.
NewName(tab, res, name) ==
    IF fAddr(res)
    THEN {b \in make_addrandmask(name) :
             \A i \in DOMAIN tab : ~ Intersects(tab[i].gate, b)}
    ELSE {name}

\* Mutant: the number is not advanced.
Mutant_reslink_new(tab, res, acc, name) ==
    IF NewName(tab, res, name) = {} THEN tab
    ELSE Append(tab, [gate  |-> [res |-> res, uid |-> MaxUid(tab, res), acc |-> acc,
                                 name |-> CHOOSE b \in NewName(tab, res, name) : TRUE],
                      allow |-> TRUE])

reslink_new(tab, res, acc, name) ==
    IF NewName(tab, res, name) = {} THEN tab
    ELSE Append(tab, [gate  |-> [res |-> res, uid |-> MaxUid(tab, res) + 1, acc |-> acc,
                                 name |-> CHOOSE b \in NewName(tab, res, name) : TRUE],
                      allow |-> TRUE])

reslink_del(tab, i) == RemoveAt(tab, i)

\* The account cmd_getaccno() finds for "name <ident>" in the session's table,
\* none if the name is unknown there.
lookup_name(tab, name) ==
    LET found == {i \in DOMAIN tab : tab[i].gate.name = name}
    IN  IF found = {} THEN {}
        ELSE {tab[CHOOSE i \in found : \A j \in found : i <= j].gate.acc}

\* delgate: the first gate of the account and resource, and of the name if given.
Doomed(tab, acc, res, name) ==
    LET found == {i \in DOMAIN tab : /\ tab[i].gate.acc = acc
                                     /\ tab[i].gate.res = res
                                     /\ name \in {AnyName, tab[i].gate.name}}
    IN  {i \in found : \A j \in found : i <= j}
===============================================================================
