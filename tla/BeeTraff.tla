-------------------------------- MODULE BeeTraff -------------------------------
(***************************************************************************)
(* beetraff (bee/modules/traff/beetraff.c): it reads the lines of cnupmstat,*)
(* decides whose traffic each one is, sums it up and charges it with bires *)
(* commands in one session with the billing core.                          *)
(***************************************************************************)
EXTENDS Integers, Sequences, FiniteSetsExt

CONSTANTS Flows,            \* traffic that lines tell apart
          Addrs,            \* inet addresses
          Junk,             \* the value of a variable that is not set
          From, To,         \* source and destination of a flow
          V6,               \* flows of inet6
          Exclusions,       \* -n and -N in the order given: [block, count]
          Gates,            \* gates of inet: [block, addr, acc]
          Details,          \* items by "addr", by "gate" (-d) or by "acc" (-D),
                            \* or by account with the first address (-D -d: "accaddr")
          UInt,             \* 2^32
          MaxLines,         \* bound: lines
          MaxBytes          \* bound: bytes of a line

ASSUME TraffAssumption ==
    /\ From \in [Flows -> Addrs] /\ To \in [Flows -> Addrs] /\ V6 \subseteq Flows
    /\ IsFiniteSet(Flows) /\ Junk \notin Addrs
    /\ Exclusions \in Seq([block : SUBSET Addrs, count : BOOLEAN])
    /\ \A g, h \in Gates : g # h => g.block \cap h.block = {}
    /\ \A g \in Gates : g.addr \in g.block /\ g.block \subseteq Addrs
    /\ Details \subseteq {"addr", "gate", "acc", "accaddr"}
    /\ UInt \in Nat \ {0} /\ MaxBytes \in Nat

VARIABLES
    detail,             \* fNoDetail and fAccBased
    pc,                 \* where the program is
    text,               \* lines not read yet
    from, to,           \* addresses of the line
    stat,               \* itm_statlist: items in the order of their first line
    charged,            \* what bires added to the accounts
    parsed,             \* history: bytes of the lines parsed
    failed              \* history: items that were not added

vars == <<detail, pc, text, from, to, stat, charged, parsed, failed>>

Accounts == {g.acc : g \in Gates}
NoBytes == [k \in Accounts |-> [in |-> 0, out |-> 0]]
Line == [flow : Flows, bytes : 1 .. MaxBytes]

Init ==
    /\ detail \in Details
    /\ pc = "parse" /\ text \in UNION {[1 .. n -> Line] : n \in 0 .. MaxLines}
    /\ from = Junk /\ to = Junk
    /\ stat = << >> /\ charged = NoBytes /\ failed = NoBytes
    /\ parsed = [f \in Flows |-> 0]

-------------------------------------------------------------------------------
(* The lines                                                               *)

\* The last -n or -N that covers the address decides.
Global(a) ==
    LET covering == {i \in DOMAIN Exclusions : a \in Exclusions[i].block}
    IN  covering = {} \/ Exclusions[Max(covering)].count

GatesOf(a) == {g \in Gates : a \in g.block}

\* Mutant: traffic from one client to another is not skipped.
MutantSkips(src, dst) == (~ Global(src) /\ ~ Global(dst))
                         \/ (GatesOf(src) = {} /\ GatesOf(dst) = {})

\* Excluded to excluded, unknown, and client to client.
Skips(src, dst) == (~ Global(src) /\ ~ Global(dst))
                   \/ (GatesOf(src) = {} <=> GatesOf(dst) = {})

\* The items a line of n bytes makes, at most one, since the blocks of gates do not
\* meet.
Item(a, g, in, out) ==
    [addr |-> IF detail \in {"addr", "accaddr"} THEN a ELSE g.addr,
     acc |-> g.acc, in |-> in, out |-> out]
Items(src, dst, n) ==
    IF n % UInt = 0 \/ Skips(src, dst) THEN {}
    ELSE {Item(src, g, 0, n % UInt) : g \in GatesOf(src)} \cup
         {Item(dst, g, n % UInt, 0) : g \in GatesOf(dst)}

Same(item, new) ==
    IF detail \in {"acc", "accaddr"} THEN item.acc = new.acc ELSE item.addr = new.addr

Sum(item, new) == [item EXCEPT !.in = (@ + new.in) % UInt, !.out = (@ + new.out) % UInt]

AddItem(list, new) ==
    IF \A i \in DOMAIN list : ~ Same(list[i], new) THEN Append(list, new)
    ELSE [i \in DOMAIN list |-> IF Same(list[i], new) THEN Sum(list[i], new) ELSE list[i]]

\* inet_pton() refuses an inet6 address with 0, which is not taken for an error:
\* the line has the addresses of the line before, and the first line any.
ParseLine ==
    /\ pc = "parse" /\ text # << >>
    /\ LET line == Head(text) IN
       /\ IF line.flow \in V6
          THEN IF from = Junk THEN from' \in Addrs /\ to' \in Addrs
               ELSE UNCHANGED <<from, to>>
          ELSE from' = From[line.flow] /\ to' = To[line.flow]
       /\ LET items == Items(from', to', line.bytes) IN
          \/ items = {} /\ UNCHANGED stat
          \/ \E new \in items : stat' = AddItem(stat, new)
       /\ parsed' = [parsed EXCEPT ![line.flow] = @ + line.bytes]
    /\ text' = Tail(text)
    /\ UNCHANGED <<detail, pc, charged, failed>>

-------------------------------------------------------------------------------
(* The session                                                             *)

\* The core finds the account by the address.
Pays(acc, item) == \E g \in GatesOf(item.addr) : g.acc = acc

Add(sums, item) == [acc \in Accounts |->
    IF Pays(acc, item) THEN Sum(sums[acc], item) ELSE sums[acc]]

\* All the items of a list.
Owed(acc, items) ==
    [in  |-> SumFunction([i \in DOMAIN items |-> IF Pays(acc, items[i]) THEN items[i].in ELSE 0]),
     out |-> SumFunction([i \in DOMAIN items |-> IF Pays(acc, items[i]) THEN items[i].out ELSE 0])]
AddAll(sums, items) == [acc \in Accounts |-> Sum(sums[acc], Owed(acc, items))]

\* The program ends: what it did not send is lost.
Leave(items) ==
    /\ pc' = "exit" /\ stat' = << >>
    /\ failed' = AddAll(failed, items)

\* The session is opened, and "machine" and "lock" are answered, or not.
Connect ==
    /\ pc = "parse" /\ text = << >>
    /\ \/ pc' = "send" /\ UNCHANGED <<stat, failed>>
       \/ Leave(stat)
    /\ UNCHANGED <<detail, text, from, to, charged, parsed>>

\* Mutant: after an error the item is sent again.
MutantAfterError == stat

AfterError == Tail(stat)

\* bires: added to the account, refused, or the link goes down before the answer.
Send ==
    /\ pc = "send" /\ stat # << >>
    /\ \/ /\ charged' = Add(charged, Head(stat)) /\ stat' = Tail(stat)
          /\ UNCHANGED <<pc, failed>>
       \/ /\ failed' = Add(failed, Head(stat)) /\ stat' = AfterError
          /\ UNCHANGED <<pc, charged>>
       \/ /\ charged' = Add(charged, Head(stat)) /\ Leave(Tail(stat))
       \/ /\ Leave(stat) /\ UNCHANGED charged
    /\ UNCHANGED <<detail, text, from, to, parsed>>

\* update, when asked for, and exit.
Finish ==
    /\ pc = "send" /\ stat = << >> /\ Leave(stat)
    /\ UNCHANGED <<detail, text, from, to, charged, parsed>>

-------------------------------------------------------------------------------
Next == ParseLine \/ Connect \/ Send \/ Finish

\* The program runs until it exits.
Spec == Init /\ [][Next]_vars
FairSpec == Spec /\ WF_vars(Next)

-------------------------------------------------------------------------------
UInts == 0 .. UInt - 1

TraffTypeOK ==
    /\ detail \in Details
    /\ pc \in {"parse", "send", "exit"}
    /\ text \in Seq(Line)
    /\ \/ from \in Addrs /\ to \in Addrs
       \/ from = Junk /\ to = Junk
    /\ stat \in Seq([addr : Addrs, acc : Accounts, in : UInts, out : UInts])
    /\ charged \in [Accounts -> [in : UInts, out : UInts]]
    /\ failed \in [Accounts -> [in : UInts, out : UInts]]
    /\ parsed \in [Flows -> Nat]

\* The traffic of an account: lines between one of its gates and an address that is
\* of no gate, unless both addresses are excluded.
Local(a) == \E i \in DOMAIN Exclusions :
                /\ a \in Exclusions[i].block /\ ~ Exclusions[i].count
                /\ \A j \in i + 1 .. Len(Exclusions) : a \notin Exclusions[j].block
Of(acc, a) == \E g \in Gates : g.acc = acc /\ a \in g.block
World(a) == \A g \in Gates : a \notin g.block
Counted(f, acc, mine, other) ==
    f \notin V6 /\ Of(acc, mine[f]) /\ World(other[f]) /\ ~ (Local(mine[f]) /\ Local(other[f]))
Traffic(acc, mine, other) ==
    SumFunctionOnSet(parsed, {f \in Flows : Counted(f, acc, mine, other)})
Expected(acc) == [in |-> Traffic(acc, To, From), out |-> Traffic(acc, From, To)]

\* An account is charged its traffic modulo 2^32, but for the items the core refused
\* or did not get: no line is charged twice, in the wrong direction or to another
\* account, whether items are made by address, by gate or by account.
ChargedToAccount ==
    LET sums == AddAll([acc \in Accounts |-> Sum(charged[acc], failed[acc])], stat)
    IN  \A acc \in Accounts : /\ sums[acc].in = Expected(acc).in % UInt
                               /\ sums[acc].out = Expected(acc).out % UInt

\* "Gate filter (skip unknown or client -> client)" (beetraff.c:342): an account is
\* charged no more than the lines of its addresses say.
UnknownSkipped ==
    \A acc \in Accounts : /\ charged[acc].in <= Expected(acc).in
                           /\ charged[acc].out <= Expected(acc).out

\* The program ends, whatever the core answers.
Ends == <>(pc = "exit")
===============================================================================
