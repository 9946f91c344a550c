------------------------------- MODULE BeeAccess ------------------------------
(***************************************************************************)
(* Sessions of the bee billing core that add and delete gates and publish  *)
(* access permissions: access_update() of core/core.c, the gate commands   *)
(* of core/command.c, and the three locks between them - on the account    *)
(* file, on the gate file, and on the update itself.                       *)
(*                                                                         *)
(* Accounts are changed in one step each (BeeSessions has the steps).      *)
(***************************************************************************)
EXTENDS BeeAccount, BeeGates, FiniteSets

CONSTANTS Sessions,         \* processes of the core, one per client
          None,             \* no session
          InitAccs,         \* the account file at the start
          InitGates,        \* the gate file at the start
          Contents,         \* tags and balances the account commands give
          Cmds,             \* gate commands clients send
          MaxOps,           \* bound: commands in all
          MaxCrashes        \* bound: processes killed

CmdRec == [op : {"addgate", "delgate", "new_vpn", "new_contract"},
           res : Resources, acc : Nat, by : Names \cup {AnyName},
           name : [addr : Int, bits : Int] \cup Names \cup {AnyName}]
ASSUME AccessAssumption ==
    /\ None \notin Sessions
    /\ InitAccs \in Seq(AccRec) /\ InitGates \in Seq(GateRec)
    /\ Cmds \subseteq CmdRec
    /\ Contents \subseteq [tag : SUBSET Tags, bal : Int]
    /\ MaxOps \in Nat /\ MaxCrashes \in Nat

VARIABLES
    accs,               \* account file
    accEx,              \* session the lock command gave the account file to
    gates, gateEx,      \* gate file and the holder of its lock
    updEx,              \* holder of the update lock
    grant, deny,        \* the allowed.* and disallowed.* files, by resource
    active,             \* addresses the firewall lets through
    pc, tab,            \* next step of a session, and its linktab[]
    add,                \* gates a command is about to add: resource, account, name
    del,                \* the gate a command is about to delete, or none
    upd,                \* locals of access_update(): next account, count, open files
    got,                \* allowed.inet as the apply script of a session read it
    ops, crashes,       \* bounds
    pub,                \* history: the table of the last update that wrote its files
    owed,               \* history: accounts changed and not yet published
    due,                \* history: gates there were when the last update was ordered
    covers,             \* history: what the update of a session has to publish
    wiped, raced        \* history: see Crash and UpdOpen

conf == <<gates, gateEx>>
update == <<updEx, grant, deny, active, upd, got, pub, due, wiped, raced>>
vars == <<accs, accEx, conf, pc, tab, add, del, ops, crashes, owed, covers, update>>

Applying == {"applyread", "applyset"}
Updating == {"updlock", "updread", "updunlock"} \cup Applying

NoJob == [k |-> 0, n |-> 0, yes |-> [r \in Counted |-> {}], no |-> [r \in Counted |-> {}]]
Nothing == [accs |-> {}, gates |-> {}]
GatesOf(links) == {links[i] : i \in DOMAIN links}

Init ==
    /\ accs = InitAccs /\ accEx = None
    /\ gates = InitGates /\ gateEx = None
    /\ updEx = None
    /\ grant = [r \in Counted |-> {}] /\ deny = [r \in Counted |-> {}] /\ active = {}
    /\ pc = [s \in Sessions |-> "gone"] /\ tab = [s \in Sessions |-> << >>]
    /\ add = [s \in Sessions |-> << >>] /\ del = [s \in Sessions |-> {}]
    /\ upd = [s \in Sessions |-> NoJob] /\ got = [s \in Sessions |-> {}]
    /\ ops = 0 /\ crashes = 0
    /\ pub = << >> /\ owed = DOMAIN InitAccs /\ due = {}
    /\ covers = [s \in Sessions |-> Nothing]
    /\ wiped = FALSE /\ raced = FALSE

Goto(s, label) == pc' = [pc EXCEPT ![s] = label]

GateFree == gateEx = None

\* A client connects: the new process loads the gates once, under a shared lock.
Connect(s) ==
    /\ pc[s] = "gone" /\ GateFree
    /\ tab' = [tab EXCEPT ![s] = reslinks_load(gates)]
    /\ Goto(s, "idle")
    /\ UNCHANGED <<accs, accEx, conf, add, del, ops, crashes, owed, covers, update>>

Exit(s) ==
    /\ pc[s] = "idle"
    /\ accEx' = IF accEx = s THEN None ELSE accEx
    /\ Goto(s, "gone")
    /\ UNCHANGED <<accs, conf, tab, add, del, ops, crashes, owed, covers, update>>

FreeAccs(s) == accEx \in {None, s}

Op(s) == pc[s] = "idle" /\ ops < MaxOps /\ ops' = ops + 1

\* Any command that changes an account: the change is owed to the permissions, and
\* no update under way has to know of it.
Owe(set) ==
    /\ owed' = owed \cup set
    /\ covers' = [s \in Sessions |-> [covers[s] EXCEPT !.accs = @ \ set]]

Change(s, n, c) ==
    /\ Op(s) /\ FreeAccs(s)
    /\ accs' = [accs EXCEPT ![n].tag = c.tag, ![n].bal = c.bal]
    /\ Owe({n})
    /\ UNCHANGED <<accEx, conf, pc, tab, add, del, crashes, update>>

LockCmd(s) ==
    /\ Op(s) /\ accEx = None
    /\ accEx' = s
    /\ UNCHANGED <<accs, conf, pc, tab, add, del, crashes, owed, covers, update>>

UnlockCmd(s) ==
    /\ pc[s] = "idle" /\ accEx = s
    /\ accEx' = None
    /\ UNCHANGED <<accs, conf, pc, tab, add, del, ops, crashes, owed, covers, update>>

\* addgate and delgate look the account up in the table of the session, as old as
\* its connection or last gate command, before they lock the file.
AccOf(s, c) == IF c.by = AnyName THEN {c.acc} ELSE lookup_name(tab[s], c.by)

AddGate(s, c) ==
    /\ c.op = "addgate" /\ Op(s)
    /\ \E acc \in AccOf(s, c) :
          add' = [add EXCEPT ![s] = <<[res |-> c.res, acc |-> acc, name |-> c.name]>>]
    /\ Goto(s, "gatelock")
    /\ UNCHANGED <<accs, accEx, conf, tab, del, crashes, owed, covers, update>>

DelGate(s, c) ==
    /\ c.op = "delgate" /\ Op(s)
    /\ \E acc \in AccOf(s, c) :
          del' = [del EXCEPT ![s] = {[res |-> c.res, acc |-> acc, name |-> c.name]}]
    /\ Goto(s, "gatelock")
    /\ UNCHANGED <<accs, accEx, conf, tab, add, crashes, owed, covers, update>>

\* new_vpn and new_contract create accounts and then their gates.
NewGates(c, n) ==
    IF c.op = "new_vpn"
    THEN <<[res |-> "adder", acc |-> n, name |-> c.by], [res |-> "inet", acc |-> n, name |-> c.name]>>
    ELSE <<[res |-> "adder", acc |-> n, name |-> c.by], [res |-> "adder", acc |-> n + 1, name |-> c.by]>>

NewAccount(n) == [ZeroAcc EXCEPT !.no = n]

NewClient(s, c) ==
    /\ c.op \in {"new_vpn", "new_contract"} /\ Op(s) /\ FreeAccs(s)
    /\ LET n == Len(accs) + 1
           more == IF c.op = "new_vpn" THEN <<NewAccount(n)>>
                                       ELSE <<NewAccount(n), NewAccount(n + 1)>>
       IN  /\ accs' = accs \o more
           /\ add' = [add EXCEPT ![s] = NewGates(c, n)]
           /\ Owe({n + i - 1 : i \in DOMAIN more})
    /\ Goto(s, "gatelock")
    /\ UNCHANGED <<accEx, conf, tab, del, crashes, update>>

\* Mutant: a gate command works on the table the session already has.
MutantReread(s) == tab[s]

Reread(s) == reslinks_load(gates)

\* Every gate command reads the file again once it has the lock.
GateLock(s) ==
    /\ pc[s] = "gatelock" /\ GateFree
    /\ gateEx' = s
    /\ tab' = [tab EXCEPT ![s] = Reread(s)]
    /\ Goto(s, "gatesave")
    /\ UNCHANGED <<accs, accEx, gates, add, del, ops, crashes, owed, covers, update>>

\* The table with the gates of the command; the second is tried if the first
\* was accepted, and one that is refused is left out.
Added(t, new) ==
    LET Try(u, g) == reslink_new(u, g.res, g.acc, g.name)
    IN  CASE Len(new) = 0 -> t
          [] Len(new) = 1 -> Try(t, new[1])
          [] OTHER -> Try(Try(t, new[1]), new[2])

Removed(t, gone) ==
    IF gone = {} THEN {t}
    ELSE {reslink_del(t, i) : i \in UNION {Doomed(t, g.acc, g.res, g.name) : g \in gone}}

\* The new table is saved to a temporary file and renamed over the gate file.
GateSave(s) ==
    /\ pc[s] = "gatesave"
    /\ \E t \in IF Removed(tab[s], del[s]) = {} THEN {tab[s]}
                ELSE Removed(Added(tab[s], add[s]), del[s]) :
          /\ tab' = [tab EXCEPT ![s] = t]
          /\ gates' = reslinks_save(t)
    /\ gateEx' = None
    /\ add' = [add EXCEPT ![s] = << >>] /\ del' = [del EXCEPT ![s] = {}]
    /\ Goto(s, "idle")
    /\ UNCHANGED <<accs, accEx, ops, crashes, owed, covers, update>>

-------------------------------------------------------------------------------
(* The update command.                                                     *)

UpdStart(s) ==
    /\ Op(s)
    /\ covers' = [covers EXCEPT ![s] = [accs |-> DOMAIN accs, gates |-> GatesOf(gates)]]
    /\ Goto(s, "updlock")
    /\ UNCHANGED <<accs, accEx, conf, tab, add, del, crashes, owed, update>>

\* Mutant: updates do not exclude each other.
MutantMayUpdate(s) == TRUE

MayUpdate(s) == updEx = None

\* The lock, and all files opened, which empties them.
UpdOpen(s) ==
    /\ pc[s] = "updlock" /\ MayUpdate(s)
    /\ updEx' = s
    /\ grant' = [r \in Counted |-> {}] /\ deny' = [r \in Counted |-> {}]
    /\ upd' = [upd EXCEPT ![s] = [NoJob EXCEPT !.k = 1, !.n = Len(accs)]]
    /\ wiped' = TRUE
    /\ raced' = (\E t \in Sessions \ {s} : pc[t] \in Applying)
    /\ Goto(s, "updread")
    /\ UNCHANGED <<accs, accEx, conf, tab, add, del, ops, crashes, owed, covers,
                   active, got, pub, due>>

\* Mutant: the update waits for the lock as long as it takes.
MutantUpdTimeout(s) == FALSE /\ UNCHANGED vars

\* Three seconds of polling are over.  The command says "Done." all the same.
UpdTimeout(s) ==
    /\ pc[s] = "updlock" /\ ~ MayUpdate(s)
    /\ Goto(s, "idle")
    /\ UNCHANGED <<accs, accEx, conf, tab, add, del, ops, crashes, owed, covers, update>>

\* Access as access_update() computes it from acc_get().
Allowed(n) ==
    LET rc == acci_get(accs, n) IN
    \/ rc = "ACC_UNLIMIT"
    \/ rc \in {"SUCCESS", "NEGATIVE"} /\ accs_state(accs[n]) = "SUCCESS"

NamesOf(t, n, r, ok) ==
    {t[i].gate.name : i \in {j \in DOMAIN t : /\ t[j].gate.acc = n
                                              /\ t[j].gate.res = r
                                              /\ t[j].allow \in ok}}

\* One account: its gates go to one file or the other.
UpdRead(s) ==
    /\ pc[s] = "updread" /\ upd[s].k <= upd[s].n /\ FreeAccs(s)
    /\ LET n == upd[s].k
           Yes(r) == IF Allowed(n) THEN NamesOf(tab[s], n, r, {TRUE}) ELSE {}
           No(r)  == IF Allowed(n) THEN NamesOf(tab[s], n, r, {FALSE})
                                   ELSE NamesOf(tab[s], n, r, BOOLEAN)
       IN  upd' = [upd EXCEPT ![s].k = n + 1,
                              ![s].yes = [r \in Counted |-> @[r] \cup Yes(r)],
                              ![s].no  = [r \in Counted |-> @[r] \cup No(r)]]
    /\ UNCHANGED <<accs, accEx, conf, pc, tab, add, del, ops, crashes, owed, covers,
                   updEx, grant, deny, active, got, pub, due, wiped, raced>>

\* The files are closed: what stdio has kept reaches them.
UpdClose(s) ==
    /\ pc[s] = "updread" /\ upd[s].k > upd[s].n
    /\ grant' = upd[s].yes /\ deny' = upd[s].no
    /\ upd' = [upd EXCEPT ![s] = NoJob]
    /\ pub' = tab[s]
    /\ owed' = owed \ covers[s].accs
    /\ due' = covers[s].gates
    /\ wiped' = FALSE
    /\ Goto(s, "updunlock")
    /\ UNCHANGED <<accs, accEx, conf, tab, add, del, ops, crashes, covers,
                   updEx, active, got, raced>>

UpdUnlock(s) ==
    /\ pc[s] = "updunlock"
    /\ updEx' = None
    /\ Goto(s, "applyread")
    /\ UNCHANGED <<accs, accEx, conf, tab, add, del, ops, crashes, owed, covers,
                   grant, deny, active, upd, got, pub, due, wiped, raced>>

\* The apply script, which loads allowed.inet into a table of the packet filter.
ApplyRead(s) ==
    /\ pc[s] = "applyread"
    /\ got' = [got EXCEPT ![s] = grant["inet"]]
    /\ Goto(s, "applyset")
    /\ UNCHANGED <<accs, accEx, conf, tab, add, del, ops, crashes, owed, covers,
                   updEx, grant, deny, active, upd, pub, due, wiped, raced>>

ApplySet(s) ==
    /\ pc[s] = "applyset"
    /\ active' = got[s]
    /\ got' = [got EXCEPT ![s] = {}]
    /\ Goto(s, "idle")
    /\ UNCHANGED <<accs, accEx, conf, tab, add, del, ops, crashes, owed, covers,
                   updEx, grant, deny, upd, pub, due, wiped, raced>>

\* A process is killed: the kernel drops its locks.
Crash(s) ==
    /\ pc[s] \notin {"gone", "idle"} /\ crashes < MaxCrashes
    /\ crashes' = crashes + 1
    /\ accEx' = IF accEx = s THEN None ELSE accEx
    /\ gateEx' = IF gateEx = s THEN None ELSE gateEx
    /\ updEx' = IF updEx = s THEN None ELSE updEx
    /\ upd' = [upd EXCEPT ![s] = NoJob] /\ got' = [got EXCEPT ![s] = {}]
    /\ add' = [add EXCEPT ![s] = << >>] /\ del' = [del EXCEPT ![s] = {}]
    /\ raced' = (raced \/ pc[s] \in Updating \ {"updlock"})
    /\ Goto(s, "gone")
    /\ UNCHANGED <<accs, gates, tab, ops, owed, covers, grant, deny, active, pub, due, wiped>>

Step(s) ==
    \/ GateLock(s) \/ GateSave(s)
    \/ UpdOpen(s) \/ UpdTimeout(s) \/ UpdRead(s) \/ UpdClose(s) \/ UpdUnlock(s)
    \/ ApplyRead(s) \/ ApplySet(s)

Client(s) ==
    \/ Connect(s) \/ Exit(s) \/ LockCmd(s) \/ UnlockCmd(s) \/ UpdStart(s)
    \/ \E n \in DOMAIN accs, c \in Contents : Change(s, n, c)
    \/ \E c \in Cmds : AddGate(s, c) \/ DelGate(s, c) \/ NewClient(s, c)

Next == \E s \in Sessions : Step(s) \/ Client(s) \/ Crash(s)

Spec == Init /\ [][Next]_vars

\* Processes that can run do run; who waits in flock() gets the lock in the end
\* if it keeps coming free, and a client that has locked the files unlocks them.
FairSpec ==
    /\ Spec
    /\ \A s \in Sessions : /\ WF_vars(Step(s)) /\ WF_vars(UnlockCmd(s))
                           /\ SF_vars(GateLock(s)) /\ SF_vars(UpdRead(s))

-------------------------------------------------------------------------------
(* Properties.                                                             *)

FileRec == [Counted -> SUBSET Ident]
TabRec == [gate : GateRec, allow : BOOLEAN]

\* Every variable of the sessions, the locks and the files stays in its type.
AccessTypeOK ==
    /\ accs \in Seq(AccRec) /\ gates \in Seq(GateRec)
    /\ accEx \in Sessions \cup {None} /\ gateEx \in Sessions \cup {None}
    /\ updEx \in Sessions \cup {None}
    /\ grant \in FileRec /\ deny \in FileRec /\ active \subseteq Ident
    /\ pc \in [Sessions -> {"gone", "idle", "gatelock", "gatesave"} \cup Updating]
    /\ tab \in [Sessions -> Seq(TabRec)] /\ pub \in Seq(TabRec)
    /\ upd \in [Sessions -> [k : Nat, n : Nat, yes : FileRec, no : FileRec]]
    /\ got \in [Sessions -> SUBSET Ident]
    /\ ops \in 0 .. MaxOps /\ crashes \in 0 .. MaxCrashes
    /\ wiped \in BOOLEAN /\ raced \in BOOLEAN

\* However gates are added, refused and deleted, by sessions with old and new
\* tables, no number of a resource and no address ever belongs to two gates of the
\* file: reslink_new() compares with every block, and wrapped lengths do not help.
GatesDistinct ==
    \A i, j \in DOMAIN gates : i # j =>
        /\ gates[i].res = gates[j].res => gates[i].uid # gates[j].uid
        /\ \A a \in 0 .. 2^Width - 1 : ~ (Matches(gates[i], a) /\ Matches(gates[j], a))

\* No session drops or changes a gate of another one: saving a table adds gates
\* at the end of the file, or takes exactly one gate out of it.
NoGateLost ==
    [][\/ IsPrefix(gates, gates')
       \/ \E i \in DOMAIN gates : gates' = RemoveAt(gates, i)]_gates

\* Between updates the permission files say of every account what was decided from
\* the account as it is now, unless it was changed after the last update that
\* wrote the files was ordered.  Updates of several sessions may overlap, give up
\* on the lock or die; only a death with the files open (wiped) spoils them.
Published ==
    updEx = None /\ ~ wiped =>
        \A r \in Counted :
            LET Open(i) == pub[i].allow /\ Allowed(pub[i].gate.acc)
                Known(i) == pub[i].gate.res = r /\ pub[i].gate.acc \in DOMAIN accs \ owed
            IN  /\ \A i \in DOMAIN pub : Known(i) =>
                       pub[i].gate.name \in (IF Open(i) THEN grant[r] ELSE deny[r])
                /\ \A name \in grant[r] : \E i \in DOMAIN pub :
                       /\ pub[i].gate.res = r /\ pub[i].gate.name = name
                       /\ Known(i) => Open(i)

\* When all updates are over the firewall lets through what the last one allowed,
\* unless an update began while the script of another was still loading the list
\* (the lock is given back before the script runs), or died before its script.
ActiveSettles ==
    (\A s \in Sessions : pc[s] \notin Updating) /\ ~ raced => active = grant["inet"]

\* What COMMANDS says of update: it works on the shared data as they are at that
\* moment.  Every gate there was when the last update was ordered, and that still
\* is there, is in one of the files.
EveryGatePublished ==
    updEx = None /\ ~ wiped =>
        \A l \in due \cap GatesOf(gates) :
            l.res \in Counted /\ l.acc \in DOMAIN accs =>
                l.name \in grant[l.res] \cup deny[l.res]

\* Every gate command and every update ends: a session that has the accounts
\* locked and waits for the update lock gives up, and the update that holds that
\* lock and waits for the accounts goes on.
CommandsEnd ==
    \A s \in Sessions : pc[s] \notin {"gone", "idle"} ~> pc[s] \in {"gone", "idle"}
===============================================================================
