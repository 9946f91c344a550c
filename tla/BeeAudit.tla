------------------------------- MODULE BeeAudit --------------------------------
(***************************************************************************)
(* What must hold of the account file and the log while any number of      *)
(* sessions work on them.                                                  *)
(***************************************************************************)
EXTENDS BeeSessions, Functions

TypeOK ==
    /\ accs \in Seq(AccRec) /\ log \in Seq(LogRec) /\ cards \subseteq DOMAIN InitCards
    /\ accEx \in Sessions \cup {None} /\ logEx \in Sessions \cup {None}
    /\ accAsync \in [Sessions -> BOOLEAN] /\ logAsync \in [Sessions -> BOOLEAN]
    /\ pc \in [Sessions -> Labels]
    /\ cmd \in [Sessions -> CmdRec]
    /\ buf \in [Sessions -> AccRec]
    /\ rc \in [Sessions -> Codes]
    /\ pend \in [Sessions -> Seq(LogRec)]
    /\ pos \in [Sessions -> Nat]
    /\ reply \in [Sessions -> Replies]
    /\ ops \in [Sessions -> 0..MaxOps]
    /\ faults \in 0..MaxFaults
    /\ adj \in [DOMAIN accs -> Int]
    /\ doubt \subseteq Nat

-------------------------------------------------------------------------------
Moves(r, n) == IF r.no = n /\ Applies(r.err, r.res) THEN r.sum ELSE 0

SumOf(recs, n) == SumFunction([i \in DOMAIN recs |-> Moves(recs[i], n)])

InitBal(n) == IF n \in DOMAIN InitAccs THEN InitAccs[n].bal ELSE 0

\* The log accounts for the money: but for "_fix" (which is not logged) and for
\* accounts hit by a crash or an I/O error, a balance is the initial one plus
\* the transactions logged or about to be (acc_transaction, core.c:720-776).
LedgerBalanced ==
    \A n \in DOMAIN accs \ doubt :
        accs[n].bal = InitBal(n) + adj[n] + SumOf(log, n)
                        + SumFunction([s \in Sessions |-> SumOf(pend[s], n)])

\* The transactions are indivisible postings in log order: with one writer of
\* the account file at a time, the log and the record its writer has prepared
\* are the book of BeeLedger (no acc_bitrans(), which logs without the lock).
Prepared == IF \E s \in Sessions : pend[s] # <<>>
            THEN pend[CHOOSE s \in Sessions : pend[s] # <<>>] ELSE <<>>

Ledger == INSTANCE BeeLedger WITH
              balance <- [n \in DOMAIN accs |-> accs[n].bal],
              book    <- log \o Prepared

LedgerRefined == Ledger!LedgerSpec

\* A transaction log only grows: no record is overwritten or dropped by two
\* sessions that append at the position they counted (db_add, db.c:245-273).
NoLogRecordLost == [][\A i \in DOMAIN log : i \in DOMAIN log' /\ log'[i] = log[i]]_log

\* Between acci_get() and acci_put() nobody else writes the record, so no
\* update is lost (the lock of acc_baselock, acc.c:56).
NoStaleWrite ==
    \A s \in Sessions :
        pc[s] = "put" => /\ cmd[s].acc \in DOMAIN accs
                         /\ buf[s] = Loaded(accs, cmd[s].acc)

\* Two sessions that open accounts at once are never given one number, and an
\* account carries the number its client was told (acc_add, acc.c:135-183).
NewAccountsDistinct ==
    \A s \in Sessions :
        pc[s] = "idle" /\ cmd[s].op = "new" =>
            /\ accs[cmd[s].acc].no = cmd[s].acc
            /\ \A t \in Sessions \ {s} :
                  pc[t] = "idle" /\ cmd[t].op = "new" => cmd[t].acc # cmd[s].acc

\* "_fix" is the recovery that BILLING:191-194 excepts.
FixWrites == \E s \in Sessions : pc[s] = "put" /\ pc'[s] # "put" /\ cmd[s].op = "fix"

\* Money of a frozen, broken or deleted account moves only by "_fix"; a freeze
\* that was answered counts for transactions other sessions have under way.
FrozenHolds ==
    [][\A n \in DOMAIN accs :
          /\ acci_get(accs, n) \in {"ACC_DELETED", "ACC_BROKEN", "ACC_FROZEN"}
          /\ accs'[n].bal # accs[n].bal
          => FixWrites]_accs

\* A deleted or broken account is changed by its recovery only: the tags "forbid
\* any action on the account but its recovery" (BILLING:191-194).
UnreliableUntouched ==
    [][\A n \in DOMAIN accs :
          /\ acci_get(accs, n) \in {"ACC_DELETED", "ACC_BROKEN"}
          /\ accs'[n] # accs[n]
          => FixWrites]_accs

\* An unlimited account pays for nothing: "deductions from the account are not
\* made" (COMMANDS:76-79).
UnlimitNotDebited ==
    [][\A n \in DOMAIN accs :
          "UNLIMIT" \in accs[n].tag => accs'[n].bal >= accs[n].bal]_accs

\* What the code keeps of it: traffic and charges take nothing from an account
\* that is unlimited and not off, whatever a session read before it became so;
\* only a negative credit, a credit limit or "_fix" do (acc.c:333, core.c:733).
Credits == {"add", "card_add", "fix"}
UnlimitedNotCharged ==
    [][\A n \in DOMAIN accs :
          /\ {"UNLIMIT", "OFF"} \cap accs[n].tag = {"UNLIMIT"}
          /\ accs'[n].bal < accs[n].bal
          => \E s \in Sessions : /\ pc[s] = "put" /\ pc'[s] # "put"
                                /\ cmd[s].op \in Credits]_accs

\* While a session is in the mode "lock" sets, no other one changes the files
\* (COMMANDS:222-226; acc_async_on, log_async_on).
LockCommandExcludes ==
    [][\A s \in Sessions :
          /\ accAsync[s] /\ accs' # accs => pc'[s] # pc[s]
          /\ logAsync[s] /\ log' # log   => pc'[s] # pc[s]]_<<accs, log>>

\* Locks are taken in one order, accounts before log, so sessions cannot wait
\* for each other in a circle.
WaitsForAcc(s) == pc[s] \in {"peek", "lock", "addlock", "asyncacc"}
LockOrder ==
    \A s \in Sessions : logEx = s /\ WaitsForAcc(s) => accEx = s

\* A pay card the client was told is activated has been credited: the answer
\* is a sum >= 0 for success, (-9) for a partial transaction
\* (command.c:2541-2551), so a used card and a good answer mean money.
CardCredited ==
    \A s \in Sessions :
        pc[s] = "idle" /\ cmd[s].op = "card_add" /\ reply[s] \in Valid
            => Applies(rc[s], "ADDER")

\* Every command is answered, whatever other clients do or leave undone
\* (BILLING:52-59, COMMANDS:156: all consoles and counters work at once).
EveryCommandAnswered ==
    \A s \in Sessions : pc[s] \notin {"idle", "down"} ~> pc[s] \in {"idle", "down"}
===============================================================================
