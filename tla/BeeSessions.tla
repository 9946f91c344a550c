------------------------------ MODULE BeeSessions ------------------------------
(***************************************************************************)
(* The bee billing core: one process per client session (link_wait() forks *)
(* it), all of them working on the same account file and transaction log   *)
(* under flock(2).  A command is a program of steps; pc[s] names the next  *)
(* call session s makes into lib/db.  Every file operation that other      *)
(* sessions can come between is a step of its own.                         *)
(***************************************************************************)
EXTENDS BeeAccount, Sequences, FiniteSets

CONSTANTS
    Sessions,       \* session slots; a slot serves one process after another
    None,           \* "nobody" as the holder of a lock
    Cmds,           \* the commands clients may send
    InitAccs,       \* the account file at the start
    InitCards,      \* InitCards[c]: value of pay card c, unused at the start
    Fees,           \* daily charges the tariffs may ask for (0: no charge)
    MaxOps,         \* bound: commands per session slot
    MaxFaults       \* bound: crashes and I/O errors in one behaviour

TagSet   == [freeze |-> "FROZEN", off |-> "OFF", unlimit |-> "UNLIMIT",
             break |-> "BROKEN", resmode |-> "RES", forcelog |-> "LOG"]
TagClear == [unfreeze |-> "FROZEN", on |-> "OFF", limit |-> "UNLIMIT",
             noresmode |-> "RES", noforcelog |-> "LOG"]

\* cmdh_freeze(); cmdh_accres() ("_tariff") has the same control flow.
TagOps   == DOMAIN TagSet \cup DOMAIN TagClear \cup {"accres"}
EditOps  == TagOps \cup {"setcredit", "resadd", "fix", "delete"}
TransOps == {"add", "res", "card_add", "bires", "charge"}
Ops      == EditOps \cup TransOps
                \cup {"add_part", "card", "new", "lock", "unlock"}

\* A parsed command line: the account it names and up to two numbers.
CmdRec == [op : Ops, acc : Nat, x : Int, y : Int]

\* What a process has before its first command.
NoCommand == [op |-> "unlock", acc |-> 0, x |-> 0, y |-> 0]

Replies == Codes \cup {"REFUSED"}   \* what a command answers

BalanceNA == -1000000                \* "balance is not available" (-1e300)
LogRec == [no : Nat, sum : Int, bal : Int, err : Codes, res : {"ADDER", "INET"}]

Labels == {"down", "idle", "peek", "lock", "get", "put", "unlock", "sql",
           "loglock", "logadd", "logcount", "logwrite", "logunlock",
           "addlock", "addcount", "addwrite",
           "asyncacc", "asynclog", "unasyncacc", "unasynclog"}

ASSUME SessionsAssumption ==
    /\ None \notin Sessions
    /\ Cmds \subseteq CmdRec
    /\ InitAccs \in Seq(AccRec)
    /\ IsFiniteSet(Sessions)
    /\ \A c \in DOMAIN InitCards : InitCards[c] \in Nat
    /\ Fees \subseteq Nat
    /\ MaxOps \in Nat /\ MaxFaults \in Nat

VARIABLES
    accs,       \* account file: record n of the file is accs[n]
    log,        \* transaction log file
    cards,      \* the cards the SQL server still accepts
    accEx,      \* holder of the exclusive lock on the account file, or None
    logEx,      \* holder of the exclusive lock on the log file, or None
    accAsync,   \* accAsync[s]: Accbase.fasync of s's process
    logAsync,   \* logAsync[s]: Logbase.fasync of s's process
    pc,         \* pc[s]: the next step of s
    cmd,        \* cmd[s]: the command s executes or executed last
    buf,        \* buf[s]: the handler's acc_t
    rc,         \* rc[s]: what acci_get() returned to the handler
    pend,       \* pend[s]: log records s has prepared and not written yet
    pos,        \* pos[s]: record count db_add() took before its write
    reply,      \* reply[s]: result code given to the client
    ops,        \* ops[s]: commands s's slot has started
    faults,     \* crashes and I/O errors so far
    adj,        \* history: adj[n], changes of balance n that are not transactions
    doubt       \* history: accounts hit by a crash or I/O error

files   == <<accs, log, cards>>
locks   == <<accEx, logEx, accAsync, logAsync>>
program == <<pc, cmd, buf, rc, pend, pos, reply>>
history == <<ops, faults, adj, doubt>>
vars    == <<files, locks, program, history>>

-------------------------------------------------------------------------------
\* The record a command writes back, from the one it has read.

ResId(c) == IF c.op \in {"add", "card_add"} THEN "ADDER" ELSE "INET"

\* Transaction sums: "add" credits up to its limit, traffic and the daily
\* charge debit; "bires" counts an inbound and an outbound sum.
Sums(c, a) ==
    CASE ResId(c) = "ADDER" -> <<AdderSum(a.bal, c.x, c.y)>>
      [] c.op = "bires"     -> <<-c.x, -c.y>>
      [] OTHER              -> <<-c.x>>

MutantTotal(c, a) == Sums(c, a)[1]   \* mutant: outbound traffic not counted

Total(c, a) == IF c.op = "bires" THEN Sums(c, a)[1] + Sums(c, a)[2]
                                 ELSE Sums(c, a)[1]

TransRec(c, a, status) ==
    IF ~Applies(status, ResId(c)) THEN a
    ELSE IF ResId(c) = "ADDER"
         THEN [a EXCEPT !.bal = @ + Total(c, a), !.tcredit = 0]
         ELSE [a EXCEPT !.bal = @ + Total(c, a)]

\* Log records of the transaction; status is the account's, err what is logged.
TransLog(c, a, status, err) ==
    LET free == /\ c.op \in {"add", "res", "card_add", "bires"}
                /\ {"UNLIMIT", "LOG"} \cap a.tag = {"UNLIMIT"}
                /\ ResId(c) # "ADDER"
        bal  == IF status \in Valid \cup {"ACC_FROZEN", "ACC_OFF"} THEN a.bal ELSE 0
        Rec(sum, b) == [no |-> c.acc, sum |-> IF free THEN 0 ELSE sum,
                        bal |-> b, err |-> err, res |-> ResId(c)]
        sums == Sums(c, a)
    IN  IF c.op # "bires" THEN <<Rec(sums[1], bal)>>
        ELSE (IF c.x # 0 THEN <<Rec(sums[1], bal)>> ELSE <<>>)
             \o (IF c.y # 0 THEN <<Rec(sums[2], IF c.x # 0 THEN BalanceNA ELSE bal)>>
                            ELSE <<>>)

EditRec(c, a) ==
    CASE c.op \in DOMAIN TagSet   -> [a EXCEPT !.tag = @ \cup {TagSet[c.op]}]
      [] c.op \in DOMAIN TagClear -> [a EXCEPT !.tag = @ \ {TagClear[c.op]}]
      [] c.op = "setcredit"       -> [a EXCEPT !.tcredit = c.x]
      [] c.op = "resadd"          -> [a EXCEPT !.res = @ + c.x]
      [] c.op = "delete"          -> [a EXCEPT !.tag = @ \cup {"DELETED"}]
      [] c.op = "fix"             -> [a EXCEPT !.no = c.acc,
                                               !.tag = @ \ {"BROKEN", "DELETED"},
                                               !.bal = IF c.y # 0 THEN c.x ELSE @]
      [] OTHER                    -> a        \* accres: the tariff number

-------------------------------------------------------------------------------
Init ==
    /\ accs = InitAccs /\ log = <<>> /\ cards = DOMAIN InitCards
    /\ accEx = None /\ logEx = None
    /\ accAsync = [s \in Sessions |-> FALSE]
    /\ logAsync = [s \in Sessions |-> FALSE]
    /\ pc = [s \in Sessions |-> "down"]
    /\ cmd = [s \in Sessions |-> NoCommand]
    /\ buf = [s \in Sessions |-> ZeroAcc]
    /\ rc = [s \in Sessions |-> "SUCCESS"]
    /\ pend = [s \in Sessions |-> <<>>]
    /\ pos = [s \in Sessions |-> 0]
    /\ reply = [s \in Sessions |-> "SUCCESS"]
    /\ ops = [s \in Sessions |-> 0]
    /\ faults = 0
    /\ adj = [n \in DOMAIN InitAccs |-> 0]
    /\ doubt = {}

-------------------------------------------------------------------------------
\* flock(2): a process that has the lock gets it again; a process in
\* asynchronous mode ("lock" command) makes no lock calls at all.

MutantMayLockAcc(s) == TRUE          \* mutant: no lock on the account file
MayLockAcc(s) == accAsync[s] \/ accEx \in {None, s}
MutantMayLockLog(s) == TRUE          \* mutant: no lock on the log
MayLockLog(s) == logAsync[s] \/ logEx \in {None, s}
TakeAcc(s)    == accEx' = IF accAsync[s] THEN accEx ELSE s
TakeLog(s)    == logEx' = IF logAsync[s] THEN logEx ELSE s
MutantFreeAcc(s)  == accEx' = IF accEx = s THEN None ELSE accEx    \* mutant: unlocks in asynchronous mode
KeptFreeAcc(s)    == accEx' = accEx                                \* mutant: never unlocks
FreeAcc(s)    == accEx' = IF accEx = s /\ ~accAsync[s] THEN None ELSE accEx
MutantFreeLog(s)  == logEx' = logEx                                \* mutant: never unlocks
FreeLog(s)    == logEx' = IF logEx = s /\ ~logAsync[s] THEN None ELSE logEx

Goto(s, label) == pc' = [pc EXCEPT ![s] = label]

\* The handler returns: its locals are gone, r is the answer.
Return(s, r) ==
    /\ Goto(s, "idle")
    /\ reply' = [reply EXCEPT ![s] = r]
    /\ buf' = [buf EXCEPT ![s] = ZeroAcc]
    /\ pend' = [pend EXCEPT ![s] = <<>>]
    /\ pos' = [pos EXCEPT ![s] = 0]

\* Does any of these prepared records describe a balance change already made?
Moved(recs) == \E i \in DOMAIN recs : Applies(recs[i].err, recs[i].res)

CountFault(s) ==
    /\ faults < MaxFaults
    /\ faults' = faults + 1

-------------------------------------------------------------------------------
\* Processes: link_wait() forks one per client, which opens the files anew.

Connect(s) ==
    /\ pc[s] = "down"
    /\ Goto(s, "idle")
    /\ UNCHANGED <<files, locks, cmd, buf, rc, pend, pos, reply, history>>

\* The process ends; the kernel drops its file locks.
Gone(s) ==
    /\ accEx' = (IF accEx = s THEN None ELSE accEx)
    /\ logEx' = (IF logEx = s THEN None ELSE logEx)
    /\ accAsync' = [accAsync EXCEPT ![s] = FALSE]
    /\ logAsync' = [logAsync EXCEPT ![s] = FALSE]
    /\ pc' = [pc EXCEPT ![s] = "down"]
    /\ buf' = [buf EXCEPT ![s] = ZeroAcc]
    /\ pend' = [pend EXCEPT ![s] = <<>>]
    /\ pos' = [pos EXCEPT ![s] = 0]
    /\ UNCHANGED <<files, rc, reply, ops, adj>>

\* The client says "exit" or closes the connection.
Exit(s) ==
    /\ pc[s] = "idle"
    /\ Gone(s)
    /\ UNCHANGED <<cmd, faults, doubt>>

\* The process is killed inside a command, which nobody answers any more.
Crash(s) ==
    /\ pc[s] \notin {"down", "idle"}
    /\ CountFault(s)
    /\ doubt' = IF Moved(pend[s]) THEN doubt \cup {cmd[s].acc} ELSE doubt
    /\ cmd' = [cmd EXCEPT ![s] = NoCommand]
    /\ Gone(s)

\* The first call into lib/db that command c makes.
Entry(c) ==
    CASE c.op = "add_part" -> "peek"
      [] c.op = "new"      -> "addlock"
      [] c.op = "lock"     -> "asyncacc"
      [] c.op = "unlock"   -> "unasyncacc"
      [] OTHER             -> "lock"

\* "docharge" counts the accounts first (y) and walks from the first one.
Start(s, c) ==
    /\ pc[s] = "idle" /\ ops[s] < MaxOps
    /\ c.op = "charge" => Len(accs) > 0
    /\ cmd' = [cmd EXCEPT ![s] = IF c.op = "charge"
                                 THEN [c EXCEPT !.acc = 1, !.y = Len(accs)] ELSE c]
    /\ Goto(s, Entry(c))
    /\ ops' = [ops EXCEPT ![s] = @ + 1]
    /\ reply' = [reply EXCEPT ![s] = "SUCCESS"]
    /\ UNCHANGED <<files, locks, buf, rc, pend, pos, faults, adj, doubt>>

-------------------------------------------------------------------------------
\* Reading the account.

\* Mutant: the buffer is filled with ones before the read.
MutantReadInto(s) ==
    /\ rc' = [rc EXCEPT ![s] = acci_get(accs, cmd[s].acc)]
    /\ buf' = [buf EXCEPT ![s] = IF rc'[s] = "NOT_FOUND" THEN [ZeroAcc EXCEPT !.no = -1]
                                 ELSE Loaded(accs, cmd[s].acc)]

\* acc_t on the handler's stack: a record that does not exist leaves it as it
\* was, so it holds whatever an earlier call left there.
ReadInto(s) ==
    LET n == cmd[s].acc IN
    /\ rc' = [rc EXCEPT ![s] = acci_get(accs, n)]
    /\ \/ /\ n \in DOMAIN accs
          /\ buf' = [buf EXCEPT ![s] = Loaded(accs, n)]
       \/ /\ n \notin DOMAIN accs
          /\ \E a \in {ZeroAcc} \cup {accs[i] : i \in DOMAIN accs} :
                buf' = [buf EXCEPT ![s] = a]

\* "add <acc> *<k>": the sum is k times the balance acc_get() reads under a
\* shared lock of its own; acc_get() unlocks even what was locked before.
Peek(s) ==
    LET n == cmd[s].acc IN
    /\ pc[s] = "peek" /\ MayLockAcc(s)
    /\ FreeAcc(s)
    /\ rc' = [rc EXCEPT ![s] = acci_get(accs, n)]
    /\ IF rc'[s] \in {"NOT_FOUND", "ACC_DELETED", "ACC_BROKEN"}
       THEN Return(s, rc'[s]) /\ UNCHANGED cmd
       ELSE IF accs[n].bal < 0
       THEN Return(s, "SUCCESS") /\ UNCHANGED cmd
       ELSE /\ cmd' = [cmd EXCEPT ![s].op = "add", ![s].x = @ * accs[n].bal]
            /\ Goto(s, "lock")
            /\ UNCHANGED <<buf, pend, pos, reply>>
    /\ UNCHANGED <<files, logEx, accAsync, logAsync, history>>

Lock(s) ==
    /\ pc[s] = "lock" /\ MayLockAcc(s)
    /\ TakeAcc(s)
    /\ Goto(s, "get")
    /\ UNCHANGED <<files, logEx, accAsync, logAsync,
                   cmd, buf, rc, pend, pos, reply, history>>

\* acc_transaction(), acc_bitrans(): an account that cannot be written is
\* logged with its error code; acc_bitrans() unlocks before it logs.
GetTrans(s) ==
    /\ pc[s] = "get" /\ cmd[s].op \in TransOps \ {"charge"}
    /\ ReadInto(s)
    /\ IF Writable(rc'[s])
       THEN Goto(s, "put") /\ UNCHANGED pend
       ELSE /\ pend' = [pend EXCEPT ![s] = TransLog(cmd[s], buf'[s], rc'[s], rc'[s])]
            /\ Goto(s, IF cmd[s].op = "bires" THEN "unlock" ELSE "logadd")
    /\ UNCHANGED <<files, locks, cmd, pos, reply, history>>

\* cmdh_docharge() goes on to its next account, or ends.
NextCharge(s) ==
    IF cmd[s].acc < cmd[s].y
    THEN /\ cmd' = [cmd EXCEPT ![s].acc = @ + 1]
         /\ Goto(s, "lock")
         /\ buf' = [buf EXCEPT ![s] = ZeroAcc]
         /\ UNCHANGED <<pend, pos, reply>>
    ELSE Return(s, "SUCCESS") /\ UNCHANGED cmd

\* acc_charge_trans(): an account that is not charged is left with the file
\* still locked; a fee of zero unlocks it.
GetCharge(s) ==
    LET n == cmd[s].acc
        a == Loaded(accs, n)
    IN  /\ pc[s] = "get" /\ cmd[s].op = "charge"
        /\ rc' = [rc EXCEPT ![s] = acci_get(accs, n)]
        /\ \/ /\ \/ a.tag \cap {"DELETED", "BROKEN", "FROZEN"} # {}
                 \/ a.bal < acc_limit(a) + 1
              /\ NextCharge(s)
           \/ /\ a.tag \cap {"DELETED", "BROKEN", "FROZEN"} = {}
              /\ a.bal >= acc_limit(a) + 1
              /\ \E fee \in Fees :
                    /\ cmd' = [cmd EXCEPT ![s].x = fee]
                    /\ Goto(s, IF fee = 0 THEN "unlock" ELSE "put")
              /\ buf' = [buf EXCEPT ![s] = a]
              /\ UNCHANGED <<pend, pos, reply>>
        /\ UNCHANGED <<files, locks, history>>

\* What each edit refuses, and which refusals unlock the account file.
\* cmdh_freeze() unlocks for every deleted or broken account but goes on to
\* write unless that is the only flag set; cmdh_resadd() unlocks and reports an
\* error without resource mode, and goes on to write as well.
Refuses(c, status, a) ==
    \/ status = "NOT_FOUND"
    \/ c.op \in TagOps /\ (a.tag = {"BROKEN"} \/ a.tag = {"DELETED"})
    \/ c.op \in {"setcredit", "resadd"} /\ status \in {"ACC_BROKEN", "ACC_DELETED"}
    \/ c.op = "unfreeze" /\ "FROZEN" \notin a.tag
    \/ c.op = "on" /\ "OFF" \notin a.tag

\* Mutant: "setcredit" unlocks too early.
MutantUnlocksAtGet(c, status, a) == c.op = "setcredit"

UnlocksAtGet(c, status, a) ==
    \/ status = "NOT_FOUND"
    \/ c.op \notin {"fix", "delete"} /\ status \in {"ACC_BROKEN", "ACC_DELETED"}
    \/ c.op = "unfreeze" /\ "FROZEN" \notin a.tag
    \/ c.op = "on" /\ "OFF" \notin a.tag
    \/ c.op = "resadd" /\ "RES" \notin a.tag

GetEdit(s) ==
    /\ pc[s] = "get" /\ cmd[s].op \in EditOps
    /\ LET n == cmd[s].acc
           status == acci_get(accs, n)
           a == IF n \in DOMAIN accs THEN Loaded(accs, n) ELSE ZeroAcc
       IN  /\ rc' = [rc EXCEPT ![s] = status]
           /\ IF UnlocksAtGet(cmd[s], status, a) THEN FreeAcc(s) ELSE UNCHANGED accEx
           /\ IF Refuses(cmd[s], status, a)
              THEN Return(s, IF status = "NOT_FOUND" THEN status ELSE "REFUSED")
              ELSE /\ buf' = [buf EXCEPT ![s] = a]
                   /\ Goto(s, "put")
                   /\ UNCHANGED <<pend, pos, reply>>
    /\ UNCHANGED <<files, logEx, accAsync, logAsync, cmd, history>>

\* cmdh_card_utluser(): look at the account, unlock, then ask the SQL server.
GetCard(s) ==
    /\ pc[s] = "get" /\ cmd[s].op = "card"
    /\ FreeAcc(s)
    /\ LET n == cmd[s].acc
           bad == IF n \in DOMAIN accs
                  THEN Loaded(accs, n).tag \cap {"BROKEN", "DELETED", "FROZEN", "UNLIMIT"}
                  ELSE {}
       IN  /\ rc' = [rc EXCEPT ![s] = acci_get(accs, n)]
           /\ IF n \notin DOMAIN accs \/ bad # {}
              THEN Return(s, IF bad = {} THEN "NOT_FOUND" ELSE "REFUSED")
              ELSE Goto(s, "sql") /\ UNCHANGED <<buf, pend, pos, reply>>
    /\ UNCHANGED <<files, logEx, accAsync, logAsync, cmd, history>>

\* pcard_utluser_v0() of the SQL server marks the card used and returns its
\* value, or an error; then the value goes through an ordinary transaction.
SqlUse(s) ==
    LET c == cmd[s] IN
    /\ pc[s] = "sql"
    /\ IF c.y \in cards
       THEN /\ cards' = cards \ {c.y}
            /\ cmd' = [cmd EXCEPT ![s] = [op |-> "card_add", acc |-> c.acc,
                                          x |-> InitCards[c.y], y |-> 0]]
            /\ Goto(s, "lock")
            /\ UNCHANGED <<buf, pend, pos, reply>>
       ELSE Return(s, "NOT_FOUND") /\ UNCHANGED <<cards, cmd>>
    /\ UNCHANGED <<accs, log, locks, rc, history>>

-------------------------------------------------------------------------------
\* Writing the account: acci_put() refuses a record that does not carry its own
\* number, and otherwise writes it and flushes the file.  A failure is a write
\* that never reached the file ("lost") or an fsync() error after it did.

Outcomes == {"ok", "lost", "unsynced"}

Put(s, a, outcome) ==
    LET n == cmd[s].acc IN
    IF a.no = n /\ outcome # "lost"
    THEN accs' = [accs EXCEPT ![n] = a] ELSE UNCHANGED accs

PutFaults(outcome) ==
    IF outcome = "ok" THEN UNCHANGED faults
    ELSE faults < MaxFaults /\ faults' = faults + 1

TransPut(s) ==
    /\ pc[s] = "put" /\ cmd[s].op \in TransOps
    /\ \E outcome \in Outcomes :
          LET new == TransRec(cmd[s], buf[s], rc[s])
              err == IF outcome = "ok" /\ buf[s].no = cmd[s].acc THEN rc[s]
                                                                 ELSE "IO_ERROR"
          IN  /\ Put(s, new, outcome)
              /\ PutFaults(outcome)
              /\ pend' = [pend EXCEPT ![s] = TransLog(cmd[s], buf[s], rc[s], err)]
              /\ buf' = [buf EXCEPT ![s] = new]
              /\ doubt' = IF outcome = "unsynced" /\ Applies(rc[s], ResId(cmd[s]))
                          THEN doubt \cup {cmd[s].acc} ELSE doubt
    /\ Goto(s, IF cmd[s].op = "bires" THEN "unlock" ELSE "logadd")
    /\ UNCHANGED <<log, cards, locks, cmd, rc, pos, reply, ops, adj>>

\* The answer of an edit is success whatever acci_put() returned ("rc <= 0").
EditPut(s) ==
    /\ pc[s] = "put" /\ cmd[s].op \in EditOps
    /\ \E outcome \in Outcomes :
          /\ Put(s, EditRec(cmd[s], buf[s]), outcome)
          /\ PutFaults(outcome)
    /\ adj' = IF cmd[s].op = "fix"
              THEN [adj EXCEPT ![cmd[s].acc] = @ + accs'[cmd[s].acc].bal
                                                 - accs[cmd[s].acc].bal]
              ELSE adj
    /\ Goto(s, "unlock")
    /\ UNCHANGED <<log, cards, locks, cmd, buf, rc, pend, pos, reply, ops, doubt>>

Unlock(s) ==
    /\ pc[s] = "unlock"
    /\ FreeAcc(s)
    /\ CASE cmd[s].op = "bires" ->
              Goto(s, "loglock") /\ UNCHANGED <<cmd, buf, pend, pos, reply>>
         [] cmd[s].op = "charge" /\ reply[s] # "IO_ERROR" -> NextCharge(s)
         [] cmd[s].op \in EditOps -> Return(s, "SUCCESS") /\ UNCHANGED cmd
         [] OTHER -> Return(s, reply[s]) /\ UNCHANGED cmd
    /\ UNCHANGED <<files, logEx, accAsync, logAsync, rc, history>>

-------------------------------------------------------------------------------
\* The log.  acc_bitrans() takes the log lock around both of its records, but
\* the first log_add() releases it.

AfterLog(s) == IF cmd[s].op = "bires" THEN "logunlock" ELSE "unlock"

LogLock(s) ==
    /\ pc[s] = "loglock" /\ MayLockLog(s)
    /\ TakeLog(s)
    /\ Goto(s, IF pend[s] = <<>> THEN "logunlock" ELSE "logadd")
    /\ reply' = [reply EXCEPT ![s] = accs_state(buf[s])]
    /\ UNCHANGED <<files, accEx, accAsync, logAsync,
                   cmd, buf, rc, pend, pos, history>>

LogAdd(s) ==
    /\ pc[s] = "logadd" /\ MayLockLog(s)
    /\ TakeLog(s)
    /\ Goto(s, "logcount")
    /\ UNCHANGED <<files, accEx, accAsync, logAsync,
                   cmd, buf, rc, pend, pos, reply, history>>

LogCount(s) ==
    /\ pc[s] = "logcount"
    /\ pos' = [pos EXCEPT ![s] = Len(log)]
    /\ Goto(s, "logwrite")
    /\ UNCHANGED <<files, locks, cmd, buf, rc, pend, reply, history>>

\* Write at a position of the file: over a record that is there, or after all.
WriteAt(file, n, r) ==
    IF n \in DOMAIN file THEN [file EXCEPT ![n] = r] ELSE Append(file, r)

\* db_add() has written, or failed to; log_add() unlocks in either case.
LogDone(s, result) ==
    /\ pend' = [pend EXCEPT ![s] = Tail(@)]
    /\ reply' = [reply EXCEPT ![s] = result]
    /\ FreeLog(s)
    /\ Goto(s, IF Len(pend[s]) > 1 THEN "logadd" ELSE AfterLog(s))
    /\ UNCHANGED <<accs, cards, accEx, accAsync, logAsync,
                   cmd, buf, rc, pos, ops, adj>>

LogWrite(s) ==
    /\ pc[s] = "logwrite"
    /\ log' = WriteAt(log, pos[s] + 1, Head(pend[s]))
    /\ LogDone(s, accs_state(buf[s]))
    /\ UNCHANGED <<faults, doubt>>

LogFail(s) ==
    /\ pc[s] = "logwrite"
    /\ CountFault(s)
    /\ doubt' = IF Moved(<<Head(pend[s])>>) THEN doubt \cup {cmd[s].acc} ELSE doubt
    /\ LogDone(s, "IO_ERROR")
    /\ UNCHANGED log

LogUnlock(s) ==
    /\ pc[s] = "logunlock"
    /\ FreeLog(s)
    /\ Return(s, reply[s])
    /\ UNCHANGED <<files, accEx, accAsync, logAsync, cmd, rc, history>>

-------------------------------------------------------------------------------
\* acc_add(): "new" appends a record with the number it will have, and answers
\* that number (kept in cmd[s].acc).

AddLock(s) ==
    /\ pc[s] = "addlock" /\ MayLockAcc(s)
    /\ TakeAcc(s)
    /\ Goto(s, "addcount")
    /\ UNCHANGED <<files, logEx, accAsync, logAsync,
                   cmd, buf, rc, pend, pos, reply, history>>

AddCount(s) ==
    /\ pc[s] = "addcount"
    /\ pos' = [pos EXCEPT ![s] = Len(accs)]
    /\ Goto(s, "addwrite")
    /\ UNCHANGED <<files, locks, cmd, buf, rc, pend, reply, history>>

AddWrite(s) ==
    /\ pc[s] = "addwrite"
    /\ accs' = WriteAt(accs, pos[s] + 1, [ZeroAcc EXCEPT !.no = pos[s] + 1])
    /\ cmd' = [cmd EXCEPT ![s].acc = pos[s] + 1]
    /\ FreeAcc(s)
    /\ Return(s, "SUCCESS")
    /\ adj' = [n \in DOMAIN accs' |-> IF n \in DOMAIN adj THEN adj[n] ELSE 0]
    /\ UNCHANGED <<log, cards, logEx, accAsync, logAsync, rc, ops, faults, doubt>>

-------------------------------------------------------------------------------
\* "lock" and "unlock": asynchronous mode, for both files one after the other.
\* A nested "lock" or a lone "unlock" only logs an error.

AsyncAcc(s) ==
    /\ pc[s] = "asyncacc"
    /\ IF accAsync[s] THEN UNCHANGED <<accEx, accAsync>>
       ELSE /\ accEx \in {None, s} /\ accEx' = s
            /\ accAsync' = [accAsync EXCEPT ![s] = TRUE]
    /\ Goto(s, "asynclog")
    /\ UNCHANGED <<files, logEx, logAsync, cmd, buf, rc, pend, pos, reply, history>>

AsyncLog(s) ==
    /\ pc[s] = "asynclog"
    /\ IF logAsync[s] THEN UNCHANGED <<logEx, logAsync>>
       ELSE /\ logEx \in {None, s} /\ logEx' = s
            /\ logAsync' = [logAsync EXCEPT ![s] = TRUE]
    /\ Return(s, "SUCCESS")
    /\ UNCHANGED <<files, accEx, accAsync, cmd, rc, history>>

UnasyncAcc(s) ==
    /\ pc[s] = "unasyncacc"
    /\ IF accAsync[s] THEN /\ accEx' = IF accEx = s THEN None ELSE accEx
                           /\ accAsync' = [accAsync EXCEPT ![s] = FALSE]
       ELSE UNCHANGED <<accEx, accAsync>>
    /\ Goto(s, "unasynclog")
    /\ UNCHANGED <<files, logEx, logAsync, cmd, buf, rc, pend, pos, reply, history>>

UnasyncLog(s) ==
    /\ pc[s] = "unasynclog"
    /\ IF logAsync[s] THEN /\ logEx' = IF logEx = s THEN None ELSE logEx
                           /\ logAsync' = [logAsync EXCEPT ![s] = FALSE]
       ELSE UNCHANGED <<logEx, logAsync>>
    /\ Return(s, "SUCCESS")
    /\ UNCHANGED <<files, accEx, accAsync, cmd, rc, history>>

-------------------------------------------------------------------------------
AccountStep(s) == \/ Peek(s) \/ Lock(s) \/ Unlock(s)
                  \/ GetTrans(s) \/ GetCharge(s) \/ GetEdit(s) \/ GetCard(s)
                  \/ SqlUse(s) \/ TransPut(s) \/ EditPut(s)
                  \/ AddLock(s) \/ AddCount(s) \/ AddWrite(s)

LogStep(s) == LogLock(s) \/ LogAdd(s) \/ LogCount(s) \/ LogWrite(s) \/ LogUnlock(s)

AsyncStep(s) == AsyncAcc(s) \/ AsyncLog(s) \/ UnasyncAcc(s) \/ UnasyncLog(s)

Step(s) == AccountStep(s) \/ LogStep(s) \/ AsyncStep(s)

Next == \E s \in Sessions :
            \/ Connect(s) \/ Exit(s) \/ Crash(s) \/ LogFail(s)
            \/ \E c \in Cmds : Start(s, c)
            \/ Step(s)

Spec == Init /\ [][Next]_vars

\* A process that can run does run, and a waiter for a file lock that is freed
\* again and again gets it at last.  Clients owe nothing: they may stay idle.
Waits(s)     == pc[s] \in {"peek", "lock", "addlock", "asyncacc",
                           "loglock", "logadd", "asynclog"}
FairSpec     == Spec /\ \A s \in Sessions : WF_vars(Step(s)) /\ SF_vars(Waits(s) /\ Step(s))
===============================================================================
