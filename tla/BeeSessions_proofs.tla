-------------------------- MODULE BeeSessions_proofs --------------------------
(***************************************************************************)
(* Proofs about the billing core for any number of sessions, any commands  *)
(* and any bounds.  First, types and what the file locks give: the lock    *)
(* order, a log that only grows and, if no account is deleted or broken    *)
(* and nobody counts resources (ReliableFile), no lost update, no movement *)
(* on a frozen account and exclusive use after "lock".                     *)
(*                                                                         *)
(* Then what the log and the account file say of the money: the log        *)
(* explains every balance, new accounts get numbers of their own, an       *)
(* unlimited account pays for nothing, and the core implements BeeLedger.  *)
(* Besides ReliableFile, where a theorem says so: no account is switched   *)
(* off and unlimited at once (OneSwitch), nothing fails (NoFailure), and   *)
(* traffic is not counted both ways by one command (OneRecord).            *)
(***************************************************************************)
EXTENDS BeeAudit, SumLemmas, SequenceTheorems, TLAPS

\* What the type invariant needs besides itself to be inductive: a session
\* about to write an account has found it, the daily charge stays inside the
\* file, and a session in log_add() has a record to add.
FoundBeforePut ==
    \A s \in Sessions : pc[s] = "put" => cmd[s].acc \in DOMAIN accs

ChargeInFile ==
    \A s \in Sessions :
        cmd[s].op = "charge" /\ pc[s] \notin {"idle", "down"} =>
            cmd[s].acc \in 1 .. cmd[s].y /\ cmd[s].y <= Len(accs)

LogLabels == {"logadd", "logcount", "logwrite"}
RecordToAdd == \A s \in Sessions : pc[s] \in LogLabels => pend[s] # <<>>

TypeInv == TypeOK /\ FoundBeforePut /\ ChargeInFile /\ RecordToAdd

-------------------------------------------------------------------------------
\* Types of the operators the actions are built from.

LEMMA StatusType ==
    ASSUME NEW file, NEW n PROVE acci_get(file, n) \in Codes
BY DEF acci_get, Codes, Valid, Invalid

LEMMA LoadedType ==
    ASSUME NEW file \in Seq(AccRec), NEW n \in DOMAIN file
    PROVE  Loaded(file, n) \in AccRec
<1>1. file[n] \in AccRec
  OBVIOUS
<1> QED
  BY <1>1 DEF Loaded, AccRec, Tags

LEMMA ZeroAccType == ZeroAcc \in AccRec
BY DEF ZeroAcc, AccRec, Tags

LEMMA NoCommandType == NoCommand \in CmdRec
BY DEF NoCommand, CmdRec, Ops

LEMMA SumsType ==
    ASSUME NEW c \in CmdRec, NEW a \in AccRec
    PROVE  /\ Sums(c, a) \in Seq(Int) /\ Len(Sums(c, a)) >= 1
           /\ c.op = "bires" => Len(Sums(c, a)) = 2
           /\ Sums(c, a)[1] \in Int
           /\ c.op = "bires" => Sums(c, a)[2] \in Int
           /\ Total(c, a) \in Int
<1>1. /\ c.op \in Ops /\ c.x \in Int /\ c.y \in Int /\ a.bal \in Int
  BY DEF CmdRec, AccRec
<1>2. AdderSum(a.bal, c.x, c.y) \in Int
  BY <1>1 DEF AdderSum
<1>3. CASE ResId(c) = "ADDER"
  <2>1. c.op # "bires"
    BY <1>3 DEF ResId
  <2> QED
    BY <1>1, <1>2, <1>3, <2>1 DEF Sums, Total
<1>4. CASE ResId(c) # "ADDER" /\ c.op = "bires"
  BY <1>1, <1>4 DEF Sums, Total
<1>5. CASE ResId(c) # "ADDER" /\ c.op # "bires"
  BY <1>1, <1>5 DEF Sums, Total
<1> QED
  BY <1>3, <1>4, <1>5

LEMMA TransRecType ==
    ASSUME NEW c \in CmdRec, NEW a \in AccRec, NEW status
    PROVE  TransRec(c, a, status) \in AccRec
<1> DEFINE b == a.bal + Total(c, a)
<1>1. b \in Int
  BY SumsType DEF AccRec
<1> HIDE DEF b
<1>2. [a EXCEPT !.bal = b] \in AccRec
  BY <1>1 DEF AccRec
<1>3. [[a EXCEPT !.bal = b] EXCEPT !.tcredit = 0] \in AccRec
  <2>1. \A d \in AccRec : [d EXCEPT !.tcredit = 0] \in AccRec
    BY DEF AccRec
  <2> QED
    BY <1>2, <2>1
<1>4. [a EXCEPT !.bal = b, !.tcredit = 0] = [[a EXCEPT !.bal = b] EXCEPT !.tcredit = 0]
  OBVIOUS
<1>5. TransRec(c, a, status) \in {a, [a EXCEPT !.bal = b],
                                  [a EXCEPT !.bal = b, !.tcredit = 0]}
  BY DEF TransRec, b
<1> QED
  BY <1>2, <1>3, <1>4, <1>5

LEMMA TransLogType ==
    ASSUME NEW c \in CmdRec, NEW a \in AccRec, NEW status \in Codes, NEW err \in Codes
    PROVE  /\ TransLog(c, a, status, err) \in Seq(LogRec)
           /\ c.op # "bires" => TransLog(c, a, status, err) # <<>>
<1> DEFINE free == /\ c.op \in {"add", "res", "card_add", "bires"}
                   /\ {"UNLIMIT", "LOG"} \cap a.tag = {"UNLIMIT"}
                   /\ ResId(c) # "ADDER"
           bal  == IF status \in Valid \cup {"ACC_FROZEN", "ACC_OFF"} THEN a.bal ELSE 0
           Rec(sum, b) == [no |-> c.acc, sum |-> IF free THEN 0 ELSE sum,
                           bal |-> b, err |-> err, res |-> ResId(c)]
<1>1. bal \in Int
  BY DEF AccRec
<1>2. \A sum, b \in Int : Rec(sum, b) \in LogRec
  BY DEF LogRec, CmdRec, ResId
<1>3. BalanceNA \in Int
  BY DEF BalanceNA
<1> HIDE DEF free, bal, Rec
<1>4. CASE c.op # "bires"
  <2>1. Rec(Sums(c, a)[1], bal) \in LogRec
    BY <1>1, <1>2, SumsType
  <2>2. TransLog(c, a, status, err) = <<Rec(Sums(c, a)[1], bal)>>
    BY <1>4 DEF TransLog, free, bal, Rec
  <2> QED
    BY <2>1, <2>2, <1>4
<1>5. CASE c.op = "bires"
  <2> DEFINE first  == IF c.x # 0 THEN <<Rec(Sums(c, a)[1], bal)>> ELSE <<>>
             second == IF c.y # 0
                       THEN <<Rec(Sums(c, a)[2], IF c.x # 0 THEN BalanceNA ELSE bal)>>
                       ELSE <<>>
  <2>1. TransLog(c, a, status, err) = first \o second
    BY <1>5 DEF TransLog, free, bal, Rec
  <2>2. Rec(Sums(c, a)[1], bal) \in LogRec
    BY <1>1, <1>2, SumsType
  <2>3. first \in Seq(LogRec)
    BY <2>2
  <2>4. Rec(Sums(c, a)[2], IF c.x # 0 THEN BalanceNA ELSE bal) \in LogRec
    BY <1>1, <1>2, <1>3, <1>5, SumsType
  <2>5. second \in Seq(LogRec)
    BY <2>4
  <2> HIDE DEF first, second
  <2> QED
    BY <2>1, <2>3, <2>5, <1>5
<1> QED
  BY <1>4, <1>5

LEMMA EditRecType ==
    ASSUME NEW c \in CmdRec, NEW a \in AccRec
    PROVE  EditRec(c, a) \in AccRec
<1>1. /\ c.acc \in Nat /\ c.x \in Int /\ c.y \in Int
      /\ a.tag \in SUBSET Tags /\ a.bal \in Int /\ a.res \in Int
  BY DEF CmdRec, AccRec
<1>2. CASE c.op \in DOMAIN TagSet
  <2>1. a.tag \cup {TagSet[c.op]} \in SUBSET Tags
    BY <1>1, <1>2 DEF TagSet, Tags
  <2>2. EditRec(c, a) = [a EXCEPT !.tag = @ \cup {TagSet[c.op]}]
    BY <1>2 DEF EditRec, TagSet, TagClear
  <2> QED
    BY <2>1, <2>2 DEF AccRec
<1>3. CASE c.op \notin DOMAIN TagSet /\ c.op \in DOMAIN TagClear
  <2>1. a.tag \ {TagClear[c.op]} \in SUBSET Tags
    BY <1>1
  <2>2. EditRec(c, a) = [a EXCEPT !.tag = @ \ {TagClear[c.op]}]
    BY <1>3 DEF EditRec, TagSet, TagClear
  <2> QED
    BY <2>1, <2>2 DEF AccRec
<1>4. CASE c.op = "fix"
  <2> DEFINE g == a.tag \ {"BROKEN", "DELETED"}
             b == IF c.y # 0 THEN c.x ELSE a.bal
             a1 == [a EXCEPT !.no = c.acc]
             a2 == [a1 EXCEPT !.tag = g]
  <2>1. g \in SUBSET Tags /\ b \in Int
    BY <1>1
  <2>2. EditRec(c, a) = [a2 EXCEPT !.bal = b]
    BY <1>4 DEF EditRec, TagSet, TagClear
  <2>3. a1 \in AccRec
    BY <1>1 DEF AccRec
  <2> HIDE DEF a1, g, b
  <2>4. a2 \in AccRec
    BY <2>1, <2>3 DEF AccRec
  <2> HIDE DEF a2
  <2>5. [a2 EXCEPT !.bal = b] \in AccRec
    BY <2>1, <2>4 DEF AccRec
  <2> QED
    BY <2>2, <2>5
<1>5. CASE c.op \notin DOMAIN TagSet \cup DOMAIN TagClear \cup {"fix"}
  <2>1. [a EXCEPT !.tcredit = c.x] \in AccRec
    BY <1>1 DEF AccRec
  <2>2. [a EXCEPT !.res = a.res + c.x] \in AccRec
    BY <1>1 DEF AccRec
  <2>3. [a EXCEPT !.tag = a.tag \cup {"DELETED"}] \in AccRec
    BY <1>1 DEF AccRec, Tags
  <2>4. EditRec(c, a) \in {a, [a EXCEPT !.tcredit = c.x], [a EXCEPT !.res = a.res + c.x],
                           [a EXCEPT !.tag = a.tag \cup {"DELETED"}]}
    BY <1>5 DEF EditRec
  <2> QED
    BY <2>1, <2>2, <2>3, <2>4
<1> QED
  BY <1>2, <1>3, <1>4, <1>5
-------------------------------------------------------------------------------
\* The type invariant.

LEMMA InitType == Init => TypeInv
<1> SUFFICES ASSUME Init PROVE TypeInv
  OBVIOUS
<1> USE SessionsAssumption DEF Init
<1>1. TypeOK
  BY ZeroAccType, NoCommandType
     DEF TypeOK, Labels, Codes, Valid, Replies
<1> QED
  BY <1>1 DEF TypeInv, FoundBeforePut, ChargeInFile, RecordToAdd, LogLabels

\* Steps every action is put together from.
LEMMA ReturnType ==
    ASSUME TypeOK, NEW s \in Sessions, NEW r \in Replies, Return(s, r)
    PROVE  /\ pc' \in [Sessions -> Labels] /\ reply' \in [Sessions -> Replies]
           /\ buf' \in [Sessions -> AccRec] /\ pend' \in [Sessions -> Seq(LogRec)]
           /\ pos' \in [Sessions -> Nat]
           /\ pc'[s] = "idle"
           /\ \A t \in Sessions \ {s} : pc'[t] = pc[t] /\ pend'[t] = pend[t]
BY ZeroAccType DEF TypeOK, Return, Goto, Labels

LEMMA FreeAccType ==
    ASSUME TypeOK, NEW s \in Sessions, FreeAcc(s)
    PROVE  accEx' \in Sessions \cup {None}
BY DEF TypeOK, FreeAcc

LEMMA FreeLogType ==
    ASSUME TypeOK, NEW s \in Sessions, FreeLog(s)
    PROVE  logEx' \in Sessions \cup {None}
BY DEF TypeOK, FreeLog

LEMMA StateType == \A a : accs_state(a) \in Codes
BY DEF accs_state, Codes, Valid

\* The write of a record, and its result when the write faults.
LEMMA PutType ==
    ASSUME TypeOK, NEW s \in Sessions, NEW a \in AccRec, NEW outcome \in Outcomes,
           Put(s, a, outcome), PutFaults(outcome), cmd[s].acc \in DOMAIN accs
    PROVE  /\ accs' \in Seq(AccRec) /\ DOMAIN accs' = DOMAIN accs
           /\ Len(accs') = Len(accs)
           /\ faults' \in 0..MaxFaults
<1>1. faults' \in 0..MaxFaults
  <2>1. MaxFaults \in Nat /\ faults \in 0..MaxFaults
    BY SessionsAssumption DEF TypeOK
  <2>2. faults' = faults \/ (faults < MaxFaults /\ faults' = faults + 1)
    BY DEF PutFaults
  <2> QED
    BY <2>1, <2>2
<1>2. accs' \in Seq(AccRec) /\ DOMAIN accs' = DOMAIN accs /\ Len(accs') = Len(accs)
  <2>1. CASE accs' = accs
    BY <2>1 DEF TypeOK
  <2>2. CASE accs' = [accs EXCEPT ![cmd[s].acc] = a]
    <3>1. accs \in Seq(AccRec)
      BY DEF TypeOK
    <3>2. /\ accs' \in Seq(AccRec) /\ Len(accs') = Len(accs)
          /\ DOMAIN accs = 1 .. Len(accs) /\ DOMAIN accs' = 1 .. Len(accs')
      BY <2>2, <3>1
    <3> QED
      BY <3>2
  <2> QED
    BY <2>1, <2>2 DEF Put
<1> QED
  BY <1>1, <1>2

\* Appending to a file, or writing over a record of it.
LEMMA WriteAtType ==
    ASSUME NEW T, NEW file \in Seq(T), NEW n \in Nat, NEW r \in T
    PROVE  /\ WriteAt(file, n, r) \in Seq(T)
           /\ Len(WriteAt(file, n, r)) >= Len(file)
           /\ DOMAIN file \subseteq DOMAIN WriteAt(file, n, r)
<1>1. CASE n \in DOMAIN file
  BY <1>1 DEF WriteAt
<1>2. CASE n \notin DOMAIN file
  BY <1>2 DEF WriteAt
<1> QED
  BY <1>1, <1>2

LEMMA NextChargeType ==
    ASSUME TypeInv, NEW s \in Sessions, NextCharge(s), cmd[s].op = "charge",
           pc[s] \notin {"idle", "down"}, accs' = accs
    PROVE  /\ cmd' \in [Sessions -> CmdRec]
           /\ pc' \in [Sessions -> Labels] /\ reply' \in [Sessions -> Replies]
           /\ buf' \in [Sessions -> AccRec] /\ pend' \in [Sessions -> Seq(LogRec)]
           /\ pos' \in [Sessions -> Nat]
           /\ FoundBeforePut' /\ ChargeInFile' /\ RecordToAdd'
<1>1. /\ cmd[s] \in CmdRec /\ cmd[s].acc \in 1..cmd[s].y /\ cmd[s].y <= Len(accs)
      /\ cmd[s].y \in Int
  BY DEF TypeInv, TypeOK, ChargeInFile, CmdRec
<1>2. CASE cmd[s].acc < cmd[s].y
  <2>1. /\ cmd' = [cmd EXCEPT ![s].acc = @ + 1]
        /\ pc' = [pc EXCEPT ![s] = "lock"]
        /\ buf' = [buf EXCEPT ![s] = ZeroAcc]
        /\ UNCHANGED <<pend, pos, reply>>
    BY <1>2 DEF NextCharge, Goto
  <2>2. [cmd[s] EXCEPT !.acc = @ + 1] \in CmdRec
    BY <1>1 DEF CmdRec
  <2>3. cmd' = [cmd EXCEPT ![s] = [cmd[s] EXCEPT !.acc = @ + 1]]
    BY <2>1
  <2>4. cmd' \in [Sessions -> CmdRec]
    BY <2>2, <2>3 DEF TypeInv, TypeOK
  <2>5. /\ cmd'[s].op = "charge" /\ cmd'[s].y = cmd[s].y /\ cmd'[s].acc = cmd[s].acc + 1
        /\ \A t \in Sessions \ {s} : cmd'[t] = cmd[t]
    BY <1>1, <2>1 DEF TypeInv, TypeOK, CmdRec
  <2>6. FoundBeforePut' /\ RecordToAdd'
    BY <2>1, <2>5 DEF TypeInv, TypeOK, FoundBeforePut, RecordToAdd, LogLabels
  <2>7. ChargeInFile'
    BY <1>1, <1>2, <2>1, <2>5 DEF TypeInv, TypeOK, ChargeInFile, CmdRec
  <2> QED
    BY <2>1, <2>4, <2>6, <2>7, ZeroAccType DEF TypeInv, TypeOK, Labels
<1>3. CASE ~(cmd[s].acc < cmd[s].y)
  <2>1. Return(s, "SUCCESS") /\ UNCHANGED cmd
    BY <1>3 DEF NextCharge
  <2>2. "SUCCESS" \in Replies
    BY DEF Replies, Codes, Valid
  <2> QED
    BY <2>1, <2>2, ReturnType DEF TypeInv, TypeOK, FoundBeforePut, ChargeInFile,
                                  RecordToAdd, LogLabels
<1> QED
  BY <1>2, <1>3


\* The hard actions.

LEMMA GetTransType ==
    ASSUME TypeInv, NEW s \in Sessions, GetTrans(s)
    PROVE  TypeInv'
<1> USE DEF TypeInv
<1>1. cmd[s] \in CmdRec /\ cmd[s].op # "charge" /\ cmd' = cmd /\ accs' = accs
  BY DEF GetTrans, TypeOK, TransOps, files
<1>2. rc'[s] \in Codes /\ rc' \in [Sessions -> Codes] /\ rc'[s] = acci_get(accs, cmd[s].acc)
  BY StatusType DEF GetTrans, ReadInto, TypeOK
<1>3. \E a \in AccRec : buf' = [buf EXCEPT ![s] = a]
  <2>1. CASE cmd[s].acc \in DOMAIN accs
    BY <2>1, LoadedType DEF GetTrans, ReadInto, TypeOK
  <2>2. CASE cmd[s].acc \notin DOMAIN accs
    <3>1. {ZeroAcc} \cup {accs[i] : i \in DOMAIN accs} \subseteq AccRec
      BY ZeroAccType DEF TypeOK
    <3> QED
      BY <2>2, <3>1 DEF GetTrans, ReadInto
  <2> QED
    BY <2>1, <2>2
<1>4. buf' \in [Sessions -> AccRec] /\ buf'[s] \in AccRec
  BY <1>3 DEF TypeOK
<1> DEFINE recs == TransLog(cmd[s], buf'[s], rc'[s], rc'[s])
<1>5. recs \in Seq(LogRec) /\ (cmd[s].op # "bires" => recs # <<>>)
  BY <1>1, <1>2, <1>4, TransLogType
<1> HIDE DEF recs
<1>6. CASE Writable(rc'[s])
  <2>1. pc' = [pc EXCEPT ![s] = "put"] /\ pend' = pend
    BY <1>6 DEF GetTrans, Goto
  <2>2. cmd[s].acc \in DOMAIN accs
    BY <1>2, <1>6 DEF Writable, Valid, acci_get
  <2>3. TypeOK'
    BY <1>2, <1>4, <2>1 DEF GetTrans, TypeOK, Labels, files, locks, history
  <2> QED
    BY <1>1, <2>1, <2>2, <2>3
       DEF TypeOK, FoundBeforePut, ChargeInFile, RecordToAdd, LogLabels
<1>7. CASE ~Writable(rc'[s])
  <2>1. /\ pc' = [pc EXCEPT ![s] = IF cmd[s].op = "bires" THEN "unlock" ELSE "logadd"]
        /\ pend' = [pend EXCEPT ![s] = recs]
    BY <1>7 DEF GetTrans, Goto, recs
  <2>2. TypeOK'
    BY <1>2, <1>4, <1>5, <2>1 DEF GetTrans, TypeOK, Labels, files, locks, history
  <2> QED
    BY <1>1, <1>5, <2>1, <2>2
       DEF TypeOK, FoundBeforePut, ChargeInFile, RecordToAdd, LogLabels
<1> QED
  BY <1>6, <1>7

LEMMA TransPutType ==
    ASSUME TypeInv, NEW s \in Sessions, TransPut(s)
    PROVE  TypeInv'
<1> USE DEF TypeInv
<1>1. /\ cmd[s] \in CmdRec /\ buf[s] \in AccRec /\ rc[s] \in Codes
      /\ cmd[s].acc \in Nat /\ cmd[s].acc \in DOMAIN accs
  BY DEF TypeOK, CmdRec, FoundBeforePut, TransPut
<1>2. PICK outcome \in Outcomes :
        LET new == TransRec(cmd[s], buf[s], rc[s])
            err == IF outcome = "ok" /\ buf[s].no = cmd[s].acc THEN rc[s] ELSE "IO_ERROR"
        IN  /\ Put(s, new, outcome)
            /\ PutFaults(outcome)
            /\ pend' = [pend EXCEPT ![s] = TransLog(cmd[s], buf[s], rc[s], err)]
            /\ buf' = [buf EXCEPT ![s] = new]
            /\ doubt' = IF outcome = "unsynced" /\ Applies(rc[s], ResId(cmd[s]))
                        THEN doubt \cup {cmd[s].acc} ELSE doubt
  BY DEF TransPut
<1> DEFINE new  == TransRec(cmd[s], buf[s], rc[s])
           err  == IF outcome = "ok" /\ buf[s].no = cmd[s].acc THEN rc[s] ELSE "IO_ERROR"
           recs == TransLog(cmd[s], buf[s], rc[s], err)
<1>3. new \in AccRec
  BY <1>1, TransRecType
<1>4. err \in Codes
  BY <1>1 DEF Codes, Invalid
<1>5. recs \in Seq(LogRec) /\ (cmd[s].op # "bires" => recs # <<>>)
  BY <1>1, <1>4, TransLogType
<1>6. /\ Put(s, new, outcome) /\ PutFaults(outcome)
      /\ pend' = [pend EXCEPT ![s] = recs] /\ buf' = [buf EXCEPT ![s] = new]
      /\ doubt' \subseteq doubt \cup {cmd[s].acc}
  BY <1>2
<1> HIDE DEF new, err, recs
<1>7. /\ accs' \in Seq(AccRec) /\ DOMAIN accs' = DOMAIN accs /\ Len(accs') = Len(accs)
      /\ faults' \in 0..MaxFaults
  BY <1>1, <1>3, <1>6, PutType
<1>8. /\ pc' = [pc EXCEPT ![s] = IF cmd[s].op = "bires" THEN "unlock" ELSE "logadd"]
      /\ UNCHANGED <<log, cards, locks, cmd, rc, pos, reply, ops, adj>>
  BY DEF TransPut, Goto
<1>9. TypeOK'
  BY <1>1, <1>3, <1>5, <1>6, <1>7, <1>8 DEF TypeOK, Labels, locks
<1>10. FoundBeforePut'
  BY <1>7, <1>8 DEF TypeOK, FoundBeforePut
<1>11. ChargeInFile'
  BY <1>7, <1>8 DEF TypeOK, ChargeInFile, TransPut
<1>12. RecordToAdd'
  BY <1>5, <1>6, <1>8 DEF TypeOK, RecordToAdd, LogLabels
<1> QED
  BY <1>9, <1>10, <1>11, <1>12

LEMMA EditPutType ==
    ASSUME TypeInv, NEW s \in Sessions, EditPut(s)
    PROVE  TypeInv'
<1> USE DEF TypeInv
<1>1. cmd[s] \in CmdRec /\ buf[s] \in AccRec /\ cmd[s].acc \in DOMAIN accs
  BY DEF TypeOK, FoundBeforePut, EditPut
<1>2. PICK outcome \in Outcomes :
        Put(s, EditRec(cmd[s], buf[s]), outcome) /\ PutFaults(outcome)
  BY DEF EditPut
<1>3. EditRec(cmd[s], buf[s]) \in AccRec
  BY <1>1, EditRecType
<1>4. /\ accs' \in Seq(AccRec) /\ DOMAIN accs' = DOMAIN accs /\ Len(accs') = Len(accs)
      /\ faults' \in 0..MaxFaults
  BY <1>1, <1>2, <1>3, PutType
<1>5. accs'[cmd[s].acc].bal \in Int /\ accs[cmd[s].acc].bal \in Int
  <2>1. accs'[cmd[s].acc] \in AccRec /\ accs[cmd[s].acc] \in AccRec
    BY <1>1, <1>4 DEF TypeOK
  <2> QED
    BY <2>1 DEF AccRec
<1>6. adj' \in [DOMAIN accs' -> Int]
  <2>1. CASE cmd[s].op = "fix"
    <3> DEFINE d == adj[cmd[s].acc] + accs'[cmd[s].acc].bal - accs[cmd[s].acc].bal
    <3>1. adj' = [adj EXCEPT ![cmd[s].acc] = d]
      BY <2>1 DEF EditPut
    <3>2. d \in Int
      BY <1>1, <1>5 DEF TypeOK
    <3> HIDE DEF d
    <3> QED
      BY <1>4, <3>1, <3>2 DEF TypeOK
  <2>2. CASE cmd[s].op # "fix"
    BY <1>4, <2>2 DEF EditPut, TypeOK
  <2> QED
    BY <2>1, <2>2
<1>7. /\ pc' = [pc EXCEPT ![s] = "unlock"]
      /\ UNCHANGED <<log, cards, locks, cmd, buf, rc, pend, pos, reply, ops, doubt>>
  BY DEF EditPut, Goto
<1>8. TypeOK'
  BY <1>4, <1>6, <1>7 DEF TypeOK, Labels, locks
<1>9. FoundBeforePut'
  BY <1>4, <1>7 DEF TypeOK, FoundBeforePut
<1>10. ChargeInFile'
  BY <1>4, <1>7 DEF TypeOK, ChargeInFile, EditPut
<1>11. RecordToAdd'
  BY <1>7 DEF TypeOK, RecordToAdd, LogLabels
<1> QED
  BY <1>8, <1>9, <1>10, <1>11


LEMMA PeekType ==
    ASSUME TypeInv, NEW s \in Sessions, Peek(s)
    PROVE  TypeInv'
<1> USE DEF TypeInv
<1>1. /\ cmd[s] \in CmdRec
      /\ UNCHANGED <<files, logEx, accAsync, logAsync, history>>
  BY DEF Peek, TypeOK, CmdRec
<1>2. rc' = [rc EXCEPT ![s] = acci_get(accs, cmd[s].acc)] /\ rc' \in [Sessions -> Codes]
  BY StatusType DEF Peek, TypeOK
<1>3. rc'[s] = acci_get(accs, cmd[s].acc) /\ rc'[s] \in Replies /\ "SUCCESS" \in Replies
  BY <1>2, StatusType DEF TypeOK, Replies, Codes, Valid
<1>4. accEx' \in Sessions \cup {None}
  BY FreeAccType DEF Peek
<1>5. CASE Return(s, rc'[s]) /\ cmd' = cmd
  BY <1>1, <1>2, <1>3, <1>4, <1>5, ReturnType
     DEF TypeOK, FoundBeforePut, ChargeInFile, RecordToAdd, LogLabels, files, history
<1>6. CASE Return(s, "SUCCESS") /\ cmd' = cmd
  BY <1>1, <1>2, <1>3, <1>4, <1>6, ReturnType
     DEF TypeOK, FoundBeforePut, ChargeInFile, RecordToAdd, LogLabels, files, history
<1>7. CASE /\ rc'[s] \notin {"NOT_FOUND", "ACC_DELETED", "ACC_BROKEN"}
           /\ cmd' = [cmd EXCEPT ![s].op = "add",
                                 ![s].x = @ * accs[cmd[s].acc].bal]
           /\ Goto(s, "lock")
           /\ UNCHANGED <<buf, pend, pos, reply>>
  <2>1. cmd[s].acc \in DOMAIN accs
    BY <1>3, <1>7 DEF acci_get
  <2>2. accs[cmd[s].acc].bal \in Int /\ cmd[s].x \in Int
    <3>1. accs[cmd[s].acc] \in AccRec
      BY <2>1 DEF TypeOK
    <3> QED
      BY <1>1, <3>1 DEF AccRec, CmdRec
  <2> DEFINE k == cmd[s].x * accs[cmd[s].acc].bal
             c1 == [cmd[s] EXCEPT !.op = "add"]
             c2 == [c1 EXCEPT !.x = k]
  <2>3. k \in Int
    BY <2>2
  <2>4. cmd' = [cmd EXCEPT ![s] = c2]
    BY <1>7 DEF TypeOK, CmdRec
  <2>5. c1 \in CmdRec
    BY <1>1 DEF CmdRec, Ops, TransOps
  <2> HIDE DEF c1, k
  <2>6. c2 \in CmdRec
    BY <2>3, <2>5 DEF CmdRec
  <2>7. c2.op = "add"
    BY <2>5 DEF c1, CmdRec
  <2> HIDE DEF c2
  <2> QED
    <3>1. /\ pc' = [pc EXCEPT ![s] = "lock"] /\ UNCHANGED <<buf, pend, pos, reply>>
      BY <1>7 DEF Goto
    <3>2. cmd' \in [Sessions -> CmdRec] /\ pc' \in [Sessions -> Labels]
      BY <2>4, <2>6, <3>1 DEF TypeOK, Labels
    <3>3. TypeOK'
      BY <1>1, <1>2, <1>4, <3>1, <3>2 DEF TypeOK, files, history
    <3>4. FoundBeforePut' /\ ChargeInFile' /\ RecordToAdd'
      BY <1>1, <2>4, <2>7, <3>1
         DEF TypeOK, FoundBeforePut, ChargeInFile, RecordToAdd, LogLabels, files
    <3> QED
      BY <3>3, <3>4
<1> QED
  BY <1>5, <1>6, <1>7 DEF Peek

LEMMA GetChargeType ==
    ASSUME TypeInv, NEW s \in Sessions, GetCharge(s)
    PROVE  TypeInv'
<1> USE DEF TypeInv
<1>1. /\ cmd[s] \in CmdRec /\ cmd[s].op = "charge" /\ pc[s] = "get"
      /\ cmd[s].acc \in DOMAIN accs
      /\ UNCHANGED <<files, locks, history>>
  <2>1. /\ cmd[s] \in CmdRec /\ cmd[s].op = "charge" /\ pc[s] = "get"
        /\ UNCHANGED <<files, locks, history>>
    BY DEF GetCharge, TypeOK
  <2>2. cmd[s].acc \in 1..cmd[s].y /\ cmd[s].y <= Len(accs) /\ cmd[s].y \in Int
    BY <2>1 DEF ChargeInFile, CmdRec
  <2> QED
    BY <2>1, <2>2 DEF TypeOK
<1>2. rc' \in [Sessions -> Codes]
  BY StatusType DEF GetCharge, TypeOK
<1>3. CASE NextCharge(s)
  BY <1>1, <1>2, <1>3, NextChargeType DEF TypeOK, files, locks, history
<1>4. CASE \E fee \in Fees :
              /\ cmd' = [cmd EXCEPT ![s].x = fee]
              /\ Goto(s, IF fee = 0 THEN "unlock" ELSE "put")
              /\ buf' = [buf EXCEPT ![s] = Loaded(accs, cmd[s].acc)]
              /\ UNCHANGED <<pend, pos, reply>>
  <2>1. PICK fee \in Fees :
              /\ cmd' = [cmd EXCEPT ![s].x = fee]
              /\ Goto(s, IF fee = 0 THEN "unlock" ELSE "put")
              /\ buf' = [buf EXCEPT ![s] = Loaded(accs, cmd[s].acc)]
              /\ UNCHANGED <<pend, pos, reply>>
    BY <1>4
  <2>2. fee \in Int
    BY SessionsAssumption
  <2> DEFINE c == [cmd[s] EXCEPT !.x = fee]
  <2>3. cmd' = [cmd EXCEPT ![s] = c]
    BY <2>1
  <2>4. c \in CmdRec /\ c.op = "charge" /\ c.acc = cmd[s].acc /\ c.y = cmd[s].y
    BY <1>1, <2>2 DEF CmdRec
  <2> HIDE DEF c
  <2>5. buf' \in [Sessions -> AccRec]
    BY <1>1, <2>1, LoadedType DEF TypeOK
  <2>6. TypeOK'
    <3>1. pc' \in [Sessions -> Labels] /\ UNCHANGED <<pend, pos, reply>>
      BY <2>1 DEF TypeOK, Goto, Labels
    <3>2. cmd' \in [Sessions -> CmdRec]
      BY <2>3, <2>4 DEF TypeOK
    <3> QED
      BY <1>1, <1>2, <2>5, <3>1, <3>2 DEF TypeOK, files, locks, history
  <2>7. FoundBeforePut'
    BY <1>1, <2>1, <2>3, <2>4 DEF TypeOK, FoundBeforePut, Goto, files
  <2>8. ChargeInFile'
    BY <1>1, <2>1, <2>3, <2>4 DEF TypeOK, ChargeInFile, Goto, files
  <2>9. RecordToAdd'
    BY <1>1, <2>1 DEF TypeOK, RecordToAdd, LogLabels, Goto
  <2> QED
    BY <2>6, <2>7, <2>8, <2>9
<1> QED
  BY <1>3, <1>4 DEF GetCharge

LEMMA GetEditType ==
    ASSUME TypeInv, NEW s \in Sessions, GetEdit(s)
    PROVE  TypeInv'
<1> USE DEF TypeInv
<1> DEFINE n == cmd[s].acc
           status == acci_get(accs, n)
           a == IF n \in DOMAIN accs THEN Loaded(accs, n) ELSE ZeroAcc
<1>1. /\ UNCHANGED <<files, logEx, accAsync, logAsync, cmd, history>>
      /\ cmd[s].op # "charge"
  BY DEF GetEdit, EditOps, TagOps, TagSet, TagClear
<1>2. rc' \in [Sessions -> Codes]
  BY StatusType DEF GetEdit, TypeOK
<1>3. accEx' \in Sessions \cup {None}
  BY FreeAccType DEF GetEdit, TypeOK
<1>4. CASE \E r \in Replies : Return(s, r)
  <2>1. PICK r \in Replies : Return(s, r)
    BY <1>4
  <2> QED
    BY <1>1, <1>2, <1>3, <2>1, ReturnType
       DEF TypeOK, FoundBeforePut, ChargeInFile, RecordToAdd, LogLabels, files, history
<1>5. CASE /\ ~Refuses(cmd[s], status, a)
           /\ buf' = [buf EXCEPT ![s] = a]
           /\ Goto(s, "put")
           /\ UNCHANGED <<pend, pos, reply>>
  <2>1. n \in DOMAIN accs
    BY <1>5 DEF Refuses, acci_get
  <2>2. a \in AccRec
    BY <2>1, LoadedType DEF TypeOK
  <2>3. pc' = [pc EXCEPT ![s] = "put"]
    BY <1>5 DEF Goto
  <2>4. buf' \in [Sessions -> AccRec]
    BY <1>5, <2>2 DEF TypeOK
  <2>5. TypeOK'
    BY <1>1, <1>2, <1>3, <1>5, <2>3, <2>4 DEF TypeOK, Labels, files, history
  <2>6. FoundBeforePut' /\ ChargeInFile' /\ RecordToAdd'
    BY <1>1, <1>5, <2>1, <2>3
       DEF TypeOK, FoundBeforePut, ChargeInFile, RecordToAdd, LogLabels, files
  <2> QED
    BY <2>5, <2>6
<1>6. /\ "NOT_FOUND" \in Replies /\ "REFUSED" \in Replies
  BY DEF Replies, Codes, Invalid
<1> QED
  BY <1>4, <1>5, <1>6 DEF GetEdit

LEMMA GetCardType ==
    ASSUME TypeInv, NEW s \in Sessions, GetCard(s)
    PROVE  TypeInv'
<1> USE DEF TypeInv
<1>1. /\ UNCHANGED <<files, logEx, accAsync, logAsync, cmd, history>>
      /\ cmd[s].op # "charge"
  BY DEF GetCard
<1>2. rc' \in [Sessions -> Codes]
  BY StatusType DEF GetCard, TypeOK
<1>3. accEx' \in Sessions \cup {None}
  BY FreeAccType DEF GetCard
<1>4. CASE \E r \in Replies : Return(s, r)
  <2>1. PICK r \in Replies : Return(s, r)
    BY <1>4
  <2> QED
    BY <1>1, <1>2, <1>3, <2>1, ReturnType
       DEF TypeOK, FoundBeforePut, ChargeInFile, RecordToAdd, LogLabels, files, history
<1>5. CASE Goto(s, "sql") /\ UNCHANGED <<buf, pend, pos, reply>>
  BY <1>1, <1>2, <1>3, <1>5
     DEF TypeOK, Goto, Labels, FoundBeforePut, ChargeInFile, RecordToAdd, LogLabels,
         files, history
<1>6. /\ "NOT_FOUND" \in Replies /\ "REFUSED" \in Replies
  BY DEF Replies, Codes, Invalid
<1> QED
  BY <1>4, <1>5, <1>6 DEF GetCard

LEMMA SqlUseType ==
    ASSUME TypeInv, NEW s \in Sessions, SqlUse(s)
    PROVE  TypeInv'
<1> USE DEF TypeInv
<1>1. UNCHANGED <<accs, log, locks, rc, history>> /\ cmd[s] \in CmdRec
  BY DEF SqlUse, TypeOK
<1>2. CASE cmd[s].y \in cards
  <2> DEFINE c == [op |-> "card_add", acc |-> cmd[s].acc,
                   x |-> InitCards[cmd[s].y], y |-> 0]
  <2>1. /\ cards' = cards \ {cmd[s].y} /\ cmd' = [cmd EXCEPT ![s] = c]
        /\ pc' = [pc EXCEPT ![s] = "lock"] /\ UNCHANGED <<buf, pend, pos, reply>>
    BY <1>2 DEF SqlUse, Goto
  <2>2. c \in CmdRec
    BY <1>1, <1>2, SessionsAssumption DEF TypeOK, CmdRec, Ops, TransOps
  <2>3. c.op = "card_add"
    OBVIOUS
  <2> HIDE DEF c
  <2>4. TypeOK'
    BY <1>1, <2>1, <2>2 DEF TypeOK, Labels, locks, history
  <2> QED
    BY <1>1, <2>1, <2>3, <2>4
       DEF TypeOK, FoundBeforePut, ChargeInFile, RecordToAdd, LogLabels
<1>3. CASE cmd[s].y \notin cards
  <2>1. Return(s, "NOT_FOUND") /\ UNCHANGED <<cards, cmd>>
    BY <1>3 DEF SqlUse
  <2>2. "NOT_FOUND" \in Replies
    BY DEF Replies, Codes, Invalid
  <2> QED
    BY <1>1, <2>1, <2>2, ReturnType
       DEF TypeOK, FoundBeforePut, ChargeInFile, RecordToAdd, LogLabels, locks, history
<1> QED
  BY <1>2, <1>3

LEMMA UnlockType ==
    ASSUME TypeInv, NEW s \in Sessions, Unlock(s)
    PROVE  TypeInv'
<1> USE DEF TypeInv
<1>1. /\ UNCHANGED <<files, logEx, accAsync, logAsync, rc, history>>
      /\ pc[s] = "unlock"
  BY DEF Unlock
<1>2. accEx' \in Sessions \cup {None}
  BY FreeAccType DEF Unlock
<1>3. CASE cmd[s].op = "bires"
  <2>1. Goto(s, "loglock") /\ UNCHANGED <<cmd, buf, pend, pos, reply>>
    BY <1>3 DEF Unlock, EditOps, TagOps, TagSet, TagClear
  <2> QED
    BY <1>1, <1>2, <2>1
       DEF TypeOK, Goto, Labels, FoundBeforePut, ChargeInFile, RecordToAdd, LogLabels,
           files, history
<1>4. CASE NextCharge(s) /\ cmd[s].op = "charge"
  BY <1>1, <1>2, <1>4, NextChargeType DEF TypeOK, files, history
<1>5. CASE \E r \in Replies : Return(s, r) /\ UNCHANGED cmd
  <2>1. PICK r \in Replies : Return(s, r) /\ UNCHANGED cmd
    BY <1>5
  <2> QED
    BY <1>1, <1>2, <2>1, ReturnType
       DEF TypeOK, FoundBeforePut, ChargeInFile, RecordToAdd, LogLabels, files, history
<1>6. "SUCCESS" \in Replies /\ reply[s] \in Replies
  BY DEF TypeOK, Replies, Codes, Valid
<1>7. CASE cmd[s].op # "bires"
  <2>1. \/ NextCharge(s) /\ cmd[s].op = "charge"
        \/ Return(s, "SUCCESS") /\ UNCHANGED cmd
        \/ Return(s, reply[s]) /\ UNCHANGED cmd
    <3>1. CASE cmd[s].op \in EditOps
      BY <1>7, <3>1 DEF Unlock, EditOps, TagOps, TagSet, TagClear
    <3>2. CASE cmd[s].op \notin EditOps
      BY <1>7, <3>2 DEF Unlock
    <3> QED
      BY <3>1, <3>2
  <2> QED
    BY <1>4, <1>5, <1>6, <2>1
<1> QED
  BY <1>3, <1>7

LEMMA CrashType ==
    ASSUME TypeInv, NEW s \in Sessions, Crash(s)
    PROVE  TypeInv'
<1> USE DEF TypeInv
<1>1. faults' \in 0..MaxFaults
  BY SessionsAssumption DEF Crash, CountFault, TypeOK
<1>2. doubt' \subseteq Nat
  BY DEF Crash, TypeOK, CmdRec
<1>3. Gone(s) /\ cmd' = [cmd EXCEPT ![s] = NoCommand]
  BY DEF Crash
<1>4. TypeOK'
  <2>1. cmd' \in [Sessions -> CmdRec]
    BY <1>3, NoCommandType DEF TypeOK
  <2> QED
    BY <1>1, <1>2, <1>3, <2>1, ZeroAccType DEF Gone, TypeOK, Labels, files
<1> QED
  BY <1>3, <1>4 DEF Gone, TypeOK, FoundBeforePut, ChargeInFile, RecordToAdd, LogLabels,
                    files

LEMMA ExitType ==
    ASSUME TypeInv, NEW s \in Sessions, Exit(s)
    PROVE  TypeInv'
<1> USE DEF TypeInv
<1>1. TypeOK'
  BY ZeroAccType DEF Exit, Gone, TypeOK, Labels, files
<1> QED
  BY <1>1 DEF Exit, Gone, TypeOK, FoundBeforePut, ChargeInFile, RecordToAdd, LogLabels,
              files

LEMMA LogDoneType ==
    ASSUME TypeInv, NEW s \in Sessions, NEW r \in Replies, pc[s] = "logwrite",
           LogDone(s, r), log' \in Seq(LogRec), faults' \in 0..MaxFaults,
           doubt' \subseteq Nat
    PROVE  TypeInv'
<1> USE DEF TypeInv
<1>1. pend[s] \in Seq(LogRec) /\ pend[s] # <<>>
  BY DEF TypeOK, RecordToAdd, LogLabels
<1>2. Tail(pend[s]) \in Seq(LogRec) /\ Len(Tail(pend[s])) = Len(pend[s]) - 1
  BY <1>1
<1>3. pend' = [pend EXCEPT ![s] = Tail(pend[s])]
  BY DEF LogDone
<1>4. pc' = [pc EXCEPT ![s] = IF Len(pend[s]) > 1 THEN "logadd" ELSE AfterLog(s)]
  BY DEF LogDone, Goto
<1>5. AfterLog(s) \in {"logunlock", "unlock"}
  BY DEF AfterLog
<1>6. logEx' \in Sessions \cup {None}
  BY FreeLogType DEF LogDone
<1>7. /\ reply' = [reply EXCEPT ![s] = r]
      /\ UNCHANGED <<accs, cards, accEx, accAsync, logAsync, cmd, buf, rc, pos, ops, adj>>
  BY DEF LogDone
<1>8. TypeOK'
  BY <1>2, <1>3, <1>4, <1>5, <1>6, <1>7 DEF TypeOK, Labels
<1>9. FoundBeforePut' /\ ChargeInFile'
  BY <1>4, <1>5, <1>7 DEF TypeOK, FoundBeforePut, ChargeInFile
<1>10. RecordToAdd'
  <2>1. Len(pend[s]) > 1 => Tail(pend[s]) # <<>>
    <3>1. \A q \in Seq(LogRec) : q = <<>> => Len(q) = 0
      OBVIOUS
    <3>2. \A m, k \in Nat : m = k - 1 /\ k > 1 => m # 0
      OBVIOUS
    <3>3. Len(pend[s]) \in Nat /\ Len(Tail(pend[s])) \in Nat
      BY <1>1, <1>2
    <3> QED
      BY <1>2, <3>1, <3>2, <3>3
  <2> QED
    BY <1>3, <1>4, <1>5, <2>1 DEF TypeOK, RecordToAdd, LogLabels
<1> QED
  BY <1>8, <1>9, <1>10

LEMMA LogWriteType ==
    ASSUME TypeInv, NEW s \in Sessions, LogWrite(s)
    PROVE  TypeInv'
<1>1. pend[s] \in Seq(LogRec) /\ pend[s] # <<>> /\ pos[s] + 1 \in Nat /\ log \in Seq(LogRec)
  BY DEF LogWrite, TypeInv, TypeOK, RecordToAdd, LogLabels
<1>2. Head(pend[s]) \in LogRec
  BY <1>1
<1>3. log' \in Seq(LogRec)
  BY <1>1, <1>2, WriteAtType DEF LogWrite
<1>4. faults' \in 0..MaxFaults /\ doubt' \subseteq Nat
  BY DEF LogWrite, TypeInv, TypeOK
<1>5. accs_state(buf[s]) \in Replies
  BY StateType DEF Replies
<1> QED
  BY <1>3, <1>4, <1>5, LogDoneType DEF LogWrite

LEMMA LogFailType ==
    ASSUME TypeInv, NEW s \in Sessions, LogFail(s)
    PROVE  TypeInv'
<1>1. faults' \in 0..MaxFaults
  BY SessionsAssumption DEF LogFail, CountFault, TypeInv, TypeOK
<1>2. doubt' \subseteq Nat /\ log' \in Seq(LogRec)
  BY DEF LogFail, TypeInv, TypeOK, CmdRec
<1>3. "IO_ERROR" \in Replies
  BY DEF Replies, Codes, Invalid
<1> QED
  BY <1>1, <1>2, <1>3, LogDoneType DEF LogFail

LEMMA AddWriteType ==
    ASSUME TypeInv, NEW s \in Sessions, AddWrite(s)
    PROVE  TypeInv'
<1> USE DEF TypeInv
<1> DEFINE n == pos[s] + 1
           a == [ZeroAcc EXCEPT !.no = n]
           c == [cmd[s] EXCEPT !.acc = n]
<1>1. n \in Nat /\ cmd[s] \in CmdRec
  BY DEF TypeOK
<1>2. a \in AccRec
  BY <1>1 DEF ZeroAcc, AccRec, Tags
<1>3. c \in CmdRec
  BY <1>1 DEF CmdRec
<1>4. accs' = WriteAt(accs, n, a) /\ cmd' = [cmd EXCEPT ![s] = c]
  BY DEF AddWrite, TypeOK
<1>5. accs \in Seq(AccRec)
  BY DEF TypeOK
<1> HIDE DEF n, a, c
<1>6. /\ accs' \in Seq(AccRec) /\ Len(accs') >= Len(accs) /\ DOMAIN accs \subseteq DOMAIN accs'
  BY <1>1, <1>2, <1>4, <1>5, WriteAtType
<1>7. "SUCCESS" \in Replies
  BY DEF Replies, Codes, Valid
<1>8. /\ Return(s, "SUCCESS")
      /\ adj' = [m \in DOMAIN accs' |-> IF m \in DOMAIN adj THEN adj[m] ELSE 0]
      /\ UNCHANGED <<log, cards, logEx, accAsync, logAsync, rc, ops, faults, doubt>>
  BY DEF AddWrite
<1>9. accEx' \in Sessions \cup {None}
  BY FreeAccType DEF AddWrite
<1>10. TypeOK'
  <2>1. adj' \in [DOMAIN accs' -> Int]
    BY <1>8 DEF TypeOK
  <2> QED
    BY <1>3, <1>4, <1>6, <1>7, <1>8, <1>9, <2>1, ReturnType DEF TypeOK
<1>11. /\ pc'[s] = "idle"
       /\ \A t \in Sessions \ {s} : pc'[t] = pc[t] /\ pend'[t] = pend[t] /\ cmd'[t] = cmd[t]
  BY <1>4, <1>7, <1>8, ReturnType DEF TypeOK
<1>12. ChargeInFile'
  <2> SUFFICES ASSUME NEW t \in Sessions, cmd'[t].op = "charge", pc'[t] \notin {"idle", "down"}
               PROVE  cmd'[t].acc \in 1..cmd'[t].y /\ cmd'[t].y <= Len(accs')
    BY DEF ChargeInFile
  <2>1. t # s
    BY <1>11
  <2>2. cmd[t].acc \in 1..cmd[t].y /\ cmd[t].y <= Len(accs) /\ cmd[t].y \in Int
    BY <1>11, <2>1 DEF ChargeInFile, TypeOK, CmdRec
  <2>3. Len(accs) \in Nat /\ Len(accs') \in Nat
    BY <1>5, <1>6
  <2> QED
    BY <1>6, <1>11, <2>1, <2>2, <2>3
<1>13. FoundBeforePut' /\ RecordToAdd'
  BY <1>6, <1>11 DEF FoundBeforePut, RecordToAdd, LogLabels
<1> QED
  BY <1>10, <1>12, <1>13

LEMMA LogLockType ==
    ASSUME TypeInv, NEW s \in Sessions, LogLock(s)
    PROVE  TypeInv'
<1> USE DEF TypeInv
<1>1. accs_state(buf[s]) \in Replies
  BY StateType DEF Replies
<1>2. /\ pc' = [pc EXCEPT ![s] = IF pend[s] = <<>> THEN "logunlock" ELSE "logadd"]
      /\ reply' = [reply EXCEPT ![s] = accs_state(buf[s])]
      /\ UNCHANGED <<files, accEx, accAsync, logAsync, cmd, buf, rc, pend, pos, history>>
  BY DEF LogLock, Goto
<1>3. TypeOK'
  BY <1>1, <1>2 DEF LogLock, TakeLog, TypeOK, Labels, files, history
<1> QED
  BY <1>2, <1>3 DEF LogLock, TypeOK, FoundBeforePut, ChargeInFile, RecordToAdd, LogLabels,
                    files

\* The last step of "lock" and of "unlock".
LEMMA AsyncLogType ==
    ASSUME TypeInv, NEW s \in Sessions, AsyncLog(s) \/ UnasyncLog(s)
    PROVE  TypeInv'
<1> USE DEF TypeInv
<1>1. Return(s, "SUCCESS") /\ UNCHANGED <<files, accEx, accAsync, cmd, rc, history>>
  BY DEF AsyncLog, UnasyncLog
<1>2. "SUCCESS" \in Replies
  BY DEF Replies, Codes, Valid
<1>3. logEx' \in Sessions \cup {None} /\ logAsync' \in [Sessions -> BOOLEAN]
  BY DEF AsyncLog, UnasyncLog, TypeOK
<1> QED
  BY <1>1, <1>2, <1>3, ReturnType
     DEF TypeOK, FoundBeforePut, ChargeInFile, RecordToAdd, LogLabels, files, history

\* Actions that only move the program counter, a lock or a counter.
LEMMA PlainType ==
    ASSUME TypeInv, NEW s \in Sessions,
           \/ Connect(s) \/ Lock(s) \/ AddLock(s) \/ AddCount(s)
           \/ LogAdd(s) \/ LogCount(s) \/ AsyncAcc(s) \/ UnasyncAcc(s)
    PROVE  TypeInv'
<1> USE DEF TypeInv, Goto, files, locks, history, TakeAcc, TakeLog
<1>1. TypeOK'
  <2>1. CASE Connect(s) \/ Lock(s) \/ AddLock(s) \/ LogAdd(s)
    BY <2>1 DEF TypeOK, Labels, Connect, Lock, AddLock, LogAdd
  <2>2. CASE AddCount(s)
    <3>1. Len(accs) \in Nat
      BY DEF TypeOK
    <3>2. pos' \in [Sessions -> Nat]
      BY <2>2, <3>1 DEF TypeOK, AddCount
    <3>3. pc' \in [Sessions -> Labels]
      BY <2>2 DEF TypeOK, Labels, AddCount
    <3> QED
      BY <2>2, <3>2, <3>3 DEF TypeOK, AddCount
  <2>3. CASE LogCount(s)
    <3>1. Len(log) \in Nat
      BY DEF TypeOK
    <3>2. pos' \in [Sessions -> Nat]
      BY <2>3, <3>1 DEF TypeOK, LogCount
    <3>3. pc' \in [Sessions -> Labels]
      BY <2>3 DEF TypeOK, Labels, LogCount
    <3> QED
      BY <2>3, <3>2, <3>3 DEF TypeOK, LogCount
  <2>4. CASE AsyncAcc(s)
    BY <2>4 DEF TypeOK, Labels, AsyncAcc
  <2>5. CASE UnasyncAcc(s)
    BY <2>5 DEF TypeOK, Labels, UnasyncAcc
  <2> QED
    BY <2>1, <2>2, <2>3, <2>4, <2>5
<1>2. FoundBeforePut' /\ ChargeInFile'
  BY DEF TypeOK, FoundBeforePut, ChargeInFile, Connect, Lock, AddLock, AddCount, LogAdd,
         LogCount, AsyncAcc, UnasyncAcc
<1>3. RecordToAdd'
  BY DEF TypeOK, RecordToAdd, LogLabels, Connect, Lock, AddLock, AddCount, LogAdd,
         LogCount, AsyncAcc, UnasyncAcc
<1> QED
  BY <1>1, <1>2, <1>3

LEMMA LogUnlockType ==
    ASSUME TypeInv, NEW s \in Sessions, LogUnlock(s)
    PROVE  TypeInv'
<1> USE DEF TypeInv
<1>1. /\ Return(s, reply[s]) /\ reply[s] \in Replies
      /\ UNCHANGED <<files, accEx, accAsync, logAsync, cmd, rc, history>>
  BY DEF LogUnlock, TypeOK
<1>2. logEx' \in Sessions \cup {None}
  BY FreeLogType DEF LogUnlock
<1> QED
  BY <1>1, <1>2, ReturnType
     DEF TypeOK, FoundBeforePut, ChargeInFile, RecordToAdd, LogLabels, files, history

LEMMA StartType ==
    ASSUME TypeInv, NEW s \in Sessions, NEW c \in Cmds, Start(s, c)
    PROVE  TypeInv'
<1> USE DEF TypeInv
<1> DEFINE d == IF c.op = "charge" THEN [c EXCEPT !.acc = 1, !.y = Len(accs)] ELSE c
<1>1. c \in CmdRec /\ Len(accs) \in Nat
  BY SessionsAssumption DEF TypeOK
<1>2. /\ d \in CmdRec
      /\ d.op = "charge" => d.acc = 1 /\ d.y = Len(accs) /\ Len(accs) > 0
  <2>1. CASE c.op = "charge"
    <3> DEFINE c1 == [c EXCEPT !.acc = 1]
    <3>1. c1 \in CmdRec /\ c1.op = "charge" /\ c1.acc = 1
      BY <1>1, <2>1 DEF CmdRec
    <3>2. [c EXCEPT !.acc = 1, !.y = Len(accs)] = [c1 EXCEPT !.y = Len(accs)]
      OBVIOUS
    <3> HIDE DEF c1
    <3>3. LET e == [c1 EXCEPT !.y = Len(accs)]
          IN  e \in CmdRec /\ e.acc = 1 /\ e.y = Len(accs)
      BY <1>1, <3>1 DEF CmdRec
    <3>4. Len(accs) > 0
      BY <2>1 DEF Start
    <3> QED
      BY <2>1, <3>2, <3>3, <3>4
  <2>2. CASE c.op # "charge"
    BY <1>1, <2>2
  <2> QED
    BY <2>1, <2>2
<1>3. /\ cmd' = [cmd EXCEPT ![s] = d] /\ pc' = [pc EXCEPT ![s] = Entry(c)]
      /\ ops' = [ops EXCEPT ![s] = @ + 1] /\ ops[s] < MaxOps
      /\ reply' = [reply EXCEPT ![s] = "SUCCESS"]
      /\ UNCHANGED <<files, locks, buf, rc, pend, pos, faults, adj, doubt>>
  BY DEF Start, Goto
<1>4. Entry(c) \in Labels \ ({"idle", "down", "put"} \cup LogLabels)
  BY DEF Entry, Labels, LogLabels
<1> HIDE DEF d
<1>5. TypeOK'
  <2>1. cmd' \in [Sessions -> CmdRec] /\ pc' \in [Sessions -> Labels]
    BY <1>2, <1>3, <1>4 DEF TypeOK
  <2>2. ops' \in [Sessions -> 0..MaxOps]
    BY <1>3, SessionsAssumption DEF TypeOK
  <2>3. reply' \in [Sessions -> Replies]
    BY <1>3 DEF TypeOK, Replies, Codes, Valid
  <2> QED
    BY <1>3, <2>1, <2>2, <2>3 DEF TypeOK, files, locks
<1>6. FoundBeforePut' /\ RecordToAdd'
  BY <1>3, <1>4 DEF TypeOK, FoundBeforePut, RecordToAdd, LogLabels, files
<1>7. ChargeInFile'
  BY <1>1, <1>2, <1>3, <1>4 DEF TypeOK, ChargeInFile, files
<1> QED
  BY <1>5, <1>6, <1>7

LEMMA TypeStep == TypeInv /\ [Next]_vars => TypeInv'
<1> SUFFICES ASSUME TypeInv, [Next]_vars PROVE TypeInv'
  OBVIOUS
<1>1. CASE UNCHANGED vars
  BY <1>1 DEF vars, files, locks, program, history, TypeInv, TypeOK, FoundBeforePut,
              ChargeInFile, RecordToAdd
<1>2. ASSUME NEW s \in Sessions,
             \/ Connect(s) \/ Exit(s) \/ Crash(s) \/ LogFail(s)
             \/ \E c \in Cmds : Start(s, c)
      PROVE  TypeInv'
  BY <1>2, PlainType, ExitType, CrashType, LogFailType, StartType
<1>3. ASSUME NEW s \in Sessions, AccountStep(s) PROVE TypeInv'
  BY <1>3, PeekType, PlainType, UnlockType, GetTransType, GetChargeType, GetEditType,
     GetCardType, SqlUseType, TransPutType, EditPutType, AddWriteType DEF AccountStep
<1>4. ASSUME NEW s \in Sessions, LogStep(s) PROVE TypeInv'
  BY <1>4, LogLockType, PlainType, LogWriteType, LogUnlockType DEF LogStep
<1>5. ASSUME NEW s \in Sessions, AsyncStep(s) PROVE TypeInv'
  BY <1>5, PlainType, AsyncLogType DEF AsyncStep
<1> QED
  BY <1>1, <1>2, <1>3, <1>4, <1>5 DEF Next, Step

\* Type correctness of the account file, the log, the locks and every session's
\* program (core.c, command.c, acc.c, log.c), for any instance.
THEOREM TypeCorrect == Spec => []TypeOK
<1>1. Init => TypeInv
  BY InitType
<1>2. TypeInv /\ [Next]_vars => TypeInv'
  BY TypeStep
<1>3. TypeInv => TypeOK
  BY DEF TypeInv
<1> QED
  BY <1>1, <1>2, <1>3, PTL DEF Spec

-------------------------------------------------------------------------------
\* Who holds the log, where, and with what position.  AsyncOf: a session in
\* asynchronous mode holds the file; it has the log only with the accounts.
AsyncOf(s) ==
    /\ accAsync[s] => accEx = s
    /\ logAsync[s] => logEx = s
    /\ logAsync[s] => accAsync[s] \/ pc[s] = "unasynclog"
    /\ pc[s] = "asynclog" => accAsync[s]

LogOf(s) ==
    /\ pc[s] \in {"logcount", "logwrite"} => logEx = s
    /\ pc[s] = "logwrite" => pos[s] = Len(log)
    /\ logEx = s => logAsync[s] \/ pc[s] \in LogLabels \cup {"logunlock"}

LockInv == \A s \in Sessions : AsyncOf(s) /\ LogOf(s)

\* What a step of s does not do to other sessions.
Frame(s) ==
    /\ \A t \in Sessions \ {s} :
          /\ pc'[t] = pc[t] /\ pos'[t] = pos[t]
          /\ accAsync'[t] = accAsync[t] /\ logAsync'[t] = logAsync[t]
    /\ accEx' = accEx \/ {accEx, accEx'} \subseteq {None, s}
    /\ logEx' = logEx \/ {logEx, logEx'} \subseteq {None, s}
    /\ log' = log \/ pc[s] = "logwrite"

LEMMA OthersKeepLocks ==
    ASSUME LockInv, NEW s \in Sessions, Frame(s), AsyncOf(s)', LogOf(s)'
    PROVE  LockInv'
<1>1. ASSUME NEW t \in Sessions \ {s} PROVE AsyncOf(t)'
  BY <1>1, SessionsAssumption DEF LockInv, AsyncOf, Frame
<1>2. ASSUME NEW t \in Sessions \ {s} PROVE LogOf(t)'
  <2>1. pc[t] = "logwrite" => log' = log
    BY <1>2 DEF LockInv, LogOf, Frame
  <2> QED
    BY <1>2, <2>1, SessionsAssumption DEF LockInv, LogOf, Frame
<1> QED
  BY <1>1, <1>2 DEF LockInv

\* Steps that touch neither the log, nor its lock, nor an asynchronous mode.
AwayFromLog(s) ==
    /\ log' = log /\ logEx' = logEx /\ accAsync' = accAsync /\ logAsync' = logAsync
    /\ pc[s] \notin LogLabels \cup {"logunlock", "unasynclog"}
    /\ pc'[s] \notin {"logcount", "logwrite", "asynclog"}
    /\ \A t \in Sessions \ {s} : pc'[t] = pc[t] /\ pos'[t] = pos[t]
    /\ accEx' = accEx \/ {accEx, accEx'} \subseteq {None, s}
    /\ accAsync[s] /\ accEx = s => accEx' = s

LEMMA AwayKeepsLocks ==
    ASSUME LockInv, NEW s \in Sessions, AwayFromLog(s)
    PROVE  LockInv'
<1>1. Frame(s)
  BY DEF AwayFromLog, Frame
<1>2. AsyncOf(s)'
  BY DEF AwayFromLog, LockInv, AsyncOf
<1>3. LogOf(s)'
  BY DEF AwayFromLog, LockInv, LogOf
<1> QED
  BY <1>1, <1>2, <1>3, OthersKeepLocks

LEMMA AccountStepAway ==
    ASSUME TypeInv, LockInv, NEW s \in Sessions,
           \/ Connect(s)
           \/ AccountStep(s)
           \/ \E c \in Cmds : Start(s, c)
    PROVE  AwayFromLog(s)
<1> USE DEF AwayFromLog, TypeInv, TypeOK, Goto, FreeAcc, TakeAcc, MayLockAcc, LogLabels,
            files, history, locks
<1>1. CASE Connect(s) \/ \E c \in Cmds : Start(s, c)
  <2>1. CASE Connect(s)
    BY <2>1 DEF Connect
  <2>2. ASSUME NEW c \in Cmds, Start(s, c) PROVE AwayFromLog(s)
    <3>1. Entry(c) \in {"peek", "addlock", "asyncacc", "unasyncacc", "lock"}
      BY DEF Entry
    <3>2. pc[s] = "idle" /\ pc' = [pc EXCEPT ![s] = Entry(c)]
      BY <2>2 DEF Start
    <3>3. UNCHANGED <<log, accEx, logEx, accAsync, logAsync, pos>>
      BY <2>2 DEF Start
    <3> QED
      BY <3>1, <3>2, <3>3
  <2> QED
    BY <1>1, <2>1, <2>2
<1>2. CASE Lock(s) \/ AddLock(s) \/ AddCount(s)
  BY <1>2 DEF Lock, AddLock, AddCount
<1>3. CASE GetTrans(s) \/ GetCard(s) \/ SqlUse(s)
  <2>1. CASE GetTrans(s)
    BY <2>1 DEF GetTrans, Return
  <2>2. CASE GetCard(s)
    BY <2>2 DEF GetCard, Return
  <2>3. CASE SqlUse(s)
    BY <2>3 DEF SqlUse, Return
  <2> QED
    BY <1>3, <2>1, <2>2, <2>3
<1>4. CASE Peek(s)
  <2>1. pc[s] = "peek" /\ FreeAcc(s)
    BY <1>4 DEF Peek
  <2>2. UNCHANGED <<log, logEx, accAsync, logAsync>>
    BY <1>4 DEF Peek
  <2>3. \E l \in {"lock", "idle"} : pc' = [pc EXCEPT ![s] = l]
    BY <1>4 DEF Peek, Return
  <2>4. pos' = pos \/ pos' = [pos EXCEPT ![s] = 0]
    BY <1>4 DEF Peek, Return
  <2> QED
    BY <2>1, <2>2, <2>3, <2>4
<1>5. CASE Unlock(s)
  BY <1>5 DEF Unlock, Return, NextCharge
<1>6. CASE GetCharge(s)
  BY <1>6 DEF GetCharge, Return, NextCharge
<1>7. CASE GetEdit(s)
  BY <1>7 DEF GetEdit, Return
<1>8. CASE TransPut(s) \/ EditPut(s)
  BY <1>8 DEF TransPut, EditPut
<1>9. CASE AddWrite(s)
  BY <1>9 DEF AddWrite, Return
<1> QED
  BY <1>1, <1>2, <1>3, <1>4, <1>5, <1>6, <1>7, <1>8, <1>9 DEF AccountStep

LEMMA LogStepLocks ==
    ASSUME TypeInv, LockInv, NEW s \in Sessions, LogStep(s) \/ LogFail(s)
    PROVE  LockInv'
<1> USE DEF TypeInv, TypeOK, Goto, FreeLog, TakeLog, MayLockLog, LogLabels, files, history,
            locks
<1>1. Frame(s)
  <2>1. CASE LogLock(s) \/ LogAdd(s) \/ LogCount(s)
    BY <2>1 DEF Frame, LogLock, LogAdd, LogCount
  <2>2. CASE LogWrite(s) \/ LogFail(s)
    BY <2>2 DEF Frame, LogWrite, LogFail, LogDone
  <2>3. CASE LogUnlock(s)
    BY <2>3 DEF Frame, LogUnlock, Return
  <2> QED
    BY <2>1, <2>2, <2>3 DEF LogStep
<1>2. AsyncOf(s)'
  <2>1. CASE LogLock(s) \/ LogAdd(s) \/ LogCount(s)
    BY <2>1 DEF LockInv, AsyncOf, LogLock, LogAdd, LogCount
  <2>2. CASE LogWrite(s) \/ LogFail(s)
    BY <2>2 DEF LockInv, AsyncOf, LogWrite, LogFail, LogDone, AfterLog
  <2>3. CASE LogUnlock(s)
    BY <2>3 DEF LockInv, AsyncOf, LogUnlock, Return
  <2> QED
    BY <2>1, <2>2, <2>3 DEF LogStep
<1>3. LogOf(s)'
  <2>1. CASE LogLock(s) \/ LogAdd(s) \/ LogCount(s)
    BY <2>1 DEF LockInv, AsyncOf, LogOf, LogLock, LogAdd, LogCount
  <2>2. CASE LogWrite(s) \/ LogFail(s)
    BY <2>2, SessionsAssumption DEF LockInv, LogOf, LogWrite, LogFail, LogDone, AfterLog
  <2>3. CASE LogUnlock(s)
    BY <2>3, SessionsAssumption DEF LockInv, LogOf, LogUnlock, Return
  <2> QED
    BY <2>1, <2>2, <2>3 DEF LogStep
<1> QED
  BY <1>1, <1>2, <1>3, OthersKeepLocks

LEMMA AsyncStepLocks ==
    ASSUME TypeInv, LockInv, NEW s \in Sessions, AsyncStep(s) \/ Exit(s) \/ Crash(s)
    PROVE  LockInv'
<1> USE SessionsAssumption
    DEF TypeInv, TypeOK, Goto, LogLabels, files, history, Return
<1>1. CASE AsyncAcc(s) \/ UnasyncAcc(s)
  <2>1. Frame(s)
    BY <1>1 DEF Frame, AsyncAcc, UnasyncAcc
  <2>2. AsyncOf(s)' /\ LogOf(s)'
    BY <1>1 DEF LockInv, AsyncOf, LogOf, AsyncAcc, UnasyncAcc
  <2> QED
    BY <2>1, <2>2, OthersKeepLocks
<1>2. CASE AsyncLog(s) \/ UnasyncLog(s)
  <2>1. Frame(s)
    BY <1>2 DEF Frame, AsyncLog, UnasyncLog
  <2>2. AsyncOf(s)' /\ LogOf(s)'
    <3>1. CASE AsyncLog(s)
      BY <3>1 DEF LockInv, AsyncOf, LogOf, AsyncLog
    <3>2. CASE UnasyncLog(s) /\ logAsync[s]
      BY <3>2 DEF LockInv, AsyncOf, LogOf, UnasyncLog
    <3>3. CASE UnasyncLog(s) /\ ~logAsync[s]
      BY <3>3 DEF LockInv, AsyncOf, LogOf, UnasyncLog
    <3> QED
      BY <1>2, <3>1, <3>2, <3>3
  <2> QED
    BY <2>1, <2>2, OthersKeepLocks
<1>3. CASE Exit(s) \/ Crash(s)
  <2>1. Gone(s)
    BY <1>3 DEF Exit, Crash
  <2>2. Frame(s)
    BY <2>1 DEF Frame, Gone
  <2>3. AsyncOf(s)' /\ LogOf(s)'
    BY <2>1 DEF AsyncOf, LogOf, Gone
  <2> QED
    BY <2>2, <2>3, OthersKeepLocks
<1> QED
  BY <1>1, <1>2, <1>3 DEF AsyncStep

LEMMA LockInit == Init => LockInv
BY SessionsAssumption DEF Init, LockInv, AsyncOf, LogOf, LogLabels

LEMMA LockStep == TypeInv /\ LockInv /\ [Next]_vars => LockInv'
<1> SUFFICES ASSUME TypeInv, LockInv, [Next]_vars PROVE LockInv'
  OBVIOUS
<1>1. CASE UNCHANGED vars
  BY <1>1 DEF vars, files, locks, program, LockInv, AsyncOf, LogOf
<1>2. ASSUME NEW s \in Sessions,
             Connect(s) \/ AccountStep(s) \/ \E c \in Cmds : Start(s, c)
      PROVE  LockInv'
  BY <1>2, AccountStepAway, AwayKeepsLocks
<1>3. ASSUME NEW s \in Sessions, LogStep(s) \/ LogFail(s) PROVE LockInv'
  BY <1>3, LogStepLocks
<1>4. ASSUME NEW s \in Sessions, AsyncStep(s) \/ Exit(s) \/ Crash(s) PROVE LockInv'
  BY <1>4, AsyncStepLocks
<1> QED
  BY <1>1, <1>2, <1>3, <1>4 DEF Next, Step

\* A process in asynchronous mode holds the lock of its file, a process that
\* counts or writes log records holds the log and still knows where it ends, and
\* nobody keeps the log outside log_add() and the "lock" mode (log.c:41-102).
THEOREM LocksHeld == Spec => [](TypeInv /\ LockInv)
<1>1. Init => TypeInv /\ LockInv
  BY InitType, LockInit
<1>2. TypeInv /\ LockInv /\ [Next]_vars => (TypeInv /\ LockInv)'
  BY TypeStep, LockStep
<1> QED
  BY <1>1, <1>2, PTL DEF Spec

\* A session that holds the log and waits for the account file has that lock
\* already: accounts come before the log (core.c:692-776, log_async_on), so
\* sessions never wait for each other in a circle.
THEOREM LocksOrdered == Spec => []LockOrder
<1>1. TypeInv /\ LockInv => LockOrder
  BY DEF LockOrder, LockInv, AsyncOf, LogOf, WaitsForAcc, LogLabels
<1> QED
  BY <1>1, LocksHeld, PTL

LEMMA WhoLogs ==
    ASSUME TypeInv, LockInv, [Next]_vars, log' # log
    PROVE  \E s \in Sessions : LogWrite(s)
<1>1. ASSUME NEW s \in Sessions,
             Connect(s) \/ AccountStep(s) \/ \E c \in Cmds : Start(s, c)
      PROVE  FALSE
  BY <1>1, AccountStepAway DEF AwayFromLog
<1>2. ASSUME NEW s \in Sessions, AsyncStep(s) \/ Exit(s) \/ Crash(s) \/ LogFail(s)
      PROVE  FALSE
  BY <1>2 DEF AsyncStep, AsyncAcc, AsyncLog, UnasyncAcc, UnasyncLog, Exit, Crash, Gone,
              LogFail, files
<1>3. ASSUME NEW s \in Sessions, LogStep(s), ~LogWrite(s)
      PROVE  FALSE
  BY <1>3 DEF LogStep, LogLock, LogAdd, LogCount, LogUnlock, files
<1> QED
  BY <1>1, <1>2, <1>3 DEF Next, Step, vars, files

\* No record of the transaction log is ever dropped or overwritten, crashes and
\* I/O errors included: who writes in db_add() still holds the lock under which
\* it counted the records (log_add, log.c:87-103).
THEOREM LogOnlyGrows == Spec => NoLogRecordLost
<1>1. TypeInv /\ LockInv /\ [Next]_vars =>
        [\A i \in DOMAIN log : i \in DOMAIN log' /\ log'[i] = log[i]]_log
  <2> SUFFICES ASSUME TypeInv, LockInv, [Next]_vars, log' # log
               PROVE  \A i \in DOMAIN log : i \in DOMAIN log' /\ log'[i] = log[i]
    OBVIOUS
  <2>1. PICK s \in Sessions : LogWrite(s)
    BY WhoLogs
  <2>2. log' = WriteAt(log, Len(log) + 1, Head(pend[s]))
    BY <2>1 DEF LogWrite, LockInv, LogOf
  <2>3. log \in Seq(LogRec) /\ Len(log) + 1 \notin DOMAIN log
    BY DEF TypeInv, TypeOK
  <2> QED
    BY <2>2, <2>3 DEF WriteAt
<1> QED
  BY <1>1, LocksHeld, PTL DEF NoLogRecordLost, Spec

-------------------------------------------------------------------------------
\* The account file.  A deleted or broken account and "resadd" break the rule
\* that the file is written under its lock (see GetEdit); without them it holds.
UnsafeOps == {"delete", "break", "resadd"}
Sound(a, n) == a.no = n /\ a.tag \cap {"DELETED", "BROKEN"} = {}

ReliableFile ==
    /\ \A n \in DOMAIN InitAccs : Sound(InitAccs[n], n)
    /\ \A c \in Cmds : c.op \notin UnsafeOps

SoundFile == \A n \in DOMAIN accs : Sound(accs[n], n)

\* Between its read and its write a session holds the lock, and what it has
\* read is what the file says.
WriterOf(s) ==
    /\ pc[s] \in {"get", "put", "addcount", "addwrite"} => accEx = s
    /\ pc[s] = "addwrite" => pos[s] = Len(accs)
    /\ cmd[s].op \notin UnsafeOps
    /\ pc[s] = "put" =>
          /\ cmd[s].acc \in DOMAIN accs
          /\ buf[s] = accs[cmd[s].acc]
          /\ cmd[s].op \in TransOps => "FROZEN" \notin buf[s].tag

FileInv == SoundFile /\ \A s \in Sessions : WriterOf(s)

LEMMA SoundLoaded ==
    ASSUME NEW n \in DOMAIN accs, Sound(accs[n], n)
    PROVE  /\ Loaded(accs, n) = accs[n]
           /\ acci_get(accs, n) \notin {"NOT_FOUND", "ACC_DELETED", "ACC_BROKEN"}
           /\ "FROZEN" \in accs[n].tag <=> acci_get(accs, n) = "ACC_FROZEN"
BY DEF Sound, Loaded, acci_get

\* Only a session that holds the lock on the accounts changes them.
FileFrame(s) ==
    /\ \A t \in Sessions \ {s} :
          pc'[t] = pc[t] /\ pos'[t] = pos[t] /\ cmd'[t] = cmd[t] /\ buf'[t] = buf[t]
    /\ accEx' = accEx \/ {accEx, accEx'} \subseteq {None, s}
    /\ accs' = accs \/ accEx = s

LEMMA OthersKeepFile ==
    ASSUME FileInv, NEW s \in Sessions, FileFrame(s), SoundFile', WriterOf(s)'
    PROVE  FileInv'
<1>1. ASSUME NEW t \in Sessions \ {s} PROVE WriterOf(t)'
  <2>1. pc[t] \in {"get", "put", "addcount", "addwrite"} =>
          accEx = t /\ accEx' = t /\ accs' = accs
    BY <1>1, SessionsAssumption DEF FileInv, WriterOf, FileFrame
  <2> QED
    BY <1>1, <2>1 DEF FileInv, WriterOf, FileFrame
<1> QED
  BY <1>1 DEF FileInv

\* Steps that do not change the accounts and do not end up between the read and
\* the write of an account.
ReadsOnly(s) ==
    /\ accs' = accs
    /\ \A t \in Sessions \ {s} :
          pc'[t] = pc[t] /\ pos'[t] = pos[t] /\ cmd'[t] = cmd[t] /\ buf'[t] = buf[t]
    /\ accEx' = accEx \/ {accEx, accEx'} \subseteq {None, s}
    /\ pc'[s] \in {"get", "addcount", "addwrite"} => accEx' = s
    /\ pc'[s] = "addwrite" => pos'[s] = Len(accs)
    /\ pc'[s] # "put"
    /\ cmd'[s].op \notin UnsafeOps

LEMMA ReadsKeepFile ==
    ASSUME FileInv, NEW s \in Sessions, ReadsOnly(s)
    PROVE  FileInv'
<1>1. FileFrame(s) /\ SoundFile' /\ WriterOf(s)'
  BY DEF ReadsOnly, FileFrame, FileInv, SoundFile, WriterOf
<1> QED
  BY <1>1, OthersKeepFile

LEMMA ReadSteps ==
    ASSUME ReliableFile, TypeInv, LockInv, FileInv, NEW s \in Sessions,
           \/ Connect(s) \/ Exit(s) \/ Crash(s) \/ LogFail(s)
           \/ \E c \in Cmds : Start(s, c)
           \/ Peek(s) \/ Lock(s) \/ Unlock(s) \/ GetCard(s) \/ SqlUse(s)
           \/ AddLock(s) \/ AddCount(s) \/ LogStep(s) \/ AsyncStep(s)
    PROVE  ReadsOnly(s)
<1> USE DEF TypeInv, TypeOK, Goto, Return, FreeAcc, TakeAcc, MayLockAcc, files, history,
            locks, ReadsOnly
<1>0. cmd[s].op \notin UnsafeOps /\ (accAsync[s] => accEx = s)
  BY DEF FileInv, WriterOf, LockInv, AsyncOf
<1>1. CASE Connect(s) \/ Exit(s) \/ Crash(s)
  <2>1. CASE Connect(s) \/ Exit(s)
    BY <1>0, <2>1 DEF Connect, Exit, Gone
  <2>2. CASE Crash(s)
    <3>1. NoCommand.op \notin UnsafeOps
      BY DEF NoCommand, UnsafeOps
    <3>2. Gone(s) /\ cmd' = [cmd EXCEPT ![s] = NoCommand]
      BY <2>2 DEF Crash
    <3> QED
      BY <1>0, <3>1, <3>2 DEF Gone
  <2> QED
    BY <1>1, <2>1, <2>2
<1>2. CASE \E c \in Cmds : Start(s, c)
  <2> PICK c \in Cmds : Start(s, c)
    BY <1>2
  <2>1. /\ c \in CmdRec /\ c.op \notin UnsafeOps
        /\ Entry(c) \in {"peek", "addlock", "asyncacc", "unasyncacc", "lock"}
    BY SessionsAssumption DEF ReliableFile, Entry
  <2>2. (IF c.op = "charge" THEN [c EXCEPT !.acc = 1, !.y = Len(accs)] ELSE c).op = c.op
    BY <2>1 DEF CmdRec
  <2> QED
    BY <2>1, <2>2 DEF Start
<1>3. CASE Peek(s)
  <2>1. /\ pc[s] = "peek" /\ accs' = accs /\ buf' \in {buf, [buf EXCEPT ![s] = ZeroAcc]}
        /\ pos' \in {pos, [pos EXCEPT ![s] = 0]}
        /\ pc' \in {[pc EXCEPT ![s] = "idle"], [pc EXCEPT ![s] = "lock"]}
    BY <1>3 DEF Peek
  <2>2. accEx' = accEx \/ {accEx, accEx'} \subseteq {None, s}
    BY <1>3 DEF Peek
  <2> DEFINE x == cmd[s].x * accs[cmd[s].acc].bal
  <2>3. \/ cmd' = cmd
        \/ cmd' = [cmd EXCEPT ![s] = [cmd[s] EXCEPT !.op = "add", !.x = x]]
    BY <1>3 DEF Peek
  <2> HIDE DEF x
  <2>4. /\ cmd'[s].op \notin UnsafeOps
        /\ \A t \in Sessions \ {s} : cmd'[t] = cmd[t]
    <3>1. CASE cmd' = cmd
      BY <1>0, <3>1
    <3>2. CASE cmd' = [cmd EXCEPT ![s] = [cmd[s] EXCEPT !.op = "add", !.x = x]]
      <4>1. cmd'[s].op = "add"
        BY <3>2 DEF CmdRec
      <4>2. \A t \in Sessions \ {s} : cmd'[t] = cmd[t]
        BY <3>2
      <4> QED
        BY <4>1, <4>2 DEF UnsafeOps
    <3> QED
      BY <2>3, <3>1, <3>2
  <2> QED
    BY <2>1, <2>2, <2>4
<1>4. CASE Lock(s) \/ AddLock(s) \/ AddCount(s)
  BY <1>0, <1>4 DEF Lock, AddLock, AddCount, FileInv, WriterOf
<1>5. CASE Unlock(s)
  <2>1. CASE NextCharge(s) /\ cmd[s].acc < cmd[s].y
    <3>1. cmd' = [cmd EXCEPT ![s] = [cmd[s] EXCEPT !.acc = cmd[s].acc + 1]]
      BY <2>1 DEF NextCharge
    <3>2. cmd'[s].op = cmd[s].op
      BY <3>1 DEF CmdRec
    <3> QED
      BY <1>0, <1>5, <2>1, <3>1, <3>2 DEF Unlock, NextCharge
  <2>2. CASE ~(NextCharge(s) /\ cmd[s].acc < cmd[s].y)
    BY <1>0, <1>5, <2>2 DEF Unlock, NextCharge
  <2> QED
    BY <2>1, <2>2
<1>6. CASE GetCard(s) \/ SqlUse(s)
  BY <1>0, <1>6 DEF GetCard, SqlUse, UnsafeOps
<1>7. CASE LogStep(s) \/ LogFail(s)
  BY <1>0, <1>7 DEF LogStep, LogFail, LogLock, LogAdd, LogCount, LogWrite, LogUnlock, LogDone,
     AfterLog
<1>8. CASE AsyncStep(s)
  BY <1>0, <1>8 DEF AsyncStep, AsyncAcc, AsyncLog, UnasyncAcc, UnasyncLog
<1> QED
  BY <1>1, <1>2, <1>3, <1>4, <1>5, <1>6, <1>7, <1>8

\* Steps that read an account and go on to write it, or not.
LEMMA GetTransFile ==
    ASSUME TypeInv, FileInv, NEW s \in Sessions, GetTrans(s)
    PROVE  FileInv'
<1> USE DEF TypeInv, TypeOK, Goto, files, history, locks, GetTrans, ReadInto
<1>1. FileFrame(s) /\ SoundFile'
  BY DEF FileFrame, FileInv, SoundFile
<1>2. CASE Writable(rc'[s])
  <2> DEFINE n == cmd[s].acc
  <2>1. rc'[s] = acci_get(accs, n)
    OBVIOUS
  <2>2. n \in DOMAIN accs
    BY <1>2, <2>1 DEF Writable, Valid, acci_get
  <2>3. buf'[s] = accs[n] /\ "FROZEN" \notin accs[n].tag
    BY <1>2, <2>1, <2>2, SoundLoaded DEF Writable, Valid, FileInv, SoundFile
  <2> QED
    BY <1>1, <1>2, <2>2, <2>3, OthersKeepFile DEF FileInv, WriterOf
<1>3. CASE ~Writable(rc'[s])
  <2>1. ReadsOnly(s)
    BY <1>3 DEF ReadsOnly, FileInv, WriterOf
  <2> QED
    BY <2>1, ReadsKeepFile
<1> QED
  BY <1>2, <1>3

LEMMA GetChargeFile ==
    ASSUME TypeInv, FileInv, NEW s \in Sessions, GetCharge(s)
    PROVE  FileInv'
<1> USE DEF TypeInv, TypeOK, Goto, files, history, locks
<1> DEFINE n == cmd[s].acc
           a == Loaded(accs, n)
<1>1. n \in DOMAIN accs
  <2>1. n \in 1 .. cmd[s].y /\ cmd[s].y <= Len(accs) /\ cmd[s] \in CmdRec
    BY DEF ChargeInFile, GetCharge
  <2>2. n \in Int /\ cmd[s].y \in Int /\ Len(accs) \in Nat /\ DOMAIN accs = 1 .. Len(accs)
    BY <2>1 DEF CmdRec
  <2> QED
    BY <2>1, <2>2
<1>2. a = accs[n]
  BY <1>1, SoundLoaded DEF FileInv, SoundFile
<1>3. /\ accs' = accs /\ accEx' = accEx /\ pos'[s] \in {pos[s], 0}
      /\ cmd'[s].op = cmd[s].op
      /\ FileFrame(s)
  <2>1. CASE NextCharge(s)
    <3>1. cmd' = cmd \/ cmd' = [cmd EXCEPT ![s] = [cmd[s] EXCEPT !.acc = cmd[s].acc + 1]]
      BY <2>1 DEF NextCharge
    <3>2. cmd'[s].op = cmd[s].op
      BY <3>1 DEF CmdRec
    <3> QED
      BY <2>1, <3>1, <3>2 DEF GetCharge, NextCharge, Return, FileFrame
  <2>2. CASE ~NextCharge(s)
    <3>1. PICK fee \in Fees : cmd' = [cmd EXCEPT ![s] = [cmd[s] EXCEPT !.x = fee]]
      BY <2>2 DEF GetCharge
    <3>2. cmd'[s].op = cmd[s].op
      BY <3>1 DEF CmdRec
    <3> QED
      BY <2>2, <3>1, <3>2 DEF GetCharge, FileFrame
  <2> QED
    BY <2>1, <2>2
<1>4. CASE pc'[s] = "put"
  <2>1. /\ a.tag \cap {"DELETED", "BROKEN", "FROZEN"} = {}
        /\ buf'[s] = a
        /\ \E fee \in Fees : cmd' = [cmd EXCEPT ![s].x = fee]
    <3>1. ~ (pc' = [pc EXCEPT ![s] = "unlock"]) /\ ~ NextCharge(s) /\ ~ Return(s, rc'[s])
      BY <1>4 DEF NextCharge, Return
    <3> QED
      BY <3>1 DEF GetCharge
  <2>2. cmd'[s].acc = n
    <3>1. PICK fee \in Fees : cmd' = [cmd EXCEPT ![s] = [cmd[s] EXCEPT !.x = fee]]
      BY <2>1
    <3> QED
      BY <3>1 DEF CmdRec
  <2>3. pc[s] = "get"
    BY DEF GetCharge
  <2>4. WriterOf(s)'
    BY <1>1, <1>2, <1>3, <1>4, <2>1, <2>2, <2>3 DEF FileInv, WriterOf
  <2> QED
    BY <1>3, <2>4, OthersKeepFile DEF FileInv, SoundFile
<1>5. CASE pc'[s] # "put"
  <2>1. pc'[s] \in {"unlock", "lock", "idle"}
    BY <1>5 DEF GetCharge, NextCharge, Return
  <2>2. ReadsOnly(s)
    BY <1>3, <2>1 DEF ReadsOnly, FileFrame, FileInv, WriterOf
  <2> QED
    BY <2>2, ReadsKeepFile
<1> QED
  BY <1>4, <1>5

LEMMA GetEditFile ==
    ASSUME TypeInv, FileInv, NEW s \in Sessions, GetEdit(s)
    PROVE  FileInv'
<1> USE DEF TypeInv, TypeOK, Goto, files, history, locks, GetEdit, FreeAcc
<1> DEFINE n == cmd[s].acc
           status == acci_get(accs, n)
           a == IF n \in DOMAIN accs THEN Loaded(accs, n) ELSE ZeroAcc
<1>1. /\ accs' = accs /\ cmd' = cmd /\ pc[s] = "get" /\ accEx = s
      /\ accEx' \in {accEx, None}
      /\ cmd[s].op \in EditOps \ UnsafeOps
  BY DEF FileInv, WriterOf
<1>2. CASE Refuses(cmd[s], status, a)
  <2>1. ReadsOnly(s)
    BY <1>1, <1>2 DEF ReadsOnly, Return
  <2> QED
    BY <2>1, ReadsKeepFile
<1>3. CASE ~Refuses(cmd[s], status, a)
  <2>1. n \in DOMAIN accs
    BY <1>3 DEF Refuses, acci_get
  <2>2. a = accs[n] /\ status \notin {"NOT_FOUND", "ACC_DELETED", "ACC_BROKEN"}
    BY <2>1, SoundLoaded DEF FileInv, SoundFile
  <2>3. ~UnlocksAtGet(cmd[s], status, a)
    BY <1>1, <1>3, <2>2 DEF Refuses, UnlocksAtGet, UnsafeOps
  <2>4. accEx' = accEx /\ buf' = [buf EXCEPT ![s] = a] /\ pc' = [pc EXCEPT ![s] = "put"]
    BY <1>3, <2>3
  <2>5. cmd[s].op \notin TransOps
    BY <1>1 DEF EditOps, TagOps, TagSet, TagClear, TransOps
  <2>6. WriterOf(s)'
    BY <1>1, <2>1, <2>2, <2>4, <2>5 DEF FileInv, WriterOf
  <2>7. FileFrame(s) /\ SoundFile'
    BY <1>1, <2>4, <1>3 DEF FileFrame, FileInv, SoundFile
  <2> QED
    BY <2>6, <2>7, OthersKeepFile
<1> QED
  BY <1>2, <1>3

\* The writes.
LEMMA TransRecSound ==
    ASSUME NEW c \in CmdRec, NEW a \in AccRec, NEW status, NEW n, Sound(a, n)
    PROVE  Sound(TransRec(c, a, status), n)
<1>1. CASE TransRec(c, a, status) = a
  BY <1>1
<1>2. CASE TransRec(c, a, status) = [a EXCEPT !.bal = a.bal + Total(c, a)]
  BY <1>2 DEF Sound, AccRec
<1>3. CASE TransRec(c, a, status) = [a EXCEPT !.bal = a.bal + Total(c, a), !.tcredit = 0]
  <2> DEFINE b == [a EXCEPT !.bal = a.bal + Total(c, a)]
  <2>1. b.no = a.no /\ b.tag = a.tag
    BY DEF AccRec
  <2>2. [a EXCEPT !.bal = a.bal + Total(c, a), !.tcredit = 0] = [b EXCEPT !.tcredit = 0]
    OBVIOUS
  <2>3. DOMAIN b = DOMAIN a /\ DOMAIN a = {"no", "tag", "bal", "tcredit", "res"}
    BY DEF AccRec
  <2> HIDE DEF b
  <2>4. [b EXCEPT !.tcredit = 0].no = b.no /\ [b EXCEPT !.tcredit = 0].tag = b.tag
    BY <2>3
  <2> QED
    BY <1>3, <2>1, <2>2, <2>4 DEF Sound
<1> QED
  BY <1>1, <1>2, <1>3 DEF TransRec

LEMMA EditRecSound ==
    ASSUME NEW c \in CmdRec, NEW a \in AccRec, Sound(a, c.acc), c.op \notin UnsafeOps
    PROVE  Sound(EditRec(c, a), c.acc)
<1> USE DEF Sound, AccRec
<1>1. CASE c.op \in DOMAIN TagSet
  <2>1. EditRec(c, a) = [a EXCEPT !.tag = a.tag \cup {TagSet[c.op]}]
    BY <1>1 DEF EditRec, TagSet, TagClear
  <2>2. TagSet[c.op] \notin {"DELETED", "BROKEN"}
    BY <1>1 DEF TagSet, UnsafeOps
  <2> QED
    BY <2>1, <2>2
<1>2. CASE c.op \in DOMAIN TagClear
  <2>1. EditRec(c, a) = [a EXCEPT !.tag = a.tag \ {TagClear[c.op]}]
    BY <1>2 DEF EditRec, TagSet, TagClear
  <2> QED
    BY <2>1
<1>3. CASE c.op = "setcredit"
  <2>1. EditRec(c, a) = [a EXCEPT !.tcredit = c.x]
    BY <1>3 DEF EditRec, TagSet, TagClear
  <2> QED
    BY <2>1
<1>4. CASE c.op = "fix"
  <2> DEFINE tag == a.tag \ {"BROKEN", "DELETED"}
             bal == IF c.y # 0 THEN c.x ELSE a.bal
             b == [a EXCEPT !.no = c.acc]
             d == [b EXCEPT !.tag = tag]
  <2>1. EditRec(c, a) = [d EXCEPT !.bal = bal]
    BY <1>4 DEF EditRec, TagSet, TagClear
  <2>2. /\ DOMAIN b = {"no", "tag", "bal", "tcredit", "res"}
        /\ b.no = c.acc
    OBVIOUS
  <2> HIDE DEF b
  <2>3. DOMAIN d = DOMAIN b /\ d.no = c.acc /\ d.tag = tag
    BY <2>2
  <2> HIDE DEF d
  <2>4. [d EXCEPT !.bal = bal].no = c.acc /\ [d EXCEPT !.bal = bal].tag = tag
    BY <2>2, <2>3
  <2> QED
    BY <2>1, <2>4
<1>5. CASE c.op \notin DOMAIN TagSet \cup DOMAIN TagClear \cup {"setcredit", "fix"}
  <2>1. EditRec(c, a) = a
    BY <1>5 DEF EditRec, UnsafeOps
  <2> QED
    BY <2>1
<1> QED
  BY <1>1, <1>2, <1>3, <1>4, <1>5

LEMMA PutKeepsFile ==
    ASSUME TypeInv, LockInv, FileInv, NEW s \in Sessions, NEW a, NEW outcome \in Outcomes,
           pc[s] = "put", Put(s, a, outcome), Sound(a, cmd[s].acc),
           cmd' = cmd, accEx' = accEx, pos' = pos,
           \A t \in Sessions \ {s} : pc'[t] = pc[t] /\ buf'[t] = buf[t],
           pc'[s] \in {"unlock", "logadd"}
    PROVE  FileInv'
<1>1. accs \in Seq(AccRec) /\ cmd[s].acc \in DOMAIN accs /\ accEx = s
  BY DEF TypeInv, TypeOK, FileInv, WriterOf
<1>2. SoundFile'
  <2>1. CASE accs' = accs
    BY <2>1 DEF FileInv, SoundFile
  <2>2. CASE accs' = [accs EXCEPT ![cmd[s].acc] = a]
    BY <1>1, <2>2 DEF FileInv, SoundFile
  <2> QED
    BY <2>1, <2>2 DEF Put
<1>3. FileFrame(s)
  BY <1>1 DEF FileFrame
<1>4. WriterOf(s)'
  BY DEF FileInv, WriterOf
<1> QED
  BY <1>2, <1>3, <1>4, OthersKeepFile

LEMMA PutFile ==
    ASSUME TypeInv, LockInv, FileInv, NEW s \in Sessions, TransPut(s) \/ EditPut(s)
    PROVE  FileInv'
<1>1. /\ pc[s] = "put" /\ cmd[s] \in CmdRec /\ buf[s] \in AccRec
      /\ Sound(buf[s], cmd[s].acc) /\ cmd[s].op \notin UnsafeOps
  BY DEF TransPut, EditPut, TypeInv, TypeOK, FileInv, WriterOf, SoundFile
<1>2. CASE TransPut(s)
  <2>1. PICK outcome \in Outcomes :
          /\ Put(s, TransRec(cmd[s], buf[s], rc[s]), outcome)
          /\ buf' = [buf EXCEPT ![s] = TransRec(cmd[s], buf[s], rc[s])]
    BY <1>2 DEF TransPut
  <2>2. /\ cmd' = cmd /\ accEx' = accEx /\ pos' = pos
        /\ pc' = [pc EXCEPT ![s] = IF cmd[s].op = "bires" THEN "unlock" ELSE "logadd"]
    BY <1>2 DEF TransPut, Goto, locks
  <2>3. Sound(TransRec(cmd[s], buf[s], rc[s]), cmd[s].acc)
    BY <1>1, TransRecSound
  <2>4. /\ \A t \in Sessions \ {s} : pc'[t] = pc[t] /\ buf'[t] = buf[t]
        /\ pc'[s] \in {"unlock", "logadd"}
    BY <2>1, <2>2 DEF TypeInv, TypeOK
  <2> QED
    BY <1>1, <2>1, <2>2, <2>3, <2>4, PutKeepsFile
<1>3. CASE EditPut(s)
  <2>1. PICK outcome \in Outcomes : Put(s, EditRec(cmd[s], buf[s]), outcome)
    BY <1>3 DEF EditPut
  <2>2. /\ cmd' = cmd /\ accEx' = accEx /\ pos' = pos /\ buf' = buf
        /\ pc' = [pc EXCEPT ![s] = "unlock"]
    BY <1>3 DEF EditPut, Goto, locks
  <2>3. Sound(EditRec(cmd[s], buf[s]), cmd[s].acc)
    BY <1>1, EditRecSound
  <2>4. /\ \A t \in Sessions \ {s} : pc'[t] = pc[t] /\ buf'[t] = buf[t]
        /\ pc'[s] \in {"unlock", "logadd"}
    BY <2>2 DEF TypeInv, TypeOK
  <2> QED
    BY <1>1, <2>1, <2>2, <2>3, <2>4, PutKeepsFile
<1> QED
  BY <1>2, <1>3

LEMMA AddWriteFile ==
    ASSUME TypeInv, FileInv, NEW s \in Sessions, AddWrite(s)
    PROVE  FileInv'
<1> DEFINE new == [ZeroAcc EXCEPT !.no = Len(accs) + 1]
<1>1. accEx = s /\ pos[s] = Len(accs) /\ accs \in Seq(AccRec) /\ Len(accs) \in Nat
  BY DEF AddWrite, FileInv, WriterOf, TypeInv, TypeOK
<1>2. accs' = Append(accs, new)
  BY <1>1 DEF AddWrite, WriteAt
<1>3. Sound(new, Len(accs) + 1)
  BY DEF Sound, ZeroAcc
<1> HIDE DEF new
<1>4. SoundFile'
  BY <1>1, <1>2, <1>3 DEF FileInv, SoundFile
<1>5. FileFrame(s)
  BY <1>1 DEF FileFrame, AddWrite, Return, Goto, FreeAcc, TypeInv, TypeOK
<1>6. WriterOf(s)'
  <2>1. cmd' = [cmd EXCEPT ![s] = [cmd[s] EXCEPT !.acc = pos[s] + 1]]
    BY DEF AddWrite
  <2>2. cmd'[s].op = cmd[s].op
    BY <2>1 DEF TypeInv, TypeOK, CmdRec
  <2>3. pc'[s] = "idle"
    BY DEF AddWrite, Return, Goto, TypeInv, TypeOK
  <2> QED
    BY <2>2, <2>3 DEF FileInv, WriterOf
<1> QED
  BY <1>4, <1>5, <1>6, OthersKeepFile

LEMMA FileInit == ReliableFile /\ Init => FileInv
BY DEF ReliableFile, Init, NoCommand, FileInv, SoundFile, WriterOf, UnsafeOps

LEMMA FileStep == ReliableFile /\ TypeInv /\ LockInv /\ FileInv /\ [Next]_vars => FileInv'
<1> SUFFICES ASSUME ReliableFile, TypeInv, LockInv, FileInv, [Next]_vars PROVE FileInv'
  OBVIOUS
<1>1. CASE UNCHANGED vars
  BY <1>1 DEF vars, files, locks, program, FileInv, SoundFile, WriterOf
<1>2. ASSUME NEW s \in Sessions,
             \/ Connect(s) \/ Exit(s) \/ Crash(s) \/ LogFail(s)
             \/ \E c \in Cmds : Start(s, c)
             \/ LogStep(s) \/ AsyncStep(s)
      PROVE  FileInv'
  BY <1>2, ReadSteps, ReadsKeepFile
<1>3. ASSUME NEW s \in Sessions, AccountStep(s) PROVE FileInv'
  BY <1>3, ReadSteps, ReadsKeepFile, GetTransFile, GetChargeFile, GetEditFile, PutFile,
     AddWriteFile DEF AccountStep
<1> QED
  BY <1>1, <1>2, <1>3 DEF Next, Step

\* Between acc_baselock() and acci_put() or db_add() a session holds the account
\* file, and the record or the record count it has read is still what the file
\* says (acc.c:56-183) - on a file where nothing is deleted or broken.
THEOREM FileKept == ReliableFile /\ Spec => [](TypeInv /\ LockInv /\ FileInv)
<1> DEFINE Inv == TypeInv /\ LockInv /\ FileInv
<1>1. ReliableFile /\ Init => Inv
  BY InitType, LockInit, FileInit
<1>2. ReliableFile /\ Inv /\ [Next]_vars => Inv'
  BY TypeStep, LockStep, FileStep
<1> HIDE DEF Inv
<1>3. SUFFICES ASSUME ReliableFile PROVE Spec => []Inv
  BY DEF Inv
<1> QED
  BY <1>1, <1>2, <1>3, PTL DEF Spec

\* No session writes back a record that another one has changed since it was
\* read, so no update of an account is lost (acc_transaction, acc_bitrans,
\* acc_charge_trans and the edits of command.c) - if no account is deleted or
\* broken and resources are not counted by "resadd".
THEOREM NoUpdateLost == ReliableFile /\ Spec => []NoStaleWrite
<1>1. FileInv => NoStaleWrite
  BY SoundLoaded DEF FileInv, SoundFile, WriterOf, NoStaleWrite
<1> QED
  BY <1>1, FileKept, PTL

\* The steps that change the account file at all.
LEMMA WhoWrites ==
    ASSUME ReliableFile, TypeInv, LockInv, FileInv, [Next]_vars, accs' # accs
    PROVE  \E s \in Sessions : /\ TransPut(s) \/ EditPut(s) \/ AddWrite(s)
                               /\ accEx = s /\ pc'[s] # pc[s]
<1>1. PICK s \in Sessions : TransPut(s) \/ EditPut(s) \/ AddWrite(s)
  <2>1. ASSUME NEW s \in Sessions,
               \/ Connect(s) \/ Exit(s) \/ Crash(s) \/ LogFail(s)
               \/ \E c \in Cmds : Start(s, c)
               \/ LogStep(s) \/ AsyncStep(s)
        PROVE  FALSE
    BY <2>1, ReadSteps DEF ReadsOnly
  <2>2. ASSUME NEW s \in Sessions, AccountStep(s),
               ~(TransPut(s) \/ EditPut(s) \/ AddWrite(s))
        PROVE  FALSE
    BY <2>2, ReadSteps
       DEF AccountStep, ReadsOnly, GetTrans, GetCharge, GetEdit, files
  <2> QED
    BY <2>1, <2>2 DEF Next, Step, vars, files
<1>2. accEx = s /\ pc'[s] # pc[s]
  BY <1>1 DEF FileInv, WriterOf, TypeInv, TypeOK, TransPut, EditPut, AddWrite, Return, Goto
<1> QED
  BY <1>1, <1>2

LEMMA EditKeepsBalance ==
    ASSUME NEW c \in CmdRec, NEW a \in AccRec, c.op \notin {"fix"}
    PROVE  EditRec(c, a).bal = a.bal
<1> USE DEF AccRec
<1>1. CASE c.op \in DOMAIN TagSet
  <2>1. EditRec(c, a) = [a EXCEPT !.tag = a.tag \cup {TagSet[c.op]}]
    BY <1>1 DEF EditRec, TagSet, TagClear
  <2> QED
    BY <2>1
<1>2. CASE c.op \in DOMAIN TagClear
  <2>1. EditRec(c, a) = [a EXCEPT !.tag = a.tag \ {TagClear[c.op]}]
    BY <1>2 DEF EditRec, TagSet, TagClear
  <2> QED
    BY <2>1
<1>3. CASE c.op \in {"setcredit", "resadd", "delete"}
  <2>1. \/ EditRec(c, a) = [a EXCEPT !.tcredit = c.x]
        \/ EditRec(c, a) = [a EXCEPT !.res = a.res + c.x]
        \/ EditRec(c, a) = [a EXCEPT !.tag = a.tag \cup {"DELETED"}]
    BY <1>3 DEF EditRec, TagSet, TagClear
  <2> QED
    BY <2>1
<1>4. CASE c.op \notin DOMAIN TagSet \cup DOMAIN TagClear
                          \cup {"setcredit", "resadd", "delete"}
  <2>1. EditRec(c, a) = a
    BY <1>4 DEF EditRec
  <2> QED
    BY <2>1
<1> QED
  BY <1>1, <1>2, <1>3, <1>4

\* Money of a frozen account moves by "_fix" only, also when the account was
\* frozen while another session had a transaction under way (core.c:700-741).
THEOREM FreezeHolds == ReliableFile /\ Spec => FrozenHolds
<1> DEFINE Still(n) ==
             acci_get(accs, n) \in {"ACC_DELETED", "ACC_BROKEN", "ACC_FROZEN"}
                /\ accs'[n].bal # accs[n].bal => FixWrites
<1>1. ASSUME ReliableFile, TypeInv, LockInv, FileInv, [Next]_vars, accs' # accs,
             NEW n \in DOMAIN accs
      PROVE  Still(n)
  <2>1. accs \in Seq(AccRec) /\ ("FROZEN" \in accs[n].tag <=> acci_get(accs, n) = "ACC_FROZEN")
    BY <1>1, SoundLoaded DEF TypeInv, TypeOK, FileInv, SoundFile
  <2>2. acci_get(accs, n) \notin {"ACC_DELETED", "ACC_BROKEN"}
    BY <1>1, SoundLoaded DEF FileInv, SoundFile
  <2>3. PICK s \in Sessions : TransPut(s) \/ EditPut(s) \/ AddWrite(s)
    BY <1>1, WhoWrites
  <2>4. CASE TransPut(s)
    <3>1. /\ buf[s] = accs[cmd[s].acc] /\ "FROZEN" \notin buf[s].tag
          /\ cmd[s].acc \in DOMAIN accs
      BY <1>1, <2>4 DEF TransPut, FileInv, WriterOf
    <3>2. n # cmd[s].acc => accs'[n] = accs[n]
      BY <2>1, <2>4 DEF TransPut, Put
    <3> QED
      BY <2>1, <2>2, <3>1, <3>2
  <2>5. CASE EditPut(s)
    <3> DEFINE m == cmd[s].acc
    <3>1. /\ buf[s] = accs[m] /\ m \in DOMAIN accs /\ cmd[s] \in CmdRec
          /\ cmd[s].op \notin UnsafeOps /\ accs[m] \in AccRec
      BY <1>1, <2>1, <2>5 DEF EditPut, FileInv, WriterOf, TypeInv, TypeOK
    <3>2. PICK outcome \in Outcomes : Put(s, EditRec(cmd[s], buf[s]), outcome)
      BY <2>5 DEF EditPut
    <3>3. n # m => accs'[n] = accs[n]
      BY <2>1, <3>2 DEF Put
    <3>4. CASE cmd[s].op = "fix"
      BY <1>1, <2>5, <3>4 DEF EditPut, Goto, FixWrites, TypeInv, TypeOK
    <3>5. CASE cmd[s].op # "fix"
      <4>1. EditRec(cmd[s], buf[s]).bal = buf[s].bal
        BY <3>1, <3>5, EditKeepsBalance
      <4> QED
        BY <2>1, <3>1, <3>2, <3>3, <4>1 DEF Put
    <3> QED
      BY <3>3, <3>4, <3>5
  <2>6. CASE AddWrite(s)
    <3>1. pos[s] = Len(accs) /\ Len(accs) \in Nat
      BY <1>1, <2>1, <2>6 DEF AddWrite, FileInv, WriterOf
    <3>2. accs'[n] = accs[n]
      BY <2>1, <2>6, <3>1 DEF AddWrite, WriteAt, ZeroAcc
    <3> QED
      BY <3>2
  <2> QED
    BY <2>3, <2>4, <2>5, <2>6
<1>2. ReliableFile /\ TypeInv /\ LockInv /\ FileInv /\ [Next]_vars =>
        [\A n \in DOMAIN accs :
            /\ acci_get(accs, n) \in {"ACC_DELETED", "ACC_BROKEN", "ACC_FROZEN"}
            /\ accs'[n].bal # accs[n].bal
            => FixWrites]_accs
  BY <1>1
<1>3. SUFFICES ASSUME ReliableFile PROVE Spec => FrozenHolds
  OBVIOUS
<1> QED
  BY <1>2, <1>3, FileKept, PTL DEF FrozenHolds, Spec

\* A session between "lock" and "unlock" has both files to itself: nobody else
\* changes the accounts or the log (acc_async_on, log_async_on).
THEOREM LockExcludes == ReliableFile /\ Spec => LockCommandExcludes
<1> DEFINE Excluded ==
             \A s \in Sessions : /\ accAsync[s] /\ accs' # accs => pc'[s] # pc[s]
                                 /\ logAsync[s] /\ log' # log   => pc'[s] # pc[s]
<1>1. ASSUME ReliableFile, TypeInv, LockInv, FileInv, [Next]_vars PROVE Excluded
  <2>1. ASSUME NEW s \in Sessions, accAsync[s], accs' # accs PROVE pc'[s] # pc[s]
    <3>1. accEx = s
      BY <1>1, <2>1 DEF LockInv, AsyncOf
    <3> QED
      BY <1>1, <2>1, <3>1, WhoWrites
  <2>2. ASSUME NEW s \in Sessions, logAsync[s], log' # log PROVE pc'[s] # pc[s]
    <3>1. PICK t \in Sessions : LogWrite(t)
      BY <1>1, <2>2, WhoLogs
    <3>2. s = t
      BY <1>1, <2>2, <3>1 DEF LockInv, AsyncOf, LogOf, LogWrite
    <3> QED
      BY <1>1, <3>1, <3>2 DEF LogWrite, LogDone, Goto, AfterLog, TypeInv, TypeOK
  <2> QED
    BY <2>1, <2>2
<1>2. ReliableFile /\ TypeInv /\ LockInv /\ FileInv /\ [Next]_vars =>
        [Excluded]_<<accs, log>>
  BY <1>1
<1>3. SUFFICES ASSUME ReliableFile PROVE Spec => LockCommandExcludes
  OBVIOUS
<1> QED
  BY <1>2, <1>3, FileKept, PTL DEF LockCommandExcludes, Spec

-------------------------------------------------------------------------------
(* The money.                                                              *)

\* Account n never gets the switch that op sets: acci_get() tests OFF before
\* UNLIMIT (acc.c:321-333), so that an account with both is debited and logged
\* with a sum of 0 (core.c:720-733).
Never(n, op) ==
    /\ n \in DOMAIN InitAccs => TagSet[op] \notin InitAccs[n].tag
    /\ \A c \in Cmds : c.op = op => c.acc # n
OneSwitch == \A n \in Nat : Never(n, "off") \/ Never(n, "unlimit")

Switches == {"off", "unlimit"}
SwitchOf(n) == \A op \in Switches : Never(n, op) => TagSet[op] \notin accs[n].tag
GivenOf(s) == cmd[s].op \in Switches => \E c \in Cmds : c.op = cmd[s].op /\ c.acc = cmd[s].acc

\* The records a session has prepared are about its account, and there are some
\* only while it logs; a session that opens an account does nothing else.
RecordsOf(s) ==
    /\ Len(pend[s]) <= IF cmd[s].op = "bires" THEN 2 ELSE 1
    /\ pend[s] # <<>> => \/ pc[s] \in LogLabels
                         \/ pc[s] \in {"unlock", "loglock"} /\ cmd[s].op = "bires"
    /\ \A i \in DOMAIN pend[s] : pend[s][i].no = cmd[s].acc

StatusOf(s) == pc[s] = "put" => rc[s] = acci_get(accs, cmd[s].acc)

AddLabels == {"addlock", "addcount", "addwrite"}
OpenerOf(s) ==
    /\ pc[s] \in AddLabels => cmd[s].op = "new"
    /\ cmd[s].op = "new" /\ pc[s] \notin AddLabels =>
          pc[s] \in {"idle", "down"} /\ cmd[s].acc \in DOMAIN accs

MoneyInv ==
    /\ \A n \in DOMAIN accs : SwitchOf(n)
    /\ \A s \in Sessions : GivenOf(s) /\ RecordsOf(s) /\ StatusOf(s) /\ OpenerOf(s)

Opened(s) == pc[s] \in {"idle", "down"} /\ cmd[s].op = "new"
OpenInv == \A s, t \in Sessions : Opened(s) /\ Opened(t) /\ s # t => cmd[s].acc # cmd[t].acc

\* The log and the prepared records explain the balances, accounts that do not
\* exist yet included.
BalanceOf(n)    == IF n \in DOMAIN accs THEN accs[n].bal ELSE 0
AdjustmentOf(n) == IF n \in DOMAIN adj THEN adj[n] ELSE 0
DueOf(n)        == SumFunction([s \in Sessions |-> SumOf(pend[s], n)])
ExplainedOf(n)  == BalanceOf(n) = InitBal(n) + AdjustmentOf(n) + SumOf(log, n) + DueOf(n)
BalanceInv      == \A n \in Nat : n \notin doubt => ExplainedOf(n)
-------------------------------------------------------------------------------
\* Sums of records.

LEMMA MovesType ==
    ASSUME NEW r \in LogRec, NEW n PROVE Moves(r, n) \in Int
BY DEF Moves, LogRec

LEMMA SumOfType ==
    ASSUME NEW recs \in Seq(LogRec), NEW n PROVE SumOf(recs, n) \in Int
<1> DEFINE h == [i \in DOMAIN recs |-> Moves(recs[i], n)]
<1>1. \A i \in DOMAIN recs : recs[i] \in LogRec
  OBVIOUS
<1>2. h \in [DOMAIN recs -> Int]
  BY <1>1, MovesType
<1>3. IsFiniteSet(DOMAIN recs)
  BY FS_Interval
<1> HIDE DEF h
<1>4. SumFunction(h) \in Int
  BY <1>2, <1>3, SumFunctionType
<1> QED
  BY <1>4 DEF SumOf, h

LEMMA SumOfStill ==
    ASSUME NEW recs \in Seq(LogRec), NEW n, \A i \in DOMAIN recs : Moves(recs[i], n) = 0
    PROVE  SumOf(recs, n) = 0
<1> DEFINE h == [i \in DOMAIN recs |-> Moves(recs[i], n)]
<1>1. h \in [DOMAIN recs -> Int] /\ \A i \in DOMAIN recs : h[i] = 0
  OBVIOUS
<1>2. IsFiniteSet(DOMAIN recs)
  BY FS_Interval
<1> HIDE DEF h
<1>3. SumFunction(h) = 0
  BY <1>1, <1>2, SumFunctionOfZeros
<1> QED
  BY <1>3 DEF SumOf, h

LEMMA SumOfNothing == \A n : SumOf(<<>>, n) = 0
<1>1. <<>> \in Seq(LogRec) /\ DOMAIN <<>> = {}
  OBVIOUS
<1> QED
  BY <1>1, SumOfStill

LEMMA SumOfAppended ==
    ASSUME NEW recs \in Seq(LogRec), NEW r \in LogRec, NEW n
    PROVE  SumOf(Append(recs, r), n) = SumOf(recs, n) + Moves(r, n)
<1> DEFINE longer == Append(recs, r)
           h == [i \in DOMAIN recs |-> Moves(recs[i], n)]
           g == [i \in DOMAIN longer |-> Moves(longer[i], n)]
           x == Len(recs) + 1
<1>1. Len(recs) \in Nat /\ DOMAIN recs = 1 .. Len(recs)
  OBVIOUS
<1>2. /\ DOMAIN longer = DOMAIN recs \cup {x} /\ x \notin DOMAIN recs
      /\ longer[x] = r /\ \A i \in DOMAIN recs : longer[i] = recs[i]
  BY <1>1
<1>3. \A i \in DOMAIN recs : recs[i] \in LogRec
  OBVIOUS
<1> HIDE DEF longer, x
<1>4. \A i \in DOMAIN longer : Moves(longer[i], n) \in Int
  BY <1>2, <1>3, MovesType
<1>5. Widens(g, h, DOMAIN recs, x)
  BY <1>2, <1>3, <1>4, MovesType DEF Widens
<1>6. IsFiniteSet(DOMAIN recs)
  BY <1>1, FS_Interval
<1>7. g[x] = Moves(r, n)
  BY <1>2
<1> HIDE DEF g, h
<1>8. SumFunction(g) = SumFunction(h) + g[x]
  BY <1>5, <1>6, SumFunctionAdded
<1> QED
  BY <1>7, <1>8 DEF SumOf, longer, g, h

LEMMA SumOfOne ==
    ASSUME NEW r \in LogRec, NEW n PROVE SumOf(<<r>>, n) = Moves(r, n)
<1>1. <<r>> = Append(<<>>, r) /\ <<>> \in Seq(LogRec)
  OBVIOUS
<1>2. SumOf(Append(<<>>, r), n) = SumOf(<<>>, n) + Moves(r, n)
  BY <1>1, SumOfAppended
<1> QED
  BY <1>1, <1>2, SumOfNothing, MovesType

\* Sequences of one and of two elements.
LEMMA OneElement ==
    ASSUME NEW S, NEW s \in Seq(S), Len(s) = 1
    PROVE  s[1] \in S /\ s = Append(<<>>, s[1])
<1>1. s[1] \in S
  BY ElementOfSeq
<1>2. <<>> \in Seq(S) /\ Len(<<>>) = 0
  BY EmptySeq
<1> DEFINE t == Append(<<>>, s[1])
<1>3. t \in Seq(S) /\ Len(t) = 1 /\ t[1] = s[1]
  BY <1>1, <1>2, AppendProperties
<1> HIDE DEF t
<1>4. Len(s) = Len(t) /\ \A i \in 1 .. Len(s) : s[i] = t[i]
  BY <1>3
<1>5. s = t
  BY <1>3, <1>4, SeqEqual
<1> QED
  BY <1>1, <1>5 DEF t

LEMMA TwoElements ==
    ASSUME NEW S, NEW s \in Seq(S), Len(s) = 2
    PROVE  s[1] \in S /\ s[2] \in S /\ s = Append(Append(<<>>, s[1]), s[2])
<1>1. s[1] \in S /\ s[2] \in S
  BY ElementOfSeq
<1>2. <<>> \in Seq(S) /\ Len(<<>>) = 0
  BY EmptySeq
<1> DEFINE u == Append(<<>>, s[1])
           t == Append(u, s[2])
<1>3. u \in Seq(S) /\ Len(u) = 1 /\ u[1] = s[1]
  BY <1>1, <1>2, AppendProperties
<1> HIDE DEF u
<1>4. t \in Seq(S) /\ Len(t) = 2 /\ t[1] = u[1] /\ t[2] = s[2]
  <2>1. t \in Seq(S) /\ Len(t) = Len(u) + 1 /\ t[Len(u) + 1] = s[2]
    BY <1>1, <1>3, AppendProperties
  <2>2. \A i \in 1 .. Len(u) : t[i] = u[i]
    BY <1>1, <1>3, AppendProperties
  <2> QED
    BY <1>3, <2>1, <2>2
<1> HIDE DEF t
<1>5. Len(s) = Len(t) /\ \A i \in 1 .. Len(s) : s[i] = t[i]
  BY <1>3, <1>4
<1>6. s = t
  BY <1>4, <1>5, SeqEqual
<1> QED
  BY <1>1, <1>6 DEF u, t

\* A session has two records at most: what is left when the first is written.
LEMMA SumOfTail ==
    ASSUME NEW recs \in Seq(LogRec), recs # <<>>, Len(recs) <= 2, NEW n
    PROVE  SumOf(recs, n) = Moves(Head(recs), n) + SumOf(Tail(recs), n)
<1>1. Len(recs) \in Nat \ {0} /\ <<>> \in Seq(LogRec)
  BY EmptySeq
<1> DEFINE a == recs[1]
           b == recs[2]
           first == Append(<<>>, a)
<1>2. CASE Len(recs) = 1
  <2>1. a \in LogRec /\ recs = first
    BY <1>2, OneElement
  <2>2. Head(recs) = a /\ Tail(recs) = <<>>
    BY <1>1, <2>1, HeadTailAppend
  <2>3. SumOf(recs, n) = SumOf(<<>>, n) + Moves(a, n)
    BY <1>1, <2>1, SumOfAppended
  <2>4. SumOf(recs, n) = 0 + Moves(a, n) /\ Moves(a, n) \in Int
    BY <2>1, <2>3, MovesType, SumOfNothing
  <2>5. SumOf(recs, n) = Moves(Head(recs), n) + 0
    BY <2>2, <2>4
  <2> QED
    BY <2>2, <2>5, SumOfNothing
<1>3. CASE Len(recs) = 2
  <2>1. a \in LogRec /\ b \in LogRec /\ recs = Append(first, b)
    BY <1>3, TwoElements
  <2>2. first \in Seq(LogRec) /\ first # <<>>
    BY <1>1, <2>1, AppendProperties
  <2>3. Head(first) = a /\ Tail(first) = <<>>
    BY <1>1, HeadTailAppend
  <2>4. Head(recs) = a /\ Tail(recs) = Append(<<>>, b)
    <3> HIDE DEF first, a, b
    <3> QED
      BY <2>1, <2>2, <2>3, HeadTailAppend
  <2>5. SumOf(recs, n) = SumOf(first, n) + Moves(b, n)
    BY <2>1, <2>2, SumOfAppended
  <2>6. SumOf(first, n) = SumOf(<<>>, n) + Moves(a, n)
    BY <1>1, <2>1, SumOfAppended
  <2>7. SumOf(Append(<<>>, b), n) = SumOf(<<>>, n) + Moves(b, n)
    BY <1>1, <2>1, SumOfAppended
  <2>8. SumOf(<<>>, n) = 0 /\ Moves(a, n) \in Int /\ Moves(b, n) \in Int
    BY <2>1, MovesType, SumOfNothing
  <2>9. SumOf(first, n) = Moves(a, n)
    BY <2>6, <2>8
  <2>10. SumOf(Append(<<>>, b), n) = Moves(b, n)
    BY <2>7, <2>8
  <2> HIDE DEF first, a, b
  <2>11. SumOf(recs, n) = Moves(a, n) + SumOf(Append(<<>>, b), n)
    BY <2>5, <2>9, <2>10
  <2> QED
    BY <2>4, <2>11
<1>4. Len(recs) \in {1, 2}
  <2>1. \A k \in Nat \ {0} : k <= 2 => k \in {1, 2}
    OBVIOUS
  <2> QED
    BY <1>1, <2>1
<1> QED
  BY <1>2, <1>3, <1>4

-------------------------------------------------------------------------------
\* The log records of a transaction.
FreeOfCharge(c, a) ==
    /\ c.op \in {"add", "res", "card_add", "bires"}
    /\ {"UNLIMIT", "LOG"} \cap a.tag = {"UNLIMIT"}
    /\ ResId(c) # "ADDER"

Recorded(r, c, err) == r.no = c.acc /\ r.err = err /\ r.res = ResId(c) /\ r \in LogRec

Logs(one, two, c, a, status, err) ==
    /\ Recorded(one, c, err) /\ Recorded(two, c, err)
    /\ one.sum = IF FreeOfCharge(c, a) THEN 0 ELSE Sums(c, a)[1]
    /\ one.bal = IF status \in Valid \cup {"ACC_FROZEN", "ACC_OFF"} THEN a.bal ELSE 0
    /\ c.op = "bires" => two.sum = IF FreeOfCharge(c, a) THEN 0 ELSE Sums(c, a)[2]
    /\ TransLog(c, a, status, err) =
          IF c.op # "bires" THEN <<one>>
          ELSE (IF c.x # 0 THEN <<one>> ELSE <<>>) \o (IF c.y # 0 THEN <<two>> ELSE <<>>)

LEMMA TransLogShape ==
    ASSUME NEW c \in CmdRec, NEW a \in AccRec, NEW status \in Codes, NEW err \in Codes
    PROVE  \E one, two \in LogRec : Logs(one, two, c, a, status, err)
<1> DEFINE free == FreeOfCharge(c, a)
           bal  == IF status \in Valid \cup {"ACC_FROZEN", "ACC_OFF"} THEN a.bal ELSE 0
           Rec(sum, b) == [no |-> c.acc, sum |-> IF free THEN 0 ELSE sum,
                           bal |-> b, err |-> err, res |-> ResId(c)]
           one == Rec(Sums(c, a)[1], bal)
           two == Rec(IF c.op = "bires" THEN Sums(c, a)[2] ELSE 0,
                      IF c.x # 0 THEN BalanceNA ELSE bal)
<1>1. bal \in Int /\ BalanceNA \in Int
  BY DEF AccRec, BalanceNA
<1>2. \A sum, b \in Int : /\ Rec(sum, b) \in LogRec /\ Recorded(Rec(sum, b), c, err)
                          /\ Rec(sum, b).sum = (IF free THEN 0 ELSE sum)
                          /\ Rec(sum, b).bal = b
  BY DEF LogRec, CmdRec, ResId, Recorded
<1>3. Sums(c, a)[1] \in Int /\ (c.op = "bires" => Sums(c, a)[2] \in Int)
  BY SumsType
<1>4. /\ one \in LogRec /\ Recorded(one, c, err)
      /\ one.sum = (IF free THEN 0 ELSE Sums(c, a)[1]) /\ one.bal = bal
  <2> HIDE DEF Rec, bal, free
  <2> QED
    BY <1>1, <1>2, <1>3
<1>5. /\ two \in LogRec /\ Recorded(two, c, err)
      /\ c.op = "bires" => two.sum = (IF free THEN 0 ELSE Sums(c, a)[2])
  <2> DEFINE sum2 == IF c.op = "bires" THEN Sums(c, a)[2] ELSE 0
             bal2 == IF c.x # 0 THEN BalanceNA ELSE bal
  <2>1. sum2 \in Int /\ bal2 \in Int
    BY <1>1, <1>3
  <2> HIDE DEF Rec, bal, free, sum2, bal2
  <2>2. /\ Rec(sum2, bal2) \in LogRec /\ Recorded(Rec(sum2, bal2), c, err)
        /\ Rec(sum2, bal2).sum = (IF free THEN 0 ELSE sum2)
    BY <1>2, <2>1
  <2> QED
    BY <2>2 DEF sum2, bal2
<1>6. TransLog(c, a, status, err) =
         IF c.op # "bires" THEN <<one>>
         ELSE (IF c.x # 0 THEN <<one>> ELSE <<>>) \o (IF c.y # 0 THEN <<two>> ELSE <<>>)
  <2>1. CASE c.op # "bires"
    BY <2>1 DEF TransLog, FreeOfCharge
  <2>2. CASE c.op = "bires"
    BY <2>2 DEF TransLog, FreeOfCharge
  <2> QED
    BY <2>1, <2>2
<1> HIDE DEF one, two, free
<1>7. /\ one.sum = IF FreeOfCharge(c, a) THEN 0 ELSE Sums(c, a)[1]
      /\ one.bal = IF status \in Valid \cup {"ACC_FROZEN", "ACC_OFF"} THEN a.bal ELSE 0
      /\ c.op = "bires" => two.sum = IF FreeOfCharge(c, a) THEN 0 ELSE Sums(c, a)[2]
  BY <1>4, <1>5 DEF free
<1>8. Logs(one, two, c, a, status, err)
  BY <1>4, <1>5, <1>6, <1>7 DEF Logs
<1> QED
  BY <1>4, <1>5, <1>8

\* As many records as there are sums, or fewer, all about the account.
LEMMA TransLogRecords ==
    ASSUME NEW c \in CmdRec, NEW a \in AccRec, NEW status \in Codes, NEW err \in Codes
    PROVE  /\ Len(TransLog(c, a, status, err)) <= IF c.op = "bires" THEN 2 ELSE 1
           /\ \A i \in DOMAIN TransLog(c, a, status, err) :
                 Recorded(TransLog(c, a, status, err)[i], c, err)
<1>0. PICK one, two \in LogRec : Logs(one, two, c, a, status, err)
  BY TransLogShape
<1>1. /\ Recorded(one, c, err) /\ Recorded(two, c, err)
      /\ TransLog(c, a, status, err) =
            IF c.op # "bires" THEN <<one>>
            ELSE (IF c.x # 0 THEN <<one>> ELSE <<>>) \o (IF c.y # 0 THEN <<two>> ELSE <<>>)
  BY <1>0 DEF Logs
<1> DEFINE R == {r \in LogRec : Recorded(r, c, err)}
           first  == IF c.x # 0 THEN <<one>> ELSE <<>>
           second == IF c.y # 0 THEN <<two>> ELSE <<>>
           recs   == TransLog(c, a, status, err)
<1>2. one \in R /\ two \in R
  BY <1>1
<1> HIDE DEF R
<1>3. /\ first \in Seq(R) /\ Len(first) <= 1 /\ Len(first) \in Nat
      /\ second \in Seq(R) /\ Len(second) <= 1 /\ Len(second) \in Nat
      /\ <<one>> \in Seq(R) /\ Len(<<one>>) = 1
  BY <1>2
<1>4. recs = IF c.op # "bires" THEN <<one>> ELSE first \o second
  BY <1>1
<1> HIDE DEF first, second, recs
<1>5. first \o second \in Seq(R) /\ Len(first \o second) = Len(first) + Len(second)
  BY <1>3, ConcatProperties
<1>6. recs \in Seq(R) /\ Len(recs) <= IF c.op = "bires" THEN 2 ELSE 1
  BY <1>3, <1>4, <1>5
<1>7. \A i \in DOMAIN recs : recs[i] \in R
  BY <1>6
<1> QED
  BY <1>6, <1>7 DEF R, recs

\* Together they say by how much the transaction changes the balance.
LEMMA TransLogSum ==
    ASSUME NEW c \in CmdRec, NEW a \in AccRec, NEW status \in Codes, NEW err \in Codes,
           NEW n, Applies(err, ResId(c)) => ~FreeOfCharge(c, a)
    PROVE  SumOf(TransLog(c, a, status, err), n) =
              IF n = c.acc /\ Applies(err, ResId(c)) THEN Total(c, a) ELSE 0
<1> DEFINE recs == TransLog(c, a, status, err)
<1>1. recs \in Seq(LogRec)
  BY TransLogType
<1>2. CASE ~(n = c.acc /\ Applies(err, ResId(c)))
  <2>1. \A i \in DOMAIN recs : Recorded(recs[i], c, err)
    BY TransLogRecords
  <2> HIDE DEF recs
  <2>2. \A i \in DOMAIN recs : Moves(recs[i], n) = 0
    BY <1>2, <2>1 DEF Recorded, Moves
  <2>3. SumOf(recs, n) = 0
    BY <1>1, <2>2, SumOfStill
  <2> QED
    BY <1>2, <2>3 DEF recs
<1>3. CASE n = c.acc /\ Applies(err, ResId(c))
  <2>0. PICK one, two \in LogRec : Logs(one, two, c, a, status, err)
    BY TransLogShape
  <2>1. /\ Recorded(one, c, err) /\ Recorded(two, c, err)
        /\ one.sum = IF FreeOfCharge(c, a) THEN 0 ELSE Sums(c, a)[1]
        /\ c.op = "bires" => two.sum = IF FreeOfCharge(c, a) THEN 0 ELSE Sums(c, a)[2]
        /\ recs = IF c.op # "bires" THEN <<one>>
                  ELSE (IF c.x # 0 THEN <<one>> ELSE <<>>) \o (IF c.y # 0 THEN <<two>> ELSE <<>>)
    BY <2>0 DEF Logs
  <2> HIDE DEF recs
  <2>2. Moves(one, n) = Sums(c, a)[1] /\ SumOf(<<one>>, n) = Sums(c, a)[1]
    BY <1>3, <2>1, SumOfOne DEF Moves, Recorded
  <2>3. CASE c.op # "bires"
    BY <1>3, <2>1, <2>2, <2>3 DEF Total, recs
  <2>4. CASE c.op = "bires"
    <3>1. /\ Moves(two, n) = Sums(c, a)[2] /\ SumOf(<<two>>, n) = Sums(c, a)[2]
      BY <1>3, <2>1, <2>4, SumOfOne DEF Moves, Recorded
    <3>2. Sums(c, a)[1] = -c.x /\ Sums(c, a)[2] = -c.y /\ c.x \in Int /\ c.y \in Int
      BY <2>4 DEF Sums, ResId, CmdRec
    <3>3. <<one>> \o <<two>> = Append(<<one>>, two) /\ <<one>> \in Seq(LogRec)
      BY AppendIsConcat
    <3>4. SumOf(<<one>> \o <<two>>, n) = Sums(c, a)[1] + Sums(c, a)[2]
      BY <2>1, <2>2, <3>1, <3>3, SumOfAppended
    <3>5. <<>> \o <<two>> = <<two>> /\ <<one>> \o <<>> = <<one>> /\ <<>> \o <<>> = <<>>
      OBVIOUS
    <3>6. SumOf(recs, n) = Total(c, a)
      <4>1. CASE c.x # 0 /\ c.y # 0
        BY <2>1, <2>4, <3>4, <4>1 DEF Total
      <4>2. CASE c.x = 0 /\ c.y # 0
        BY <2>1, <2>4, <3>1, <3>2, <3>5, <4>2 DEF Total
      <4>3. CASE c.x # 0 /\ c.y = 0
        BY <2>1, <2>2, <2>4, <3>2, <3>5, <4>3 DEF Total
      <4>4. CASE c.x = 0 /\ c.y = 0
        BY <2>1, <2>4, <3>2, <3>5, <4>4, SumOfNothing DEF Total
      <4> QED
        BY <4>1, <4>2, <4>3, <4>4
    <3> QED
      BY <1>3, <3>6 DEF recs
  <2> QED
    BY <2>3, <2>4
<1> QED
  BY <1>2, <1>3

-------------------------------------------------------------------------------
\* What the steps do to the money.  Most do nothing: neither file, nor history,
\* nor the prepared records change.

Others(s) == \A t \in Sessions \ {s} :
                pc'[t] = pc[t] /\ cmd'[t] = cmd[t] /\ rc'[t] = rc[t] /\ pend'[t] = pend[t]

\* The command stays, or what it becomes is given by a client or sets no switch.
NextCmd(s) == \/ cmd'[s].op = cmd[s].op /\ cmd'[s].acc = cmd[s].acc
              \/ cmd'[s].op \notin Switches \cup {"bires"}
              \/ \E c \in Cmds : c.op = cmd'[s].op /\ c.acc = cmd'[s].acc

NextOpener(s) ==
    \/ pc'[s] \notin AddLabels /\ cmd'[s].op # "new"
    \/ pc'[s] \in AddLabels /\ cmd'[s].op = "new"
    \/ /\ pc[s] \in {"idle", "down"} /\ pc'[s] \in {"idle", "down"}
       /\ cmd'[s].op = cmd[s].op /\ cmd'[s].acc = cmd[s].acc

Calm(s) ==
    /\ UNCHANGED <<accs, adj, log, pend, doubt>>
    /\ pend[s] # <<>> =>
          /\ cmd'[s].op = cmd[s].op /\ cmd'[s].acc = cmd[s].acc
          /\ pc'[s] \in LogLabels \/ (pc'[s] = "loglock" /\ cmd[s].op = "bires")
    /\ pc'[s] = "put" => rc'[s] = acci_get(accs, cmd'[s].acc)
    /\ NextCmd(s) /\ NextOpener(s)

LEMMA ReturnDrops ==
    ASSUME TypeInv, NEW s \in Sessions, NEW r, Return(s, r), pend[s] = <<>>
    PROVE  /\ pend' = pend /\ pc'[s] = "idle"
           /\ \A t \in Sessions \ {s} : pc'[t] = pc[t] /\ pend'[t] = pend[t]
BY DEF TypeInv, TypeOK, Return, Goto

\* The steps between commands, and "lock" and "unlock".
LEMMA CalmPlain ==
    ASSUME TypeInv, MoneyInv, NEW s \in Sessions,
           Connect(s) \/ Lock(s) \/ AddLock(s) \/ AddCount(s) \/ AsyncAcc(s) \/ UnasyncAcc(s)
    PROVE  Calm(s) /\ Others(s)
<1>1. pc[s] \notin AddLabels /\ pc[s] \notin {"idle", "down"} => cmd[s].op # "new"
  BY DEF MoneyInv, OpenerOf
<1>2. pc[s] \in AddLabels => cmd[s].op = "new"
  BY DEF MoneyInv, OpenerOf
<1>3. pend[s] # <<>> => pc[s] \in LogLabels \cup {"unlock", "loglock"}
  BY DEF MoneyInv, RecordsOf
<1> USE DEF TypeInv, TypeOK, Goto, files, history, locks
<1>4. Others(s)
  BY DEF Others, Connect, Lock, AddLock, AddCount, AsyncAcc, UnasyncAcc
<1>5. /\ UNCHANGED <<accs, adj, log, pend, doubt, cmd>> /\ pc'[s] # "put"
      /\ pc[s] \notin LogLabels \cup {"unlock", "loglock"}
  BY DEF Connect, Lock, AddLock, AddCount, AsyncAcc, UnasyncAcc, LogLabels
<1>6. NextOpener(s)
  BY <1>1, <1>2, <1>5 DEF NextOpener, AddLabels, Connect, Lock, AddLock, AddCount, AsyncAcc,
                          UnasyncAcc
<1> QED
  BY <1>3, <1>4, <1>5, <1>6 DEF Calm, NextCmd

LEMMA CalmLog ==
    ASSUME TypeInv, MoneyInv, NEW s \in Sessions,
           LogLock(s) \/ LogAdd(s) \/ LogCount(s) \/ LogUnlock(s)
    PROVE  Calm(s) /\ Others(s)
<1>1. pc[s] \notin AddLabels /\ pc[s] \notin {"idle", "down"} => cmd[s].op # "new"
  BY DEF MoneyInv, OpenerOf
<1>2. pc[s] = "logunlock" => pend[s] = <<>>
  BY DEF MoneyInv, RecordsOf, LogLabels
<1> USE DEF TypeInv, TypeOK, Goto, files, history, locks
<1>3. CASE LogLock(s) \/ LogAdd(s) \/ LogCount(s)
  <2>1. Others(s)
    BY <1>3 DEF Others, LogLock, LogAdd, LogCount
  <2>2. /\ UNCHANGED <<accs, adj, log, pend, doubt, cmd>>
        /\ pc'[s] \in LogLabels \/ (pc'[s] = "logunlock" /\ pend[s] = <<>>)
        /\ pc[s] \notin AddLabels /\ pc[s] \notin {"idle", "down"}
    BY <1>3 DEF LogLock, LogAdd, LogCount, LogLabels, AddLabels
  <2> QED
    BY <1>1, <2>1, <2>2 DEF Calm, NextCmd, NextOpener, AddLabels, LogLabels
<1>4. CASE LogUnlock(s)
  <2>1. Return(s, reply[s]) /\ pend[s] = <<>> /\ UNCHANGED <<files, cmd, rc, history>>
        /\ cmd[s].op # "new"
    BY <1>1, <1>2, <1>4 DEF LogUnlock, AddLabels
  <2>2. /\ pend' = pend /\ pc'[s] = "idle"
        /\ \A t \in Sessions \ {s} : pc'[t] = pc[t] /\ pend'[t] = pend[t]
    BY <2>1, ReturnDrops
  <2> QED
    BY <2>1, <2>2 DEF Calm, Others, NextCmd, NextOpener, AddLabels
<1> QED
  BY <1>3, <1>4

LEMMA CalmEnds ==
    ASSUME TypeInv, MoneyInv, NEW s \in Sessions, AsyncLog(s) \/ UnasyncLog(s) \/ Exit(s)
    PROVE  Calm(s) /\ Others(s)
<1>1. pend[s] = <<>> /\ (pc[s] # "idle" => cmd[s].op # "new")
  BY DEF MoneyInv, RecordsOf, OpenerOf, AsyncLog, UnasyncLog, Exit, LogLabels, AddLabels
<1>2. CASE AsyncLog(s) \/ UnasyncLog(s)
  <2>1. Return(s, "SUCCESS") /\ UNCHANGED <<files, cmd, rc, history>> /\ pc[s] # "idle"
    BY <1>2 DEF AsyncLog, UnasyncLog
  <2>2. /\ pend' = pend /\ pc'[s] = "idle"
        /\ \A t \in Sessions \ {s} : pc'[t] = pc[t] /\ pend'[t] = pend[t]
    BY <1>1, <2>1, ReturnDrops
  <2> QED
    BY <1>1, <2>1, <2>2 DEF Calm, Others, NextCmd, NextOpener, AddLabels, files, history
<1>3. CASE Exit(s)
  <2>1. /\ UNCHANGED <<files, cmd, rc, adj, doubt>> /\ pc[s] = "idle"
        /\ pend' = [pend EXCEPT ![s] = <<>>] /\ pc' = [pc EXCEPT ![s] = "down"]
    BY <1>3 DEF Exit, Gone
  <2>2. /\ pend' = pend /\ pc'[s] = "down" /\ \A t \in Sessions \ {s} : pc'[t] = pc[t]
    BY <1>1, <2>1 DEF TypeInv, TypeOK
  <2> QED
    BY <1>1, <2>1, <2>2 DEF Calm, Others, NextCmd, NextOpener, files
<1> QED
  BY <1>2, <1>3

LEMMA CalmStart ==
    ASSUME TypeInv, MoneyInv, NEW s \in Sessions, NEW c \in Cmds, Start(s, c)
    PROVE  Calm(s) /\ Others(s)
<1> DEFINE d == IF c.op = "charge" THEN [c EXCEPT !.acc = 1, !.y = Len(accs)] ELSE c
<1>1. c \in CmdRec
  BY SessionsAssumption
<1>2. /\ cmd' = [cmd EXCEPT ![s] = d] /\ pc' = [pc EXCEPT ![s] = Entry(c)] /\ pc[s] = "idle"
      /\ UNCHANGED <<files, rc, pend, adj, doubt>>
  BY DEF Start, Goto
<1>3. d.op = c.op /\ (c.op # "charge" => d = c)
  <2> DEFINE c1 == [c EXCEPT !.acc = 1]
  <2>1. c1 \in CmdRec /\ c1.op = c.op
    BY <1>1 DEF CmdRec
  <2>2. [c EXCEPT !.acc = 1, !.y = Len(accs)] = [c1 EXCEPT !.y = Len(accs)]
    OBVIOUS
  <2> HIDE DEF c1
  <2>3. [c1 EXCEPT !.y = Len(accs)].op = c.op
    BY <2>1 DEF CmdRec
  <2> QED
    BY <2>2, <2>3
<1> HIDE DEF d
<1>4. Entry(c) # "put" /\ (Entry(c) \in AddLabels <=> c.op = "new")
  BY DEF Entry, AddLabels
<1>5. pend[s] = <<>>
  BY <1>2 DEF MoneyInv, RecordsOf, LogLabels
<1>6. cmd'[s] = d /\ pc'[s] = Entry(c) /\ Others(s)
  BY <1>2 DEF TypeInv, TypeOK, Others
<1>7. NextCmd(s) /\ NextOpener(s)
  BY <1>3, <1>4, <1>6 DEF NextCmd, NextOpener, Switches
<1> QED
  BY <1>2, <1>4, <1>5, <1>6, <1>7 DEF Calm, files

\* Steps of a command whose only effect on the records is that it may end.
Steady(s) == \/ \E r : Return(s, r) /\ cmd' = cmd
             \/ /\ pend' = pend /\ cmd'[s].op # "new" /\ pc'[s] \notin AddLabels
                /\ NextCmd(s) /\ Others(s)
                /\ pc'[s] = "put" => rc'[s] = acci_get(accs, cmd'[s].acc)

LEMMA CalmSteady ==
    ASSUME TypeInv, MoneyInv, NEW s \in Sessions, Steady(s),
           pend[s] = <<>>, pc[s] \notin AddLabels \cup {"idle", "down"},
           UNCHANGED <<accs, adj, log, doubt>>,
           \A t \in Sessions \ {s} : rc'[t] = rc[t]
    PROVE  Calm(s) /\ Others(s)
<1>1. CASE \E r : Return(s, r) /\ cmd' = cmd
  <2>1. PICK r : Return(s, r) /\ cmd' = cmd
    BY <1>1
  <2>2. /\ pend' = pend /\ pc'[s] = "idle"
        /\ \A t \in Sessions \ {s} : pc'[t] = pc[t] /\ pend'[t] = pend[t]
    BY <2>1, ReturnDrops
  <2>3. cmd[s].op # "new"
    BY DEF MoneyInv, OpenerOf, AddLabels
  <2> QED
    BY <2>1, <2>2, <2>3 DEF Calm, Others, NextCmd, NextOpener, AddLabels
<1>2. CASE /\ pend' = pend /\ cmd'[s].op # "new" /\ pc'[s] \notin AddLabels
           /\ NextCmd(s) /\ Others(s)
           /\ pc'[s] = "put" => rc'[s] = acci_get(accs, cmd'[s].acc)
  BY <1>2 DEF Calm, NextOpener
<1> QED
  BY <1>1, <1>2 DEF Steady

LEMMA CalmPeek ==
    ASSUME TypeInv, MoneyInv, NEW s \in Sessions, Peek(s)
    PROVE  Calm(s) /\ Others(s)
<1>1. /\ pc[s] = "peek" /\ UNCHANGED <<files, history>>
      /\ rc' = [rc EXCEPT ![s] = acci_get(accs, cmd[s].acc)]
  BY DEF Peek
<1>2. pend[s] = <<>>
  BY <1>1 DEF MoneyInv, RecordsOf, LogLabels
<1>3. CASE /\ cmd' = [cmd EXCEPT ![s].op = "add", ![s].x = @ * accs[cmd[s].acc].bal]
           /\ Goto(s, "lock") /\ UNCHANGED <<buf, pend, pos, reply>>
  <2> DEFINE c1 == [cmd[s] EXCEPT !.op = "add"]
             c2 == [c1 EXCEPT !.x = cmd[s].x * accs[cmd[s].acc].bal]
  <2>1. cmd' = [cmd EXCEPT ![s] = c2]
    BY <1>3
  <2>2. cmd[s] \in CmdRec
    BY DEF TypeInv, TypeOK
  <2>3. DOMAIN cmd[s] = {"op", "acc", "x", "y"}
    BY <2>2 DEF CmdRec
  <2>4. c1.op = "add" /\ DOMAIN c1 = {"op", "acc", "x", "y"}
    BY <2>3
  <2> HIDE DEF c1
  <2>5. c2.op = "add"
    BY <2>4
  <2> HIDE DEF c2
  <2>6. cmd'[s].op = "add" /\ pc'[s] = "lock" /\ Others(s)
    BY <1>1, <1>3, <2>1, <2>5 DEF TypeInv, TypeOK, Others, Goto
  <2>7. Steady(s)
    BY <1>3, <2>6 DEF Steady, NextCmd, Switches, AddLabels
  <2> QED
    BY <1>1, <1>2, <2>7, CalmSteady DEF AddLabels, files, history, TypeInv, TypeOK
<1>4. CASE \E r : Return(s, r) /\ cmd' = cmd
  <2>1. Steady(s)
    BY <1>4 DEF Steady
  <2> QED
    BY <1>1, <1>2, <2>1, CalmSteady DEF AddLabels, files, history, TypeInv, TypeOK
<1> QED
  BY <1>3, <1>4 DEF Peek

LEMMA CalmGetCard ==
    ASSUME TypeInv, MoneyInv, NEW s \in Sessions, GetCard(s)
    PROVE  Calm(s) /\ Others(s)
<1>1. /\ pc[s] = "get" /\ cmd[s].op = "card" /\ UNCHANGED <<files, cmd, history>>
      /\ rc' = [rc EXCEPT ![s] = acci_get(accs, cmd[s].acc)]
  BY DEF GetCard
<1>2. pend[s] = <<>>
  BY <1>1 DEF MoneyInv, RecordsOf, LogLabels
<1>3. Steady(s)
  <2>1. CASE Goto(s, "sql") /\ UNCHANGED <<buf, pend, pos, reply>>
    BY <1>1, <2>1 DEF Steady, NextCmd, Others, AddLabels, Goto, TypeInv, TypeOK
  <2>2. CASE \E r : Return(s, r)
    BY <1>1, <2>2 DEF Steady
  <2> QED
    BY <2>1, <2>2 DEF GetCard
<1> QED
  BY <1>1, <1>2, <1>3, CalmSteady DEF AddLabels, files, history, TypeInv, TypeOK

LEMMA CalmGetEdit ==
    ASSUME TypeInv, MoneyInv, NEW s \in Sessions, GetEdit(s)
    PROVE  Calm(s) /\ Others(s)
<1>1. /\ pc[s] = "get" /\ cmd[s].op # "new" /\ UNCHANGED <<files, cmd, history>>
      /\ rc' = [rc EXCEPT ![s] = acci_get(accs, cmd[s].acc)]
  BY DEF GetEdit, EditOps, TagOps, TagSet, TagClear
<1>2. pend[s] = <<>>
  BY <1>1 DEF MoneyInv, RecordsOf, LogLabels
<1>3. Steady(s)
  <2>1. CASE Goto(s, "put") /\ UNCHANGED <<pend, pos, reply>>
    BY <1>1, <2>1 DEF Steady, NextCmd, Others, AddLabels, Goto, TypeInv, TypeOK
  <2>2. CASE \E r : Return(s, r)
    BY <1>1, <2>2 DEF Steady
  <2> QED
    BY <2>1, <2>2 DEF GetEdit
<1> QED
  BY <1>1, <1>2, <1>3, CalmSteady DEF AddLabels, files, history, TypeInv, TypeOK

LEMMA CalmSqlUse ==
    ASSUME TypeInv, MoneyInv, NEW s \in Sessions, SqlUse(s)
    PROVE  Calm(s) /\ Others(s)
<1>1. /\ pc[s] = "sql" /\ UNCHANGED <<accs, log, rc, history>>
  BY DEF SqlUse
<1>2. pend[s] = <<>>
  BY <1>1 DEF MoneyInv, RecordsOf, LogLabels
<1>3. Steady(s)
  <2>1. CASE cmd[s].y \in cards
    <3> DEFINE c == [op |-> "card_add", acc |-> cmd[s].acc, x |-> InitCards[cmd[s].y], y |-> 0]
    <3>1. /\ cmd' = [cmd EXCEPT ![s] = c] /\ Goto(s, "lock")
          /\ UNCHANGED <<buf, pend, pos, reply>>
      BY <2>1 DEF SqlUse
    <3>2. c.op = "card_add"
      OBVIOUS
    <3> HIDE DEF c
    <3> QED
      BY <1>1, <3>1, <3>2 DEF Steady, NextCmd, Others, AddLabels, Switches, Goto, TypeInv, TypeOK
  <2>2. CASE cmd[s].y \notin cards
    BY <1>1, <2>2 DEF Steady, SqlUse
  <2> QED
    BY <2>1, <2>2
<1> QED
  BY <1>1, <1>2, <1>3, CalmSteady DEF AddLabels, history, TypeInv, TypeOK

LEMMA SteadyCharge ==
    ASSUME TypeInv, NEW s \in Sessions, NextCharge(s), cmd[s].op = "charge",
           \A t \in Sessions \ {s} : rc'[t] = rc[t]
    PROVE  Steady(s)
<1>1. CASE cmd[s].acc < cmd[s].y
  <2> DEFINE c == [cmd[s] EXCEPT !.acc = @ + 1]
  <2>1. /\ cmd' = [cmd EXCEPT ![s] = c] /\ Goto(s, "lock") /\ UNCHANGED <<pend, pos, reply>>
    BY <1>1 DEF NextCharge
  <2>2. c.op = "charge"
    BY DEF TypeInv, TypeOK, CmdRec
  <2> HIDE DEF c
  <2> QED
    BY <2>1, <2>2 DEF Steady, NextCmd, Others, AddLabels, Switches, Goto, TypeInv, TypeOK
<1>2. CASE ~(cmd[s].acc < cmd[s].y)
  BY <1>2 DEF NextCharge, Steady
<1> QED
  BY <1>1, <1>2

LEMMA CalmGetCharge ==
    ASSUME TypeInv, MoneyInv, NEW s \in Sessions, GetCharge(s)
    PROVE  Calm(s) /\ Others(s)
<1>1. /\ pc[s] = "get" /\ cmd[s].op = "charge" /\ UNCHANGED <<files, locks, history>>
      /\ rc' = [rc EXCEPT ![s] = acci_get(accs, cmd[s].acc)]
  BY DEF GetCharge
<1>2. pend[s] = <<>>
  BY <1>1 DEF MoneyInv, RecordsOf, LogLabels
<1>3. Steady(s)
  <2>1. CASE NextCharge(s)
    BY <1>1, <2>1, SteadyCharge DEF TypeInv, TypeOK
  <2>2. CASE \E fee \in Fees :
                /\ cmd' = [cmd EXCEPT ![s].x = fee]
                /\ Goto(s, IF fee = 0 THEN "unlock" ELSE "put")
                /\ UNCHANGED <<pend, pos, reply>>
    <3>1. PICK fee \in Fees : /\ cmd' = [cmd EXCEPT ![s].x = fee]
                              /\ Goto(s, IF fee = 0 THEN "unlock" ELSE "put")
                              /\ UNCHANGED <<pend, pos, reply>>
      BY <2>2
    <3> DEFINE c == [cmd[s] EXCEPT !.x = fee]
    <3>2. cmd' = [cmd EXCEPT ![s] = c]
      BY <3>1
    <3>3. c.op = "charge" /\ c.acc = cmd[s].acc
      BY <1>1 DEF TypeInv, TypeOK, CmdRec
    <3> HIDE DEF c
    <3>4. cmd'[s] = c /\ Others(s) /\ pc'[s] \in {"unlock", "put"}
      BY <1>1, <3>1, <3>2 DEF Others, Goto, TypeInv, TypeOK
    <3>5. rc'[s] = acci_get(accs, cmd'[s].acc)
      BY <1>1, <3>3, <3>4 DEF TypeInv, TypeOK
    <3> QED
      BY <3>1, <3>3, <3>4, <3>5 DEF Steady, NextCmd, AddLabels, Switches
  <2> QED
    BY <2>1, <2>2 DEF GetCharge
<1> QED
  BY <1>1, <1>2, <1>3, CalmSteady DEF AddLabels, files, history, TypeInv, TypeOK

LEMMA CalmUnlock ==
    ASSUME TypeInv, MoneyInv, NEW s \in Sessions, Unlock(s)
    PROVE  Calm(s) /\ Others(s)
<1>1. /\ pc[s] = "unlock" /\ UNCHANGED <<files, rc, history>>
  BY DEF Unlock
<1>2. CASE cmd[s].op = "bires"
  <2>1. Goto(s, "loglock") /\ UNCHANGED <<cmd, buf, pend, pos, reply>>
    BY <1>2 DEF Unlock, EditOps, TagOps, TagSet, TagClear
  <2> QED
    BY <1>1, <1>2, <2>1
       DEF Calm, Others, NextCmd, NextOpener, AddLabels, Goto, files, history, TypeInv, TypeOK
<1>3. CASE cmd[s].op # "bires"
  <2>1. pend[s] = <<>>
    BY <1>1, <1>3 DEF MoneyInv, RecordsOf, LogLabels
  <2>2. \/ NextCharge(s) /\ cmd[s].op = "charge"
        \/ \E r : Return(s, r) /\ cmd' = cmd
    BY <1>3 DEF Unlock, EditOps, TagOps, TagSet, TagClear
  <2>3. Steady(s)
    BY <1>1, <2>2, SteadyCharge DEF Steady, TypeInv, TypeOK
  <2> QED
    BY <1>1, <2>1, <2>3, CalmSteady DEF AddLabels, files, history, TypeInv, TypeOK
<1> QED
  BY <1>2, <1>3

\* All of them.
CalmAction(s) ==
    \/ Connect(s) \/ Exit(s) \/ \E c \in Cmds : Start(s, c)
    \/ Peek(s) \/ Lock(s) \/ Unlock(s) \/ GetCharge(s) \/ GetEdit(s) \/ GetCard(s) \/ SqlUse(s)
    \/ AddLock(s) \/ AddCount(s)
    \/ LogLock(s) \/ LogAdd(s) \/ LogCount(s) \/ LogUnlock(s) \/ AsyncStep(s)

LEMMA CalmSteps ==
    ASSUME TypeInv, MoneyInv, NEW s \in Sessions, CalmAction(s)
    PROVE  Calm(s) /\ Others(s)
BY CalmPlain, CalmLog, CalmEnds, CalmStart, CalmPeek, CalmGetCard, CalmGetEdit, CalmSqlUse,
   CalmGetCharge, CalmUnlock DEF CalmAction, AsyncStep

-------------------------------------------------------------------------------
\* What every step leaves in order: what is said of the session itself, the
\* switches of the accounts, and that only the holder of the file writes it.
Tidy(s) ==
    /\ DOMAIN accs \subseteq DOMAIN accs' /\ (accs' = accs \/ accEx = s)
    /\ \A n \in DOMAIN accs' : SwitchOf(n)'
    /\ GivenOf(s)' /\ RecordsOf(s)' /\ StatusOf(s)' /\ OpenerOf(s)'
    /\ Opened(s)' => \/ Opened(s) /\ cmd'[s].acc = cmd[s].acc
                     \/ cmd'[s].acc \notin DOMAIN accs

\* And for the money: what the balance of an account gains, its history, the
\* log and the records of s gain with it, unless a fault leaves it in doubt.
Gain(before, after) == after - before
Settled(s, n) ==
    Gain(BalanceOf(n), BalanceOf(n)') =
        Gain(AdjustmentOf(n), AdjustmentOf(n)') + Gain(SumOf(log, n), SumOf(log', n))
            + Gain(SumOf(pend[s], n), SumOf(pend'[s], n))
Settles(s) == doubt \subseteq doubt' /\ \A n \in Nat : n \notin doubt' => Settled(s, n)

LEMMA OthersKeepMoney ==
    ASSUME FileInv, MoneyInv, OpenInv, NEW s \in Sessions, Others(s), Tidy(s)
    PROVE  MoneyInv' /\ OpenInv'
<1>1. ASSUME NEW t \in Sessions \ {s}
      PROVE  GivenOf(t)' /\ RecordsOf(t)' /\ StatusOf(t)' /\ OpenerOf(t)'
  <2>1. pc'[t] = pc[t] /\ cmd'[t] = cmd[t] /\ rc'[t] = rc[t] /\ pend'[t] = pend[t]
    BY <1>1 DEF Others
  <2>2. GivenOf(t)' /\ RecordsOf(t)'
    BY <1>1, <2>1 DEF MoneyInv, GivenOf, RecordsOf
  <2>3. pc[t] = "put" => accs' = accs
    BY <1>1 DEF Tidy, FileInv, WriterOf
  <2>4. StatusOf(t)'
    BY <1>1, <2>1, <2>3 DEF MoneyInv, StatusOf
  <2>5. OpenerOf(t)'
    BY <1>1, <2>1 DEF MoneyInv, OpenerOf, Tidy
  <2> QED
    BY <2>2, <2>4, <2>5
<1>2. MoneyInv'
  BY <1>1 DEF MoneyInv, Tidy
<1>3. ASSUME NEW t \in Sessions \ {s}, Opened(t)'
      PROVE  Opened(t) /\ cmd'[t] = cmd[t] /\ cmd[t].acc \in DOMAIN accs
  BY <1>3 DEF Others, Opened, MoneyInv, OpenerOf, AddLabels
<1>4. ASSUME NEW t \in Sessions, NEW u \in Sessions, Opened(t)', Opened(u)', t # u
      PROVE  cmd'[t].acc # cmd'[u].acc
  <2>1. CASE t # s /\ u # s
    BY <1>3, <1>4, <2>1 DEF OpenInv
  <2>2. CASE t = s
    BY <1>3, <1>4, <2>2 DEF OpenInv, Tidy
  <2>3. CASE u = s
    BY <1>3, <1>4, <2>3 DEF OpenInv, Tidy
  <2> QED
    BY <2>1, <2>2, <2>3
<1> QED
  BY <1>2, <1>4 DEF OpenInv

LEMMA BalanceTypes ==
    ASSUME TypeInv, NEW n \in Nat
    PROVE  /\ BalanceOf(n) \in Int /\ InitBal(n) \in Int /\ AdjustmentOf(n) \in Int
           /\ SumOf(log, n) \in Int
           /\ [s \in Sessions |-> SumOf(pend[s], n)] \in [Sessions -> Int]
<1>0. \A file \in Seq(AccRec) : \A m \in DOMAIN file : file[m].bal \in Int
  <2>1. \A a \in AccRec : a.bal \in Int
    BY DEF AccRec
  <2> QED
    BY <2>1
<1>1. BalanceOf(n) \in Int
  BY <1>0 DEF BalanceOf, TypeInv, TypeOK
<1>2. InitBal(n) \in Int
  BY <1>0, SessionsAssumption DEF InitBal
<1>3. AdjustmentOf(n) \in Int
  BY DEF AdjustmentOf, TypeInv, TypeOK
<1>4. SumOf(log, n) \in Int /\ \A s \in Sessions : SumOf(pend[s], n) \in Int
  BY SumOfType DEF TypeInv, TypeOK
<1> QED
  BY <1>1, <1>2, <1>3, <1>4

LEMMA SettlesKeepsBalance ==
    ASSUME TypeInv, TypeInv', BalanceInv, NEW s \in Sessions, Others(s), Settles(s)
    PROVE  BalanceInv'
<1> SUFFICES ASSUME NEW n \in Nat, n \notin doubt' PROVE ExplainedOf(n)'
  BY DEF BalanceInv
<1> DEFINE h == [t \in Sessions |-> SumOf(pend[t], n)]
           g == [t \in Sessions |-> SumOf(pend'[t], n)]
           b  == BalanceOf(n)
           bb == BalanceOf(n)'
           i  == InitBal(n)
           a  == AdjustmentOf(n)
           aa == AdjustmentOf(n)'
           l  == SumOf(log, n)
           ll == SumOf(log', n)
           p  == SumOf(pend[s], n)
           pp == SumOf(pend'[s], n)
           d  == SumFunction(h)
           dd == SumFunction(g)
<1>1. /\ b \in Int /\ i \in Int /\ a \in Int /\ l \in Int /\ h \in [Sessions -> Int]
  BY BalanceTypes
<1>2. /\ bb \in Int /\ aa \in Int /\ ll \in Int /\ g \in [Sessions -> Int]
  <2>0. \A m \in DOMAIN accs' : accs'[m].bal \in Int
    <3>1. accs' \in Seq(AccRec) /\ \A r \in AccRec : r.bal \in Int
      BY DEF TypeInv, TypeOK, AccRec
    <3> QED
      BY <3>1
  <2>1. /\ BalanceOf(n)' \in Int /\ AdjustmentOf(n)' \in Int
    BY <2>0 DEF BalanceOf, AdjustmentOf, TypeInv, TypeOK
  <2>2. SumOf(log', n) \in Int /\ \A t \in Sessions : SumOf(pend'[t], n) \in Int
    BY SumOfType DEF TypeInv, TypeOK
  <2> QED
    BY <2>1, <2>2
<1>3. Differs(g, h, Sessions, s)
  BY <1>1, <1>2 DEF Differs, Others
<1>4. h[s] = p /\ g[s] = pp
  OBVIOUS
<1>5. b = i + a + l + d
  BY DEF Settles, BalanceInv, ExplainedOf, DueOf
<1>6. bb - b = (aa - a) + (ll - l) + (pp - p)
  BY DEF Settles, Settled, Gain
<1>7. ExplainedOf(n)' <=> bb = i + aa + ll + dd
  BY DEF ExplainedOf, DueOf, InitBal
<1> HIDE DEF h, g, b, bb, i, a, aa, l, ll, p, pp, d, dd
<1>8. SumFunction(g) = SumFunction(h) - h[s] + g[s] /\ SumFunction(g) \in Int /\ SumFunction(h) \in Int
  BY <1>3, SessionsAssumption, SumFunctionChanged
<1>9. dd = d - p + pp /\ d \in Int /\ dd \in Int
  BY <1>4, <1>8 DEF d, dd
<1>10. p \in Int /\ pp \in Int
  BY <1>1, <1>2, <1>4
<1>11. bb = i + aa + ll + dd
  BY <1>1, <1>2, <1>5, <1>6, <1>9, <1>10
<1> QED
  BY <1>7, <1>11

\* The steps that do nothing with the money.
LEMMA CalmKeeps ==
    ASSUME TypeInv, MoneyInv, NEW s \in Sessions, Calm(s)
    PROVE  Tidy(s) /\ Settles(s)
<1>1. GivenOf(s)'
  BY DEF Calm, NextCmd, MoneyInv, GivenOf
<1>2. RecordsOf(s)'
  <2>1. pend'[s] = pend[s] /\ pend[s] \in Seq(LogRec)
    BY DEF Calm, TypeInv, TypeOK
  <2>2. CASE pend[s] = <<>>
    BY <2>1, <2>2 DEF RecordsOf
  <2>3. CASE pend[s] # <<>>
    BY <2>1, <2>3 DEF Calm, MoneyInv, RecordsOf
  <2> QED
    BY <2>2, <2>3
<1>3. StatusOf(s)' /\ OpenerOf(s)' /\ \A n \in DOMAIN accs' : SwitchOf(n)'
  BY DEF Calm, NextOpener, MoneyInv, StatusOf, OpenerOf, SwitchOf, AddLabels
<1>4. Opened(s)' => Opened(s) /\ cmd'[s].acc = cmd[s].acc
  BY DEF Calm, NextOpener, Opened, AddLabels
<1>5. Tidy(s)
  BY <1>1, <1>2, <1>3, <1>4 DEF Tidy, Calm
<1>6. ASSUME NEW n \in Nat PROVE Settled(s, n)
  <2>1. /\ BalanceOf(n)' = BalanceOf(n) /\ AdjustmentOf(n)' = AdjustmentOf(n)
        /\ log' = log /\ pend'[s] = pend[s]
    BY DEF Calm, BalanceOf, AdjustmentOf
  <2>2. /\ BalanceOf(n) \in Int /\ AdjustmentOf(n) \in Int
        /\ SumOf(log, n) \in Int /\ SumOf(pend[s], n) \in Int
    BY BalanceTypes, SumOfType DEF TypeInv, TypeOK
  <2>3. \A x \in Int : x - x = 0
    OBVIOUS
  <2>4. /\ Gain(BalanceOf(n), BalanceOf(n)') = 0 /\ Gain(AdjustmentOf(n), AdjustmentOf(n)') = 0
        /\ Gain(SumOf(log, n), SumOf(log', n)) = 0
        /\ Gain(SumOf(pend[s], n), SumOf(pend'[s], n)) = 0
    BY <2>1, <2>2, <2>3 DEF Gain
  <2> QED
    BY <2>4 DEF Settled
<1>7. Settles(s)
  BY <1>6 DEF Settles, Calm
<1> QED
  BY <1>5, <1>7

-------------------------------------------------------------------------------
\* The steps that prepare records, write or lose them.

\* The file, the history and the log stay: what the records say must stay too.
LEMMA SettledRecords ==
    ASSUME TypeInv, TypeInv', NEW s \in Sessions, NEW n \in Nat,
           UNCHANGED <<accs, adj, log>>, SumOf(pend'[s], n) = SumOf(pend[s], n)
    PROVE  Settled(s, n)
<1>1. /\ BalanceOf(n)' = BalanceOf(n) /\ AdjustmentOf(n)' = AdjustmentOf(n)
  BY DEF BalanceOf, AdjustmentOf
<1>2. /\ BalanceOf(n) \in Int /\ AdjustmentOf(n) \in Int
      /\ SumOf(log, n) \in Int /\ SumOf(pend[s], n) \in Int
  BY BalanceTypes, SumOfType DEF TypeInv, TypeOK
<1>3. \A x \in Int : x - x = 0
  OBVIOUS
<1>4. /\ Gain(BalanceOf(n), BalanceOf(n)') = 0 /\ Gain(AdjustmentOf(n), AdjustmentOf(n)') = 0
      /\ Gain(SumOf(log, n), SumOf(log', n)) = 0
      /\ Gain(SumOf(pend[s], n), SumOf(pend'[s], n)) = 0
  BY <1>1, <1>2, <1>3 DEF Gain
<1> QED
  BY <1>4 DEF Settled

LEMMA PreparedRecords ==
    ASSUME TypeInv, NEW s \in Sessions, NEW a \in AccRec, NEW status \in Codes, NEW err \in Codes,
           cmd' = cmd, pend'[s] = TransLog(cmd[s], a, status, err),
           pc'[s] = IF cmd[s].op = "bires" THEN "unlock" ELSE "logadd"
    PROVE  RecordsOf(s)'
<1>1. cmd[s] \in CmdRec
  BY DEF TypeInv, TypeOK
<1>2. /\ Len(pend'[s]) <= IF cmd[s].op = "bires" THEN 2 ELSE 1
      /\ \A i \in DOMAIN pend'[s] : Recorded(pend'[s][i], cmd[s], err)
  BY <1>1, TransLogRecords
<1> QED
  BY <1>2 DEF RecordsOf, Recorded, LogLabels

LEMMA GetTransKeeps ==
    ASSUME TypeInv, TypeInv', MoneyInv, NEW s \in Sessions, GetTrans(s)
    PROVE  Others(s) /\ Tidy(s) /\ Settles(s)
<1>1. /\ pc[s] = "get" /\ cmd[s].op \in TransOps /\ UNCHANGED <<files, cmd, history>>
      /\ cmd[s] \in CmdRec /\ cmd[s].op # "new"
  BY DEF GetTrans, TransOps, TypeInv, TypeOK
<1>2. pend[s] = <<>> /\ GivenOf(s)
  BY <1>1 DEF MoneyInv, RecordsOf, LogLabels
<1>3. /\ rc'[s] = acci_get(accs, cmd[s].acc) /\ rc'[s] \in Codes /\ buf'[s] \in AccRec
      /\ \A t \in Sessions \ {s} : rc'[t] = rc[t]
  BY StatusType DEF GetTrans, ReadInto, TypeInv, TypeOK
<1>4. CASE Writable(rc'[s])
  <2>1. pc' = [pc EXCEPT ![s] = "put"] /\ pend' = pend
    BY <1>4 DEF GetTrans, Goto
  <2>2. pc'[s] = "put" /\ Others(s)
    BY <1>1, <1>3, <2>1 DEF Others, TypeInv, TypeOK
  <2>3. Calm(s)
    BY <1>1, <1>2, <1>3, <2>1, <2>2
       DEF Calm, NextCmd, NextOpener, AddLabels, files, history
  <2> QED
    BY <2>2, <2>3, CalmKeeps
<1>5. CASE ~Writable(rc'[s])
  <2> DEFINE recs == TransLog(cmd[s], buf'[s], rc'[s], rc'[s])
             label == IF cmd[s].op = "bires" THEN "unlock" ELSE "logadd"
  <2>1. pend' = [pend EXCEPT ![s] = recs] /\ pc' = [pc EXCEPT ![s] = label]
    BY <1>5 DEF GetTrans, Goto
  <2>2. /\ pend'[s] = recs /\ pc'[s] = label /\ Others(s)
    BY <1>1, <1>3, <2>1 DEF Others, TypeInv, TypeOK
  <2>3. RecordsOf(s)'
    BY <1>1, <1>3, <2>2, PreparedRecords
  <2>4. label \in {"unlock", "logadd"}
    OBVIOUS
  <2>5. ASSUME NEW n PROVE SumOf(recs, n) = 0
    <3>1. ~Applies(rc'[s], ResId(cmd[s]))
      BY <1>5 DEF Writable, Applies, Valid
    <3> QED
      BY <1>1, <1>3, <3>1, TransLogSum
  <2> HIDE DEF recs, label
  <2>6. Tidy(s)
    <3>1. GivenOf(s)' /\ StatusOf(s)' /\ OpenerOf(s)' /\ ~Opened(s)'
      BY <1>1, <1>2, <2>2, <2>4 DEF GivenOf, StatusOf, OpenerOf, AddLabels, Opened
    <3>2. accs' = accs /\ \A n \in DOMAIN accs' : SwitchOf(n)'
      BY <1>1 DEF MoneyInv, SwitchOf, files
    <3> QED
      BY <2>3, <3>1, <3>2 DEF Tidy
  <2>7. ASSUME NEW n \in Nat PROVE Settled(s, n)
    <3>1. SumOf(pend'[s], n) = SumOf(pend[s], n)
      BY <1>2, <2>2, <2>5, SumOfNothing
    <3> QED
      BY <1>1, <3>1, SettledRecords DEF files, history
  <2> QED
    BY <1>1, <2>2, <2>6, <2>7 DEF Settles, history
<1> QED
  BY <1>4, <1>5

\* Records that describe no movement, or one of another account.
LEMMA NothingMoved ==
    ASSUME TypeInv, MoneyInv, NEW s \in Sessions, NEW n, n # cmd[s].acc \/ ~Moved(pend[s])
    PROVE  SumOf(pend[s], n) = 0
<1>1. pend[s] \in Seq(LogRec)
  BY DEF TypeInv, TypeOK
<1>2. \A i \in DOMAIN pend[s] : Moves(pend[s][i], n) = 0
  BY DEF MoneyInv, RecordsOf, Moved, Moves
<1> QED
  BY <1>1, <1>2, SumOfStill

LEMMA CrashKeeps ==
    ASSUME TypeInv, TypeInv', MoneyInv, NEW s \in Sessions, Crash(s)
    PROVE  Others(s) /\ Tidy(s) /\ Settles(s)
<1>1. /\ UNCHANGED <<files, rc, adj>> /\ cmd' = [cmd EXCEPT ![s] = NoCommand]
      /\ pc' = [pc EXCEPT ![s] = "down"] /\ pend' = [pend EXCEPT ![s] = <<>>]
      /\ doubt' = IF Moved(pend[s]) THEN doubt \cup {cmd[s].acc} ELSE doubt
  BY DEF Crash, Gone
<1>2. /\ pend'[s] = <<>> /\ pc'[s] = "down" /\ cmd'[s] = NoCommand /\ Others(s)
  BY <1>1 DEF Others, TypeInv, TypeOK
<1>3. Tidy(s)
  <2>1. NoCommand.op = "unlock"
    BY DEF NoCommand
  <2>2. GivenOf(s)' /\ StatusOf(s)' /\ OpenerOf(s)' /\ ~Opened(s)' /\ RecordsOf(s)'
    BY <1>2, <2>1 DEF GivenOf, StatusOf, OpenerOf, AddLabels, Opened, Switches, RecordsOf
  <2>3. accs' = accs /\ \A n \in DOMAIN accs' : SwitchOf(n)'
    BY <1>1 DEF MoneyInv, SwitchOf, files
  <2> QED
    BY <2>2, <2>3 DEF Tidy
<1>4. ASSUME NEW n \in Nat, n \notin doubt' PROVE Settled(s, n)
  <2>1. SumOf(pend[s], n) = 0
    BY <1>1, <1>4, NothingMoved
  <2>2. SumOf(pend'[s], n) = 0
    BY <1>2, SumOfNothing
  <2> QED
    BY <1>1, <2>1, <2>2, SettledRecords DEF files
<1> QED
  BY <1>1, <1>2, <1>3, <1>4 DEF Settles

\* The first of the prepared records leaves, into the log or not.
LEMMA FirstRecord ==
    ASSUME TypeInv, MoneyInv, NEW s \in Sessions, pc[s] = "logwrite"
    PROVE  /\ pend[s] \in Seq(LogRec) /\ pend[s] # <<>> /\ Len(pend[s]) <= 2
           /\ Head(pend[s]) \in LogRec /\ Head(pend[s]).no = cmd[s].acc
           /\ Tail(pend[s]) \in Seq(LogRec)
           /\ \A n : SumOf(pend[s], n) = Moves(Head(pend[s]), n) + SumOf(Tail(pend[s]), n)
           /\ \A n : Moves(Head(pend[s]), n) \in Int /\ SumOf(Tail(pend[s]), n) \in Int
<1>1. pend[s] \in Seq(LogRec) /\ pend[s] # <<>>
  BY DEF TypeInv, TypeOK, RecordToAdd, LogLabels
<1>2. Len(pend[s]) \in Nat /\ Len(pend[s]) # 0 /\ DOMAIN pend[s] = 1 .. Len(pend[s])
  BY <1>1
<1>3. Len(pend[s]) <= 2
  <2>1. Len(pend[s]) <= IF cmd[s].op = "bires" THEN 2 ELSE 1
    BY DEF MoneyInv, RecordsOf
  <2> QED
    BY <1>2, <2>1
<1>4. Head(pend[s]) = pend[s][1] /\ 1 \in DOMAIN pend[s]
  BY <1>1, <1>2
<1>5. Head(pend[s]) \in LogRec /\ Head(pend[s]).no = cmd[s].acc
  BY <1>1, <1>4 DEF MoneyInv, RecordsOf
<1>6. Tail(pend[s]) \in Seq(LogRec)
  BY <1>1
<1> QED
  BY <1>1, <1>3, <1>5, <1>6, SumOfTail, SumOfType, MovesType

LEMMA LogDoneTidy ==
    ASSUME TypeInv, MoneyInv, NEW s \in Sessions, NEW r, pc[s] = "logwrite", LogDone(s, r)
    PROVE  Others(s) /\ Tidy(s) /\ pend'[s] = Tail(pend[s])
<1> DEFINE label == IF Len(pend[s]) > 1 THEN "logadd" ELSE AfterLog(s)
<1>1. /\ UNCHANGED <<accs, cmd, rc, adj>> /\ pc' = [pc EXCEPT ![s] = label]
      /\ pend' = [pend EXCEPT ![s] = Tail(pend[s])]
  BY DEF LogDone, Goto
<1>2. pend'[s] = Tail(pend[s]) /\ pc'[s] = label /\ Others(s)
  BY <1>1 DEF Others, TypeInv, TypeOK
<1>3. label \in {"logadd", "logunlock", "unlock"}
  BY DEF AfterLog
<1>4. /\ pend[s] \in Seq(LogRec) /\ pend[s] # <<>>
  BY FirstRecord
<1>5. /\ Len(pend[s]) \in Nat \ {0} /\ Len(Tail(pend[s])) = Len(pend[s]) - 1
      /\ Tail(pend[s]) \in Seq(LogRec)
      /\ \A i \in DOMAIN Tail(pend[s]) : i + 1 \in DOMAIN pend[s] /\ Tail(pend[s])[i] = pend[s][i + 1]
  BY <1>4
<1>6. Len(pend[s]) <= IF cmd[s].op = "bires" THEN 2 ELSE 1
  BY DEF MoneyInv, RecordsOf
<1>7. RecordsOf(s)'
  <2>1. Len(pend'[s]) <= IF cmd[s].op = "bires" THEN 2 ELSE 1
    BY <1>2, <1>5, <1>6
  <2>2. \A i \in DOMAIN pend'[s] : pend'[s][i].no = cmd[s].acc
    BY <1>2, <1>5 DEF MoneyInv, RecordsOf
  <2>3. pend'[s] # <<>> => pc'[s] = "logadd"
    <3>1. Tail(pend[s]) # <<>> => Len(Tail(pend[s])) # 0
      BY <1>5, EmptySeq
    <3>2. \A k \in Nat \ {0} : k - 1 # 0 => k > 1
      OBVIOUS
    <3>3. Tail(pend[s]) # <<>> => Len(pend[s]) > 1
      BY <1>5, <3>1, <3>2
    <3> QED
      BY <1>2, <3>3
  <2> QED
    BY <1>1, <2>1, <2>2, <2>3 DEF RecordsOf, LogLabels
<1> HIDE DEF label
<1>8. GivenOf(s)' /\ StatusOf(s)' /\ OpenerOf(s)' /\ ~Opened(s)'
  BY <1>1, <1>2, <1>3 DEF MoneyInv, GivenOf, StatusOf, OpenerOf, AddLabels, Opened
<1>9. \A n \in DOMAIN accs' : SwitchOf(n)'
  BY <1>1 DEF MoneyInv, SwitchOf
<1> QED
  BY <1>1, <1>2, <1>7, <1>8, <1>9 DEF Tidy

LEMMA LogFailKeeps ==
    ASSUME TypeInv, TypeInv', MoneyInv, NEW s \in Sessions, LogFail(s)
    PROVE  Others(s) /\ Tidy(s) /\ Settles(s)
<1> DEFINE r == Head(pend[s])
<1>1. /\ pc[s] = "logwrite" /\ LogDone(s, "IO_ERROR") /\ UNCHANGED <<accs, log, adj>>
      /\ doubt' = IF Moved(<<r>>) THEN doubt \cup {cmd[s].acc} ELSE doubt
  BY DEF LogFail, LogDone
<1>2. Others(s) /\ Tidy(s) /\ pend'[s] = Tail(pend[s])
  BY <1>1, LogDoneTidy
<1>3. ASSUME NEW n \in Nat, n \notin doubt' PROVE Settled(s, n)
  <2>1. Moves(r, n) = 0
    <3>1. n = cmd[s].acc => ~Moved(<<r>>)
      BY <1>1, <1>3
    <3>2. Moved(<<r>>) <=> Applies(r.err, r.res)
      BY DEF Moved
    <3>3. r.no = cmd[s].acc
      BY <1>1, FirstRecord
    <3> QED
      BY <3>1, <3>2, <3>3 DEF Moves
  <2>2. /\ SumOf(pend[s], n) = Moves(r, n) + SumOf(Tail(pend[s]), n)
        /\ SumOf(Tail(pend[s]), n) \in Int
    BY <1>1, FirstRecord
  <2>3. SumOf(pend'[s], n) = SumOf(pend[s], n)
    BY <1>2, <2>1, <2>2
  <2> QED
    BY <1>1, <2>3, SettledRecords
<1> QED
  BY <1>1, <1>2, <1>3 DEF Settles

LEMMA LogWriteKeeps ==
    ASSUME TypeInv, TypeInv', LockInv, MoneyInv, NEW s \in Sessions, LogWrite(s)
    PROVE  Others(s) /\ Tidy(s) /\ Settles(s) /\ log' = Append(log, Head(pend[s]))
<1> DEFINE r == Head(pend[s])
<1>1. /\ pc[s] = "logwrite" /\ LogDone(s, accs_state(buf[s])) /\ UNCHANGED <<accs, adj, doubt>>
      /\ log' = WriteAt(log, pos[s] + 1, r)
  BY DEF LogWrite, LogDone
<1>2. Others(s) /\ Tidy(s) /\ pend'[s] = Tail(pend[s])
  BY <1>1, LogDoneTidy
<1>3. log' = Append(log, r)
  <2>1. pos[s] = Len(log) /\ log \in Seq(LogRec)
    BY <1>1 DEF LockInv, LogOf, TypeInv, TypeOK
  <2>2. Len(log) + 1 \notin DOMAIN log
    BY <2>1
  <2> QED
    BY <1>1, <2>1, <2>2 DEF WriteAt
<1>4. ASSUME NEW n \in Nat PROVE Settled(s, n)
  <2>1. /\ r \in LogRec /\ SumOf(pend[s], n) = Moves(r, n) + SumOf(Tail(pend[s]), n)
        /\ Moves(r, n) \in Int /\ SumOf(Tail(pend[s]), n) \in Int
    BY <1>1, FirstRecord
  <2>2. SumOf(log', n) = SumOf(log, n) + Moves(r, n) /\ SumOf(log, n) \in Int
    BY <1>3, <2>1, SumOfAppended, SumOfType DEF TypeInv, TypeOK
  <2>3. /\ BalanceOf(n)' = BalanceOf(n) /\ AdjustmentOf(n)' = AdjustmentOf(n)
        /\ BalanceOf(n) \in Int /\ AdjustmentOf(n) \in Int
    BY <1>1, BalanceTypes DEF BalanceOf, AdjustmentOf
  <2>4. /\ Gain(BalanceOf(n), BalanceOf(n)') = 0
        /\ Gain(AdjustmentOf(n), AdjustmentOf(n)') = 0
    <3>1. \A x \in Int : x - x = 0
      OBVIOUS
    <3> QED
      BY <2>3, <3>1 DEF Gain
  <2> HIDE DEF r
  <2>5. Gain(SumOf(log, n), SumOf(log', n)) = Moves(r, n)
    <3>1. \A x, y \in Int : (x + y) - x = y
      OBVIOUS
    <3> QED
      BY <2>1, <2>2, <3>1 DEF Gain
  <2>6. Gain(SumOf(pend[s], n), SumOf(pend'[s], n)) = 0 - Moves(r, n)
    <3>1. \A x, y \in Int : y - (x + y) = 0 - x
      OBVIOUS
    <3> QED
      BY <1>2, <2>1, <3>1 DEF Gain
  <2>7. \A x \in Int : 0 = 0 + x + (0 - x)
    OBVIOUS
  <2> QED
    BY <2>1, <2>4, <2>5, <2>6, <2>7 DEF Settled
<1> QED
  BY <1>1, <1>2, <1>3, <1>4 DEF Settles

-------------------------------------------------------------------------------
\* The steps that write the account file.

LEMMA TransRecFields ==
    ASSUME NEW c \in CmdRec, NEW a \in AccRec, NEW status
    PROVE  LET r == TransRec(c, a, status) IN
           /\ r.no = a.no /\ r.tag = a.tag
           /\ r.bal = IF Applies(status, ResId(c)) THEN a.bal + Total(c, a) ELSE a.bal
           /\ ~Applies(status, ResId(c)) => r = a
<1> DEFINE b == [a EXCEPT !.bal = a.bal + Total(c, a)]
           d == [b EXCEPT !.tcredit = 0]
<1>1. DOMAIN a = {"no", "tag", "bal", "tcredit", "res"}
  BY DEF AccRec
<1>2. b.no = a.no /\ b.tag = a.tag /\ b.bal = a.bal + Total(c, a) /\ DOMAIN b = DOMAIN a
  BY <1>1
<1>3. [a EXCEPT !.bal = a.bal + Total(c, a), !.tcredit = 0] = d
  OBVIOUS
<1>4. TransRec(c, a, status) = IF ~Applies(status, ResId(c)) THEN a
                               ELSE IF ResId(c) = "ADDER" THEN d ELSE b
  BY <1>3 DEF TransRec
<1> HIDE DEF b
<1>5. d.no = b.no /\ d.tag = b.tag /\ d.bal = b.bal
  BY <1>1, <1>2
<1> HIDE DEF d
<1> QED
  BY <1>2, <1>4, <1>5

\* An edit adds its own switch only.
LEMMA EditRecSwitch ==
    ASSUME NEW c \in CmdRec, NEW a \in AccRec, NEW op \in Switches,
           TagSet[op] \in EditRec(c, a).tag
    PROVE  TagSet[op] \in a.tag \/ c.op = op
<1> USE DEF AccRec
<1>0. TagSet[op] \in {"OFF", "UNLIMIT"}
  BY DEF TagSet, Switches
<1>1. CASE c.op \in DOMAIN TagSet
  <2>1. EditRec(c, a) = [a EXCEPT !.tag = a.tag \cup {TagSet[c.op]}]
    BY <1>1 DEF EditRec, TagSet, TagClear
  <2>2. TagSet[c.op] = TagSet[op] => c.op = op
    BY <1>1 DEF TagSet, Switches
  <2> QED
    BY <2>1, <2>2
<1>2. CASE c.op \in DOMAIN TagClear
  <2>1. EditRec(c, a) = [a EXCEPT !.tag = a.tag \ {TagClear[c.op]}]
    BY <1>2 DEF EditRec, TagSet, TagClear
  <2> QED
    BY <2>1
<1>3. CASE c.op = "fix"
  <2> DEFINE tag == a.tag \ {"BROKEN", "DELETED"}
             bal == IF c.y # 0 THEN c.x ELSE a.bal
             b == [a EXCEPT !.no = c.acc]
             d == [b EXCEPT !.tag = tag]
  <2>1. EditRec(c, a) = [d EXCEPT !.bal = bal]
    BY <1>3 DEF EditRec, TagSet, TagClear
  <2>2. DOMAIN b = {"no", "tag", "bal", "tcredit", "res"}
    OBVIOUS
  <2> HIDE DEF b
  <2>3. DOMAIN d = DOMAIN b /\ d.tag = tag
    BY <2>2
  <2> HIDE DEF d
  <2>4. [d EXCEPT !.bal = bal].tag = tag
    BY <2>2, <2>3
  <2> QED
    BY <2>1, <2>4
<1>4. CASE c.op \in {"setcredit", "resadd", "delete"}
  <2>1. \/ EditRec(c, a) = [a EXCEPT !.tcredit = c.x]
        \/ EditRec(c, a) = [a EXCEPT !.res = a.res + c.x]
        \/ EditRec(c, a) = [a EXCEPT !.tag = a.tag \cup {"DELETED"}]
    BY <1>4 DEF EditRec, TagSet, TagClear
  <2> QED
    BY <1>0, <2>1
<1>5. CASE c.op \notin DOMAIN TagSet \cup DOMAIN TagClear
                          \cup {"fix", "setcredit", "resadd", "delete"}
  <2>1. EditRec(c, a) = a
    BY <1>5 DEF EditRec
  <2> QED
    BY <2>1
<1> QED
  BY <1>1, <1>2, <1>3, <1>4, <1>5

\* One record of the file is written.
LEMMA PutEffect ==
    ASSUME TypeInv, FileInv, NEW s \in Sessions, NEW a, NEW outcome, pc[s] = "put",
           Put(s, a, outcome), a.no = cmd[s].acc
    PROVE  /\ DOMAIN accs' = DOMAIN accs /\ cmd[s].acc \in DOMAIN accs /\ accEx = s
           /\ \A m \in DOMAIN accs \ {cmd[s].acc} : accs'[m] = accs[m]
           /\ accs'[cmd[s].acc] = IF outcome = "lost" THEN accs[cmd[s].acc] ELSE a
<1>1. accs \in Seq(AccRec) /\ cmd[s].acc \in DOMAIN accs /\ accEx = s
  BY DEF TypeInv, TypeOK, FileInv, WriterOf
<1>2. CASE outcome = "lost"
  BY <1>1, <1>2 DEF Put
<1>3. CASE outcome # "lost"
  <2>1. accs' = [accs EXCEPT ![cmd[s].acc] = a]
    BY <1>3 DEF Put
  <2> QED
    BY <1>1, <1>3, <2>1
<1> QED
  BY <1>2, <1>3

\* No traffic is free on an account whose balance the transaction moves.
LEMMA FreeMovesNothing ==
    ASSUME OneSwitch, NEW n \in DOMAIN accs, n \in Nat, SwitchOf(n), Sound(accs[n], n),
           "FROZEN" \notin accs[n].tag, NEW c, FreeOfCharge(c, accs[n])
    PROVE  ~Applies(acci_get(accs, n), ResId(c))
<1>1. "UNLIMIT" \in accs[n].tag /\ ResId(c) # "ADDER"
  BY DEF FreeOfCharge
<1>2. "OFF" \notin accs[n].tag
  <2>1. TagSet["off"] = "OFF" /\ TagSet["unlimit"] = "UNLIMIT"
    BY DEF TagSet
  <2> QED
    BY <1>1, <2>1 DEF OneSwitch, SwitchOf, Switches
<1>3. acci_get(accs, n) = "ACC_UNLIMIT"
  BY <1>1, <1>2 DEF acci_get, Sound
<1> QED
  BY <1>1, <1>3 DEF Applies

\* acc_transaction() and acc_bitrans() before they log.
TransPuts(s, outcome) ==
    LET new == TransRec(cmd[s], buf[s], rc[s])
        err == IF outcome = "ok" /\ buf[s].no = cmd[s].acc THEN rc[s] ELSE "IO_ERROR"
    IN  /\ Put(s, new, outcome)
        /\ pend' = [pend EXCEPT ![s] = TransLog(cmd[s], buf[s], rc[s], err)]
        /\ doubt' = IF outcome = "unsynced" /\ Applies(rc[s], ResId(cmd[s]))
                    THEN doubt \cup {cmd[s].acc} ELSE doubt

LEMMA TransPutState ==
    ASSUME TypeInv, FileInv, MoneyInv, NEW s \in Sessions, TransPut(s)
    PROVE  /\ pc[s] = "put" /\ cmd[s].op \in TransOps /\ cmd[s].op # "new"
           /\ cmd[s] \in CmdRec /\ cmd[s].acc \in DOMAIN accs /\ cmd[s].acc \in Nat
           /\ buf[s] = accs[cmd[s].acc] /\ buf[s] \in AccRec /\ rc[s] \in Codes
           /\ rc[s] = acci_get(accs, cmd[s].acc) /\ "FROZEN" \notin buf[s].tag
           /\ Sound(buf[s], cmd[s].acc) /\ pend[s] = <<>>
           /\ UNCHANGED <<log, cmd, rc, adj>>
           /\ pc' = [pc EXCEPT ![s] = IF cmd[s].op = "bires" THEN "unlock" ELSE "logadd"]
           /\ \E outcome \in Outcomes : TransPuts(s, outcome)
<1>1. /\ pc[s] = "put" /\ cmd[s].op \in TransOps /\ UNCHANGED <<log, cmd, rc, adj>>
      /\ pc' = [pc EXCEPT ![s] = IF cmd[s].op = "bires" THEN "unlock" ELSE "logadd"]
  BY DEF TransPut, Goto
<1>2. \E outcome \in Outcomes : TransPuts(s, outcome)
  BY DEF TransPut, TransPuts
<1>3. /\ cmd[s] \in CmdRec /\ cmd[s].acc \in DOMAIN accs /\ cmd[s].acc \in Nat
      /\ buf[s] = accs[cmd[s].acc] /\ buf[s] \in AccRec /\ rc[s] \in Codes
      /\ "FROZEN" \notin buf[s].tag /\ Sound(buf[s], cmd[s].acc)
  BY <1>1 DEF TypeInv, TypeOK, CmdRec, FileInv, WriterOf, SoundFile
<1>4. rc[s] = acci_get(accs, cmd[s].acc) /\ pend[s] = <<>>
  BY <1>1 DEF MoneyInv, StatusOf, RecordsOf, LogLabels
<1>5. cmd[s].op # "new"
  BY <1>1 DEF TransOps
<1> QED
  BY <1>1, <1>2, <1>3, <1>4, <1>5

LEMMA TransPutTidy ==
    ASSUME TypeInv, FileInv, MoneyInv, NEW s \in Sessions, TransPut(s)
    PROVE  Others(s) /\ Tidy(s)
<1> DEFINE c == cmd[s]
           a == buf[s]
           new == TransRec(c, a, rc[s])
<1>1. /\ pc[s] = "put" /\ c.op \in TransOps /\ c.op # "new"
      /\ c \in CmdRec /\ a = accs[c.acc] /\ a \in AccRec /\ rc[s] \in Codes
      /\ a.no = c.acc /\ UNCHANGED <<cmd, rc>>
      /\ pc' = [pc EXCEPT ![s] = IF c.op = "bires" THEN "unlock" ELSE "logadd"]
  BY TransPutState DEF Sound
<1>2. PICK outcome \in Outcomes : TransPuts(s, outcome)
  BY TransPutState
<1> DEFINE err == IF outcome = "ok" /\ a.no = c.acc THEN rc[s] ELSE "IO_ERROR"
           recs == TransLog(c, a, rc[s], err)
<1>3. Put(s, new, outcome) /\ pend' = [pend EXCEPT ![s] = recs]
  BY <1>2 DEF TransPuts
<1>4. err \in Codes /\ new.no = c.acc /\ new.tag = a.tag
  BY <1>1, TransRecFields DEF Codes, Invalid
<1>5. /\ DOMAIN accs' = DOMAIN accs /\ accEx = s
      /\ \A m \in DOMAIN accs \ {c.acc} : accs'[m] = accs[m]
      /\ accs'[c.acc] = IF outcome = "lost" THEN accs[c.acc] ELSE new
  BY <1>1, <1>3, <1>4, PutEffect
<1>6. pend'[s] = recs /\ pc'[s] = (IF c.op = "bires" THEN "unlock" ELSE "logadd") /\ Others(s)
  BY <1>1, <1>3 DEF Others, TypeInv, TypeOK
<1>7. RecordsOf(s)'
  BY <1>1, <1>4, <1>6, PreparedRecords
<1> HIDE DEF new, err, recs
<1>8. \A m \in DOMAIN accs' : SwitchOf(m)'
  <2>1. \A m \in DOMAIN accs' : accs'[m].tag = accs[m].tag
    BY <1>1, <1>4, <1>5
  <2> QED
    BY <1>5, <2>1 DEF MoneyInv, SwitchOf
<1>9. GivenOf(s)' /\ StatusOf(s)' /\ OpenerOf(s)' /\ ~Opened(s)'
  <2>1. GivenOf(s)
    BY DEF MoneyInv
  <2> QED
    BY <1>1, <1>6, <2>1 DEF GivenOf, StatusOf, OpenerOf, AddLabels, Opened
<1> QED
  BY <1>5, <1>6, <1>7, <1>8, <1>9 DEF Tidy

LEMMA TransPutSettles ==
    ASSUME OneSwitch, TypeInv, TypeInv', FileInv, MoneyInv, NEW s \in Sessions, TransPut(s)
    PROVE  Settles(s)
<1> DEFINE c == cmd[s]
           a == buf[s]
           k == c.acc
           new == TransRec(c, a, rc[s])
           moved == Applies(rc[s], ResId(c))
<1>1. /\ pc[s] = "put" /\ k \in DOMAIN accs /\ k \in Nat
      /\ c \in CmdRec /\ a = accs[k] /\ a \in AccRec /\ rc[s] \in Codes
      /\ rc[s] = acci_get(accs, k) /\ "FROZEN" \notin a.tag
      /\ Sound(a, k) /\ pend[s] = <<>> /\ UNCHANGED <<log, adj>>
  BY TransPutState
<1>2. PICK outcome \in Outcomes : TransPuts(s, outcome)
  BY TransPutState
<1> DEFINE err == IF outcome = "ok" THEN rc[s] ELSE "IO_ERROR"
           recs == TransLog(c, a, rc[s], err)
<1>3. /\ Put(s, new, outcome) /\ pend' = [pend EXCEPT ![s] = recs]
      /\ doubt' = IF outcome = "unsynced" /\ moved THEN doubt \cup {k} ELSE doubt
  BY <1>1, <1>2 DEF TransPuts, Sound
<1>4. /\ err \in Codes /\ new.no = k
      /\ new.bal = IF moved THEN a.bal + Total(c, a) ELSE a.bal
  BY <1>1, TransRecFields DEF Codes, Invalid, Sound
<1>5. /\ DOMAIN accs' = DOMAIN accs
      /\ \A m \in DOMAIN accs \ {k} : accs'[m] = accs[m]
      /\ accs'[k] = IF outcome = "lost" THEN accs[k] ELSE new
  BY <1>1, <1>3, <1>4, PutEffect
<1>6. pend'[s] = recs
  BY <1>3 DEF TypeInv, TypeOK
<1>7. moved => ~FreeOfCharge(c, a)
  <2>1. SwitchOf(k) /\ Sound(accs[k], k)
    BY <1>1 DEF MoneyInv
  <2> QED
    BY <1>1, <2>1, FreeMovesNothing
<1>8. Applies(err, ResId(c)) <=> moved /\ outcome = "ok"
  BY DEF Applies
<1>9. ASSUME NEW n PROVE SumOf(recs, n) = IF n = k /\ moved /\ outcome = "ok" THEN Total(c, a) ELSE 0
  BY <1>1, <1>4, <1>7, <1>8, TransLogSum
<1>10. Total(c, a) \in Int /\ a.bal \in Int
  BY <1>1, SumsType DEF AccRec
<1> HIDE DEF new, err, recs, moved
<1>11. ASSUME NEW n \in Nat, n \notin doubt' PROVE Settled(s, n)
  <2>1. AdjustmentOf(n)' = AdjustmentOf(n) /\ log' = log
    BY <1>1 DEF AdjustmentOf
  <2>2. AdjustmentOf(n) \in Int /\ SumOf(log, n) \in Int /\ BalanceOf(n) \in Int
    BY BalanceTypes
  <2>3. Gain(AdjustmentOf(n), AdjustmentOf(n)') = 0 /\ Gain(SumOf(log, n), SumOf(log', n)) = 0
    <3>1. \A x \in Int : x - x = 0
      OBVIOUS
    <3> QED
      BY <2>1, <2>2, <3>1 DEF Gain
  <2>4. SumOf(pend[s], n) = 0 /\ SumOf(pend'[s], n) = SumOf(recs, n)
    BY <1>1, <1>6, SumOfNothing
  <2>5. CASE n # k
    <3>1. BalanceOf(n)' = BalanceOf(n)
      BY <1>5, <2>5 DEF BalanceOf
    <3>2. SumOf(recs, n) = 0
      BY <1>9, <2>5
    <3> QED
      BY <2>2, <2>3, <2>4, <3>1, <3>2 DEF Settled, Gain
  <2>6. CASE n = k
    <3>1. BalanceOf(n) = a.bal
      BY <1>1, <2>6 DEF BalanceOf
    <3>2. BalanceOf(n)' = IF moved /\ outcome # "lost" THEN a.bal + Total(c, a) ELSE a.bal
      BY <1>1, <1>4, <1>5, <2>6 DEF BalanceOf
    <3>3. ~(outcome = "unsynced" /\ moved)
      BY <1>3, <1>11, <2>6
    <3>4. BalanceOf(n)' = IF moved /\ outcome = "ok" THEN a.bal + Total(c, a) ELSE a.bal
      BY <3>2, <3>3 DEF Outcomes
    <3>5. SumOf(recs, n) = IF moved /\ outcome = "ok" THEN Total(c, a) ELSE 0
      BY <1>9, <2>6
    <3> HIDE DEF c, a
    <3>6. \A x, y \in Int : x + y - x = 0 + 0 + (y - 0) /\ x - x = 0 + 0 + (0 - 0)
      OBVIOUS
    <3>7. Gain(BalanceOf(n), BalanceOf(n)') = 0 + 0 + (SumOf(recs, n) - 0)
      BY <1>10, <3>1, <3>4, <3>5, <3>6 DEF Gain
    <3> QED
      BY <2>3, <2>4, <3>7 DEF Settled, Gain
  <2> QED
    BY <2>5, <2>6
<1> QED
  BY <1>3, <1>11 DEF Settles

\* The edits: "_fix" alone moves money, and the history counts it.
LEMMA EditPutKeeps ==
    ASSUME TypeInv, TypeInv', FileInv, MoneyInv, NEW s \in Sessions, EditPut(s)
    PROVE  Others(s) /\ Tidy(s) /\ Settles(s)
<1> DEFINE c == cmd[s]
           a == buf[s]
           k == c.acc
           new == EditRec(c, a)
<1>1. /\ pc[s] = "put" /\ c.op \in EditOps /\ UNCHANGED <<log, cmd, rc, pend, doubt>>
      /\ pc' = [pc EXCEPT ![s] = "unlock"]
  BY DEF EditPut, Goto
<1>2. /\ c \in CmdRec /\ k \in DOMAIN accs /\ k \in Nat
      /\ a = accs[k] /\ a \in AccRec /\ Sound(a, k) /\ c.op \notin UnsafeOps
  BY <1>1 DEF TypeInv, TypeOK, CmdRec, FileInv, WriterOf, SoundFile
<1>3. pend[s] = <<>> /\ GivenOf(s) /\ c.op # "new"
  BY <1>1 DEF MoneyInv, RecordsOf, LogLabels, EditOps, TagOps, TagSet, TagClear
<1>4. PICK outcome \in Outcomes : Put(s, new, outcome)
  BY DEF EditPut
<1>5. adj' = IF c.op = "fix"
             THEN [adj EXCEPT ![k] = adj[k] + accs'[k].bal - accs[k].bal]
             ELSE adj
  BY DEF EditPut
<1>6. new.no = k /\ (c.op # "fix" => new.bal = a.bal)
  BY <1>2, EditRecSound, EditKeepsBalance DEF Sound
<1>7. /\ DOMAIN accs' = DOMAIN accs /\ accEx = s
      /\ \A m \in DOMAIN accs \ {k} : accs'[m] = accs[m]
      /\ accs'[k] = IF outcome = "lost" THEN accs[k] ELSE new
  BY <1>1, <1>4, <1>6, PutEffect
<1>8. pend' = pend /\ pc'[s] = "unlock" /\ Others(s)
  BY <1>1 DEF Others, TypeInv, TypeOK
<1>9. ASSUME NEW m \in DOMAIN accs' PROVE SwitchOf(m)'
  <2>1. SwitchOf(m)
    BY <1>7 DEF MoneyInv
  <2>2. CASE accs'[m] = accs[m]
    BY <2>1, <2>2 DEF SwitchOf
  <2>3. CASE accs'[m] = new /\ m = k
    <3>1. ASSUME NEW op \in Switches, TagSet[op] \in new.tag
          PROVE  TagSet[op] \in a.tag \/ c.op = op
      BY <1>2, <3>1, EditRecSwitch
    <3>2. ASSUME NEW op \in Switches, c.op = op PROVE ~Never(k, op)
      BY <1>3, <3>2 DEF GivenOf, Never
    <3> HIDE DEF new, c
    <3> QED
      BY <1>2, <2>1, <2>3, <3>1, <3>2 DEF SwitchOf
  <2> QED
    BY <1>7, <2>2, <2>3
<1>10. Tidy(s)
  <2>1. GivenOf(s)' /\ StatusOf(s)' /\ OpenerOf(s)' /\ ~Opened(s)' /\ RecordsOf(s)'
    BY <1>1, <1>3, <1>8 DEF GivenOf, StatusOf, OpenerOf, AddLabels, Opened, RecordsOf
  <2> QED
    BY <1>7, <1>9, <2>1 DEF Tidy
<1>11. a.bal \in Int /\ accs'[k].bal \in Int /\ adj \in [DOMAIN accs -> Int]
  <2>1. accs'[k] \in AccRec
    <3>1. accs' \in Seq(AccRec) /\ k \in DOMAIN accs'
      BY <1>2, <1>7 DEF TypeInv, TypeOK
    <3> QED
      BY <3>1
  <2> QED
    BY <1>2, <2>1 DEF AccRec, TypeInv, TypeOK
<1> HIDE DEF new, c, k, a
<1>12. ASSUME NEW n \in Nat PROVE Settled(s, n)
  <2>1. /\ SumOf(log, n) \in Int /\ SumOf(pend[s], n) \in Int
        /\ BalanceOf(n) \in Int /\ AdjustmentOf(n) \in Int
    BY BalanceTypes, SumOfType DEF TypeInv, TypeOK
  <2>2. \A x \in Int : x - x = 0
    OBVIOUS
  <2>3. Gain(SumOf(log, n), SumOf(log', n)) = 0 /\ Gain(SumOf(pend[s], n), SumOf(pend'[s], n)) = 0
    BY <1>1, <2>1, <2>2 DEF Gain
  <2>4. Gain(BalanceOf(n), BalanceOf(n)') = Gain(AdjustmentOf(n), AdjustmentOf(n)')
    <3>1. CASE n # k \/ c.op # "fix"
      <4>1. BalanceOf(n)' = BalanceOf(n)
        BY <1>2, <1>6, <1>7, <3>1 DEF BalanceOf
      <4>2. AdjustmentOf(n)' = AdjustmentOf(n)
        BY <1>2, <1>5, <1>11, <3>1 DEF AdjustmentOf
      <4> QED
        BY <2>1, <2>2, <4>1, <4>2 DEF Gain
    <3>2. CASE n = k /\ c.op = "fix"
      <4>1. BalanceOf(n)' = accs'[k].bal /\ BalanceOf(n) = accs[k].bal
        BY <1>2, <1>7, <3>2 DEF BalanceOf
      <4>2. /\ AdjustmentOf(n) = adj[k]
            /\ AdjustmentOf(n)' = adj[k] + accs'[k].bal - accs[k].bal
        BY <1>2, <1>5, <1>11, <3>2 DEF AdjustmentOf
      <4>3. adj[k] \in Int /\ accs[k].bal \in Int
        BY <1>2, <1>11
      <4>4. \A x, y, z \in Int : y - z = (x + y - z) - x
        OBVIOUS
      <4> QED
        BY <1>11, <4>1, <4>2, <4>3, <4>4 DEF Gain
    <3> QED
      BY <3>1, <3>2
  <2>5. Gain(AdjustmentOf(n), AdjustmentOf(n)') \in Int
    <3>1. AdjustmentOf(n)' \in Int
      BY DEF AdjustmentOf, TypeInv, TypeOK
    <3> QED
      BY <2>1, <3>1 DEF Gain
  <2>6. \A x \in Int : x = x + 0 + 0
    OBVIOUS
  <2> QED
    BY <2>3, <2>4, <2>5, <2>6 DEF Settled
<1>13. Settles(s)
  BY <1>1, <1>12 DEF Settles
<1> QED
  BY <1>8, <1>10, <1>13

\* A new account has no money and no history.
LEMMA AddWriteKeeps ==
    ASSUME TypeInv, TypeInv', FileInv, MoneyInv, NEW s \in Sessions, AddWrite(s)
    PROVE  /\ Others(s) /\ Tidy(s) /\ Settles(s)
           /\ accs' = Append(accs, [ZeroAcc EXCEPT !.no = Len(accs) + 1])
<1> DEFINE k == Len(accs) + 1
           new == [ZeroAcc EXCEPT !.no = k]
           d == [cmd[s] EXCEPT !.acc = k]
<1>1. /\ pc[s] = "addwrite" /\ accEx = s /\ pos[s] = Len(accs) /\ accs \in Seq(AccRec)
      /\ Len(accs) \in Nat /\ DOMAIN accs = 1 .. Len(accs)
  BY DEF AddWrite, FileInv, WriterOf, TypeInv, TypeOK
<1>2. pend[s] = <<>> /\ cmd[s].op = "new"
  BY <1>1 DEF MoneyInv, RecordsOf, OpenerOf, LogLabels, AddLabels
<1>3. /\ accs' = Append(accs, new) /\ cmd' = [cmd EXCEPT ![s] = d] /\ Return(s, "SUCCESS")
      /\ adj' = [m \in DOMAIN accs' |-> IF m \in DOMAIN adj THEN adj[m] ELSE 0]
      /\ UNCHANGED <<log, rc, doubt>>
  BY <1>1 DEF AddWrite, WriteAt, TypeInv, TypeOK
<1>4. d.op = "new" /\ d.acc = k
  BY <1>2 DEF TypeInv, TypeOK, CmdRec
<1>5. new.bal = 0 /\ new.tag = {}
  BY DEF ZeroAcc
<1> HIDE DEF new, d
<1>6. /\ DOMAIN accs' = DOMAIN accs \cup {k} /\ k \notin DOMAIN accs /\ k \in DOMAIN accs'
      /\ accs'[k] = new /\ \A m \in DOMAIN accs : accs'[m] = accs[m]
  BY <1>1, <1>3
<1>7. pend' = pend /\ pc'[s] = "idle" /\ cmd'[s] = d /\ Others(s)
  <2>1. /\ pend' = pend /\ pc'[s] = "idle"
        /\ \A t \in Sessions \ {s} : pc'[t] = pc[t] /\ pend'[t] = pend[t]
    BY <1>2, <1>3, ReturnDrops
  <2> QED
    BY <1>3, <2>1 DEF Others, TypeInv, TypeOK
<1>8. Tidy(s)
  <2>1. GivenOf(s)' /\ StatusOf(s)' /\ OpenerOf(s)' /\ RecordsOf(s)'
    BY <1>2, <1>4, <1>6, <1>7
       DEF GivenOf, StatusOf, OpenerOf, AddLabels, RecordsOf, Switches
  <2>2. \A m \in DOMAIN accs' : SwitchOf(m)'
    BY <1>5, <1>6 DEF MoneyInv, SwitchOf
  <2>3. cmd'[s].acc \notin DOMAIN accs
    BY <1>4, <1>6, <1>7
  <2> QED
    BY <1>1, <1>6, <2>1, <2>2, <2>3 DEF Tidy
<1>9. ASSUME NEW n \in Nat PROVE Settled(s, n)
  <2>1. BalanceOf(n)' = BalanceOf(n)
    BY <1>5, <1>6 DEF BalanceOf
  <2>2. AdjustmentOf(n)' = AdjustmentOf(n)
    BY <1>3, <1>6 DEF AdjustmentOf, TypeInv, TypeOK
  <2>3. /\ SumOf(log, n) \in Int /\ SumOf(pend[s], n) \in Int
        /\ BalanceOf(n) \in Int /\ AdjustmentOf(n) \in Int
    BY BalanceTypes, SumOfType DEF TypeInv, TypeOK
  <2>4. \A x \in Int : x - x = 0
    OBVIOUS
  <2>5. /\ Gain(BalanceOf(n), BalanceOf(n)') = 0 /\ Gain(AdjustmentOf(n), AdjustmentOf(n)') = 0
        /\ Gain(SumOf(log, n), SumOf(log', n)) = 0
        /\ Gain(SumOf(pend[s], n), SumOf(pend'[s], n)) = 0
    BY <1>3, <1>7, <2>1, <2>2, <2>3, <2>4 DEF Gain
  <2> QED
    BY <2>5 DEF Settled
<1>10. Settles(s)
  BY <1>3, <1>9 DEF Settles
<1> QED
  BY <1>3, <1>7, <1>8, <1>10 DEF new

-------------------------------------------------------------------------------
\* The invariants.
LEMMA EveryStep ==
    ASSUME TypeInv, TypeInv', LockInv, FileInv, MoneyInv, [Next]_vars, ~UNCHANGED vars
    PROVE  \E s \in Sessions : Others(s) /\ Tidy(s) /\ (OneSwitch => Settles(s))
<1>1. PICK s \in Sessions : \/ Connect(s) \/ Exit(s) \/ Crash(s) \/ LogFail(s)
                            \/ \E c \in Cmds : Start(s, c)
                            \/ Step(s)
  BY DEF Next
<1>2. CASE CalmAction(s)
  BY <1>2, CalmSteps, CalmKeeps
<1>3. CASE GetTrans(s)
  BY <1>3, GetTransKeeps
<1>4. CASE Crash(s)
  BY <1>4, CrashKeeps
<1>5. CASE LogFail(s)
  BY <1>5, LogFailKeeps
<1>6. CASE LogWrite(s)
  BY <1>6, LogWriteKeeps
<1>7. CASE TransPut(s)
  BY <1>7, TransPutTidy, TransPutSettles
<1>8. CASE EditPut(s)
  BY <1>8, EditPutKeeps
<1>9. CASE AddWrite(s)
  BY <1>9, AddWriteKeeps
<1> QED
  BY <1>1, <1>2, <1>3, <1>4, <1>5, <1>6, <1>7, <1>8, <1>9
     DEF Step, AccountStep, LogStep, CalmAction

LEMMA MoneyInit == Init => MoneyInv /\ OpenInv /\ BalanceInv
<1> SUFFICES ASSUME Init PROVE MoneyInv /\ OpenInv /\ BalanceInv
  OBVIOUS
<1>1. MoneyInv /\ OpenInv
  <2>1. \A n \in DOMAIN accs : SwitchOf(n)
    BY DEF Init, SwitchOf, Never
  <2>2. NoCommand.op = "unlock"
    BY DEF NoCommand
  <2> QED
    BY <2>1, <2>2 DEF Init, MoneyInv, GivenOf, RecordsOf, StatusOf, OpenerOf, OpenInv, Opened,
                      Switches, AddLabels
<1>2. ASSUME NEW n \in Nat PROVE ExplainedOf(n)
  <2> DEFINE h == [s \in Sessions |-> SumOf(pend[s], n)]
  <2>1. TypeInv
    BY InitType
  <2>2. BalanceOf(n) = InitBal(n) /\ AdjustmentOf(n) = 0
    BY DEF Init, BalanceOf, InitBal, AdjustmentOf
  <2>3. SumOf(log, n) = 0 /\ \A s \in Sessions : h[s] = 0
    BY SumOfNothing DEF Init
  <2>4. h \in [Sessions -> Int]
    BY <2>3
  <2> HIDE DEF h
  <2>5. SumFunction(h) = 0
    BY <2>3, <2>4, SessionsAssumption, SumFunctionOfZeros
  <2>6. DueOf(n) = 0
    BY <2>5 DEF DueOf, h
  <2>7. InitBal(n) \in Int /\ \A x \in Int : x = x + 0 + 0 + 0
    BY <2>1, BalanceTypes
  <2> QED
    BY <2>2, <2>3, <2>6, <2>7 DEF ExplainedOf
<1> QED
  BY <1>1, <1>2 DEF BalanceInv

LEMMA MoneyStep ==
    TypeInv /\ TypeInv' /\ LockInv /\ FileInv /\ MoneyInv /\ OpenInv /\ [Next]_vars
        => MoneyInv' /\ OpenInv'
<1> SUFFICES ASSUME TypeInv, TypeInv', LockInv, FileInv, MoneyInv, OpenInv, [Next]_vars
             PROVE  MoneyInv' /\ OpenInv'
  OBVIOUS
<1>1. CASE UNCHANGED vars
  BY <1>1 DEF vars, files, program, MoneyInv, SwitchOf, GivenOf, RecordsOf, StatusOf, OpenerOf,
              OpenInv, Opened
<1>2. CASE ~UNCHANGED vars
  BY <1>2, EveryStep, OthersKeepMoney
<1> QED
  BY <1>1, <1>2

LEMMA BalanceStep ==
    OneSwitch /\ TypeInv /\ TypeInv' /\ LockInv /\ FileInv /\ MoneyInv /\ BalanceInv /\ [Next]_vars
        => BalanceInv'
<1> SUFFICES ASSUME OneSwitch, TypeInv, TypeInv', LockInv, FileInv, MoneyInv, BalanceInv,
                    [Next]_vars
             PROVE  BalanceInv'
  OBVIOUS
<1>1. CASE UNCHANGED vars
  BY <1>1 DEF vars, files, program, history, BalanceInv, ExplainedOf, BalanceOf, AdjustmentOf,
              DueOf, InitBal
<1>2. CASE ~UNCHANGED vars
  BY <1>2, EveryStep, SettlesKeepsBalance
<1> QED
  BY <1>1, <1>2

\* The invariant behind the theorems below: the types, the locks and the file as
\* their holder knows it (BeeSessions_proofs), the records a session has prepared
\* and the numbers of new accounts (acc_add, acc.c:135-183).
THEOREM MoneyKept == ReliableFile /\ Spec => [](TypeInv /\ LockInv /\ FileInv /\ MoneyInv /\ OpenInv)
<1> DEFINE Kept == TypeInv /\ LockInv /\ FileInv
           Inv  == Kept /\ MoneyInv /\ OpenInv
<1>1. Init => MoneyInv /\ OpenInv
  BY MoneyInit
<1>2. Kept /\ Kept' /\ MoneyInv /\ OpenInv /\ [Next]_vars => MoneyInv' /\ OpenInv'
  BY MoneyStep
<1>3. ReliableFile /\ Spec => []Kept
  BY FileKept
<1> HIDE DEF Kept
<1>4. SUFFICES ASSUME ReliableFile PROVE Spec => [](Kept /\ MoneyInv /\ OpenInv)
  BY DEF Kept
<1> QED
  BY <1>1, <1>2, <1>3, <1>4, PTL DEF Spec

\* Two sessions that open accounts are never given one number, and the account
\* of that number carries it (acc_add, acc.c:135-183).
THEOREM OpenedOnce == ReliableFile /\ Spec => []NewAccountsDistinct
<1>1. FileInv /\ MoneyInv /\ OpenInv => NewAccountsDistinct
  <2> SUFFICES ASSUME FileInv, MoneyInv, OpenInv,
                      NEW s \in Sessions, pc[s] = "idle", cmd[s].op = "new"
               PROVE  /\ accs[cmd[s].acc].no = cmd[s].acc
                      /\ \A t \in Sessions \ {s} :
                            pc[t] = "idle" /\ cmd[t].op = "new" => cmd[t].acc # cmd[s].acc
    BY DEF NewAccountsDistinct
  <2>1. cmd[s].acc \in DOMAIN accs
    BY DEF MoneyInv, OpenerOf, AddLabels
  <2>2. accs[cmd[s].acc].no = cmd[s].acc
    BY <2>1 DEF FileInv, SoundFile, Sound
  <2> QED
    BY <2>2 DEF OpenInv, Opened
<1> QED
  BY <1>1, MoneyKept, PTL

\* The log, with the records under way, explains every balance that no crash or
\* I/O error has hit: initial balance, "_fix" and the sum of the transactions
\* whose error code moves money (acc_transaction, acc_bitrans, acc_charge_trans).
THEOREM LogExplainsBalances == ReliableFile /\ OneSwitch /\ Spec => []LedgerBalanced
<1> DEFINE Kept == TypeInv /\ LockInv /\ FileInv /\ MoneyInv
<1>1. Init => BalanceInv
  BY MoneyInit
<1>2. OneSwitch /\ Kept /\ Kept' /\ BalanceInv /\ [Next]_vars => BalanceInv'
  BY BalanceStep
<1>3. ReliableFile /\ Spec => []Kept
  BY MoneyKept, PTL
<1>4. Kept /\ BalanceInv => LedgerBalanced
  <2> SUFFICES ASSUME Kept, BalanceInv, NEW n \in DOMAIN accs, n \notin doubt
               PROVE  accs[n].bal = InitBal(n) + adj[n] + SumOf(log, n)
                                       + SumFunction([s \in Sessions |-> SumOf(pend[s], n)])
    BY DEF LedgerBalanced
  <2>1. n \in Nat /\ adj \in [DOMAIN accs -> Int]
    BY DEF TypeInv, TypeOK
  <2>2. ExplainedOf(n)
    BY <2>1 DEF BalanceInv
  <2> QED
    BY <2>1, <2>2 DEF ExplainedOf, BalanceOf, AdjustmentOf, DueOf
<1> HIDE DEF Kept
<1>5. SUFFICES ASSUME ReliableFile, OneSwitch PROVE Spec => []LedgerBalanced
  OBVIOUS
<1> QED
  BY <1>1, <1>2, <1>3, <1>4, <1>5, PTL DEF Spec

-------------------------------------------------------------------------------
\* An unlimited account that is not off.

\* What a transaction or an edit does to it: acci_get() has told the session of
\* the switch, because nobody can set it between its read and its write.
LEMMA UnlimitedPut ==
    ASSUME TypeInv, FileInv, MoneyInv, NEW s \in Sessions, TransPut(s) \/ EditPut(s),
           NEW n \in DOMAIN accs, {"UNLIMIT", "OFF"} \cap accs[n].tag = {"UNLIMIT"},
           cmd[s].op \notin Credits
    PROVE  accs'[n].bal = accs[n].bal
<1> DEFINE c == cmd[s]
           a == buf[s]
<1>1. c \in CmdRec /\ a \in AccRec
  BY DEF TypeInv, TypeOK
<1>2. CASE TransPut(s)
  <2>1. /\ pc[s] = "put" /\ c.acc \in DOMAIN accs /\ a = accs[c.acc] /\ a.no = c.acc
        /\ rc[s] = acci_get(accs, c.acc) /\ "FROZEN" \notin a.tag /\ Sound(a, c.acc)
        /\ c.op \in TransOps
    BY <1>2, TransPutState DEF Sound
  <2>2. PICK outcome \in Outcomes : Put(s, TransRec(c, a, rc[s]), outcome)
    BY <1>2, TransPutState DEF TransPuts
  <2> DEFINE new == TransRec(c, a, rc[s])
  <2>3. /\ new.no = c.acc
        /\ new.bal = IF Applies(rc[s], ResId(c)) THEN a.bal + Total(c, a) ELSE a.bal
    BY <1>1, <2>1, TransRecFields
  <2>4. /\ \A m \in DOMAIN accs \ {c.acc} : accs'[m] = accs[m]
        /\ accs'[c.acc] = IF outcome = "lost" THEN accs[c.acc] ELSE new
    BY <2>1, <2>2, <2>3, PutEffect
  <2>5. n = c.acc => ~Applies(rc[s], ResId(c))
    <3>1. n = c.acc => rc[s] = "ACC_UNLIMIT"
      BY <2>1 DEF acci_get, Sound
    <3>2. ResId(c) # "ADDER"
      BY DEF ResId, Credits
    <3> QED
      BY <3>1, <3>2 DEF Applies
  <2> HIDE DEF new
  <2> QED
    BY <2>1, <2>3, <2>4, <2>5
<1>3. CASE EditPut(s)
  <2>1. /\ pc[s] = "put" /\ c.acc \in DOMAIN accs /\ a = accs[c.acc] /\ Sound(a, c.acc)
        /\ c.op \notin UnsafeOps
    BY <1>3 DEF EditPut, FileInv, WriterOf, SoundFile
  <2>2. PICK outcome \in Outcomes : Put(s, EditRec(c, a), outcome)
    BY <1>3 DEF EditPut
  <2> DEFINE new == EditRec(c, a)
  <2>3. new.no = c.acc
    BY <1>1, <2>1, EditRecSound DEF Sound
  <2>4. /\ \A m \in DOMAIN accs \ {c.acc} : accs'[m] = accs[m]
        /\ accs'[c.acc] = IF outcome = "lost" THEN accs[c.acc] ELSE new
    BY <2>1, <2>2, <2>3, PutEffect
  <2>5. new.bal = a.bal
    BY <1>1, EditKeepsBalance DEF Credits
  <2> HIDE DEF new
  <2> QED
    BY <2>1, <2>4, <2>5
<1> QED
  BY <1>2, <1>3

\* Traffic and charges take nothing from an unlimited account that is not off,
\* also if it became unlimited while another session had a debit under way
\* (acci_get, acc.c:321-343; acc_transaction, core.c:720-743).
THEOREM UnlimitedPaysNothing == ReliableFile /\ Spec => UnlimitedNotCharged
<1> DEFINE Kept == TypeInv /\ LockInv /\ FileInv /\ MoneyInv
           Credited == \E s \in Sessions : /\ pc[s] = "put" /\ pc'[s] # "put"
                                           /\ cmd[s].op \in Credits
           Paid == \A n \in DOMAIN accs :
                      /\ {"UNLIMIT", "OFF"} \cap accs[n].tag = {"UNLIMIT"}
                      /\ accs'[n].bal < accs[n].bal
                      => \E s \in Sessions : /\ pc[s] = "put" /\ pc'[s] # "put"
                                            /\ cmd[s].op \in Credits
<1>1. ReliableFile /\ Spec => []Kept
  BY MoneyKept, PTL
<1>2. ASSUME ReliableFile, Kept, Kept', [Next]_vars, accs' # accs, ~Credited,
             NEW n \in DOMAIN accs, {"UNLIMIT", "OFF"} \cap accs[n].tag = {"UNLIMIT"}
      PROVE  ~(accs'[n].bal < accs[n].bal)
  <2>1. PICK s \in Sessions : /\ TransPut(s) \/ EditPut(s) \/ AddWrite(s)
                              /\ pc'[s] # pc[s]
    BY <1>2, WhoWrites
  <2>2. accs'[n].bal = accs[n].bal
    <3>1. CASE TransPut(s) \/ EditPut(s)
      <4>1. pc[s] = "put"
        BY <3>1 DEF TransPut, EditPut
      <4>2. cmd[s].op \notin Credits
        BY <1>2, <2>1, <4>1
      <4> QED
        BY <1>2, <3>1, <4>2, UnlimitedPut
    <3>2. CASE AddWrite(s)
      <4>1. accs \in Seq(AccRec) /\ accs' = Append(accs, [ZeroAcc EXCEPT !.no = Len(accs) + 1])
        BY <1>2, <3>2, AddWriteKeeps DEF TypeInv, TypeOK
      <4> QED
        BY <4>1
    <3> QED
      BY <2>1, <3>1, <3>2
  <2>3. accs[n] \in AccRec
    BY <1>2 DEF TypeInv, TypeOK
  <2>4. accs[n].bal \in Int
    BY <2>3 DEF AccRec
  <2> QED
    BY <2>2, <2>4
<1>3. ReliableFile /\ Kept /\ Kept' /\ [Next]_vars => [Paid]_accs
  BY <1>2
<1> HIDE DEF Kept
<1>4. SUFFICES ASSUME ReliableFile PROVE Spec => UnlimitedNotCharged
  OBVIOUS
<1> QED
  BY <1>1, <1>3, <1>4, PTL DEF Spec, UnlimitedNotCharged

-------------------------------------------------------------------------------
\* The core implements BeeLedger as long as nothing fails and acc_bitrans(),
\* which logs after it has unlocked the accounts, is not used.  Whoever has a
\* record prepared holds the account file, so there is one such session at most.
NoFailure == MaxFaults = 0
OneRecord == \A c \in Cmds : c.op # "bires"

\* Fields of changed commands.
LEMMA ChangedCmd ==
    ASSUME NEW c \in CmdRec, NEW v
    PROVE  /\ [c EXCEPT !.acc = v].op = c.op /\ [c EXCEPT !.x = v].op = c.op
           /\ [c EXCEPT !.y = v].op = c.op /\ [c EXCEPT !.x = v].x = v
           /\ [c EXCEPT !.x = v].y = c.y
           /\ \A op : /\ [c EXCEPT !.op = op, !.x = v].op = op
                      /\ [c EXCEPT !.op = op, !.x = v].x = v
                      /\ [c EXCEPT !.op = op, !.x = v].y = c.y
                      /\ [c EXCEPT !.op = op, !.x = v].acc = c.acc
           /\ \A w : [c EXCEPT !.acc = v, !.y = w].op = c.op
<1>1. DOMAIN c = {"op", "acc", "x", "y"}
  BY DEF CmdRec
<1>2. ASSUME NEW op
      PROVE  /\ [c EXCEPT !.op = op, !.x = v].op = op /\ [c EXCEPT !.op = op, !.x = v].x = v
             /\ [c EXCEPT !.op = op, !.x = v].y = c.y
             /\ [c EXCEPT !.op = op, !.x = v].acc = c.acc
  <2> DEFINE d == [c EXCEPT !.op = op]
  <2>1. DOMAIN d = DOMAIN c /\ d.op = op /\ d.y = c.y /\ d.acc = c.acc
    BY <1>1
  <2>2. [c EXCEPT !.op = op, !.x = v] = [d EXCEPT !.x = v]
    OBVIOUS
  <2> HIDE DEF d
  <2>3. /\ [d EXCEPT !.x = v].op = op /\ [d EXCEPT !.x = v].x = v
        /\ [d EXCEPT !.x = v].y = c.y /\ [d EXCEPT !.x = v].acc = c.acc
    BY <1>1, <2>1
  <2> QED
    BY <2>2, <2>3
<1>3. ASSUME NEW w PROVE [c EXCEPT !.acc = v, !.y = w].op = c.op
  <2> DEFINE d == [c EXCEPT !.acc = v]
  <2>1. DOMAIN d = DOMAIN c /\ d.op = c.op
    BY <1>1
  <2>2. [c EXCEPT !.acc = v, !.y = w] = [d EXCEPT !.y = w]
    OBVIOUS
  <2> HIDE DEF d
  <2>3. [d EXCEPT !.y = w].op = c.op
    BY <1>1, <2>1
  <2> QED
    BY <2>2, <2>3
<1>4. /\ [c EXCEPT !.acc = v].op = c.op /\ [c EXCEPT !.x = v].op = c.op
      /\ [c EXCEPT !.y = v].op = c.op /\ [c EXCEPT !.x = v].x = v
      /\ [c EXCEPT !.x = v].y = c.y
  BY <1>1
<1> QED
  BY <1>2, <1>3, <1>4

HolderOf(s) == /\ cmd[s].op # "bires" /\ pc[s] # "loglock"
               /\ pc[s] \in LogLabels => accEx = s
HolderInv == \A s \in Sessions : HolderOf(s)

NextHolder(s) ==
    /\ \A t \in Sessions \ {s} : pc'[t] = pc[t] /\ cmd'[t] = cmd[t]
    /\ accEx' = accEx \/ {accEx, accEx'} \subseteq {None, s}
    /\ cmd'[s].op # "bires" /\ pc'[s] # "loglock"
    /\ pc'[s] \in LogLabels => accEx' = s

LEMMA HolderKept ==
    ASSUME HolderInv, NEW s \in Sessions, NextHolder(s) PROVE HolderInv'
BY SessionsAssumption DEF HolderInv, HolderOf, NextHolder

\* Where the steps that only read the accounts lead.
LEMMA CalmLabels ==
    ASSUME TypeInv, HolderInv, MoneyInv, NEW s \in Sessions, CalmAction(s)
    PROVE  pc'[s] # "loglock" /\ (pc'[s] \in LogLabels => pc[s] \in LogLabels /\ accEx' = accEx)
<1>0. cmd[s].op # "bires" /\ pc[s] # "loglock"
  BY DEF HolderInv, HolderOf
<1> USE DEF TypeInv, TypeOK, Goto, LogLabels
<1>1. CASE Connect(s) \/ Exit(s) \/ \E c \in Cmds : Start(s, c)
  <2>1. \A c : Entry(c) \in {"peek", "addlock", "asyncacc", "unasyncacc", "lock"}
    BY DEF Entry
  <2>2. CASE Connect(s) \/ Exit(s)
    BY <2>2 DEF Connect, Exit, Gone
  <2>3. CASE \E c \in Cmds : Start(s, c)
    <3>1. PICK c \in Cmds : Start(s, c)
      BY <2>3
    <3> QED
      BY <2>1, <3>1 DEF Start
  <2> QED
    BY <1>1, <2>2, <2>3
<1>2. CASE Peek(s) \/ Lock(s) \/ GetCard(s) \/ SqlUse(s) \/ GetEdit(s)
  BY <1>2 DEF Peek, Lock, GetCard, SqlUse, GetEdit, Return
<1>3. CASE GetCharge(s) \/ Unlock(s)
  BY <1>0, <1>3 DEF GetCharge, Unlock, NextCharge, Return
<1>4. CASE AddLock(s) \/ AddCount(s) \/ AsyncStep(s)
  BY <1>4 DEF AddLock, AddCount, AsyncStep, AsyncAcc, AsyncLog, UnasyncAcc, UnasyncLog, Return
<1>5. CASE LogLock(s) \/ LogAdd(s) \/ LogCount(s) \/ LogUnlock(s)
  BY <1>0, <1>5 DEF LogLock, LogAdd, LogCount, LogUnlock, Return, locks
<1> QED
  BY <1>1, <1>2, <1>3, <1>4, <1>5 DEF CalmAction

LEMMA CalmHolder ==
    ASSUME ReliableFile, OneRecord, TypeInv, LockInv, FileInv, HolderInv, MoneyInv,
           NEW s \in Sessions, CalmAction(s)
    PROVE  NextHolder(s)
<1>1. Calm(s) /\ Others(s)
  BY CalmSteps
<1>2. HolderOf(s)
  BY DEF HolderInv
<1>3. cmd'[s].op # "bires"
  BY <1>1, <1>2 DEF Calm, NextCmd, OneRecord, HolderOf
<1>4. accEx' = accEx \/ {accEx, accEx'} \subseteq {None, s}
  <2>1. CASE GetCharge(s)
    BY <2>1 DEF GetCharge, locks
  <2>2. CASE GetEdit(s)
    BY <2>2 DEF GetEdit, FreeAcc
  <2>3. CASE ~GetCharge(s) /\ ~GetEdit(s)
    <3>1. ReadsOnly(s)
      BY <2>3, ReadSteps DEF CalmAction, LogStep
    <3> QED
      BY <3>1 DEF ReadsOnly
  <2> QED
    BY <2>1, <2>2, <2>3
<1>5. pc'[s] # "loglock" /\ (pc'[s] \in LogLabels => pc[s] \in LogLabels /\ accEx' = accEx)
  BY CalmLabels
<1> QED
  BY <1>1, <1>2, <1>3, <1>4, <1>5 DEF NextHolder, Others, HolderOf

LEMMA LogWriteHolder ==
    ASSUME TypeInv, LockInv, HolderInv, MoneyInv, NEW s \in Sessions, LogWrite(s)
    PROVE  NextHolder(s) /\ Tail(pend[s]) = <<>>
<1>1. HolderOf(s) /\ Len(pend[s]) <= 1
  BY DEF HolderInv, HolderOf, MoneyInv, RecordsOf
<1>2. pc[s] = "logwrite" /\ LogDone(s, accs_state(buf[s]))
  BY DEF LogWrite
<1>3. pend[s] \in Seq(LogRec) /\ pend[s] # <<>>
  BY <1>2, FirstRecord
<1>4. Len(pend[s]) = 1
  <2>1. Len(pend[s]) \in Nat \ {0} /\ \A k \in Nat \ {0} : k <= 1 => k = 1
    BY <1>3, EmptySeq
  <2> QED
    BY <1>1, <2>1
<1>5. Tail(pend[s]) = <<>>
  <2>1. Tail(pend[s]) \in Seq(LogRec) /\ Len(Tail(pend[s])) = 0
    BY <1>3, <1>4, HeadTailProperties
  <2> QED
    BY <2>1, EmptySeq
<1>6. pc'[s] = "unlock" /\ UNCHANGED <<accEx, cmd>> /\ \A t \in Sessions \ {s} : pc'[t] = pc[t]
  BY <1>1, <1>2, <1>4 DEF LogDone, AfterLog, Goto, HolderOf, TypeInv, TypeOK
<1> QED
  BY <1>1, <1>5, <1>6 DEF NextHolder, HolderOf, LogLabels

\* The steps that prepare a record, and the writes.
LEMMA WriterHolder ==
    ASSUME TypeInv, FileInv, HolderInv, MoneyInv, NEW s \in Sessions,
           GetTrans(s) \/ TransPut(s) \/ EditPut(s) \/ AddWrite(s)
    PROVE  NextHolder(s)
<1>1. HolderOf(s)
  BY DEF HolderInv
<1>2. accEx = s
  BY DEF GetTrans, TransPut, EditPut, AddWrite, FileInv, WriterOf
<1>3. CASE GetTrans(s) \/ TransPut(s) \/ EditPut(s)
  BY <1>1, <1>2, <1>3 DEF GetTrans, TransPut, EditPut, NextHolder, HolderOf, Goto, locks,
                          TypeInv, TypeOK
<1>4. CASE AddWrite(s)
  <2> DEFINE c == [cmd[s] EXCEPT !.acc = pos[s] + 1]
  <2>1. cmd' = [cmd EXCEPT ![s] = c] /\ pc' = [pc EXCEPT ![s] = "idle"] /\ FreeAcc(s)
    BY <1>4 DEF AddWrite, Return, Goto
  <2>2. c.op = cmd[s].op
    BY ChangedCmd DEF TypeInv, TypeOK
  <2> HIDE DEF c
  <2> QED
    BY <1>1, <2>1, <2>2 DEF NextHolder, HolderOf, FreeAcc, LogLabels, TypeInv, TypeOK
<1> QED
  BY <1>3, <1>4

LEMMA HolderStep ==
    ReliableFile /\ OneRecord /\ NoFailure /\ TypeInv /\ LockInv /\ FileInv /\ MoneyInv
        /\ HolderInv /\ [Next]_vars => HolderInv'
<1> SUFFICES ASSUME ReliableFile, OneRecord, NoFailure, TypeInv, LockInv, FileInv, MoneyInv,
                    HolderInv, [Next]_vars
             PROVE  HolderInv'
  OBVIOUS
<1>1. CASE UNCHANGED vars
  BY <1>1 DEF vars, locks, program, HolderInv, HolderOf
<1>2. ASSUME NEW s \in Sessions, Crash(s) \/ LogFail(s) PROVE FALSE
  BY <1>2 DEF Crash, LogFail, CountFault, NoFailure, TypeInv, TypeOK
<1>3. ASSUME NEW s \in Sessions, CalmAction(s) PROVE HolderInv'
  BY <1>3, CalmHolder, HolderKept
<1>4. ASSUME NEW s \in Sessions,
             LogWrite(s) \/ GetTrans(s) \/ TransPut(s) \/ EditPut(s) \/ AddWrite(s)
      PROVE  HolderInv'
  BY <1>4, LogWriteHolder, WriterHolder, HolderKept
<1> QED
  BY <1>1, <1>2, <1>3, <1>4 DEF Next, Step, AccountStep, LogStep, CalmAction

-------------------------------------------------------------------------------
\* The book of BeeLedger: the log and what its one writer has prepared.
PreparedIn(recs) == IF \E s \in Sessions : recs[s] # <<>>
                    THEN recs[CHOOSE s \in Sessions : recs[s] # <<>>] ELSE <<>>

LEMMA OnlyPrepared ==
    ASSUME NEW recs, NEW s \in Sessions, \A t \in Sessions \ {s} : recs[t] = <<>>
    PROVE  PreparedIn(recs) = recs[s]
<1>1. CASE recs[s] = <<>>
  BY <1>1 DEF PreparedIn
<1>2. CASE recs[s] # <<>>
  <2>1. (CHOOSE t \in Sessions : recs[t] # <<>>) = s
    BY <1>2
  <2> QED
    BY <1>2, <2>1 DEF PreparedIn
<1> QED
  BY <1>1, <1>2

\* Whoever holds the account file is the one with records, if anybody is.
LEMMA HolderPrepared ==
    ASSUME HolderInv, MoneyInv, NEW s \in Sessions, accEx = s, Others(s)
    PROVE  Prepared = pend[s] /\ Prepared' = pend'[s]
<1>1. \A t \in Sessions \ {s} : pend[t] = <<>> /\ pend'[t] = <<>>
  BY DEF HolderInv, HolderOf, MoneyInv, RecordsOf, Others
<1>2. PreparedIn(pend) = pend[s] /\ PreparedIn(pend') = pend'[s]
  BY <1>1, OnlyPrepared
<1> QED
  BY <1>2 DEF Prepared, PreparedIn

\* A log with one more record.
LEMMA OneMore ==
    ASSUME NEW recs \in Seq(LogRec), NEW r \in LogRec
    PROVE  LET longer == recs \o <<r>> IN
           /\ Len(longer) = Len(recs) + 1 /\ SubSeq(longer, 1, Len(recs)) = recs
           /\ longer[Len(longer)] = r /\ longer = Append(recs, r) /\ recs \o <<>> = recs
<1> DEFINE longer == recs \o <<r>>
           first  == SubSeq(longer, 1, Len(recs))
<1>1. Len(recs) \in Nat /\ <<r>> \in Seq(LogRec) /\ Len(<<r>>) = 1 /\ <<r>>[1] = r
  OBVIOUS
<1>2. /\ longer \in Seq(LogRec) /\ Len(longer) = Len(recs) + 1
      /\ \A i \in 1 .. Len(recs) + 1 : longer[i] = IF i <= Len(recs) THEN recs[i]
                                                   ELSE <<r>>[i - Len(recs)]
  BY <1>1, ConcatProperties
<1> HIDE DEF longer
<1>3. /\ \A i \in 1 .. Len(recs) : longer[i] = recs[i]
      /\ longer[Len(longer)] = r
  BY <1>1, <1>2
<1>4. \A i \in 1 .. Len(recs) : longer[i] \in LogRec
  BY <1>3, ElementOfSeq
<1>5. /\ first \in Seq(LogRec) /\ Len(first) = IF 1 <= Len(recs) THEN Len(recs) - 1 + 1 ELSE 0
      /\ \A i \in 1 .. Len(recs) - 1 + 1 : first[i] = longer[1 + i - 1]
  BY <1>1, <1>4, SubSeqProperties
<1> HIDE DEF first
<1>6. Len(first) = Len(recs) /\ \A i \in 1 .. Len(recs) : first[i] = recs[i]
  BY <1>1, <1>3, <1>5
<1>7. first = recs
  BY <1>5, <1>6, SeqEqual
<1>8. longer = Append(recs, r)
  <2>1. /\ Append(recs, r) \in Seq(LogRec) /\ Len(Append(recs, r)) = Len(recs) + 1
        /\ \A i \in 1 .. Len(recs) + 1 : Append(recs, r)[i] = longer[i]
    BY <1>2, <1>3, AppendProperties
  <2> QED
    BY <1>2, <2>1, SeqEqual
<1>9. recs \o <<>> = recs
  BY ConcatEmptySeq
<1> QED
  BY <1>2, <1>3, <1>7, <1>8, <1>9 DEF first, longer

\* The record of a transaction, prepared by a session that holds the accounts.
LEMMA BookGrows ==
    ASSUME TypeInv, HolderInv, MoneyInv, NEW s \in Sessions, accEx = s, Others(s), log' = log,
           pend[s] = <<>>, NEW r \in LogRec, pend'[s] = <<r>>
    PROVE  Ledger!Appended /\ (log \o Prepared)'[Len((log \o Prepared)')] = r
<1>1. Prepared = <<>> /\ Prepared' = <<r>>
  BY HolderPrepared
<1>2. log \in Seq(LogRec)
  BY DEF TypeInv, TypeOK
<1>3. log \o Prepared = log /\ (log \o Prepared)' = log \o <<r>>
  BY <1>1, <1>2, OneMore
<1>4. Ledger!Appended
  BY <1>2, <1>3, OneMore DEF Ledger!Appended
<1> QED
  BY <1>2, <1>3, <1>4, OneMore

-------------------------------------------------------------------------------
\* Every step is a step of BeeLedger, or does not show there.
Balances == [n \in DOMAIN accs |-> accs[n].bal]
Book     == log \o Prepared
Posting  == Ledger!Post \/ Ledger!Refuse \/ Ledger!Open \/ Ledger!Adjust

\* The error code of a record and what MovesMoney says of it.
LEMMA RecordMoves ==
    ASSUME NEW r, NEW c, NEW err, Recorded(r, c, err)
    PROVE  Ledger!MovesMoney(r) <=> Applies(err, ResId(c))
BY DEF Ledger!MovesMoney, Applies, Recorded, Valid

\* Only the first record of a transaction that is not "bires".
LEMMA FirstOfTrans ==
    ASSUME NEW c \in CmdRec, NEW a \in AccRec, NEW status \in Codes, NEW err \in Codes,
           c.op # "bires"
    PROVE  \E one \in LogRec : /\ Logs(one, one, c, a, status, err)
                               /\ TransLog(c, a, status, err) = <<one>>
<1>1. PICK one, two \in LogRec : Logs(one, two, c, a, status, err)
  BY TransLogShape
<1>2. TransLog(c, a, status, err) = <<one>> /\ Logs(one, one, c, a, status, err)
  BY <1>1 DEF Logs
<1> QED
  BY <1>2

LEMMA StillBook ==
    ASSUME UNCHANGED <<accs, log, pend>>
    PROVE  UNCHANGED <<Balances, Book>>
BY DEF Balances, Book, Prepared

LEMMA GetTransPosts ==
    ASSUME TypeInv, TypeInv', FileInv, HolderInv, MoneyInv, NEW s \in Sessions, GetTrans(s)
    PROVE  [Posting]_<<Balances, Book>>
<1>1. /\ pc[s] = "get" /\ UNCHANGED <<files, cmd>> /\ cmd[s] \in CmdRec /\ cmd[s].op # "bires"
  BY DEF GetTrans, TypeInv, TypeOK, HolderInv, HolderOf
<1>2. pend[s] = <<>> /\ accEx = s /\ Others(s)
  BY <1>1, GetTransKeeps DEF MoneyInv, RecordsOf, LogLabels, FileInv, WriterOf
<1>3. CASE Writable(rc'[s])
  <2>1. UNCHANGED <<accs, log, pend>>
    BY <1>1, <1>3 DEF GetTrans, files
  <2> QED
    BY <2>1, StillBook
<1>4. CASE ~Writable(rc'[s])
  <2>1. /\ rc'[s] \in Codes /\ buf'[s] \in AccRec
        /\ pend'[s] = TransLog(cmd[s], buf'[s], rc'[s], rc'[s])
    BY <1>4 DEF GetTrans, TypeInv, TypeOK
  <2>2. PICK one \in LogRec : /\ Logs(one, one, cmd[s], buf'[s], rc'[s], rc'[s])
                              /\ pend'[s] = <<one>>
    BY <1>1, <2>1, FirstOfTrans
  <2>3. Ledger!Appended /\ (log \o Prepared)'[Len((log \o Prepared)')] = one
    BY <1>1, <1>2, <2>2, BookGrows DEF files
  <2>4. ~Ledger!MovesMoney(one)
    <3>1. ~Applies(rc'[s], ResId(cmd[s]))
      BY <1>4 DEF Writable, Applies, Valid
    <3> QED
      BY <2>2, <3>1, RecordMoves DEF Logs
  <2>5. Balances' = Balances
    BY <1>1 DEF Balances, files
  <2>6. Ledger!Refuse
    BY <2>3, <2>4, <2>5 DEF Ledger!Refuse, Balances
  <2> QED
    BY <2>6 DEF Posting
<1> QED
  BY <1>3, <1>4


LEMMA TransPutPosts ==
    ASSUME OneSwitch, NoFailure, TypeInv, TypeInv', FileInv, HolderInv, MoneyInv,
           NEW s \in Sessions, TransPut(s)
    PROVE  [Posting]_<<Balances, Book>>
<1> DEFINE c == cmd[s]
           a == buf[s]
           k == c.acc
           err == rc[s]
           new == TransRec(c, a, err)
           moved == Applies(err, ResId(c))
<1>1. /\ pc[s] = "put" /\ k \in DOMAIN accs /\ k \in Nat
      /\ c \in CmdRec /\ a = accs[k] /\ a \in AccRec /\ err \in Codes
      /\ err = acci_get(accs, k) /\ "FROZEN" \notin a.tag
      /\ Sound(a, k) /\ pend[s] = <<>> /\ log' = log
  BY TransPutState
<1>2. c.op # "bires" /\ accEx = s /\ Others(s)
  BY <1>1, TransPutTidy DEF HolderInv, HolderOf, FileInv, WriterOf
<1>3. TransPuts(s, "ok")
  <2>1. PICK outcome \in Outcomes : TransPuts(s, outcome) /\ PutFaults(outcome)
    BY DEF TransPut, TransPuts
  <2>2. ~(faults < MaxFaults)
    BY DEF NoFailure, TypeInv, TypeOK
  <2>3. outcome = "ok"
    BY <2>1, <2>2 DEF PutFaults
  <2> QED
    BY <2>1, <2>3
<1>4. Put(s, new, "ok") /\ pend'[s] = TransLog(c, a, err, err)
  BY <1>1, <1>3 DEF TransPuts, Sound, TypeInv, TypeOK
<1>5. /\ new.no = k /\ new.bal = IF moved THEN a.bal + Total(c, a) ELSE a.bal
  BY <1>1, TransRecFields DEF Sound
<1>6. /\ DOMAIN accs' = DOMAIN accs /\ \A m \in DOMAIN accs \ {k} : accs'[m] = accs[m]
      /\ accs'[k] = new
  BY <1>1, <1>4, <1>5, PutEffect
<1>7. PICK one \in LogRec : Logs(one, one, c, a, err, err) /\ pend'[s] = <<one>>
  BY <1>1, <1>2, <1>4, FirstOfTrans
<1>8. Ledger!Appended /\ (log \o Prepared)'[Len((log \o Prepared)')] = one
  BY <1>1, <1>2, <1>7, BookGrows
<1>9. Recorded(one, c, err) /\ (Ledger!MovesMoney(one) <=> moved)
  BY <1>7, RecordMoves DEF Logs
<1> HIDE DEF new
<1>10. CASE ~moved
  <2>1. \A m \in DOMAIN accs : accs'[m].bal = accs[m].bal
    BY <1>1, <1>5, <1>6, <1>10
  <2>2. Balances' = Balances
    BY <1>6, <2>1 DEF Balances
  <2>3. Ledger!Refuse
    BY <1>8, <1>9, <1>10, <2>2 DEF Ledger!Refuse, Balances
  <2> QED
    BY <2>3 DEF Posting
<1>11. CASE moved
  <2>1. ~FreeOfCharge(c, a)
    <3>1. SwitchOf(k)
      BY <1>1 DEF MoneyInv
    <3> QED
      BY <1>1, <1>11, <3>1, FreeMovesNothing
  <2>2. one.sum = Total(c, a)
    BY <1>2, <1>7, <2>1 DEF Logs, Total
  <2>3. one.bal = a.bal /\ one.no = k
    BY <1>7, <1>9, <1>11 DEF Logs, Recorded, Applies, Valid
  <2>4. accs'[k].bal = accs[k].bal + one.sum
    BY <1>1, <1>5, <1>6, <1>11, <2>2
  <2>5. Balances' = [Balances EXCEPT ![k] = Balances[k] + one.sum]
    <3>1. \A m \in DOMAIN accs : accs'[m].bal = IF m = k THEN accs[k].bal + one.sum ELSE accs[m].bal
      BY <1>6, <2>4
    <3> QED
      BY <1>1, <1>6, <3>1 DEF Balances
  <2>6. one.bal = Balances[k]
    BY <1>1, <2>3 DEF Balances
  <2>7. Ledger!Post
    BY <1>8, <1>9, <1>11, <2>3, <2>5, <2>6 DEF Ledger!Post, Balances
  <2> QED
    BY <2>7 DEF Posting
<1> QED
  BY <1>10, <1>11

LEMMA EditPutPosts ==
    ASSUME TypeInv, TypeInv', FileInv, MoneyInv, NEW s \in Sessions, EditPut(s)
    PROVE  [Posting]_<<Balances, Book>>
<1> DEFINE k == cmd[s].acc
           new == EditRec(cmd[s], buf[s])
<1>1. pc[s] = "put" /\ UNCHANGED <<log, pend>>
  BY DEF EditPut
<1>2. /\ cmd[s] \in CmdRec /\ buf[s] \in AccRec /\ Sound(buf[s], k) /\ cmd[s].op \notin UnsafeOps
      /\ k \in DOMAIN accs
  BY <1>1 DEF EditPut, TypeInv, TypeOK, FileInv, WriterOf, SoundFile
<1>3. PICK outcome \in Outcomes : Put(s, new, outcome)
  BY DEF EditPut
<1>4. new.no = k
  BY <1>2, EditRecSound DEF Sound
<1>5. DOMAIN accs' = DOMAIN accs /\ \A m \in DOMAIN accs \ {k} : accs'[m] = accs[m]
  BY <1>1, <1>3, <1>4, PutEffect
<1>6. Book' = Book
  BY <1>1 DEF Book, Prepared
<1>7. /\ DOMAIN Balances' = DOMAIN Balances /\ k \in DOMAIN Balances
      /\ \A m \in DOMAIN Balances \ {k} : Balances'[m] = Balances[m]
  BY <1>2, <1>5 DEF Balances
<1>8. Ledger!Adjust
  BY <1>6, <1>7 DEF Ledger!Adjust, Balances, Book
<1> QED
  BY <1>8 DEF Posting

LEMMA AddWritePosts ==
    ASSUME TypeInv, TypeInv', FileInv, MoneyInv, NEW s \in Sessions, AddWrite(s)
    PROVE  [Posting]_<<Balances, Book>>
<1> DEFINE new == [ZeroAcc EXCEPT !.no = Len(accs) + 1]
<1>1. accs' = Append(accs, new) /\ accs \in Seq(AccRec) /\ new.bal = 0
  BY AddWriteKeeps DEF TypeInv, TypeOK, ZeroAcc
<1> HIDE DEF new
<1>2. /\ Len(accs) \in Nat /\ DOMAIN accs = 1 .. Len(accs) /\ DOMAIN accs' = 1 .. Len(accs) + 1
      /\ \A m \in DOMAIN accs : accs'[m] = accs[m]
      /\ accs'[Len(accs) + 1] = new
  BY <1>1
<1>3. Balances \in Seq(Int) /\ Len(Balances) = Len(accs)
  <2>1. \A m \in DOMAIN accs : accs[m].bal \in Int
    <3>1. \A m \in DOMAIN accs : accs[m] \in AccRec
      BY <1>1
    <3> QED
      BY <3>1 DEF AccRec
  <2>2. Balances \in [1 .. Len(accs) -> Int]
    BY <1>2, <2>1 DEF Balances
  <2> QED
    BY <1>2, <2>2
<1>4. Balances' = Append(Balances, 0)
  <2> DEFINE b == Append(Balances, 0)
  <2>1. /\ b \in Seq(Int) /\ Len(b) = Len(accs) + 1 /\ DOMAIN b = 1 .. Len(accs) + 1
        /\ \A m \in 1 .. Len(accs) : b[m] = Balances[m]
    BY <1>2, <1>3, AppendProperties
  <2>2. b[Len(accs) + 1] = 0
    BY <1>2, <1>3, AppendProperties
  <2> HIDE DEF b
  <2>3. \A m \in 1 .. Len(accs) + 1 : b[m] = accs'[m].bal
    <3>1. \A m \in 1 .. Len(accs) : b[m] = accs'[m].bal
      BY <1>2, <2>1 DEF Balances
    <3>2. \A i \in Nat : \A m \in 1 .. i + 1 : m \in 1 .. i \/ m = i + 1
      OBVIOUS
    <3> QED
      BY <1>1, <1>2, <2>2, <3>1, <3>2
  <2>4. b = [m \in 1 .. Len(accs) + 1 |-> b[m]]
    BY <2>1
  <2>5. b = Balances'
    BY <1>2, <2>3, <2>4 DEF Balances
  <2> QED
    BY <2>5 DEF b
<1>5. UNCHANGED <<log, pend>>
  <2>1. pend[s] = <<>>
    BY DEF AddWrite, MoneyInv, RecordsOf, LogLabels
  <2> QED
    BY <2>1, ReturnDrops DEF AddWrite
<1>6. Ledger!Open
  BY <1>4, <1>5 DEF Ledger!Open, Balances, Prepared
<1> QED
  BY <1>6 DEF Posting


\* The record is logged: it was in the book already.
LEMMA LogWritePosts ==
    ASSUME TypeInv, TypeInv', LockInv, HolderInv, MoneyInv, NEW s \in Sessions, LogWrite(s)
    PROVE  UNCHANGED <<Balances, Book>>
<1> DEFINE r == Head(pend[s])
<1>1. pc[s] = "logwrite" /\ accs' = accs
  BY DEF LogWrite, LogDone
<1>2. accEx = s
  BY <1>1 DEF HolderInv, HolderOf, LogLabels
<1>3. Others(s) /\ log' = Append(log, r) /\ Tail(pend[s]) = <<>> /\ pend'[s] = Tail(pend[s])
  BY <1>1, LogWriteKeeps, LogWriteHolder, LogDoneTidy DEF LogWrite
<1>4. /\ pend[s] \in Seq(LogRec) /\ pend[s] # <<>> /\ r \in LogRec
      /\ log \in Seq(LogRec) /\ log' \in Seq(LogRec)
  BY <1>1, FirstRecord DEF TypeInv, TypeOK
<1>5. pend[s] = <<r>>
  <2>1. Len(pend[s]) = 1
    <3>1. Len(Tail(pend[s])) = Len(pend[s]) - 1 /\ Len(pend[s]) \in Nat
      BY <1>4, HeadTailProperties
    <3>2. Len(Tail(pend[s])) = 0
      BY <1>3, EmptySeq
    <3> QED
      BY <3>1, <3>2
  <2>2. pend[s][1] = r
    BY <1>4, HeadTailProperties
  <2> HIDE DEF r
  <2> QED
    BY <1>4, <2>1, <2>2, OneElement
<1> HIDE DEF r
<1>6. Prepared = <<r>> /\ Prepared' = <<>>
  BY <1>2, <1>3, <1>5, HolderPrepared
<1>7. log \o <<r>> = Append(log, r)
  BY <1>4, OneMore
<1>8. log' \o <<>> = log'
  BY <1>4, ConcatEmptySeq
<1>9. Book' = Book
  BY <1>3, <1>6, <1>7, <1>8 DEF Book
<1> QED
  BY <1>1, <1>9 DEF Balances

LEMMA LedgerStep ==
    ReliableFile /\ OneSwitch /\ NoFailure /\ TypeInv /\ TypeInv' /\ LockInv /\ FileInv
        /\ HolderInv /\ MoneyInv /\ [Next]_vars => [Posting]_<<Balances, Book>>
<1> SUFFICES ASSUME ReliableFile, OneSwitch, NoFailure, TypeInv, TypeInv', LockInv, FileInv,
                    HolderInv, MoneyInv, [Next]_vars
             PROVE  [Posting]_<<Balances, Book>>
  OBVIOUS
<1>1. CASE UNCHANGED vars
  BY <1>1, StillBook DEF vars, files, program
<1>2. ASSUME NEW s \in Sessions, Crash(s) \/ LogFail(s) PROVE FALSE
  BY <1>2 DEF Crash, LogFail, CountFault, NoFailure, TypeInv, TypeOK
<1>3. ASSUME NEW s \in Sessions, CalmAction(s) PROVE UNCHANGED <<Balances, Book>>
  BY <1>3, CalmSteps, StillBook DEF Calm
<1>4. ASSUME NEW s \in Sessions, LogWrite(s) \/ GetTrans(s) \/ TransPut(s) \/ EditPut(s) \/ AddWrite(s)
      PROVE  [Posting]_<<Balances, Book>>
  BY <1>4, LogWritePosts, GetTransPosts, TransPutPosts, EditPutPosts, AddWritePosts
<1> QED
  BY <1>1, <1>2, <1>3, <1>4 DEF Next, Step, AccountStep, LogStep, CalmAction

LEMMA LedgerStart == Init => Ledger!LedgerInit /\ HolderInv
<1> SUFFICES ASSUME Init PROVE Ledger!LedgerInit /\ HolderInv
  OBVIOUS
<1>1. Prepared = <<>> /\ log = <<>>
  BY DEF Init, Prepared
<1>2. Ledger!LedgerInit
  BY <1>1 DEF Ledger!LedgerInit
<1>3. HolderInv
  BY DEF Init, HolderInv, HolderOf, NoCommand, LogLabels
<1> QED
  BY <1>2, <1>3

\* Transactions are indivisible postings in log order: the reads, the write and
\* the log record of acc_transaction() and acc_charge_trans() (core.c:720-888)
\* come to one step of BeeLedger.
THEOREM CoreIsLedger ==
    ReliableFile /\ OneSwitch /\ OneRecord /\ NoFailure /\ Spec => LedgerRefined
<1> DEFINE Kept == TypeInv /\ LockInv /\ FileInv /\ MoneyInv
<1>1. Init => Ledger!LedgerInit /\ HolderInv
  BY LedgerStart
<1>2. ReliableFile /\ OneRecord /\ NoFailure /\ Kept /\ HolderInv /\ [Next]_vars => HolderInv'
  BY HolderStep
<1>3. ReliableFile /\ OneSwitch /\ NoFailure /\ Kept /\ Kept' /\ HolderInv /\ [Next]_vars
         => [Ledger!LedgerNext]_<<[n \in DOMAIN accs |-> accs[n].bal], log \o Prepared>>
  <2>1. ReliableFile /\ OneSwitch /\ NoFailure /\ Kept /\ Kept' /\ HolderInv /\ [Next]_vars
           => [Posting]_<<Balances, Book>>
    BY LedgerStep
  <2> HIDE DEF Kept
  <2> QED
    BY <2>1 DEF Posting, Balances, Book, Ledger!LedgerNext
<1>4. ReliableFile /\ Spec => []Kept
  BY MoneyKept, PTL
<1> HIDE DEF Kept
<1>5. SUFFICES ASSUME ReliableFile, OneSwitch, OneRecord, NoFailure PROVE Spec => LedgerRefined
  OBVIOUS
<1> QED
  BY <1>1, <1>2, <1>3, <1>4, <1>5, PTL DEF Spec, LedgerRefined, Ledger!LedgerSpec
===============================================================================
