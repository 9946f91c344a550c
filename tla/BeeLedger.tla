------------------------------- MODULE BeeLedger -------------------------------
(***************************************************************************)
(* What the billing core promises of money, whatever its sessions do at    *)
(* the same time: a transaction is one indivisible posting.  It changes    *)
(* the balance of its account by its sum and stands in the book from that  *)
(* moment on, with the balance it found.                                   *)
(***************************************************************************)
EXTENDS Integers, Sequences

VARIABLES
    balance,    \* balance[n]: money of account n
    book        \* every transaction, in the order it happened

\* Error codes under which a transaction still moves money.
MovesMoney(r) == \/ r.err \in {"SUCCESS", "NEGATIVE", "ACC_OFF"}
                 \/ r.err = "ACC_UNLIMIT" /\ r.res = "ADDER"

Appended == /\ Len(book') = Len(book) + 1
            /\ SubSeq(book', 1, Len(book)) = book

Post ==
    /\ Appended
    /\ LET r == book'[Len(book')] IN
       /\ MovesMoney(r)
       /\ r.bal = balance[r.no]
       /\ balance' = [balance EXCEPT ![r.no] = @ + r.sum]

\* A refused transaction is booked too, and moves nothing.
Refuse ==
    /\ Appended
    /\ ~MovesMoney(book'[Len(book')])
    /\ UNCHANGED balance

Open ==
    /\ balance' = Append(balance, 0)
    /\ UNCHANGED book

\* The administrator's correction of one account, never booked ("_fix").
Adjust ==
    /\ \E n \in DOMAIN balance :
          /\ DOMAIN balance' = DOMAIN balance
          /\ \A m \in DOMAIN balance \ {n} : balance'[m] = balance[m]
    /\ UNCHANGED book

LedgerInit == book = <<>>
LedgerNext == Post \/ Refuse \/ Open \/ Adjust
LedgerSpec == LedgerInit /\ [][LedgerNext]_<<balance, book>>
===============================================================================
