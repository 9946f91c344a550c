------------------------------- MODULE CnupmDump -------------------------------
(***************************************************************************)
(* The cron job that takes the traffic from cnupm                          *)
(* (bee/modules/scripts/bee-cnupmdump.sh): it tells the collector to write *)
(* its dump, prints the dump with cnupmstat (cnupmstat/cnupmstat.c) and    *)
(* removes it, while the collector and its children go on.                 *)
(***************************************************************************)
EXTENDS Cnupm

CONSTANT MaxRounds          \* bound: cron jobs

VARIABLES
    job,                \* where the cron job is
    at, left,           \* cnupmstat: items read, records that follow the header
    printed,            \* history: bytes of the lines printed
    got,                \* history: items read of each file
    ready,              \* history: items of the dump when it was opened, without -k
    rounds              \* bound

reader == <<at, left, printed, got, ready>>
jobvars == <<job, reader, rounds>>
vars == <<cnupmvars, jobvars>>

Init ==
    /\ CnupmInit
    /\ job = "idle" /\ at = 0 /\ left = 0
    /\ printed = None /\ got = [n \in Files |-> 0] /\ ready = 0
    /\ rounds = 0

-------------------------------------------------------------------------------
\* kill -HUP, or a new collector if there is none.
Cron ==
    /\ job = "idle" /\ rounds < MaxRounds /\ rounds' = rounds + 1
    /\ IF pc[Main] # "exited"
       THEN Hup /\ job' = "sleep" /\ UNCHANGED signals
       ELSE /\ Goto(Main, "test") /\ job' = "open"
            /\ tab' = [tab EXCEPT ![Main] = NewTable]
            /\ need' = FALSE /\ terminate' = FALSE
            /\ lost' = None /\ gone' = Plus(gone, lost)
            /\ UNCHANGED <<opt, dump, seen, limits>>
    /\ UNCHANGED reader

\* Two seconds are over, whatever cnupm has done.
SleepEnd ==
    /\ job = "sleep" /\ job' = "open"
    /\ UNCHANGED <<cnupmvars, reader, rounds>>

OpenDump ==
    /\ job = "open"
    /\ job' = IF file = 0 THEN "rm" ELSE "read"
    /\ at' = 0 /\ left' = 0
    /\ ready' = IF file = 0 \/ opt.fork THEN 0 ELSE Len(disk[file])
    /\ UNCHANGED <<cnupmvars, printed, got, rounds>>

\* Mutant: the header's count is taken for the number of items with the header.
MutantIsHeader == left <= 1

IsHeader == left = 0

\* One read() of print_dumpfile(): a header, a record, or the end of the file.  Nothing
\* tells a header from a record: when one is in the place of the other, what is read
\* from there on is rubbish, and counts neither as read nor as printed.
ReadItem ==
    /\ job = "read"
    /\ IF at < Len(disk[file]) /\ (IsHeader <=> disk[file][at + 1].flow = Header)
       THEN LET item == disk[file][at + 1] IN
            /\ at' = at + 1 /\ got' = [got EXCEPT ![file] = at + 1]
            /\ IF IsHeader THEN left' = item.bytes /\ UNCHANGED printed
               ELSE left' = left - 1 /\ printed' = [printed EXCEPT ![item.flow] = @ + item.bytes]
            /\ UNCHANGED job
       ELSE job' = "rm" /\ UNCHANGED <<at, left, printed, got>>
    /\ UNCHANGED <<cnupmvars, ready, rounds>>

Rm ==
    /\ job = "rm" /\ job' = "idle" /\ file' = 0
    /\ UNCHANGED <<collector, disk, fd, history, limits, reader, rounds>>

-------------------------------------------------------------------------------
JobStep == SleepEnd \/ OpenDump \/ ReadItem \/ Rm

Next == \/ CnupmNext /\ UNCHANGED jobvars
        \/ Cron \/ JobStep

\* Every process is scheduled; cron may not start the job.
FairSpec == Init /\ [][Next]_vars /\ CnupmFair /\ WF_vars(JobStep)

-------------------------------------------------------------------------------
DumpTypeOK ==
    /\ CnupmTypeOK
    /\ job \in {"idle", "sleep", "open", "read", "rm"}
    /\ at \in Nat /\ left \in Nat /\ printed \in [Flows -> Nat]
    /\ got \in [Files -> Nat] /\ ready \in Nat

\* A packet that reached the collector is, and is once, in the table of a process,
\* in a dump that was not read that far, or printed; or it was lost because the
\* table was full, or went with a process that ended.  Children write while the
\* collector counts, and what is written to a dump that was removed is not read.
Unread(n) == BytesOf(disk[n], got[n] + 1 .. Len(disk[n]))
InTables == [f \in Flows |-> SumFunction([p \in Procs |-> Held(tab[p])[f]])]
InDumps == [f \in Flows |-> SumFunction([n \in Files |-> Unread(n)[f]])]
Accounted == seen = Plus(Plus(lost, gone), Plus(Plus(InTables, InDumps), printed))

\* What a dump held when cnupmstat opened it is printed before the dump is removed,
\* if only the collector writes, even if it is in the middle of the dump.
ReadToTheEnd == job = "rm" /\ file # 0 => got[file] >= ready

\* "SIGINT, SIGQUIT, SIGTERM: Log number of received and dropped packets, save
\* collected statistics to a dump file and exit" (cnupm.8:170-172): if no call
\* failed, nothing is in the table when the collector has stopped.
SavedOnTerm == pc[Main] = "exited" /\ faults = 0 => gone = None

\* A dump that is asked for, by a signal or by a table that fills up, is written or
\* handed to a child, unless the collector ends: failed calls delay it, they do not
\* lose the request.
DumpServed == need /\ Tree(tab[Main]) # {} ~> Tree(tab[Main]) = {}
===============================================================================
