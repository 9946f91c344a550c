------------------------------- MODULE FlowTable -------------------------------
(***************************************************************************)
(* /dev/ipflow: the kernel's table of counted flows (ipflow_collect.c,     *)
(* ipflow_dev.c), and the processes of the ipflow program that read,       *)
(* reset, save, load and resize it (bin/ipflow/ipflow.c).                  *)
(*                                                                         *)
(* A process in the kernel runs until it sleeps, and it can sleep where it *)
(* copies to or from user memory that is paged out.  A flow is a (source,  *)
(* destination) pair with its packets; octets and time stamps follow the   *)
(* packets and are left out.                                               *)
(***************************************************************************)
EXTENDS Integers, Sequences, FiniteSets

CONSTANTS
    Callers,        \* processes of the ipflow program
    Keys,           \* (source, destination) pairs
    Garbage,        \* the pair that memory holds which nobody has written
    MinFlows,       \* IPFLOW_MIN_FLOWS
    DefFlows,       \* IPFLOW_DEF_FLOWS
    LimitFlows,     \* IPFLOW_MAX_FLOWS
    Faulty,         \* can a copy fail (EFAULT)?
    Cmds,           \* the command lines in use
    MaxPackets,     \* bound: packets the interfaces see
    MaxCalls        \* bound: command lines started

Pairs  == Keys \cup {Garbage}
Flow   == [key : Pairs, pkts : Nat]
Nothing == [k \in Pairs |-> 0]
Junk   == [key |-> Garbage, pkts |-> 0]
CmdRec == [op : {"flush", "flows", "show", "save", "load", "poll"},
           flush : BOOLEAN,     \* option -f
           append : BOOLEAN,    \* option -a
           size : Nat]          \* "flows <size>"

ASSUME FlowAssumption ==
    /\ MinFlows \in Nat \ {0} /\ LimitFlows \in Nat /\ DefFlows \in MinFlows .. LimitFlows
    /\ Garbage \notin Keys
    /\ Faulty \in BOOLEAN
    /\ Cmds \subseteq CmdRec
    /\ MaxPackets \in Nat /\ MaxCalls \in Nat

VARIABLES
    entries,    \* ipflow_entries: the array of flows
    nflows,     \* ipflow_info.ifi_recv: slots in use, all of them in the tree
    dropped,    \* ipflow_info.ifi_drop
    maxflows,   \* ipflow_info.ifi_max: length of the array
    array,      \* the array ipflow_entries points to (0, 1, ... by resizes)
    file,       \* the dump file
    pc,         \* pc[c]: the next system call of c, or where it sleeps
    cmd,        \* cmd[c]: the command line of c
    room,       \* room[c]: irq_nflows, flows c's buffer has room for
    n,          \* n[c]: loop counter of the system call
    from,       \* from[c]: the array c is copying out of
    got,        \* got[c]: flows in c's buffer that came from the device
    todo,       \* todo[c]: flows in c's buffer that go to the device
    off,        \* off[c]: how far c has read the dump file
    packets,    \* packets seen so far
    calls,      \* command lines started so far
    counted,    \* history: packets of each pair offered to the table
    taken,      \* history: packets delivered with a reset, or discarded by one
    lost,       \* history: packets of flows that found the table full
    whole,      \* history: reads with a reset that no other reset, and no
                \*    other array, has met since they began to copy
    since,      \* history: since[c][k]: what the table held when c, in whole,
                \*    began to copy
    slipped,    \* history: packets that came while such a read was copying
    calm        \* history: no read with a reset has ended outside of whole

device  == <<entries, nflows, dropped, maxflows, array>>
buffers == <<room, n, from, got, todo, off>>
tally   == <<counted, taken, lost, slipped, calm>>
marks   == <<whole, since>>
vars    == <<device, file, pc, cmd, buffers, packets, calls, tally, marks>>

Copying == {"copyout", "copyin"}
Labels  == {"idle", "fetch", "write", "chunk", "put", "poll", "scan"} \cup Copying

\* Packets of a pair in the table: the tree finds the slot of a pair.
Slots(k)   == {i \in 1 .. nflows : entries[i].key = k}
InTable(k) == IF Slots(k) = {} THEN 0 ELSE entries[CHOOSE i \in Slots(k) : TRUE].pkts

-------------------------------------------------------------------------------
Init ==
    /\ entries = [i \in 1 .. DefFlows |-> Junk]
    /\ nflows = 0 /\ dropped = 0 /\ maxflows = DefFlows /\ array = 0
    /\ file = <<>>
    /\ pc = [c \in Callers |-> "idle"]
    /\ cmd = [c \in Callers |-> [op |-> "poll", flush |-> FALSE, append |-> FALSE,
                                 size |-> 0]]
    /\ room = [c \in Callers |-> 0] /\ n = [c \in Callers |-> 0]
    /\ from = [c \in Callers |-> 0] /\ off = [c \in Callers |-> 0]
    /\ got = [c \in Callers |-> <<>>] /\ todo = [c \in Callers |-> <<>>]
    /\ packets = 0 /\ calls = 0
    /\ counted = [k \in Pairs |-> 0] /\ taken = [k \in Pairs |-> 0]
    /\ lost = [k \in Pairs |-> 0] /\ slipped = [k \in Pairs |-> 0] /\ calm = TRUE
    /\ whole = {} /\ since = [c \in Callers |-> Nothing]

Goto(c, label) == pc' = [pc EXCEPT ![c] = label]

\* Bookkeeping of the reads that nobody disturbs (no code).
Disturb == whole' = {} /\ since' = [d \in Callers |-> Nothing]
Enter(c) == /\ whole' = whole \cup {c}
            /\ since' = [since EXCEPT ![c] = [k \in Pairs |-> InTable(k)]]
Leave(c) == whole' = whole \ {c} /\ since' = [since EXCEPT ![c] = Nothing]

\* The program ends (or fails with err()): its buffers are gone.
Done(c) ==
    /\ Goto(c, "idle")
    /\ room' = [room EXCEPT ![c] = 0] /\ n' = [n EXCEPT ![c] = 0]
    /\ from' = [from EXCEPT ![c] = 0] /\ off' = [off EXCEPT ![c] = 0]
    /\ got' = [got EXCEPT ![c] = <<>>] /\ todo' = [todo EXCEPT ![c] = <<>>]

\* ipflow_flush()
MutantReset == dropped' = 0 /\ UNCHANGED nflows     \* mutant: the flows stay
Reset == nflows' = 0 /\ dropped' = 0

Full(used) == used >= maxflows

\* ipflow_insert(): selwakeup() makes the processes in poll() look again when
\* the first flow arrives.  next is pc as the caller leaves it.
MutantWakes(used) == used = 2                       \* mutant: off by one
Wakes(used) == used = 1

Insert(f, next) ==
    /\ counted' = [counted EXCEPT ![f.key] = @ + f.pkts]
    /\ UNCHANGED <<maxflows, array>>
    /\ \/ /\ Slots(f.key) # {}
          /\ entries' = [i \in DOMAIN entries |->
                            IF i \in Slots(f.key)
                            THEN [entries[i] EXCEPT !.pkts = @ + f.pkts] ELSE entries[i]]
          /\ pc' = next
          /\ UNCHANGED <<nflows, dropped, lost>>
       \/ /\ Slots(f.key) = {} /\ Full(nflows)
          /\ dropped' = dropped + 1
          /\ lost' = [lost EXCEPT ![f.key] = @ + f.pkts]
          /\ pc' = next
          /\ UNCHANGED <<entries, nflows>>
       \/ /\ Slots(f.key) = {} /\ ~Full(nflows)
          /\ entries' = [entries EXCEPT ![nflows + 1] = f]
          /\ nflows' = nflows + 1
          /\ pc' = IF Wakes(nflows')
                   THEN [c \in Callers |-> IF next[c] = "poll" THEN "scan" ELSE next[c]]
                   ELSE next
          /\ UNCHANGED <<dropped, lost>>

\* ipflow_collect(): an interface process has read a packet.
Packet(k) ==
    /\ packets < MaxPackets
    /\ packets' = packets + 1
    /\ Insert([key |-> k, pkts |-> 1], pc)
    /\ UNCHANGED <<file, cmd, buffers, calls, taken, slipped, calm, marks>>

-------------------------------------------------------------------------------
\* The program starts.

Start(c, m) ==
    /\ pc[c] = "idle" /\ calls < MaxCalls
    /\ calls' = calls + 1
    /\ cmd' = [cmd EXCEPT ![c] = m]

\* "flush": IIOCFFLOWS.
Flush(c, m) ==
    /\ m.op = "flush" /\ Start(c, m)
    /\ Reset /\ Disturb
    /\ taken' = [k \in Pairs |-> taken[k] + InTable(k)]
    /\ UNCHANGED <<entries, maxflows, array, file, pc, buffers, packets, counted,
                   lost, slipped, calm>>

\* "flows <size>": IIOCSNFLOWS, ipflow_realloc().
MutantInRange(size) == size # maxflows /\ size >= nflows     \* mutant: any size
MutantNotBusy(size) ==                                       \* mutant: flows are cut off
    size # maxflows /\ size \in MinFlows .. LimitFlows
Resizes(size) ==
    /\ size # maxflows
    /\ size \in MinFlows .. LimitFlows       \* otherwise EINVAL
    /\ size >= nflows                        \* otherwise EBUSY

Resize(c, m) ==
    /\ m.op = "flows" /\ Start(c, m)
    /\ IF Resizes(m.size)
       THEN /\ entries' = [i \in 1 .. m.size |-> IF i <= nflows THEN entries[i] ELSE Junk]
            /\ maxflows' = m.size
            /\ array' = array + 1
            /\ Disturb
       ELSE UNCHANGED <<entries, maxflows, array, marks>>
    /\ UNCHANGED <<nflows, dropped, file, pc, buffers, packets, tally>>

\* "show", "save", "load": IIOCGNFLOWS gives the length of the buffer, and
\* "save" without -a truncates the dump file.
Open(c, m) ==
    /\ m.op \in {"show", "save", "load"} /\ Start(c, m)
    /\ room' = [room EXCEPT ![c] = maxflows]
    /\ file' = IF m.op = "save" /\ ~m.append THEN <<>> ELSE file
    /\ Goto(c, IF m.op = "load" THEN "chunk" ELSE "fetch")
    /\ UNCHANGED <<device, n, from, got, todo, off, packets, tally, marks>>

\* poll(2) for reading: ipflowpoll() now, and again when woken.
Scan(c) == Goto(c, IF nflows = 0 THEN "poll" ELSE "idle")

Poll(c, m) ==
    /\ m.op = "poll" /\ Start(c, m)
    /\ Scan(c)
    /\ UNCHANGED <<device, file, buffers, packets, tally, marks>>

PollAgain(c) ==
    /\ pc[c] = "scan"
    /\ Scan(c)
    /\ UNCHANGED <<device, file, cmd, buffers, packets, calls, tally, marks>>

-------------------------------------------------------------------------------
\* "show" and "save" without -f read the device (ipflowread()), with -f they
\* read and reset it (IIOCGFLOWS).  Both copy slot by slot.

\* The call is over: irq_nflows tells the program how many flows it has got.
\* With -f the table is reset, whatever it holds by now.
Fetched(c, flows) ==
    LET reported == IF cmd[c].flush /\ nflows < Len(flows)
                    THEN SubSeq(flows, 1, nflows) ELSE flows
        In(k)    == {i \in DOMAIN reported : reported[i].key = k}
    IN  /\ IF cmd[c].flush
           THEN /\ Reset /\ Disturb
                /\ taken' = [k \in Pairs |-> taken[k] + (IF In(k) = {} THEN 0
                                  ELSE reported[CHOOSE i \in In(k) : TRUE].pkts)]
                /\ slipped' = [k \in Pairs |-> slipped[k] +
                                  (IF c \in whole THEN InTable(k) - since[c][k] ELSE 0)]
                /\ calm' = (calm /\ (pc[c] = "copyout" => c \in whole))
           ELSE UNCHANGED <<nflows, dropped, taken, slipped, calm, marks>>
        /\ IF cmd[c].op = "save"
           THEN /\ got' = [got EXCEPT ![c] = reported]
                /\ n' = [n EXCEPT ![c] = 0] /\ from' = [from EXCEPT ![c] = 0]
                /\ Goto(c, "write")
                /\ UNCHANGED <<room, todo, off>>
           ELSE Done(c)
        /\ UNCHANGED <<entries, maxflows, array, cmd, counted, lost>>

Fetch(c) ==
    /\ pc[c] = "fetch"
    /\ \/ /\ room[c] < nflows               \* ENOMEM
          /\ Done(c)
          /\ UNCHANGED <<device, cmd, tally, marks>>
       \/ /\ room[c] >= nflows /\ nflows = 0
          /\ Fetched(c, <<>>)
       \/ /\ room[c] >= nflows /\ nflows > 0
          /\ n' = [n EXCEPT ![c] = 0]
          /\ from' = [from EXCEPT ![c] = array]
          /\ Goto(c, "copyout")
          /\ IF cmd[c].flush THEN Enter(c) ELSE UNCHANGED marks
          /\ UNCHANGED <<device, cmd, room, got, todo, off, tally>>
    /\ UNCHANGED <<file, packets, calls>>

\* The address of a slot was taken before the copy slept: another array since
\* then means memory that has been freed.
Slot(c) == IF from[c] = array THEN entries[n[c] + 1] ELSE Junk

\* read(2) never copies more than fits; IIOCGFLOWS does not look.
MutantCopied(c) == IF n[c] = 0 THEN got[c] ELSE Append(got[c], Slot(c))  \* mutant: skips a slot
Copied(c) == IF cmd[c].flush \/ Len(got[c]) < room[c]
             THEN Append(got[c], Slot(c)) ELSE got[c]

CopyOut(c) ==
    /\ pc[c] = "copyout"
    /\ IF n[c] + 1 < nflows
       THEN /\ n' = [n EXCEPT ![c] = @ + 1]
            /\ from' = [from EXCEPT ![c] = array]
            /\ got' = [got EXCEPT ![c] = Copied(c)]
            /\ UNCHANGED <<device, pc, cmd, room, todo, off, tally, marks>>
       ELSE Fetched(c, Copied(c))
    /\ UNCHANGED <<file, packets, calls>>

\* EFAULT, on the way out or in: the call ends there.
Fault(c) ==
    /\ Faulty /\ pc[c] \in Copying
    /\ Done(c) /\ Leave(c)
    /\ UNCHANGED <<device, file, cmd, packets, calls, tally>>

\* "save": the program writes what it got to the dump file, which is open; with
\* -a at its end, otherwise at the start, over what another save wrote since.
Write(c) ==
    /\ pc[c] = "write"
    /\ file' = IF cmd[c].append THEN file \o got[c]
               ELSE got[c] \o SubSeq(file, Len(got[c]) + 1, Len(file))
    /\ Done(c)
    /\ UNCHANGED <<device, cmd, packets, calls, tally, marks>>

-------------------------------------------------------------------------------
\* "load": the program reads the dump file by buffers, and gives each to the
\* device by write(2), or with -f by IIOCSFLOWS, which resets the table first;
\* irq_nflows then is the length of this buffer and the limit of the next one.

LeftOf(c) == Len(file) - off[c]

Chunk(c) ==
    /\ pc[c] = "chunk"
    /\ IF LeftOf(c) <= 0
       THEN Done(c)
       ELSE LET len == IF LeftOf(c) < room[c] THEN LeftOf(c) ELSE room[c]
            IN  /\ todo' = [todo EXCEPT ![c] = SubSeq(file, off[c] + 1, off[c] + len)]
                /\ off' = [off EXCEPT ![c] = @ + len]
                /\ room' = IF cmd[c].flush THEN [room EXCEPT ![c] = len] ELSE room
                /\ Goto(c, "put")
                /\ UNCHANGED <<n, from, got>>
    /\ UNCHANGED <<device, file, cmd, packets, calls, tally, marks>>

Put(c) ==
    /\ pc[c] = "put"
    /\ IF cmd[c].flush
       THEN Reset /\ Disturb /\ taken' = [k \in Pairs |-> taken[k] + InTable(k)]
       ELSE UNCHANGED <<nflows, dropped, taken, marks>>
    /\ Goto(c, "copyin")
    /\ UNCHANGED <<entries, maxflows, array, file, cmd, buffers, packets, calls,
                   counted, lost, slipped, calm>>

CopyIn(c) ==
    /\ pc[c] = "copyin"
    /\ todo' = [todo EXCEPT ![c] = Tail(@)]
    /\ Insert(Head(todo[c]),
              IF Len(todo[c]) = 1 THEN [pc EXCEPT ![c] = "chunk"] ELSE pc)
    /\ UNCHANGED <<file, cmd, room, n, from, got, off, packets, calls, taken,
                   slipped, calm, marks>>

-------------------------------------------------------------------------------
Step(c) == \/ PollAgain(c) \/ Fetch(c) \/ CopyOut(c) \/ Fault(c) \/ Write(c)
           \/ Chunk(c) \/ Put(c) \/ CopyIn(c)

Next == \/ \E k \in Keys : Packet(k)
        \/ \E c \in Callers, m \in Cmds :
              Flush(c, m) \/ Resize(c, m) \/ Open(c, m) \/ Poll(c, m)
        \/ \E c \in Callers : Step(c)

Spec == Init /\ [][Next]_vars

-------------------------------------------------------------------------------
HistoryOK ==
    /\ slipped \in [Pairs -> Int] /\ calm \in BOOLEAN
    /\ whole \subseteq Callers /\ since \in [Callers -> [Pairs -> Nat]]

TypeOK ==
    /\ nflows \in Nat /\ dropped \in Nat /\ maxflows \in MinFlows .. LimitFlows
    /\ array \in Nat
    /\ entries \in [1 .. maxflows -> Flow]
    /\ file \in Seq(Flow)
    /\ pc \in [Callers -> Labels] /\ cmd \in [Callers -> CmdRec]
    /\ room \in [Callers -> Nat] /\ n \in [Callers -> Nat]
    /\ from \in [Callers -> Nat] /\ off \in [Callers -> Nat]
    /\ got \in [Callers -> Seq(Flow)] /\ todo \in [Callers -> Seq(Flow)]
    /\ packets \in 0 .. MaxPackets /\ calls \in 0 .. MaxCalls
    /\ {counted, taken, lost} \subseteq [Pairs -> Nat]
    /\ HistoryOK

\* The array and the tree agree: the slots in use fit in the array and hold one
\* flow per pair, whatever is inserted, reset or resized while a copy sleeps
\* (ipflow_insert(), ipflow_realloc()).
TableSound ==
    /\ nflows <= maxflows
    /\ \A i, j \in 1 .. nflows :
          entries[i].key = entries[j].key => i = j

\* What interfaces and "load" have counted is in the table, was delivered or
\* discarded by a reset, or found the table full, once each; a read with a reset
\* loses at most what came while it was copying (README:243; ipflow_dev.c:141-149).
\* Two reads that overlap, and one that a resize meets, are beyond this: calm.
Conserved ==
    calm => \A k \in Keys :
               LET known == InTable(k) + taken[k] + lost[k]
               IN  known <= counted[k] /\ counted[k] <= known + slipped[k]

\* The device is a meter: the many steps that load, read and resize the table
\* count flows one by one, and a read with a reset that nobody disturbs takes all
\* that was there when it began, also if copies sleep (ipflow_dev.c:128-169).
Meter == INSTANCE FlowMeter
    WITH Readers <- Callers, held <- [k \in Pairs |-> InTable(k)], gone <- taken,
         reading <- {c \in Callers : pc[c] = "copyout" /\ cmd[c].flush}

MeterRefined == Meter!MeterSpec

\* Nobody sleeps in poll() while there are flows to read, as only the first
\* flow wakes (ipflow_insert(), ipflow_collect.c:223).
NoSleepingPoller == \A c \in Callers : pc[c] = "poll" => nflows = 0

\* After "load -f" of one process alone, the flows of the dump file are in the
\* table: the table is reset "before loading" (README:45-47), not in between.
SumOf(flows, k) ==
    LET sum[i \in 0 .. Len(flows)] ==
          IF i = 0 THEN 0 ELSE sum[i - 1] + (IF flows[i].key = k THEN flows[i].pkts ELSE 0)
    IN  sum[Len(flows)]

FileLoaded ==
    \A c \in Callers :
        pc[c] = "idle" /\ cmd[c].op = "load" /\ dropped = 0
            => \A k \in Keys : InTable(k) >= SumOf(file, k)
===============================================================================
