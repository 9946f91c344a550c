--------------------------- MODULE FlowTable_proofs ---------------------------
(***************************************************************************)
(* The flow table keeps its shape, for any table size, any number of       *)
(* processes, and copies that sleep or fail at any slot.                   *)
(***************************************************************************)
EXTENDS FlowTable, SequenceTheorems, TLAPS

\* What the types need to be inductive.  A copy out that wakes in the array it
\* went to sleep with finds its slot inside; a load has room for a flow, and a
\* flow to copy in.
CopyInv ==
    \A c \in Callers :
        /\ pc[c] = "copyout" =>
              from[c] <= array /\ (from[c] = array => n[c] < maxflows)
        /\ pc[c] \in {"chunk", "put", "copyin"} => room[c] > 0
        /\ pc[c] \in {"put", "copyin"} => todo[c] # <<>>

TableInv == TypeOK /\ TableSound /\ CopyInv

-------------------------------------------------------------------------------
LEMMA InTableType == ASSUME TypeOK, TableSound, NEW k \in Pairs PROVE InTable(k) \in Nat
<1>1. \A i \in Slots(k) : entries[i] \in Flow
  BY FlowAssumption DEF TypeOK, TableSound, Slots
<1>2. CASE Slots(k) # {}
  BY <1>1, <1>2 DEF InTable, Flow
<1> QED
  BY <1>2 DEF InTable

LEMMA TakenType ==
    ASSUME TypeOK, TableSound
    PROVE  [k \in Pairs |-> taken[k] + InTable(k)] \in [Pairs -> Nat]
<1>1. taken \in [Pairs -> Nat]
  BY DEF TypeOK
<1>2. \A k \in Pairs : InTable(k) \in Nat
  BY InTableType
<1> QED
  BY <1>1, <1>2

LEMMA JunkType == Junk \in Flow
BY DEF Junk, Flow, Pairs

LEMMA InitInv == Init => TableInv
<1> SUFFICES ASSUME Init PROVE TableInv
  OBVIOUS
<1>1. HistoryOK
  BY DEF Init, HistoryOK, Nothing
<1>2. TypeOK
  <2>1. /\ nflows \in Nat /\ dropped \in Nat /\ maxflows \in MinFlows .. LimitFlows
        /\ array \in Nat /\ packets \in 0 .. MaxPackets /\ calls \in 0 .. MaxCalls
        /\ entries \in [1 .. maxflows -> Flow]
    BY FlowAssumption, JunkType DEF Init
  <2>2. /\ pc \in [Callers -> Labels] /\ room \in [Callers -> Nat]
        /\ n \in [Callers -> Nat] /\ from \in [Callers -> Nat] /\ off \in [Callers -> Nat]
    BY DEF Init, Labels
  <2>3. cmd \in [Callers -> CmdRec]
    BY DEF Init, CmdRec
  <2>4. /\ file \in Seq(Flow)
        /\ got \in [Callers -> Seq(Flow)] /\ todo \in [Callers -> Seq(Flow)]
    BY DEF Init
  <2>5. {counted, taken, lost} \subseteq [Pairs -> Nat]
    BY DEF Init
  <2> QED
    BY <1>1, <2>1, <2>2, <2>3, <2>4, <2>5 DEF TypeOK
<1> QED
  BY <1>2, FlowAssumption DEF Init, TableInv, TableSound, CopyInv

\* The history variables of the reads keep their types.
LEMMA HistoryStep ==
    ASSUME TypeOK, TableSound, [Next]_vars
    PROVE  HistoryOK'
<1>1. /\ slipped \in [Pairs -> Int] /\ calm \in BOOLEAN
      /\ whole \subseteq Callers /\ since \in [Callers -> [Pairs -> Nat]]
  BY DEF TypeOK, HistoryOK
<1>2. Nothing \in [Pairs -> Nat]
  BY DEF Nothing
<1>3. [k \in Pairs |-> InTable(k)] \in [Pairs -> Nat]
  BY InTableType
<1>4. ASSUME Disturb PROVE whole' \subseteq Callers /\ since' \in [Callers -> [Pairs -> Nat]]
  BY <1>2, <1>4 DEF Disturb
<1>5. ASSUME NEW c \in Callers, Enter(c) \/ Leave(c)
      PROVE  whole' \subseteq Callers /\ since' \in [Callers -> [Pairs -> Nat]]
  BY <1>1, <1>2, <1>3, <1>5 DEF Enter, Leave
<1>6. CASE UNCHANGED <<slipped, calm, marks>>
  BY <1>1, <1>6 DEF marks, HistoryOK
<1>7. CASE UNCHANGED <<slipped, calm>> /\ (Disturb \/ \E c \in Callers : Enter(c) \/ Leave(c))
  BY <1>1, <1>4, <1>5, <1>7 DEF HistoryOK
<1>8. ASSUME NEW c \in Callers, NEW flows, Fetched(c, flows), cmd[c].flush PROVE HistoryOK'
  <2>1. /\ Disturb /\ calm' = (calm /\ (pc[c] = "copyout" => c \in whole))
        /\ slipped' = [k \in Pairs |-> slipped[k] +
                          (IF c \in whole THEN InTable(k) - since[c][k] ELSE 0)]
    BY <1>8 DEF Fetched
  <2>2. \A k \in Pairs : InTable(k) \in Nat /\ since[c][k] \in Nat
    BY <1>1, InTableType
  <2>3. slipped' \in [Pairs -> Int]
    BY <1>1, <2>1, <2>2
  <2>4. calm' \in BOOLEAN
    BY <1>1, <2>1, Zenon
  <2> QED
    BY <1>4, <2>1, <2>3, <2>4 DEF HistoryOK
<1>9. ASSUME NEW c \in Callers, NEW flows, Fetched(c, flows), ~cmd[c].flush
      PROVE  UNCHANGED <<slipped, calm, marks>>
  BY <1>9 DEF Fetched
<1>10. CASE UNCHANGED vars
  BY <1>6, <1>10 DEF vars, tally
<1>11. ASSUME NEW k \in Keys, Packet(k) PROVE HistoryOK'
  BY <1>6, <1>11 DEF Packet
<1>12. ASSUME NEW c \in Callers, NEW m \in Cmds,
              Flush(c, m) \/ Resize(c, m) \/ Open(c, m) \/ Poll(c, m)
       PROVE  HistoryOK'
  BY <1>6, <1>7, <1>12 DEF Flush, Resize, Open, Poll, tally
<1>13. ASSUME NEW c \in Callers, Fetch(c) PROVE HistoryOK'
  BY <1>6, <1>7, <1>8, <1>9, <1>13 DEF Fetch, tally
<1>14. ASSUME NEW c \in Callers, CopyOut(c) PROVE HistoryOK'
  BY <1>6, <1>8, <1>9, <1>14 DEF CopyOut, tally
<1>15. ASSUME NEW c \in Callers,
              PollAgain(c) \/ Fault(c) \/ Write(c) \/ Chunk(c) \/ Put(c) \/ CopyIn(c)
       PROVE  HistoryOK'
  BY <1>6, <1>7, <1>15 DEF PollAgain, Fault, Write, Chunk, Put, CopyIn, tally
<1> QED
  BY <1>10, <1>11, <1>12, <1>13, <1>14, <1>15 DEF Next, Step

\* ipflow_insert() keeps the table sound, and wakes processes in poll() only.
LEMMA InsertInv ==
    ASSUME NEW f \in Flow, NEW next \in [Callers -> Labels],
           TypeOK, TableSound, Insert(f, next)
    PROVE  /\ nflows' \in Nat /\ dropped' \in Nat /\ entries' \in [1 .. maxflows -> Flow]
           /\ counted' \in [Pairs -> Nat] /\ lost' \in [Pairs -> Nat]
           /\ pc' \in [Callers -> Labels]
           /\ TableSound' /\ maxflows' = maxflows /\ array' = array
           /\ \A c \in Callers : pc'[c] # "scan" => pc'[c] = next[c]
<1>1. /\ f.key \in Pairs /\ f.pkts \in Nat
      /\ nflows \in 0 .. maxflows /\ maxflows \in Nat
      /\ entries \in [1 .. maxflows -> Flow]
  BY FlowAssumption DEF Flow, TypeOK, TableSound
<1>2. /\ maxflows' = maxflows /\ array' = array /\ counted' \in [Pairs -> Nat]
  <2>1. /\ maxflows' = maxflows /\ array' = array
        /\ counted' = [counted EXCEPT ![f.key] = @ + f.pkts]
    BY DEF Insert
  <2>2. counted \in [Pairs -> Nat]
    BY DEF TypeOK
  <2> QED
    BY <1>1, <2>1, <2>2
<1>3. CASE Slots(f.key) # {}
  <2>1. /\ UNCHANGED <<nflows, dropped, lost>> /\ pc' = next
        /\ entries' = [i \in DOMAIN entries |->
                          IF i \in Slots(f.key)
                          THEN [entries[i] EXCEPT !.pkts = @ + f.pkts] ELSE entries[i]]
    BY <1>3 DEF Insert
  <2>2. \A i \in 1 .. maxflows : entries'[i] \in Flow /\ entries'[i].key = entries[i].key
    <3> SUFFICES ASSUME NEW i \in 1 .. maxflows
                 PROVE  entries'[i] \in Flow /\ entries'[i].key = entries[i].key
      OBVIOUS
    <3>1. entries[i] \in Flow /\ entries[i].pkts + f.pkts \in Nat
      BY <1>1 DEF Flow
    <3>2. LET e == [entries[i] EXCEPT !.pkts = @ + f.pkts]
          IN  e \in Flow /\ e.key = entries[i].key
      BY <3>1 DEF Flow
    <3> QED
      BY <1>1, <2>1, <3>1, <3>2
  <2>3. entries' \in [1 .. maxflows -> Flow]
    BY <1>1, <2>1, <2>2
  <2>4. TableSound'
    BY <1>1, <1>2, <2>1, <2>2 DEF TableSound
  <2> QED
    BY <1>2, <2>1, <2>3, <2>4 DEF TypeOK
<1>4. CASE Slots(f.key) = {} /\ Full(nflows)
  <2>1. /\ UNCHANGED <<entries, nflows>> /\ pc' = next /\ dropped' = dropped + 1
        /\ lost' = [lost EXCEPT ![f.key] = @ + f.pkts]
    BY <1>4 DEF Insert
  <2>2. TableSound'
    BY <1>2, <2>1 DEF TableSound
  <2> QED
    BY <1>1, <1>2, <2>1, <2>2 DEF TypeOK
<1>5. CASE Slots(f.key) = {} /\ ~Full(nflows)
  <2>1. /\ UNCHANGED <<dropped, lost>> /\ nflows' = nflows + 1
        /\ entries' = [entries EXCEPT ![nflows + 1] = f]
        /\ pc' = IF Wakes(nflows')
                 THEN [c \in Callers |-> IF next[c] = "poll" THEN "scan" ELSE next[c]]
                 ELSE next
    BY <1>5 DEF Insert
  <2>2. nflows + 1 \in 1 .. maxflows
    BY <1>1, <1>5 DEF Full
  <2>3. entries' \in [1 .. maxflows -> Flow] /\ nflows' \in 0 .. maxflows
    BY <1>1, <2>1, <2>2
  <2>4. \A i \in 1 .. nflows : entries'[i] = entries[i] /\ entries[i].key # f.key
    BY <1>1, <1>5, <2>1, <2>2 DEF Slots
  <2>5. entries'[nflows + 1] = f
    BY <1>1, <2>1, <2>2
  <2>6. TableSound'
    <3> SUFFICES ASSUME NEW i \in 1 .. nflows', NEW j \in 1 .. nflows',
                        entries'[i].key = entries'[j].key
                 PROVE  i = j
      BY <1>2, <2>3 DEF TableSound
    <3>1. /\ i \in 1 .. nflows \/ i = nflows + 1
          /\ j \in 1 .. nflows \/ j = nflows + 1
      BY <1>1, <2>1
    <3>2. CASE i \in 1 .. nflows /\ j \in 1 .. nflows
      BY <2>4, <3>2 DEF TableSound
    <3> QED
      BY <2>4, <2>5, <3>1, <3>2
  <2>7. /\ pc' \in [Callers -> Labels]
        /\ \A c \in Callers : pc'[c] # "scan" => pc'[c] = next[c]
    BY <2>1 DEF Labels
  <2> QED
    BY <1>2, <2>1, <2>3, <2>6, <2>7 DEF TypeOK
<1> QED
  BY <1>3, <1>4, <1>5

\* ipflow_flush() empties the table.
LEMMA ResetSound ==
    ASSUME TypeOK, Reset, maxflows' = maxflows
    PROVE  TableSound' /\ nflows' \in Nat /\ dropped' \in Nat
BY FlowAssumption DEF TypeOK, Reset, TableSound

\* A process that ends is in no copy, and its buffers are empty.
LEMMA DoneInv ==
    ASSUME TypeOK, NEW c \in Callers, Done(c)
    PROVE  /\ pc' \in [Callers -> Labels] /\ room' \in [Callers -> Nat]
           /\ n' \in [Callers -> Nat] /\ from' \in [Callers -> Nat]
           /\ off' \in [Callers -> Nat]
           /\ got' \in [Callers -> Seq(Flow)] /\ todo' \in [Callers -> Seq(Flow)]
           /\ pc'[c] = "idle"
           /\ \A d \in Callers \ {c} :
                 /\ pc'[d] = pc[d] /\ room'[d] = room[d] /\ todo'[d] = todo[d]
                 /\ from'[d] = from[d] /\ n'[d] = n[d]
BY DEF TypeOK, Done, Goto, Labels

-------------------------------------------------------------------------------
\* One lemma per action.

LEMMA PacketInv == ASSUME TableInv, HistoryOK', NEW k \in Keys, Packet(k) PROVE TableInv'
<1>1. [key |-> k, pkts |-> 1] \in Flow /\ pc \in [Callers -> Labels]
  BY DEF Flow, Pairs, TableInv, TypeOK
<1>2. TypeOK'
  <2>1. /\ Insert([key |-> k, pkts |-> 1], pc)
        /\ UNCHANGED <<file, cmd, room, n, from, got, todo, off, calls, taken>>
        /\ packets' \in 0 .. MaxPackets
    BY FlowAssumption DEF Packet, TableInv, TypeOK, buffers
  <2> QED
    BY <1>1, <2>1, InsertInv DEF TableInv, TypeOK
<1>3. CopyInv'
  BY <1>1, InsertInv DEF Packet, TableInv, CopyInv, buffers
<1> QED
  BY <1>1, <1>2, <1>3, InsertInv DEF Packet, TableInv

LEMMA FlushInv == ASSUME TableInv, HistoryOK', NEW c \in Callers, NEW m \in Cmds, Flush(c, m)
                  PROVE  TableInv'
<1>1. [k \in Pairs |-> taken[k] + InTable(k)] \in [Pairs -> Nat]
  BY TakenType DEF TableInv
<1>2. TypeOK'
  <2>1. /\ Reset /\ taken' \in [Pairs -> Nat]
        /\ UNCHANGED <<entries, maxflows, array, file, pc, buffers, packets, counted, lost>>
    BY <1>1 DEF Flush
  <2>2. cmd' \in [Callers -> CmdRec] /\ calls' \in 0 .. MaxCalls
    <3>1. /\ cmd' = [cmd EXCEPT ![c] = m] /\ calls' = calls + 1 /\ calls < MaxCalls
      BY DEF Flush, Start
    <3>2. cmd \in [Callers -> CmdRec] /\ calls \in 0 .. MaxCalls
      BY DEF TableInv, TypeOK
    <3>3. m \in CmdRec /\ MaxCalls \in Nat
      BY FlowAssumption
    <3> QED
      BY <3>1, <3>2, <3>3
  <2> QED
    BY <2>1, <2>2, ResetSound DEF TableInv, TypeOK, buffers
<1>3. CopyInv'
  BY DEF Flush, TableInv, CopyInv, buffers
<1> QED
  BY <1>2, <1>3, ResetSound DEF Flush, TableInv

LEMMA ResizeInv == ASSUME TableInv, HistoryOK', NEW c \in Callers, NEW m \in Cmds, Resize(c, m)
                   PROVE  TableInv'
<1>1. CASE ~Resizes(m.size)
  BY <1>1, FlowAssumption
     DEF Resize, Start, TableInv, TypeOK, TableSound, CopyInv, buffers, tally
<1>2. CASE Resizes(m.size)
  <2>1. /\ entries' = [i \in 1 .. m.size |-> IF i <= nflows THEN entries[i] ELSE Junk]
        /\ maxflows' = m.size /\ array' = array + 1 /\ UNCHANGED <<nflows, dropped>>
    BY <1>2 DEF Resize
  <2>2. m.size \in MinFlows .. LimitFlows /\ nflows <= m.size
        /\ nflows \in 0 .. maxflows /\ maxflows \in Nat
    BY <1>2, FlowAssumption DEF Resizes, TableInv, TypeOK, TableSound
  <2>3. entries' \in [1 .. maxflows' -> Flow]
    BY <2>1, <2>2, JunkType DEF TableInv, TypeOK
  <2>4. TypeOK'
    <3>1. cmd' = [cmd EXCEPT ![c] = m] /\ calls < MaxCalls /\ calls' = calls + 1
      BY DEF Resize, Start
    <3>2. m \in CmdRec /\ MaxCalls \in Nat
      BY FlowAssumption
    <3>3. cmd' \in [Callers -> CmdRec] /\ calls' \in 0 .. MaxCalls
      <4>1. cmd \in [Callers -> CmdRec] /\ calls \in 0 .. MaxCalls
        BY DEF TableInv, TypeOK
      <4>2. cmd' \in [Callers -> CmdRec]
        BY <3>1, <3>2, <4>1
      <4>3. calls' \in 0 .. MaxCalls
        BY <3>1, <3>2, <4>1
      <4> QED
        BY <4>2, <4>3
    <3>4. UNCHANGED <<file, pc, room, n, from, got, todo, off, packets, counted, taken, lost>>
      BY DEF Resize, buffers, tally
    <3>5. nflows' \in Nat /\ dropped' \in Nat /\ maxflows' \in MinFlows .. LimitFlows
          /\ array' \in Nat
      BY <2>1, <2>2 DEF TableInv, TypeOK
    <3> QED
      BY <2>3, <3>3, <3>4, <3>5 DEF TableInv, TypeOK
  <2>5. TableSound'
    <3>1. \A i \in 1 .. nflows : entries'[i] = entries[i]
      BY <2>1, <2>2, FlowAssumption
    <3> QED
      BY <2>1, <2>2, <3>1 DEF TableInv, TableSound
  <2>6. CopyInv'
    <3>1. UNCHANGED <<pc, room, n, from, todo>> /\ array' = array + 1
      BY <2>1 DEF Resize, buffers
    <3>2. array \in Nat /\ \A d \in Callers : from[d] \in Nat
      BY DEF TableInv, TypeOK
    <3>3. ASSUME NEW d \in Callers, pc[d] = "copyout"
          PROVE  from[d] <= array + 1 /\ from[d] # array + 1
      <4>1. from[d] <= array
        BY <3>3 DEF TableInv, CopyInv
      <4> QED
        BY <3>2, <4>1
    <3> QED
      BY <3>1, <3>3 DEF TableInv, CopyInv
  <2> QED
    BY <2>4, <2>5, <2>6 DEF TableInv
<1> QED
  BY <1>1, <1>2

LEMMA OpenInv == ASSUME TableInv, HistoryOK', NEW c \in Callers, NEW m \in Cmds, Open(c, m)
                 PROVE  TableInv'
<1>1. TypeOK'
  BY FlowAssumption DEF Open, Start, Goto, TableInv, TypeOK, device, tally, Labels
<1>2. TableSound'
  BY DEF Open, TableInv, TableSound, device
<1>3. CopyInv'
  BY FlowAssumption DEF Open, Goto, TableInv, TypeOK, CopyInv, device
<1> QED
  BY <1>1, <1>2, <1>3 DEF TableInv

LEMMA PollInv ==
    ASSUME TableInv, HistoryOK', NEW c \in Callers,
           PollAgain(c) \/ \E m \in Cmds : Poll(c, m)
    PROVE  TableInv'
<1>1. /\ UNCHANGED <<device, file, buffers, packets, tally>>
      /\ pc' = [pc EXCEPT ![c] = "poll"] \/ pc' = [pc EXCEPT ![c] = "idle"]
      /\ cmd' \in [Callers -> CmdRec] /\ calls' \in 0 .. MaxCalls
  <2>1. /\ UNCHANGED <<device, file, buffers, packets, tally>>
        /\ pc' = [pc EXCEPT ![c] = "poll"] \/ pc' = [pc EXCEPT ![c] = "idle"]
    BY DEF PollAgain, Poll, Scan, Goto
  <2>2. ASSUME PollAgain(c)
        PROVE  cmd' \in [Callers -> CmdRec] /\ calls' \in 0 .. MaxCalls
    BY <2>2 DEF PollAgain, TableInv, TypeOK
  <2>3. ASSUME NEW m \in Cmds, Poll(c, m)
        PROVE  cmd' \in [Callers -> CmdRec] /\ calls' \in 0 .. MaxCalls
    BY <2>3, FlowAssumption DEF Poll, Start, TableInv, TypeOK
  <2> QED
    BY <2>1, <2>2, <2>3
<1>2. TypeOK'
  BY <1>1 DEF TableInv, TypeOK, device, buffers, tally, Labels
<1>3. TableSound'
  BY <1>1 DEF TableInv, TableSound, device
<1>4. CopyInv'
  BY <1>1 DEF TableInv, TypeOK, CopyInv, device, buffers
<1> QED
  BY <1>2, <1>3, <1>4 DEF TableInv

\* The end of "show" and "save": whatever was copied, the reset leaves a sound table.
LEMMA FetchedInv ==
    ASSUME TableInv, HistoryOK', NEW c \in Callers, NEW flows \in Seq(Flow), Fetched(c, flows),
           UNCHANGED <<file, packets, calls>>
    PROVE  TableInv'
<1> DEFINE reported == IF cmd[c].flush /\ nflows < Len(flows)
                       THEN SubSeq(flows, 1, nflows) ELSE flows
           In(k) == {i \in DOMAIN reported : reported[i].key = k}
<1>1. reported \in Seq(Flow)
  BY DEF TableInv, TypeOK
<1>2. \A k \in Pairs : In(k) # {} => reported[CHOOSE i \in In(k) : TRUE].pkts \in Nat
  <2>1. \A k \in Pairs : \A i \in In(k) : reported[i] \in Flow
    BY <1>1
  <2> QED
    BY <2>1 DEF Flow
<1>3. /\ nflows' \in Nat /\ dropped' \in Nat /\ TableSound' /\ taken' \in [Pairs -> Nat]
      /\ UNCHANGED <<entries, maxflows, array, cmd, counted, lost>>
  <2>1. UNCHANGED <<entries, maxflows, array, cmd, counted, lost>>
    BY DEF Fetched
  <2>2. CASE cmd[c].flush
    <3>1. /\ Reset
          /\ taken' = [k \in Pairs |-> taken[k] + (IF In(k) = {} THEN 0
                            ELSE reported[CHOOSE i \in In(k) : TRUE].pkts)]
      BY <2>2 DEF Fetched
    <3>2. taken \in [Pairs -> Nat]
      BY DEF TableInv, TypeOK
    <3> HIDE DEF reported, In
    <3>3. taken' \in [Pairs -> Nat]
      BY <1>2, <3>1, <3>2
    <3> QED
      BY <2>1, <3>1, <3>3, ResetSound DEF TableInv
  <2>3. CASE ~cmd[c].flush
    BY <2>1, <2>3 DEF Fetched, TableInv, TypeOK, TableSound
  <2> QED
    BY <2>1, <2>2, <2>3
<1>4. CASE cmd[c].op = "save"
  <2>1. /\ got' = [got EXCEPT ![c] = reported]
        /\ n' = [n EXCEPT ![c] = 0] /\ from' = [from EXCEPT ![c] = 0]
        /\ pc' = [pc EXCEPT ![c] = "write"]
        /\ UNCHANGED <<room, todo, off>>
    BY <1>4 DEF Fetched, Goto
  <2> HIDE DEF reported, In
  <2>2. TypeOK'
    BY <1>1, <1>3, <2>1 DEF TableInv, TypeOK, Labels
  <2>3. CopyInv'
    BY <1>3, <2>1 DEF TableInv, TypeOK, CopyInv
  <2> QED
    BY <1>3, <2>2, <2>3 DEF TableInv
<1>5. CASE cmd[c].op # "save"
  <2>1. Done(c)
    BY <1>5 DEF Fetched
  <2>2. TypeOK'
    BY <1>3, <2>1, DoneInv DEF TableInv, TypeOK
  <2>3. CopyInv'
    BY <1>3, <2>1, DoneInv DEF TableInv, CopyInv
  <2> QED
    BY <1>3, <2>2, <2>3 DEF TableInv
<1> QED
  BY <1>4, <1>5

LEMMA FetchInv == ASSUME TableInv, HistoryOK', NEW c \in Callers, Fetch(c) PROVE TableInv'
<1>1. CASE Done(c) /\ UNCHANGED <<device, cmd, tally>>
  <2>1. TypeOK'
    BY <1>1, DoneInv DEF Fetch, TableInv, TypeOK, device, tally
  <2>2. CopyInv'
    BY <1>1, DoneInv DEF TableInv, CopyInv, device
  <2> QED
    BY <1>1, <2>1, <2>2 DEF TableInv, TableSound, device
<1>2. CASE Fetched(c, <<>>)
  <2>1. << >> \in Seq(Flow) /\ UNCHANGED <<file, packets, calls>>
    BY DEF Fetch
  <2> QED
    BY <1>2, <2>1, FetchedInv
<1>3. CASE /\ nflows > 0
           /\ n' = [n EXCEPT ![c] = 0] /\ from' = [from EXCEPT ![c] = array]
           /\ pc' = [pc EXCEPT ![c] = "copyout"]
           /\ UNCHANGED <<device, cmd, room, got, todo, off, tally>>
  <2>1. TypeOK'
    BY <1>3 DEF Fetch, TableInv, TypeOK, device, tally, Labels, Copying
  <2>2. CopyInv'
    BY <1>3, FlowAssumption DEF TableInv, TypeOK, TableSound, CopyInv, device
  <2> QED
    BY <1>3, <2>1, <2>2 DEF TableInv, TableSound, device
<1> QED
  BY <1>1, <1>2, <1>3 DEF Fetch, Goto

LEMMA CopyOutInv == ASSUME TableInv, HistoryOK', NEW c \in Callers, CopyOut(c) PROVE TableInv'
<1>1. Slot(c) \in Flow
  <2>1. CASE from[c] = array
    BY <2>1, FlowAssumption DEF Slot, CopyOut, TableInv, TypeOK, CopyInv
  <2> QED
    BY <2>1, JunkType DEF Slot
<1>2. Copied(c) \in Seq(Flow)
  BY <1>1 DEF Copied, TableInv, TypeOK
<1>3. CASE n[c] + 1 < nflows
  <2>1. /\ n' = [n EXCEPT ![c] = @ + 1] /\ from' = [from EXCEPT ![c] = array]
        /\ got' = [got EXCEPT ![c] = Copied(c)]
        /\ UNCHANGED <<device, file, pc, cmd, room, todo, off, packets, calls, tally>>
    BY <1>3 DEF CopyOut
  <2>2. TypeOK'
    <3>1. n' \in [Callers -> Nat] /\ from' \in [Callers -> Nat] /\ got' \in [Callers -> Seq(Flow)]
      BY <1>2, <2>1 DEF TableInv, TypeOK
    <3> QED
      BY <2>1, <3>1 DEF TableInv, TypeOK, device, tally
  <2>3. CopyInv'
    BY <1>3, <2>1, FlowAssumption DEF TableInv, TypeOK, TableSound, CopyInv, device
  <2> QED
    BY <2>1, <2>2, <2>3 DEF TableInv, TableSound, device
<1>4. CASE ~(n[c] + 1 < nflows)
  BY <1>2, <1>4, FetchedInv DEF CopyOut
<1> QED
  BY <1>3, <1>4

LEMMA EndInv == ASSUME TableInv, HistoryOK', NEW c \in Callers, Fault(c) \/ Write(c) PROVE TableInv'
<1>1. file' \in Seq(Flow) /\ Done(c)
      /\ UNCHANGED <<device, cmd, packets, calls, tally>>
  <2>1. file \in Seq(Flow) /\ got[c] \in Seq(Flow)
    BY DEF TableInv, TypeOK
  <2>2. CASE Fault(c)
    BY <2>1, <2>2 DEF Fault
  <2>3. CASE Write(c)
    BY <2>1, <2>3 DEF Write
  <2> QED
    BY <2>2, <2>3
<1>2. TypeOK'
  BY <1>1, DoneInv DEF TableInv, TypeOK, device, tally
<1>3. CopyInv'
  BY <1>1, DoneInv DEF TableInv, CopyInv, device
<1> QED
  BY <1>1, <1>2, <1>3 DEF TableInv, TableSound, device

LEMMA ChunkInv == ASSUME TableInv, HistoryOK', NEW c \in Callers, Chunk(c) PROVE TableInv'
<1>1. UNCHANGED <<device, file, cmd, packets, calls, tally>>
  BY DEF Chunk
<1>2. CASE LeftOf(c) <= 0
  <2>1. Done(c)
    BY <1>2 DEF Chunk
  <2>2. TypeOK'
    BY <1>1, <2>1, DoneInv DEF TableInv, TypeOK, device, tally
  <2>3. CopyInv'
    BY <1>1, <2>1, DoneInv DEF TableInv, CopyInv, device
  <2> QED
    BY <1>1, <2>2, <2>3 DEF TableInv, TableSound, device
<1>3. CASE ~(LeftOf(c) <= 0)
  <2> DEFINE len == IF LeftOf(c) < room[c] THEN LeftOf(c) ELSE room[c]
             part == SubSeq(file, off[c] + 1, off[c] + len)
  <2>1. /\ todo' = [todo EXCEPT ![c] = part] /\ off' = [off EXCEPT ![c] = @ + len]
        /\ room' = IF cmd[c].flush THEN [room EXCEPT ![c] = len] ELSE room
        /\ pc' = [pc EXCEPT ![c] = "put"]
        /\ UNCHANGED <<n, from, got>>
    BY <1>3 DEF Chunk, Goto
  <2>2. /\ len \in Nat \ {0} /\ off[c] \in Nat /\ off[c] + len <= Len(file)
        /\ file \in Seq(Flow)
    <3>1. /\ pc[c] = "chunk" /\ off[c] \in Nat /\ room[c] \in Nat /\ room[c] > 0
          /\ file \in Seq(Flow)
      BY DEF Chunk, TableInv, TypeOK, CopyInv
    <3>2. Len(file) \in Nat
      BY <3>1
    <3> QED
      BY <1>3, <3>1, <3>2 DEF LeftOf
  <2> HIDE DEF len
  <2>3. part \in Seq(Flow) /\ Len(part) = len
    BY <2>2
  <2>4. part # <<>>
    BY <2>2, <2>3
  <2> HIDE DEF part
  <2>5. TypeOK'
    <3>1. off' \in [Callers -> Nat] /\ room' \in [Callers -> Nat]
      BY <2>1, <2>2 DEF TableInv, TypeOK
    <3>2. todo' \in [Callers -> Seq(Flow)] /\ pc' \in [Callers -> Labels]
      BY <2>1, <2>3 DEF TableInv, TypeOK, Labels
    <3> QED
      BY <1>1, <2>1, <3>1, <3>2 DEF TableInv, TypeOK, device, tally
  <2>6. CopyInv'
    BY <1>1, <2>1, <2>2, <2>4 DEF Chunk, TableInv, TypeOK, CopyInv, device
  <2> QED
    BY <1>1, <2>5, <2>6 DEF TableInv, TableSound, device
<1> QED
  BY <1>2, <1>3

LEMMA PutInv == ASSUME TableInv, HistoryOK', NEW c \in Callers, Put(c) PROVE TableInv'
<1>1. [k \in Pairs |-> taken[k] + InTable(k)] \in [Pairs -> Nat]
  BY TakenType DEF TableInv
<1>2. /\ nflows' \in Nat /\ dropped' \in Nat /\ TableSound' /\ taken' \in [Pairs -> Nat]
      /\ UNCHANGED <<entries, maxflows, array>>
  <2>1. CASE cmd[c].flush
    BY <1>1, <2>1, ResetSound DEF Put, TableInv
  <2>2. CASE ~cmd[c].flush
    BY <2>2 DEF Put, TableInv, TypeOK, TableSound
  <2> QED
    BY <2>1, <2>2
<1>3. TypeOK'
  BY <1>2 DEF Put, Goto, TableInv, TypeOK, buffers, Labels, Copying
<1>4. CopyInv'
  BY <1>2 DEF Put, Goto, TableInv, TypeOK, CopyInv, buffers
<1> QED
  BY <1>2, <1>3, <1>4 DEF TableInv

LEMMA CopyInInv == ASSUME TableInv, HistoryOK', NEW c \in Callers, CopyIn(c) PROVE TableInv'
<1> DEFINE next == IF Len(todo[c]) = 1 THEN [pc EXCEPT ![c] = "chunk"] ELSE pc
<1>1. todo[c] \in Seq(Flow) /\ todo[c] # <<>> /\ room[c] > 0
  BY DEF CopyIn, TableInv, TypeOK, CopyInv
<1>2. /\ Head(todo[c]) \in Flow /\ Tail(todo[c]) \in Seq(Flow)
      /\ Len(todo[c]) # 1 => Tail(todo[c]) # <<>>
  <2> DEFINE flows == todo[c]
  <2>1. flows \in Seq(Flow) /\ flows # <<>>
    BY <1>1
  <2> HIDE DEF flows
  <2>2. Len(flows) \in Nat \ {0}
    BY <2>1, EmptySeq
  <2>3. Head(flows) \in Flow /\ Tail(flows) \in Seq(Flow) /\ Len(Tail(flows)) = Len(flows) - 1
    BY <2>1, HeadTailProperties
  <2>4. Len(flows) # 1 => Tail(flows) # <<>>
    <3>1. Tail(flows) = << >> => Len(Tail(flows)) = 0
      BY <2>3, EmptySeq
    <3> QED
      BY <2>2, <2>3, <3>1
  <2> QED
    BY <2>3, <2>4 DEF flows
<1>3. next \in [Callers -> Labels]
  BY DEF TableInv, TypeOK, Labels
<1>4. /\ Insert(Head(todo[c]), next) /\ todo' = [todo EXCEPT ![c] = Tail(@)]
      /\ UNCHANGED <<file, cmd, room, n, from, got, off, packets, calls, taken>>
  BY DEF CopyIn
<1>5. TypeOK'
  BY <1>2, <1>3, <1>4, InsertInv, FlowAssumption DEF TableInv, TypeOK
<1>6. CopyInv'
  <2>1. \A d \in Callers : pc'[d] # "scan" => pc'[d] = next[d]
    BY <1>2, <1>3, <1>4, InsertInv DEF TableInv
  <2>2. maxflows' = maxflows /\ array' = array
    BY <1>2, <1>3, <1>4, InsertInv DEF TableInv
  <2>3. next[c] = IF Len(todo[c]) = 1 THEN "chunk" ELSE pc[c]
    BY DEF TableInv, TypeOK
  <2>4. \A d \in Callers \ {c} : next[d] = pc[d] /\ todo'[d] = todo[d]
    BY <1>4 DEF TableInv, TypeOK
  <2>5. todo'[c] = Tail(todo[c]) /\ pc[c] = "copyin"
    BY <1>4 DEF CopyIn, TableInv, TypeOK
  <2> HIDE DEF next
  <2> QED
    BY <1>1, <1>2, <1>4, <2>1, <2>2, <2>3, <2>4, <2>5 DEF TableInv, CopyInv
<1> QED
  BY <1>2, <1>3, <1>4, <1>5, <1>6, InsertInv DEF TableInv

-------------------------------------------------------------------------------
LEMMA TableStep == TableInv /\ [Next]_vars => TableInv'
<1> SUFFICES ASSUME TableInv, [Next]_vars PROVE TableInv'
  OBVIOUS
<1> HistoryOK'
  BY HistoryStep DEF TableInv
<1>1. CASE UNCHANGED vars
  BY <1>1 DEF vars, device, buffers, tally, TableInv, TypeOK, TableSound, CopyInv
<1>2. ASSUME NEW k \in Keys, Packet(k) PROVE TableInv'
  BY <1>2, PacketInv
<1>3. ASSUME NEW c \in Callers, NEW m \in Cmds,
             Flush(c, m) \/ Resize(c, m) \/ Open(c, m) \/ Poll(c, m)
      PROVE  TableInv'
  BY <1>3, FlushInv, ResizeInv, OpenInv, PollInv
<1>4. ASSUME NEW c \in Callers, Step(c) PROVE TableInv'
  BY <1>4, PollInv, FetchInv, CopyOutInv, EndInv, ChunkInv, PutInv, CopyInInv DEF Step
<1> QED
  BY <1>1, <1>2, <1>3, <1>4 DEF Next

\* Every variable keeps its type: in particular the array has maxflows slots and
\* each holds a flow (ipflow_collect.c, ipflow_dev.c, bin/ipflow/ipflow.c).
THEOREM FlowTypeCorrect == Spec => []TypeOK
<1>1. TableInv => TypeOK
  BY DEF TableInv
<1> QED
  BY <1>1, InitInv, TableStep, PTL DEF Spec

\* The slots in use fit in the array and hold one flow per pair, whatever is
\* inserted, reset or resized while copies sleep (ipflow_insert(),
\* ipflow_realloc(), ipflow_flush()).
THEOREM FlowTableSound == Spec => []TableSound
<1>1. TableInv => TableSound
  BY DEF TableInv
<1> QED
  BY <1>1, InitInv, TableStep, PTL DEF Spec

\* Nobody sleeps in poll() in front of a table with flows, although only the
\* first flow wakes (ipflow_insert(), ipflow_collect.c:223; ipflowpoll()).
THEOREM PollersWoken == Spec => []NoSleepingPoller
<1>1. Init => NoSleepingPoller
  BY DEF Init, NoSleepingPoller
<1>2. TableInv /\ NoSleepingPoller /\ [Next]_vars => NoSleepingPoller'
  <2> SUFFICES ASSUME TableInv, NoSleepingPoller, [Next]_vars,
                      NEW c \in Callers, pc'[c] = "poll"
               PROVE  nflows' = 0
    BY DEF NoSleepingPoller
  <2>1. ASSUME NEW f, NEW next \in [Callers -> Labels], Insert(f, next),
               next[c] = "poll" => nflows = 0
        PROVE  nflows' = 0
    <3>1. nflows \in 0 .. maxflows /\ maxflows \in Nat \ {0}
      BY FlowAssumption DEF TableInv, TypeOK, TableSound
    <3>2. CASE nflows' = nflows /\ pc' = next
      BY <2>1, <3>2
    <3>3. CASE nflows' = nflows + 1
      <4>1. nflows' # 1
        BY <2>1, <3>1, <3>3 DEF Insert, Wakes, Slots, Full
      <4>2. pc' = next
        BY <2>1, <3>3, <4>1, <3>1 DEF Insert, Wakes, Slots, Full
      <4> QED
        BY <2>1, <3>1, <3>3, <4>1, <4>2
    <3> QED
      BY <2>1, <3>2, <3>3 DEF Insert
  <2>2. pc \in [Callers -> Labels]
    BY DEF TableInv, TypeOK
  <2>3. CASE UNCHANGED vars
    BY <2>3 DEF vars, device, NoSleepingPoller
  <2>4. ASSUME NEW k \in Keys, Packet(k) PROVE nflows' = 0
    BY <2>1, <2>2, <2>4 DEF Packet, NoSleepingPoller
  <2>5. ASSUME NEW d \in Callers, CopyIn(d) PROVE nflows' = 0
    <3> DEFINE next == IF Len(todo[d]) = 1 THEN [pc EXCEPT ![d] = "chunk"] ELSE pc
    <3>1. Insert(Head(todo[d]), next)
      BY <2>5 DEF CopyIn
    <3>2. next \in [Callers -> Labels] /\ (next[c] = "poll" => pc[c] = "poll")
      BY <2>2 DEF Labels
    <3> HIDE DEF next
    <3> QED
      BY <2>1, <3>1, <3>2 DEF NoSleepingPoller
  <2>6. ASSUME NEW d \in Callers,
               \/ \E m \in Cmds : Flush(d, m) \/ Resize(d, m) \/ Open(d, m) \/ Poll(d, m)
               \/ PollAgain(d) \/ Fetch(d) \/ CopyOut(d) \/ Fault(d) \/ Write(d)
               \/ Chunk(d) \/ Put(d)
        PROVE  nflows' = 0
    <3>1. \/ nflows' = 0
          \/ /\ nflows' = nflows
             /\ \/ pc' = pc \/ Scan(d)
                \/ \E l \in Labels \ {"poll"} : pc' = [pc EXCEPT ![d] = l]
      <4>1. ASSUME NEW flows, Fetched(d, flows)
            PROVE  \/ nflows' = 0
                   \/ /\ nflows' = nflows
                      /\ \E l \in Labels \ {"poll"} : pc' = [pc EXCEPT ![d] = l]
        BY <4>1 DEF Fetched, Reset, Done, Goto, Labels
      <4> QED
        BY <2>6, <4>1 DEF Flush, Resize, Open, Poll, PollAgain, Fetch, CopyOut, Fault, Write,
           Chunk, Put, Reset, Done, Goto, Labels, Copying, device, buffers
    <3> QED
      BY <2>2, <3>1 DEF Scan, Goto, NoSleepingPoller
  <2> QED
    BY <2>3, <2>4, <2>5, <2>6 DEF Next, Step
<1> QED
  BY <1>1, <1>2, InitInv, TableStep, PTL DEF Spec

-------------------------------------------------------------------------------
(***************************************************************************)
(* The flow table is the meter of FlowMeter and accounts for every packet, *)
(* for any table size, processes and commands, with copies that sleep.     *)
(***************************************************************************)

\* A read with a reset that nobody disturbs has copied the slots 1 .. n[c] of the
\* array that is in use, with packets between those it found when it began and
\* those there are now.
ReadOf(c) ==
    /\ pc[c] \notin {"copyout", "write"} => got[c] = <<>>
    /\ c \in whole =>
          /\ pc[c] = "copyout" /\ cmd[c].flush
          /\ from[c] = array /\ n[c] < nflows /\ Len(got[c]) = n[c]
          /\ \A i \in 1 .. n[c] :
                /\ got[c][i].key = entries[i].key
                /\ since[c][entries[i].key] <= got[c][i].pkts
                /\ got[c][i].pkts <= entries[i].pkts
          /\ \A k \in Pairs : since[c][k] <= InTable(k)
ReadInv == \A c \in Callers : ReadOf(c)

\* The other processes have no mark.
SinceInv == \A c \in Callers : c \notin whole => since[c] = Nothing

MeterInv == TableInv /\ ReadInv /\ SinceInv

\* What a step does to a process that is not the one that makes it.
Still(d) == /\ pc'[d] = pc[d] \/ (pc[d] = "poll" /\ pc'[d] = "scan")
            /\ cmd'[d] = cmd[d] /\ from'[d] = from[d] /\ n'[d] = n[d] /\ got'[d] = got[d]

\* What a step may do to the table, as a user of the device sees it.
Held    == [k \in Pairs |-> InTable(k)]
Reading == {c \in Callers : pc[c] = "copyout" /\ cmd[c].flush}

Rests == Held' = Held /\ UNCHANGED tally
Grown == /\ nflows' >= nflows /\ array' = array
         /\ \A i \in 1 .. nflows : entries'[i].key = entries[i].key
                                   /\ entries[i].pkts <= entries'[i].pkts
         /\ \A k \in Pairs : InTable(k) <= InTable(k)'

Stands     == Rests /\ UNCHANGED marks /\ Reading' = Reading
Renews     == Rests /\ Disturb /\ Reading' = Reading
Begins(c)  == Rests /\ Enter(c) /\ c \notin Reading /\ Reading' = Reading \cup {c}
Fails(c)   == Rests /\ Leave(c) /\ c \in Reading /\ Reading' = Reading \ {c}
Counts(f)  == /\ counted' = [counted EXCEPT ![f.key] = @ + f.pkts]
              /\ \/ Held' = [Held EXCEPT ![f.key] = @ + f.pkts] /\ UNCHANGED lost
                 \/ lost' = [lost EXCEPT ![f.key] = @ + f.pkts] /\ Held' = Held
              /\ UNCHANGED <<taken, slipped, calm, marks>>
TakesAll   == /\ Held' = [k \in Pairs |-> 0]
              /\ taken' = [k \in Pairs |-> taken[k] + Held[k]]
              /\ UNCHANGED <<counted, lost, slipped, calm>>
              /\ Disturb /\ Reading' = Reading
\* out: the packets of each pair that are delivered.
Ends(c, out) == /\ c \in Reading /\ Reading' = Reading \ {c}
                /\ Held' = [k \in Pairs |-> 0] /\ Disturb
                /\ UNCHANGED <<counted, lost>>
                /\ taken' = [k \in Pairs |-> taken[k] + out[k]]
                /\ c \notin whole => calm' = FALSE
                /\ c \in whole =>
                      /\ \A k \in Pairs : since[c][k] <= out[k] /\ out[k] <= Held[k]
                      /\ slipped' = [k \in Pairs |-> slipped[k] + (Held[k] - since[c][k])]
                      /\ calm' = calm

MeterStep == \/ Stands \/ Renews \/ TakesAll
             \/ \E f \in Flow : Counts(f) /\ Reading' = Reading
             \/ \E c \in Callers : \/ Begins(c) \/ Fails(c)
                                   \/ \E out \in [Pairs -> Nat] : Ends(c, out)

-------------------------------------------------------------------------------
\* What the operations on the table do to what it holds.

LEMMA HeldKept ==
    ASSUME nflows' = nflows, \A i \in 1 .. nflows : entries'[i] = entries[i]
    PROVE  Held' = Held
<1>1. \A k \in Pairs : Slots(k)' = Slots(k)
  BY DEF Slots
<1>2. \A k \in Pairs : \A i \in Slots(k) : entries'[i] = entries[i]
  BY DEF Slots
<1>3. ASSUME NEW k \in Pairs PROVE InTable(k)' = InTable(k)
  <2>1. CASE Slots(k) = {}
    BY <1>1, <2>1 DEF InTable
  <2>2. CASE Slots(k) # {}
    <3>1. (CHOOSE i \in Slots(k) : TRUE) \in Slots(k)
      BY <2>2
    <3>2. /\ InTable(k) = entries[CHOOSE i \in Slots(k) : TRUE].pkts
          /\ InTable(k)' = entries'[CHOOSE i \in Slots(k) : TRUE].pkts
      BY <1>1, <2>2 DEF InTable
    <3> QED
      BY <1>2, <3>1, <3>2
  <2> QED
    BY <2>1, <2>2
<1> QED
  BY <1>3 DEF Held

LEMMA HeldReset == ASSUME Reset PROVE Held' = [k \in Pairs |-> 0]
<1>1. \A k \in Pairs : Slots(k)' = {}
  BY DEF Reset, Slots
<1>2. \A k \in Pairs : InTable(k)' = 0
  BY <1>1 DEF InTable
<1> QED
  BY <1>2 DEF Held

\* ipflow_insert() adds to the pair of the flow, or counts it as dropped.
LEMMA HeldInsert ==
    ASSUME NEW f \in Flow, NEW next, TypeOK, TableSound, Insert(f, next),
           UNCHANGED <<taken, slipped, calm, marks>>
    PROVE  Counts(f)
<1>1. /\ f.key \in Pairs /\ f.pkts \in Nat
      /\ nflows \in 0 .. maxflows /\ maxflows \in Nat
      /\ entries \in [1 .. maxflows -> Flow]
  BY FlowAssumption DEF Flow, TypeOK, TableSound
<1>2. counted' = [counted EXCEPT ![f.key] = @ + f.pkts]
  BY DEF Insert
<1>3. CASE Slots(f.key) # {}
  <2>1. /\ nflows' = nflows /\ lost' = lost
        /\ entries' = [i \in DOMAIN entries |->
                          IF i \in Slots(f.key)
                          THEN [entries[i] EXCEPT !.pkts = @ + f.pkts] ELSE entries[i]]
    BY <1>3 DEF Insert
  <2>2. \A i \in 1 .. maxflows :
           /\ entries'[i].key = entries[i].key
           /\ i \in Slots(f.key) => entries'[i].pkts = entries[i].pkts + f.pkts
           /\ i \notin Slots(f.key) => entries'[i] = entries[i]
    BY <1>1, <2>1 DEF Flow
  <2>3. \A k \in Pairs : Slots(k)' = Slots(k) /\ Slots(k) \subseteq 1 .. maxflows
    BY <1>1, <2>1, <2>2 DEF Slots
  <2>4. \A k \in Pairs : InTable(k)' = IF k = f.key THEN InTable(k) + f.pkts ELSE InTable(k)
    <3> SUFFICES ASSUME NEW k \in Pairs
                 PROVE  InTable(k)' = IF k = f.key THEN InTable(k) + f.pkts ELSE InTable(k)
      OBVIOUS
    <3>1. CASE Slots(k) = {}
      BY <1>3, <2>3, <3>1 DEF InTable
    <3>2. CASE Slots(k) # {}
      <4> DEFINE i == CHOOSE j \in Slots(k) : TRUE
      <4>1. i \in Slots(k) /\ i \in 1 .. maxflows
        BY <2>3, <3>2
      <4>2. InTable(k) = entries[i].pkts /\ InTable(k)' = entries'[i].pkts
        BY <2>3, <3>2 DEF InTable
      <4>3. i \in Slots(f.key) <=> k = f.key
        BY <4>1 DEF Slots
      <4> HIDE DEF i
      <4> QED
        BY <2>2, <4>1, <4>2, <4>3
    <3> QED
      BY <3>1, <3>2
  <2>5. Held' = [Held EXCEPT ![f.key] = @ + f.pkts]
    BY <1>1, <2>4 DEF Held
  <2> QED
    BY <1>2, <2>1, <2>5 DEF Counts
<1>4. CASE Slots(f.key) = {} /\ Full(nflows)
  <2>1. UNCHANGED <<entries, nflows>> /\ lost' = [lost EXCEPT ![f.key] = @ + f.pkts]
    BY <1>4 DEF Insert
  <2> QED
    BY <1>2, <2>1, HeldKept DEF Counts
<1>5. CASE Slots(f.key) = {} /\ ~Full(nflows)
  <2>1. /\ nflows' = nflows + 1 /\ entries' = [entries EXCEPT ![nflows + 1] = f]
        /\ lost' = lost
    BY <1>5 DEF Insert
  <2>2. nflows + 1 \in 1 .. maxflows
    BY <1>1, <1>5 DEF Full
  <2>3. /\ entries'[nflows + 1] = f
        /\ \A i \in 1 .. nflows : entries'[i] = entries[i]
    BY <1>1, <2>1, <2>2
  <2>4. Slots(f.key)' = {nflows + 1}
    BY <1>1, <1>5, <2>1, <2>3 DEF Slots
  <2>5. \A k \in Pairs : k # f.key => Slots(k)' = Slots(k)
    BY <1>1, <2>1, <2>3 DEF Slots
  <2>6. InTable(f.key)' = f.pkts /\ InTable(f.key) = 0
    BY <1>5, <2>3, <2>4 DEF InTable
  <2>7. ASSUME NEW k \in Pairs, k # f.key PROVE InTable(k)' = InTable(k)
    <3>1. CASE Slots(k) = {}
      BY <2>5, <2>7, <3>1 DEF InTable
    <3>2. CASE Slots(k) # {}
      <4>1. (CHOOSE i \in Slots(k) : TRUE) \in 1 .. nflows
        BY <3>2 DEF Slots
      <4>2. /\ InTable(k) = entries[CHOOSE i \in Slots(k) : TRUE].pkts
            /\ InTable(k)' = entries'[CHOOSE i \in Slots(k) : TRUE].pkts
        BY <2>5, <2>7, <3>2 DEF InTable
      <4> QED
        BY <2>3, <4>1, <4>2
    <3> QED
      BY <3>1, <3>2
  <2>8. Held' = [Held EXCEPT ![f.key] = @ + f.pkts]
    <3>1. \A k \in Pairs :
             InTable(k)' = IF k = f.key THEN InTable(k) + f.pkts ELSE InTable(k)
      BY <1>1, <2>6, <2>7
    <3> QED
      BY <1>1, <3>1 DEF Held
  <2> QED
    BY <1>2, <2>1, <2>8 DEF Counts
<1> QED
  BY <1>3, <1>4, <1>5

-------------------------------------------------------------------------------
\* ipflow_insert() only adds to what the table holds.
LEMMA InsertGrows ==
    ASSUME NEW f \in Flow, NEW next \in [Callers -> Labels], TableInv, Insert(f, next),
           UNCHANGED <<taken, slipped, calm, marks>>
    PROVE  Grown /\ Counts(f)
<1>1. Counts(f)
  BY HeldInsert DEF TableInv
<1>2. /\ f.key \in Pairs /\ f.pkts \in Nat
      /\ nflows \in 0 .. maxflows /\ maxflows \in Nat
      /\ entries \in [1 .. maxflows -> Flow]
  BY FlowAssumption DEF Flow, TableInv, TypeOK, TableSound
<1>3. \A i \in 1 .. maxflows : entries[i].pkts \in Nat
  BY <1>2 DEF Flow
<1>4. /\ array' = array /\ nflows' >= nflows
      /\ \A i \in 1 .. nflows : entries'[i].key = entries[i].key
                                /\ entries[i].pkts <= entries'[i].pkts
  <2>1. array' = array
    BY DEF Insert
  <2>2. CASE Slots(f.key) # {}
    <3>1. /\ nflows' = nflows
          /\ entries' = [i \in DOMAIN entries |->
                            IF i \in Slots(f.key)
                            THEN [entries[i] EXCEPT !.pkts = @ + f.pkts] ELSE entries[i]]
      BY <2>2 DEF Insert
    <3>2. \A i \in 1 .. maxflows :
             /\ entries'[i].key = entries[i].key
             /\ entries'[i].pkts = entries[i].pkts \/ entries'[i].pkts = entries[i].pkts + f.pkts
      BY <1>2, <3>1 DEF Flow
    <3> QED
      BY <1>2, <1>3, <2>1, <3>1, <3>2
  <2>3. CASE Slots(f.key) = {} /\ Full(nflows)
    <3>1. UNCHANGED <<entries, nflows>>
      BY <2>3 DEF Insert
    <3> QED
      BY <1>2, <1>3, <2>1, <3>1
  <2>4. CASE Slots(f.key) = {} /\ ~Full(nflows)
    <3>1. nflows' = nflows + 1 /\ entries' = [entries EXCEPT ![nflows + 1] = f]
      BY <2>4 DEF Insert
    <3>2. \A i \in 1 .. nflows : entries'[i] = entries[i]
      BY <1>2, <3>1
    <3> QED
      BY <1>2, <1>3, <2>1, <3>1, <3>2
  <2> QED
    BY <2>2, <2>3, <2>4
<1>5. \A k \in Pairs : Held[k] <= Held'[k]
  <2>1. \A k \in Pairs : Held[k] \in Nat
    BY InTableType DEF TableInv, Held
  <2>2. DOMAIN Held = Pairs
    BY DEF Held
  <2>3. Held' = Held \/ Held' = [Held EXCEPT ![f.key] = @ + f.pkts]
    BY <1>1 DEF Counts
  <2> HIDE DEF Held
  <2>4. CASE Held' = Held
    BY <2>1, <2>4
  <2>5. CASE Held' = [Held EXCEPT ![f.key] = @ + f.pkts]
    <3>1. \A k \in Pairs : Held'[k] = Held[k] \/ Held'[k] = Held[k] + f.pkts
      BY <2>2, <2>5
    <3> QED
      BY <1>2, <2>1, <3>1
  <2> QED
    BY <2>3, <2>4, <2>5
<1>6. \A k \in Pairs : Held[k] = InTable(k) /\ Held'[k] = InTable(k)'
  BY DEF Held
<1> QED
  BY <1>1, <1>4, <1>5, <1>6 DEF Grown

\* A table that is left alone has not shrunk.
LEMMA KeptGrown ==
    ASSUME TableInv, nflows' = nflows, array' = array,
           \A i \in 1 .. nflows : entries'[i] = entries[i]
    PROVE  Grown /\ Held' = Held
<1>1. Held' = Held
  BY HeldKept
<1>2. /\ nflows \in 0 .. maxflows /\ maxflows \in Nat
      /\ \A i \in 1 .. nflows : entries[i].pkts \in Nat
  <2>1. /\ nflows \in 0 .. maxflows /\ maxflows \in Nat
        /\ entries \in [1 .. maxflows -> Flow]
    BY FlowAssumption DEF TableInv, TypeOK, TableSound
  <2>2. \A i \in 1 .. nflows : entries[i] \in Flow
    BY <2>1
  <2> QED
    BY <2>1, <2>2 DEF Flow
<1>3. \A k \in Pairs : Held[k] \in Nat
  BY InTableType DEF TableInv, Held
<1>4. \A k \in Pairs : Held[k] = InTable(k) /\ Held'[k] = InTable(k)'
  BY DEF Held
<1> QED
  BY <1>1, <1>2, <1>3, <1>4 DEF Grown

LEMMA InsertWakes ==
    ASSUME NEW f, NEW next \in [Callers -> Labels], Insert(f, next), NEW c \in Callers
    PROVE  pc'[c] = next[c] \/ (pc'[c] = "scan" /\ next[c] = "poll")
<1>1. \/ pc' = next
      \/ pc' = [d \in Callers |-> IF next[d] = "poll" THEN "scan" ELSE next[d]]
  BY DEF Insert
<1> QED
  BY <1>1

-------------------------------------------------------------------------------
\* A step of c leaves the others where they are.

LEMMA DoneStill ==
    ASSUME TypeOK, NEW c \in Callers, Done(c), cmd' = cmd
    PROVE  /\ \A d \in Callers \ {c} : Still(d)
           /\ pc'[c] = "idle" /\ got'[c] = <<>>
BY DEF TypeOK, Done, Goto, Still

LEMMA StartStill ==
    ASSUME TypeOK, NEW c \in Callers, NEW m \in Cmds,
           Flush(c, m) \/ Resize(c, m) \/ Open(c, m) \/ Poll(c, m)
    PROVE  /\ \A d \in Callers \ {c} : Still(d)
           /\ got' = got /\ pc[c] = "idle" /\ pc'[c] \in {"idle", "poll", "fetch", "chunk"}
<1>1. /\ pc[c] = "idle" /\ cmd' = [cmd EXCEPT ![c] = m] /\ UNCHANGED <<n, from, got>>
      /\ \E l \in {"idle", "poll", "fetch", "chunk"} :
            pc' = pc \/ pc' = [pc EXCEPT ![c] = l]
  BY DEF Flush, Resize, Open, Poll, Start, Scan, Goto, buffers
<1> QED
  BY <1>1 DEF TypeOK, Still

LEMMA FetchedStill ==
    ASSUME TypeOK, NEW c \in Callers, NEW flows, Fetched(c, flows)
    PROVE  /\ \A d \in Callers \ {c} : Still(d)
           /\ pc'[c] = "write" \/ (pc'[c] = "idle" /\ got'[c] = <<>>)
<1>1. CASE cmd[c].op = "save"
  <2>1. \E out : got' = [got EXCEPT ![c] = out]
    BY <1>1 DEF Fetched
  <2>2. /\ n' = [n EXCEPT ![c] = 0] /\ from' = [from EXCEPT ![c] = 0] /\ cmd' = cmd
        /\ pc' = [pc EXCEPT ![c] = "write"]
    BY <1>1 DEF Fetched, Goto
  <2> QED
    BY <2>1, <2>2 DEF TypeOK, Still
<1>2. CASE cmd[c].op # "save"
  <2>1. Done(c) /\ cmd' = cmd
    BY <1>2 DEF Fetched
  <2> QED
    BY <2>1, DoneStill
<1> QED
  BY <1>1, <1>2

-------------------------------------------------------------------------------
\* What keeps ReadInv, and the set of reads with a reset.

LEMMA ReadKept ==
    ASSUME TableInv, TableInv', NEW d \in Callers, ReadOf(d), Grown, Still(d),
           d \in whole' => d \in whole /\ since'[d] = since[d]
    PROVE  ReadOf(d)'
<1>1. Still(d) /\ ReadOf(d) /\ (d \in whole' => d \in whole /\ since'[d] = since[d])
  OBVIOUS
<1>2. pc'[d] \notin {"copyout", "write"} => got'[d] = <<>>
  BY <1>1 DEF Still, ReadOf
<1>3. ASSUME d \in whole'
      PROVE  /\ pc'[d] = "copyout" /\ cmd'[d].flush
             /\ from'[d] = array' /\ n'[d] < nflows' /\ Len(got'[d]) = n'[d]
             /\ \A i \in 1 .. n'[d] :
                   /\ got'[d][i].key = entries'[i].key
                   /\ since'[d][entries'[i].key] <= got'[d][i].pkts
                   /\ got'[d][i].pkts <= entries'[i].pkts
             /\ \A k \in Pairs : since'[d][k] <= InTable(k)'
  <2>1. /\ pc[d] = "copyout" /\ cmd[d].flush
        /\ from[d] = array /\ n[d] < nflows /\ Len(got[d]) = n[d]
        /\ \A i \in 1 .. n[d] :
              /\ got[d][i].key = entries[i].key
              /\ since[d][entries[i].key] <= got[d][i].pkts
              /\ got[d][i].pkts <= entries[i].pkts
        /\ \A k \in Pairs : since[d][k] <= InTable(k)
    BY <1>1, <1>3 DEF ReadOf
  <2>2. /\ pc'[d] = pc[d] /\ cmd'[d] = cmd[d] /\ from'[d] = from[d] /\ n'[d] = n[d]
        /\ got'[d] = got[d] /\ since'[d] = since[d]
    BY <1>1, <1>3, <2>1 DEF Still
  <2>3. /\ n[d] \in Nat /\ nflows \in 0 .. maxflows /\ maxflows \in Nat
        /\ nflows' \in 0 .. maxflows' /\ maxflows' \in Nat
        /\ entries \in [1 .. maxflows -> Flow] /\ entries' \in [1 .. maxflows' -> Flow]
        /\ got[d] \in Seq(Flow) /\ since[d] \in [Pairs -> Nat]
    <3>1. /\ nflows \in 0 .. maxflows /\ maxflows \in Nat
          /\ entries \in [1 .. maxflows -> Flow]
      BY FlowAssumption DEF TableInv, TypeOK, TableSound
    <3>2. /\ nflows' \in 0 .. maxflows' /\ maxflows' \in Nat
          /\ entries' \in [1 .. maxflows' -> Flow]
      BY FlowAssumption DEF TableInv, TypeOK, TableSound
    <3>3. n[d] \in Nat /\ got[d] \in Seq(Flow) /\ since[d] \in [Pairs -> Nat]
      BY DEF TableInv, TypeOK, HistoryOK
    <3> QED
      BY <3>1, <3>2, <3>3
  <2>4. /\ nflows' >= nflows /\ array' = array
        /\ \A i \in 1 .. nflows : entries'[i].key = entries[i].key
                                  /\ entries[i].pkts <= entries'[i].pkts
        /\ \A k \in Pairs : InTable(k) <= InTable(k)'
    BY DEF Grown
  <2>5. ASSUME NEW i \in 1 .. n[d]
        PROVE  /\ got[d][i].key = entries'[i].key
               /\ since[d][entries'[i].key] <= got[d][i].pkts
               /\ got[d][i].pkts <= entries'[i].pkts
    <3>1. i \in 1 .. nflows /\ i \in 1 .. maxflows /\ i \in 1 .. maxflows' /\ i \in 1 .. Len(got[d])
      BY <2>1, <2>3, <2>4
    <3>2. entries[i] \in Flow /\ entries'[i] \in Flow /\ got[d][i] \in Flow
      BY <2>3, <3>1
    <3>3. entries[i].pkts \in Nat /\ entries'[i].pkts \in Nat /\ got[d][i].pkts \in Nat
      BY <3>2 DEF Flow
    <3> QED
      BY <2>1, <2>4, <3>1, <3>3
  <2>6. ASSUME NEW k \in Pairs PROVE since[d][k] <= InTable(k)'
    <3>1. InTable(k) \in Nat
      BY InTableType DEF TableInv
    <3>2. InTable(k)' \in Nat
      <4>1. Slots(k)' \subseteq 1 .. nflows'
        BY DEF Slots
      <4>2. \A i \in Slots(k)' : entries'[i] \in Flow
        BY <2>3, <4>1
      <4>3. CASE Slots(k)' # {}
        BY <4>2, <4>3 DEF InTable, Flow
      <4> QED
        BY <4>3 DEF InTable
    <3>3. InTable(k) <= InTable(k)'
      BY <2>4
    <3>4. since[d][k] <= InTable(k) /\ since[d][k] \in Nat
      BY <2>1, <2>3
    <3> QED
      BY <3>1, <3>2, <3>3, <3>4
  <2>7. n[d] < nflows'
    BY <2>1, <2>3, <2>4
  <2> QED
    BY <2>1, <2>2, <2>4, <2>5, <2>6, <2>7
<1> QED
  BY <1>2, <1>3 DEF ReadOf

LEMMA StepKeeps ==
    ASSUME TableInv, TableInv', ReadInv, NEW c \in Callers, Grown, ReadOf(c)',
           \A d \in Callers \ {c} : Still(d) /\ (d \in whole' => d \in whole /\ since'[d] = since[d])
    PROVE  ReadInv'
<1>1. \A d \in Callers \ {c} : ReadOf(d)'
  BY ReadKept DEF ReadInv
<1> QED
  BY <1>1 DEF ReadInv

LEMMA DisturbKeeps ==
    ASSUME ReadInv, NEW c \in Callers, Disturb, \A d \in Callers \ {c} : Still(d),
           pc'[c] \notin {"copyout", "write"} => got'[c] = <<>>
    PROVE  ReadInv'
<1>1. whole' = {}
  BY DEF Disturb
<1>2. \A d \in Callers : pc'[d] \notin {"copyout", "write"} => got'[d] = <<>>
  BY DEF ReadInv, ReadOf, Still
<1> QED
  BY <1>1, <1>2 DEF ReadInv, ReadOf

LEMMA ReadingApart ==
    ASSUME NEW c, \A d \in Callers \ {c} : Still(d)
    PROVE  Reading' \ {c} = Reading \ {c}
BY DEF Reading, Still

LEMMA ReadingStays ==
    ASSUME NEW c, \A d \in Callers \ {c} : Still(d), c \notin Reading, c \notin Reading'
    PROVE  Reading' = Reading
<1>1. Reading' \ {c} = Reading \ {c}
  BY ReadingApart
<1> QED
  BY <1>1

-------------------------------------------------------------------------------
\* Each action, on the invariant and on the meter.

LEMMA PacketMeter ==
    ASSUME MeterInv, TableInv', NEW k \in Keys, Packet(k)
    PROVE  ReadInv' /\ MeterStep
<1> DEFINE f == [key |-> k, pkts |-> 1]
<1>1. /\ f \in Flow /\ Insert(f, pc) /\ UNCHANGED <<taken, slipped, calm, marks>>
      /\ UNCHANGED <<cmd, from, n, got>>
  BY DEF Packet, Flow, Pairs, buffers
<1> HIDE DEF f
<1>2. pc \in [Callers -> Labels]
  BY DEF MeterInv, TableInv, TypeOK
<1>3. Grown /\ Counts(f)
  BY <1>1, <1>2, InsertGrows DEF MeterInv
<1>4. \A c \in Callers : Still(c)
  BY <1>1, <1>2, InsertWakes DEF Still
<1>5. ReadInv'
  <2>1. whole' = whole /\ since' = since
    BY <1>1 DEF marks
  <2>2. \A c \in Callers : ReadOf(c)'
    BY <1>3, <1>4, <2>1, ReadKept DEF MeterInv, ReadInv
  <2> QED
    BY <2>2 DEF ReadInv
<1>6. Reading' = Reading
  BY <1>4 DEF Reading, Still
<1> QED
  BY <1>1, <1>3, <1>5, <1>6 DEF MeterStep

\* A process that is not copying, before and after, and touches no other's marks.
LEMMA IdleKeeps ==
    ASSUME MeterInv, TableInv', NEW c \in Callers, Grown, UNCHANGED marks,
           \A d \in Callers \ {c} : Still(d), pc[c] # "copyout", pc'[c] # "copyout",
           pc'[c] # "write" => got'[c] = <<>>
    PROVE  ReadInv' /\ Reading' = Reading
<1>1. whole' = whole /\ since' = since /\ c \notin whole
  BY DEF marks, MeterInv, ReadInv, ReadOf
<1>2. ReadOf(c)'
  BY <1>1 DEF ReadOf
<1>3. ReadInv'
  BY <1>1, <1>2, StepKeeps DEF MeterInv
<1>4. Reading' = Reading
  <2>1. c \notin Reading /\ c \notin Reading'
    BY DEF Reading
  <2> QED
    BY <2>1, ReadingStays
<1> QED
  BY <1>3, <1>4

LEMMA StartMeter ==
    ASSUME MeterInv, TableInv', NEW c \in Callers, NEW m \in Cmds,
           Flush(c, m) \/ Resize(c, m) \/ Open(c, m) \/ Poll(c, m)
    PROVE  ReadInv' /\ MeterStep
<1>1. /\ \A d \in Callers \ {c} : Still(d)
      /\ pc[c] = "idle" /\ pc'[c] \in {"idle", "poll", "fetch", "chunk"} /\ got'[c] = <<>>
  <2>1. /\ \A d \in Callers \ {c} : Still(d)
        /\ got' = got /\ pc[c] = "idle" /\ pc'[c] \in {"idle", "poll", "fetch", "chunk"}
    BY StartStill DEF MeterInv, TableInv
  <2> QED
    BY <2>1 DEF MeterInv, ReadInv, ReadOf
<1>2. Reading' = Reading
  <2>1. c \notin Reading /\ c \notin Reading'
    BY <1>1 DEF Reading
  <2> QED
    BY <1>1, <2>1, ReadingStays
<1>3. CASE Flush(c, m)
  <2>1. /\ Reset /\ Disturb /\ taken' = [k \in Pairs |-> taken[k] + InTable(k)]
        /\ UNCHANGED <<counted, lost, slipped, calm>>
    BY <1>3 DEF Flush
  <2>2. TakesAll
    BY <1>2, <2>1, HeldReset DEF TakesAll, Held
  <2>3. ReadInv'
    BY <1>1, <2>1, DisturbKeeps DEF MeterInv
  <2> QED
    BY <2>2, <2>3 DEF MeterStep
<1>4. CASE Resize(c, m) /\ Resizes(m.size)
  <2>1. /\ nflows' = nflows /\ Disturb /\ UNCHANGED tally
        /\ entries' = [i \in 1 .. m.size |-> IF i <= nflows THEN entries[i] ELSE Junk]
    BY <1>4 DEF Resize
  <2>2. m.size \in Nat /\ nflows \in Nat /\ nflows <= m.size
    BY <1>4, FlowAssumption DEF Resizes, CmdRec, MeterInv, TableInv, TypeOK
  <2>3. \A i \in 1 .. nflows : entries'[i] = entries[i]
    BY <2>1, <2>2
  <2>4. Renews
    BY <1>2, <2>1, <2>3, HeldKept DEF Renews, Rests
  <2>5. ReadInv'
    BY <1>1, <2>1, DisturbKeeps DEF MeterInv
  <2> QED
    BY <2>4, <2>5 DEF MeterStep
<1>5. CASE (Resize(c, m) /\ ~Resizes(m.size)) \/ Open(c, m) \/ Poll(c, m)
  <2>1. UNCHANGED <<entries, nflows, array, tally, marks>>
    BY <1>5 DEF Resize, Open, Poll, device
  <2>2. Grown /\ Held' = Held
    BY <2>1, KeptGrown DEF MeterInv
  <2>3. ReadInv'
    BY <1>1, <2>1, <2>2, IdleKeeps
  <2> QED
    BY <1>2, <2>1, <2>2, <2>3 DEF MeterStep, Stands, Rests
<1> QED
  BY <1>3, <1>4, <1>5

\* The packets of a pair that a process is given: those of its slot.
Given(flows, k) ==
    LET In == {i \in DOMAIN flows : flows[i].key = k}
    IN  IF In = {} THEN 0 ELSE flows[CHOOSE i \in In : TRUE].pkts

LEMMA GivenType ==
    ASSUME NEW flows \in Seq(Flow), NEW k PROVE Given(flows, k) \in Nat
<1> DEFINE In == {i \in DOMAIN flows : flows[i].key = k}
<1>1. \A i \in In : flows[i].pkts \in Nat
  <2>1. \A i \in In : flows[i] \in Flow
    OBVIOUS
  <2> QED
    BY <2>1 DEF Flow
<1>2. Given(flows, k) = IF In = {} THEN 0 ELSE flows[CHOOSE i \in In : TRUE].pkts
  BY DEF Given
<1> HIDE DEF In
<1> QED
  BY <1>1, <1>2

\* What a read with a reset, in whole, has copied is between what the table held
\* when it began and what it holds.
LEMMA GivenBetween ==
    ASSUME TableInv, NEW c \in Callers, NEW flows \in Seq(Flow), Len(flows) = nflows,
           \A i \in 1 .. nflows : /\ flows[i].key = entries[i].key
                                  /\ since[c][entries[i].key] <= flows[i].pkts
                                  /\ flows[i].pkts <= entries[i].pkts,
           NEW k \in Pairs, since[c][k] <= InTable(k)
    PROVE  since[c][k] <= Given(flows, k) /\ Given(flows, k) <= InTable(k)
<1> DEFINE In == {i \in DOMAIN flows : flows[i].key = k}
<1>1. In = Slots(k)
  <2>1. DOMAIN flows = 1 .. nflows
    OBVIOUS
  <2> QED
    BY <2>1 DEF Slots
<1>2. Given(flows, k) = IF In = {} THEN 0 ELSE flows[CHOOSE i \in In : TRUE].pkts
  BY DEF Given
<1>3. CASE Slots(k) = {}
  <2>1. Given(flows, k) = 0 /\ InTable(k) = 0
    BY <1>1, <1>2, <1>3 DEF InTable
  <2> QED
    BY <2>1
<1>4. CASE Slots(k) # {}
  <2> DEFINE s == CHOOSE i \in Slots(k) : TRUE
  <2>1. s \in Slots(k)
    BY <1>4
  <2>2. Given(flows, k) = flows[s].pkts /\ InTable(k) = entries[s].pkts
    BY <1>1, <1>2, <1>4 DEF InTable
  <2> HIDE DEF s
  <2>3. s \in 1 .. nflows /\ entries[s].key = k
    BY <2>1 DEF Slots
  <2> QED
    BY <2>2, <2>3
<1> QED
  BY <1>3, <1>4

\* "show" and "save" end without a reset.
LEMMA FetchedStands ==
    ASSUME MeterInv, TableInv', NEW c \in Callers, NEW flows \in Seq(Flow),
           Fetched(c, flows), ~cmd[c].flush
    PROVE  ReadInv' /\ MeterStep
<1>1. UNCHANGED <<entries, nflows, array, cmd, tally, marks>>
  BY DEF Fetched, tally
<1>2. /\ \A d \in Callers \ {c} : Still(d)
      /\ pc'[c] = "write" \/ (pc'[c] = "idle" /\ got'[c] = <<>>)
  BY FetchedStill DEF MeterInv, TableInv
<1>3. Grown /\ Held' = Held
  BY <1>1, KeptGrown DEF MeterInv
<1>4. ReadInv'
  <2>1. whole' = whole /\ since' = since /\ c \notin whole
    BY <1>1 DEF marks, MeterInv, ReadInv, ReadOf
  <2>2. ReadOf(c)'
    BY <1>2, <2>1 DEF ReadOf
  <2> QED
    BY <1>2, <1>3, <2>1, <2>2, StepKeeps DEF MeterInv
<1>5. Reading' = Reading
  <2>1. c \notin Reading
    BY DEF Reading
  <2>2. c \notin Reading'
    BY <1>2 DEF Reading
  <2> QED
    BY <1>2, <2>1, <2>2, ReadingStays
<1> QED
  BY <1>1, <1>3, <1>4, <1>5 DEF MeterStep, Stands, Rests

\* They end with one: the call found no flows, or has copied what it could.
LEMMA FetchedReset ==
    ASSUME MeterInv, NEW c \in Callers, NEW flows \in Seq(Flow), Fetched(c, flows), cmd[c].flush,
           \/ pc[c] = "fetch" /\ flows = <<>> /\ nflows = 0
           \/ /\ pc[c] = "copyout"
              /\ c \in whole =>
                    /\ Len(flows) = nflows
                    /\ \A i \in 1 .. nflows : /\ flows[i].key = entries[i].key
                                              /\ since[c][entries[i].key] <= flows[i].pkts
                                              /\ flows[i].pkts <= entries[i].pkts
    PROVE  ReadInv' /\ MeterStep
<1> DEFINE reported == IF cmd[c].flush /\ nflows < Len(flows)
                       THEN SubSeq(flows, 1, nflows) ELSE flows
           out == [k \in Pairs |-> Given(reported, k)]
<1>1. /\ Reset /\ Disturb /\ UNCHANGED <<counted, lost>>
      /\ taken' = [k \in Pairs |-> taken[k] + Given(reported, k)]
      /\ slipped' = [k \in Pairs |-> slipped[k] +
                        (IF c \in whole THEN InTable(k) - since[c][k] ELSE 0)]
      /\ calm' = (calm /\ (pc[c] = "copyout" => c \in whole))
  <2>1. /\ Reset /\ Disturb /\ UNCHANGED <<counted, lost>>
        /\ slipped' = [k \in Pairs |-> slipped[k] +
                          (IF c \in whole THEN InTable(k) - since[c][k] ELSE 0)]
    BY DEF Fetched
  <2>2. calm' = (calm /\ (pc[c] = "copyout" => c \in whole))
    BY Zenon DEF Fetched
  <2>3. taken' = [k \in Pairs |-> taken[k] + Given(reported, k)]
    BY Zenon DEF Fetched, Given
  <2> QED
    BY <2>1, <2>2, <2>3
<1>2. reported \in Seq(Flow)
  BY DEF MeterInv, TableInv, TypeOK
<1> HIDE DEF reported
<1>3. /\ \A d \in Callers \ {c} : Still(d)
      /\ pc'[c] = "write" \/ (pc'[c] = "idle" /\ got'[c] = <<>>)
  BY FetchedStill DEF MeterInv, TableInv
<1>4. ReadInv'
  BY <1>1, <1>3, DisturbKeeps DEF MeterInv
<1>5. Held' = [k \in Pairs |-> 0]
  BY <1>1, HeldReset
<1>6. Reading' = Reading \ {c}
  <2>1. Reading' \ {c} = Reading \ {c}
    BY <1>3, ReadingApart
  <2>2. c \notin Reading'
    BY <1>3 DEF Reading
  <2> QED
    BY <2>1, <2>2
<1>7. calm \in BOOLEAN /\ slipped \in [Pairs -> Int] /\ taken \in [Pairs -> Nat]
  BY DEF MeterInv, TableInv, TypeOK, HistoryOK
<1>8. CASE pc[c] = "fetch" /\ flows = <<>> /\ nflows = 0
  <2>1. reported = <<>>
    BY <1>8 DEF reported
  <2>2. \A k \in Pairs : Given(reported, k) = 0 /\ Held[k] = 0
    <3>1. \A k \in Pairs : Slots(k) = {}
      BY <1>8 DEF Slots
    <3>2. \A k \in Pairs : {i \in DOMAIN reported : reported[i].key = k} = {}
      BY <2>1
    <3> QED
      BY <3>1, <3>2 DEF Given, Held, InTable
  <2>3. taken' = [k \in Pairs |-> taken[k] + Held[k]]
    BY <1>1, <2>2
  <2>4. c \notin whole /\ c \notin Reading
    BY <1>8 DEF MeterInv, ReadInv, ReadOf, Reading
  <2>5. calm' = calm
    BY <1>1, <1>7, <1>8, Zenon
  <2>6. slipped' = slipped
    BY <1>1, <1>7, <2>4
  <2> QED
    BY <1>1, <1>4, <1>5, <1>6, <2>3, <2>4, <2>5, <2>6 DEF MeterStep, TakesAll
<1>9. CASE /\ pc[c] = "copyout"
           /\ c \in whole =>
                 /\ Len(flows) = nflows
                 /\ \A i \in 1 .. nflows : /\ flows[i].key = entries[i].key
                                           /\ since[c][entries[i].key] <= flows[i].pkts
                                           /\ flows[i].pkts <= entries[i].pkts
  <2>1. c \in Reading
    BY <1>9 DEF Reading
  <2>2. out \in [Pairs -> Nat] /\ taken' = [k \in Pairs |-> taken[k] + out[k]]
    BY <1>1, <1>2, GivenType
  <2>3. c \notin whole => calm' = FALSE
    BY <1>1, <1>9, Zenon
  <2>4. ASSUME c \in whole
        PROVE  /\ \A k \in Pairs : since[c][k] <= out[k] /\ out[k] <= Held[k]
               /\ slipped' = [k \in Pairs |-> slipped[k] + (Held[k] - since[c][k])]
               /\ calm' = calm
    <3>1. calm' = calm
      BY <1>1, <1>7, <2>4, Zenon
    <3>2. slipped' = [k \in Pairs |-> slipped[k] + (Held[k] - since[c][k])]
      BY <1>1, <2>4 DEF Held
    <3>3. reported = flows
      BY <1>9, <2>4 DEF reported, MeterInv, TableInv, TypeOK
    <3>4. \A k \in Pairs : since[c][k] <= InTable(k)
      BY <2>4 DEF MeterInv, ReadInv, ReadOf
    <3>5. \A k \in Pairs : since[c][k] <= Given(flows, k) /\ Given(flows, k) <= InTable(k)
      BY <1>9, <2>4, <3>4, GivenBetween DEF MeterInv
    <3>6. \A k \in Pairs : out[k] = Given(flows, k) /\ Held[k] = InTable(k)
      BY <3>3 DEF Held
    <3> QED
      BY <3>1, <3>2, <3>5, <3>6
  <2> HIDE DEF out
  <2>5. Ends(c, out)
    BY <1>1, <1>5, <1>6, <2>1, <2>2, <2>3, <2>4 DEF Ends
  <2> QED
    BY <1>4, <2>2, <2>5 DEF MeterStep
<1> QED
  BY <1>8, <1>9

LEMMA FetchMeter ==
    ASSUME MeterInv, TableInv', NEW c \in Callers, Fetch(c)
    PROVE  ReadInv' /\ MeterStep
<1>1. pc[c] = "fetch" /\ got[c] = <<>> /\ c \notin whole /\ c \notin Reading
  BY DEF Fetch, MeterInv, ReadInv, ReadOf, Reading
<1>2. CASE Done(c) /\ UNCHANGED <<device, cmd, tally, marks>>
  <2>1. /\ \A d \in Callers \ {c} : Still(d)
        /\ pc'[c] = "idle" /\ got'[c] = <<>>
    BY <1>2, DoneStill DEF MeterInv, TableInv
  <2>2. Grown /\ Held' = Held
    BY <1>2, KeptGrown DEF device, MeterInv
  <2>3. ReadInv' /\ Reading' = Reading
    BY <1>1, <1>2, <2>1, <2>2, IdleKeeps
  <2> QED
    BY <1>2, <2>2, <2>3 DEF MeterStep, Stands, Rests
<1>3. CASE nflows = 0 /\ Fetched(c, <<>>)
  <2>1. <<>> \in Seq(Flow)
    OBVIOUS
  <2> QED
    BY <1>1, <1>3, <2>1, FetchedStands, FetchedReset
<1>4. CASE /\ nflows > 0
           /\ n' = [n EXCEPT ![c] = 0] /\ from' = [from EXCEPT ![c] = array]
           /\ pc' = [pc EXCEPT ![c] = "copyout"]
           /\ IF cmd[c].flush THEN Enter(c) ELSE UNCHANGED marks
           /\ UNCHANGED <<device, cmd, got, tally>>
  <2>1. /\ n'[c] = 0 /\ from'[c] = array /\ pc'[c] = "copyout" /\ got'[c] = <<>>
        /\ \A d \in Callers \ {c} : Still(d)
    BY <1>1, <1>4 DEF MeterInv, TableInv, TypeOK, Still
  <2>2. Grown /\ Held' = Held
    BY <1>4, KeptGrown DEF device, MeterInv
  <2>3. Reading' \ {c} = Reading \ {c}
    BY <2>1, ReadingApart
  <2>4. CASE cmd[c].flush
    <3>1. Enter(c)
      BY <1>4, <2>4
    <3>2. since \in [Callers -> [Pairs -> Nat]]
      BY DEF MeterInv, TableInv, TypeOK, HistoryOK
    <3>3. /\ whole' = whole \cup {c}
          /\ since'[c] = [k \in Pairs |-> InTable(k)]
          /\ \A d \in Callers \ {c} : since'[d] = since[d]
      BY <3>1, <3>2 DEF Enter
    <3>4. ReadOf(c)'
      <4>1. \A k \in Pairs : Held[k] = InTable(k) /\ Held'[k] = InTable(k)' /\ InTable(k) \in Nat
        BY InTableType DEF Held, MeterInv, TableInv
      <4>2. \A k \in Pairs : since'[c][k] <= InTable(k)'
        BY <2>2, <3>3, <4>1
      <4>3. /\ array' = array /\ cmd' = cmd /\ nflows' = nflows /\ nflows > 0
            /\ Len(got'[c]) = 0
        BY <1>4, <2>1 DEF device
      <4>4. 1 .. n'[c] = {}
        BY <2>1
      <4> QED
        BY <2>1, <2>4, <4>2, <4>3, <4>4 DEF ReadOf
    <3>5. ReadInv'
      BY <2>1, <2>2, <3>3, <3>4, StepKeeps DEF MeterInv
    <3>6. Reading' = Reading \cup {c}
      <4>1. c \in Reading'
        BY <1>4, <2>1, <2>4 DEF Reading
      <4> QED
        BY <1>1, <2>3, <4>1
    <3> QED
      BY <1>1, <1>4, <2>2, <3>1, <3>5, <3>6 DEF MeterStep, Begins, Rests
  <2>5. CASE ~cmd[c].flush
    <3>1. UNCHANGED marks
      BY <1>4, <2>5
    <3>2. c \notin Reading'
      BY <1>4, <2>5 DEF Reading
    <3>3. Reading' = Reading
      BY <1>1, <2>1, <3>2, ReadingStays
    <3>4. ReadOf(c)'
      BY <1>1, <2>1, <3>1 DEF ReadOf, marks
    <3>5. ReadInv'
      BY <2>1, <2>2, <3>1, <3>4, StepKeeps DEF MeterInv, marks
    <3> QED
      BY <1>4, <2>2, <3>1, <3>3, <3>5 DEF MeterStep, Stands, Rests
  <2> QED
    BY <2>4, <2>5
<1> QED
  BY <1>2, <1>3, <1>4 DEF Fetch, Goto

LEMMA CopyOutMeter ==
    ASSUME MeterInv, TableInv', NEW c \in Callers, CopyOut(c)
    PROVE  ReadInv' /\ MeterStep
<1>1. /\ pc[c] = "copyout" /\ n[c] \in Nat /\ nflows \in 0 .. maxflows /\ maxflows \in Nat
      /\ got[c] \in Seq(Flow) /\ entries \in [1 .. maxflows -> Flow]
      /\ from[c] = array => n[c] < maxflows
  BY FlowAssumption DEF CopyOut, MeterInv, TableInv, TypeOK, TableSound, CopyInv
<1>2. Copied(c) \in Seq(Flow)
  <2>1. Slot(c) \in Flow
    BY <1>1, JunkType DEF Slot
  <2> QED
    BY <1>1, <2>1 DEF Copied
<1>3. ASSUME c \in whole
      PROVE  /\ from[c] = array /\ n[c] < nflows /\ Len(Copied(c)) = n[c] + 1
             /\ \A i \in 1 .. n[c] + 1 :
                   /\ Copied(c)[i].key = entries[i].key
                   /\ since[c][entries[i].key] <= Copied(c)[i].pkts
                   /\ Copied(c)[i].pkts <= entries[i].pkts
             /\ \A k \in Pairs : since[c][k] <= InTable(k)
  <2>1. /\ cmd[c].flush /\ from[c] = array /\ n[c] < nflows /\ Len(got[c]) = n[c]
        /\ \A i \in 1 .. n[c] : /\ got[c][i].key = entries[i].key
                                 /\ since[c][entries[i].key] <= got[c][i].pkts
                                 /\ got[c][i].pkts <= entries[i].pkts
        /\ \A k \in Pairs : since[c][k] <= InTable(k)
    BY <1>3 DEF MeterInv, ReadInv, ReadOf
  <2> DEFINE e == entries[n[c] + 1]
             out == Append(got[c], e)
  <2>2. n[c] + 1 \in 1 .. nflows /\ e \in Flow
    BY <1>1, <2>1
  <2>3. Copied(c) = out
    BY <2>1 DEF Copied, Slot
  <2>4. /\ Len(out) = n[c] + 1 /\ out[n[c] + 1] = e
        /\ \A i \in 1 .. n[c] : out[i] = got[c][i]
    BY <1>1, <2>1, <2>2, AppendProperties
  <2>5. since[c][e.key] <= e.pkts /\ e.pkts \in Nat
    <3>1. e.key \in Pairs /\ e.pkts \in Nat
      BY <2>2 DEF Flow
    <3>2. InTable(e.key) = e.pkts
      <4>1. Slots(e.key) = {n[c] + 1}
        BY <2>2 DEF Slots, MeterInv, TableInv, TableSound
      <4> QED
        BY <4>1 DEF InTable
    <3> QED
      BY <2>1, <3>1, <3>2
  <2> HIDE DEF out
  <2>6. ASSUME NEW i \in 1 .. n[c] + 1
        PROVE  /\ out[i].key = entries[i].key
               /\ since[c][entries[i].key] <= out[i].pkts
               /\ out[i].pkts <= entries[i].pkts
    <3>1. i \in 1 .. n[c] \/ i = n[c] + 1
      BY <1>1
    <3>2. CASE i \in 1 .. n[c]
      BY <2>1, <2>4, <3>2
    <3>3. CASE i = n[c] + 1
      BY <2>4, <2>5, <3>3
    <3> QED
      BY <3>1, <3>2, <3>3
  <2> QED
    BY <2>1, <2>3, <2>4, <2>6
<1>4. CASE n[c] + 1 < nflows
  <2>1. /\ n' = [n EXCEPT ![c] = @ + 1] /\ from' = [from EXCEPT ![c] = array]
        /\ got' = [got EXCEPT ![c] = Copied(c)]
        /\ UNCHANGED <<device, pc, cmd, room, tally, marks>>
    BY <1>4 DEF CopyOut
  <2>2. /\ n'[c] = n[c] + 1 /\ from'[c] = array /\ pc'[c] = "copyout" /\ got'[c] = Copied(c)
        /\ \A d \in Callers \ {c} : Still(d)
    BY <1>1, <2>1 DEF MeterInv, TableInv, TypeOK, Still
  <2>3. Grown /\ Held' = Held
    BY <2>1, KeptGrown DEF device, MeterInv
  <2>4. /\ entries' = entries /\ array' = array /\ nflows' = nflows /\ cmd' = cmd
        /\ whole' = whole /\ since' = since
    BY <2>1 DEF device, marks
  <2>5. ReadOf(c)'
    <3>1. ASSUME c \in whole
          PROVE  /\ cmd'[c].flush /\ n'[c] < nflows' /\ Len(got'[c]) = n'[c]
                 /\ \A i \in 1 .. n'[c] :
                       /\ got'[c][i].key = entries'[i].key
                       /\ since'[c][entries'[i].key] <= got'[c][i].pkts
                       /\ got'[c][i].pkts <= entries'[i].pkts
      <4>1. cmd[c].flush
        BY <3>1 DEF MeterInv, ReadInv, ReadOf
      <4> QED
        BY <1>3, <1>4, <2>2, <2>4, <3>1, <4>1
    <3>2. ASSUME c \in whole PROVE \A k \in Pairs : since'[c][k] <= InTable(k)'
      <4>1. \A k \in Pairs : InTable(k)' = InTable(k)
        BY <2>3 DEF Held
      <4> QED
        BY <1>3, <2>4, <3>2, <4>1
    <3> QED
      BY <2>2, <2>4, <3>1, <3>2 DEF ReadOf
  <2>6. ReadInv'
    BY <2>2, <2>3, <2>4, <2>5, StepKeeps DEF MeterInv
  <2>7. Reading' = Reading
    BY <2>1 DEF Reading
  <2> QED
    BY <2>1, <2>3, <2>6, <2>7 DEF MeterStep, Stands, Rests
<1>5. CASE ~(n[c] + 1 < nflows)
  <2>1. Fetched(c, Copied(c))
    BY <1>5 DEF CopyOut
  <2>2. ASSUME c \in whole PROVE n[c] + 1 = nflows
    BY <1>1, <1>3, <1>5, <2>2
  <2>3. CASE cmd[c].flush
    <3>1. c \in whole =>
             /\ Len(Copied(c)) = nflows
             /\ \A i \in 1 .. nflows :
                   /\ Copied(c)[i].key = entries[i].key
                   /\ since[c][entries[i].key] <= Copied(c)[i].pkts
                   /\ Copied(c)[i].pkts <= entries[i].pkts
      BY <1>3, <2>2
    <3> QED
      BY <1>1, <1>2, <2>1, <2>3, <3>1, FetchedReset
  <2>4. CASE ~cmd[c].flush
    BY <1>2, <2>1, <2>4, FetchedStands
  <2> QED
    BY <2>3, <2>4
<1> QED
  BY <1>4, <1>5

LEMMA FaultMeter ==
    ASSUME MeterInv, TableInv', NEW c \in Callers, Fault(c)
    PROVE  ReadInv' /\ MeterStep
<1>1. Done(c) /\ Leave(c) /\ UNCHANGED <<device, cmd, tally>>
  BY DEF Fault
<1>2. /\ \A d \in Callers \ {c} : Still(d)
      /\ pc'[c] = "idle" /\ got'[c] = <<>>
  BY <1>1, DoneStill DEF MeterInv, TableInv
<1>3. Grown /\ Held' = Held
  BY <1>1, KeptGrown DEF device, MeterInv
<1>4. /\ whole' = whole \ {c} /\ since' = [since EXCEPT ![c] = Nothing]
      /\ \A d \in Callers \ {c} : since'[d] = since[d]
  BY <1>1 DEF Leave, MeterInv, TableInv, TypeOK, HistoryOK
<1>5. ReadOf(c)'
  BY <1>2, <1>4 DEF ReadOf
<1>6. ReadInv'
  BY <1>2, <1>3, <1>4, <1>5, StepKeeps DEF MeterInv
<1>7. Reading' \ {c} = Reading \ {c} /\ c \notin Reading'
  BY <1>2, ReadingApart DEF Reading
<1>8. CASE c \in Reading
  <2>1. Reading' = Reading \ {c}
    BY <1>7
  <2> QED
    BY <1>1, <1>3, <1>6, <1>8, <2>1 DEF MeterStep, Fails, Rests
<1>9. CASE c \notin Reading
  <2>1. Reading' = Reading
    BY <1>2, <1>7, <1>9, ReadingStays
  <2>2. c \notin whole
    BY <1>9 DEF Reading, MeterInv, ReadInv, ReadOf
  <2>3. whole' = whole
    BY <1>4, <2>2
  <2>4. since' = since
    <3>1. since[c] = Nothing
      BY <2>2 DEF MeterInv, SinceInv
    <3>2. since \in [Callers -> [Pairs -> Nat]]
      BY DEF MeterInv, TableInv, TypeOK, HistoryOK
    <3> QED
      BY <1>4, <3>1, <3>2
  <2> QED
    BY <1>1, <1>3, <1>6, <2>1, <2>3, <2>4 DEF MeterStep, Stands, Rests, marks
<1> QED
  BY <1>8, <1>9

\* Steps between copies.
LEMMA BetweenMeter ==
    ASSUME MeterInv, TableInv', NEW c \in Callers,
           PollAgain(c) \/ Write(c) \/ Chunk(c) \/ Put(c)
    PROVE  ReadInv' /\ MeterStep
<1>1. /\ pc[c] # "copyout" /\ \A d \in Callers \ {c} : Still(d)
      /\ pc'[c] \in {"idle", "poll", "put", "copyin"} /\ got'[c] = <<>>
  <2>1. CASE Done(c) /\ cmd' = cmd /\ pc[c] # "copyout"
    BY <2>1, DoneStill DEF MeterInv, TableInv
  <2>2. CASE /\ pc[c] \in {"scan", "chunk", "put"}
             /\ UNCHANGED <<cmd, n, from, got>>
             /\ \E l \in {"idle", "poll", "put", "copyin"} : pc' = [pc EXCEPT ![c] = l]
    <3>1. got[c] = <<>>
      BY <2>2 DEF MeterInv, ReadInv, ReadOf
    <3> QED
      BY <2>2, <3>1 DEF MeterInv, TableInv, TypeOK, Still
  <2>3. CASE PollAgain(c) \/ Put(c)
    BY <2>2, <2>3 DEF PollAgain, Put, Scan, Goto, buffers
  <2>4. CASE Write(c)
    BY <2>1, <2>4 DEF Write
  <2>5. CASE Chunk(c)
    BY <2>1, <2>2, <2>5 DEF Chunk, Goto
  <2> QED
    BY <2>3, <2>4, <2>5
<1>2. CASE UNCHANGED <<entries, nflows, array, tally, marks>>
  <2>1. Grown /\ Held' = Held
    BY <1>2, KeptGrown DEF MeterInv
  <2>2. ReadInv' /\ Reading' = Reading
    BY <1>1, <1>2, <2>1, IdleKeeps
  <2> QED
    BY <1>2, <2>1, <2>2 DEF MeterStep, Stands, Rests
<1>3. CASE Put(c) /\ cmd[c].flush
  <2>1. /\ Reset /\ Disturb /\ taken' = [k \in Pairs |-> taken[k] + InTable(k)]
        /\ UNCHANGED <<counted, lost, slipped, calm>>
    BY <1>3 DEF Put
  <2>2. c \notin Reading /\ c \notin Reading'
    BY <1>1 DEF Reading
  <2>3. Reading' = Reading
    BY <1>1, <2>2, ReadingStays
  <2>4. TakesAll
    BY <2>1, <2>3, HeldReset DEF TakesAll, Held
  <2>5. ReadInv'
    BY <1>1, <2>1, DisturbKeeps DEF MeterInv
  <2> QED
    BY <2>4, <2>5 DEF MeterStep
<1>4. PollAgain(c) \/ Write(c) \/ Chunk(c) \/ (Put(c) /\ ~cmd[c].flush)
         => UNCHANGED <<entries, nflows, array, tally, marks>>
  BY DEF PollAgain, Write, Chunk, Put, device, tally
<1> QED
  BY <1>2, <1>3, <1>4

LEMMA CopyInMeter ==
    ASSUME MeterInv, TableInv', NEW c \in Callers, CopyIn(c)
    PROVE  ReadInv' /\ MeterStep
<1> DEFINE next == IF Len(todo[c]) = 1 THEN [pc EXCEPT ![c] = "chunk"] ELSE pc
<1>1. /\ pc[c] = "copyin" /\ got[c] = <<>> /\ todo[c] # <<>> /\ todo[c] \in Seq(Flow)
  BY DEF CopyIn, MeterInv, TableInv, TypeOK, CopyInv, ReadInv, ReadOf
<1>2. Head(todo[c]) \in Flow
  BY <1>1, HeadTailProperties
<1>3. /\ Insert(Head(todo[c]), next)
      /\ UNCHANGED <<cmd, n, from, got, taken, slipped, calm, marks>>
  BY DEF CopyIn
<1>4. /\ next \in [Callers -> Labels] /\ next[c] \in {"chunk", "copyin"}
      /\ \A d \in Callers \ {c} : next[d] = pc[d]
  BY <1>1 DEF MeterInv, TableInv, TypeOK, Labels, Copying
<1> HIDE DEF next
<1>5. \A d \in Callers : pc'[d] = next[d] \/ (pc'[d] = "scan" /\ next[d] = "poll")
  BY <1>3, <1>4, InsertWakes
<1>6. /\ \A d \in Callers \ {c} : Still(d)
      /\ pc'[c] \in {"chunk", "copyin"} /\ got'[c] = <<>>
  BY <1>1, <1>3, <1>4, <1>5 DEF Still
<1>7. Grown /\ Counts(Head(todo[c]))
  BY <1>2, <1>3, <1>4, InsertGrows DEF MeterInv
<1>8. ReadInv' /\ Reading' = Reading
  BY <1>1, <1>3, <1>6, <1>7, IdleKeeps
<1> QED
  BY <1>2, <1>7, <1>8 DEF MeterStep

-------------------------------------------------------------------------------
LEMMA MeterInit == Init => MeterInv
BY InitInv DEF Init, MeterInv, ReadInv, ReadOf, SinceInv

LEMMA MeterNext ==
    ASSUME MeterInv, [Next]_vars
    PROVE  MeterInv' /\ MeterStep
<1>1. TableInv'
  BY TableStep DEF MeterInv
<1>2. ReadInv' /\ MeterStep
  <2>1. CASE UNCHANGED vars
    <3>1. UNCHANGED <<entries, nflows, array, pc, cmd, n, from, got, tally, marks>>
      BY <2>1 DEF vars, device, buffers
    <3>2. Held' = Held
      BY <3>1, HeldKept
    <3>3. Reading' = Reading
      BY <3>1 DEF Reading
    <3>4. ReadInv'
      <4>1. \A k \in Pairs : InTable(k)' = InTable(k)
        BY <3>2 DEF Held
      <4> QED
        BY <3>1, <4>1 DEF MeterInv, ReadInv, ReadOf, marks
    <3> QED
      BY <3>1, <3>2, <3>3, <3>4 DEF MeterStep, Stands, Rests
  <2>2. ASSUME NEW k \in Keys, Packet(k) PROVE ReadInv' /\ MeterStep
    BY <1>1, <2>2, PacketMeter
  <2>3. ASSUME NEW c \in Callers, NEW m \in Cmds,
               Flush(c, m) \/ Resize(c, m) \/ Open(c, m) \/ Poll(c, m)
        PROVE  ReadInv' /\ MeterStep
    BY <1>1, <2>3, StartMeter
  <2>4. ASSUME NEW c \in Callers, Step(c) PROVE ReadInv' /\ MeterStep
    BY <1>1, <2>4, FetchMeter, CopyOutMeter, FaultMeter, BetweenMeter, CopyInMeter DEF Step
  <2> QED
    BY <2>1, <2>2, <2>3, <2>4 DEF Next
<1>3. SinceInv'
  <2>1. /\ since \in [Callers -> [Pairs -> Nat]] /\ SinceInv
    BY DEF MeterInv, TableInv, TypeOK, HistoryOK
  <2>2. Disturb => SinceInv'
    BY DEF Disturb, SinceInv
  <2>3. UNCHANGED marks => SinceInv'
    BY <2>1 DEF marks, SinceInv
  <2>4. ASSUME NEW c \in Callers, Enter(c) \/ Leave(c) PROVE SinceInv'
    BY <2>1, <2>4 DEF Enter, Leave, SinceInv
  <2> QED
    BY <1>2, <2>2, <2>3, <2>4
       DEF MeterStep, Stands, Renews, TakesAll, Counts, Begins, Fails, Ends
<1> QED
  BY <1>1, <1>2, <1>3 DEF MeterInv

-------------------------------------------------------------------------------
\* What was counted of each pair, within what slipped through undisturbed reads.
Balance ==
    calm => \A k \in Pairs :
               /\ Held[k] + taken[k] + lost[k] <= counted[k]
               /\ counted[k] <= Held[k] + taken[k] + lost[k] + slipped[k]

LEMMA MeterTypes ==
    ASSUME TableInv
    PROVE  /\ Held \in [Pairs -> Nat] /\ counted \in [Pairs -> Nat]
           /\ taken \in [Pairs -> Nat] /\ lost \in [Pairs -> Nat]
           /\ slipped \in [Pairs -> Int] /\ calm \in BOOLEAN
           /\ since \in [Callers -> [Pairs -> Nat]] /\ whole \subseteq Callers
<1>1. \A k \in Pairs : InTable(k) \in Nat
  BY InTableType DEF TableInv
<1>2. {counted, taken, lost} \subseteq [Pairs -> Nat] /\ HistoryOK
  BY DEF TableInv, TypeOK
<1> QED
  BY <1>1, <1>2 DEF Held, HistoryOK

LEMMA BalanceStep == ASSUME TableInv, Balance, MeterStep PROVE Balance'
<1>1. /\ Held \in [Pairs -> Nat] /\ counted \in [Pairs -> Nat]
      /\ taken \in [Pairs -> Nat] /\ lost \in [Pairs -> Nat]
      /\ slipped \in [Pairs -> Int]
      /\ since \in [Callers -> [Pairs -> Nat]]
  BY MeterTypes
<1>2. CASE Rests
  BY <1>2 DEF Rests, tally, Balance
<1>3. CASE TakesAll
  BY <1>1, <1>3 DEF TakesAll, Balance
<1>4. ASSUME NEW f \in Flow, Counts(f) PROVE Balance'
  <2>1. f.key \in Pairs /\ f.pkts \in Nat
    BY DEF Flow
  <2> QED
    BY <1>1, <1>4, <2>1 DEF Counts, Balance
<1>5. ASSUME NEW c \in Callers, NEW out \in [Pairs -> Nat], Ends(c, out) PROVE Balance'
  <2>1. CASE c \notin whole
    BY <1>5, <2>1 DEF Ends, Balance
  <2>2. CASE c \in whole
    <3>1. /\ Held' = [k \in Pairs |-> 0] /\ UNCHANGED <<counted, lost, calm>>
          /\ taken' = [k \in Pairs |-> taken[k] + out[k]]
          /\ \A k \in Pairs : since[c][k] <= out[k] /\ out[k] <= Held[k]
          /\ slipped' = [k \in Pairs |-> slipped[k] + (Held[k] - since[c][k])]
      BY <1>5, <2>2 DEF Ends
    <3>2. since[c] \in [Pairs -> Nat]
      BY <1>1
    <3>3. ASSUME calm', NEW k \in Pairs
          PROVE  /\ Held'[k] + taken'[k] + lost'[k] <= counted'[k]
                 /\ counted'[k] <= Held'[k] + taken'[k] + lost'[k] + slipped'[k]
      <4>1. /\ Held[k] + taken[k] + lost[k] <= counted[k]
            /\ counted[k] <= Held[k] + taken[k] + lost[k] + slipped[k]
        BY <3>1, <3>3 DEF Balance
      <4>2. /\ Held'[k] = 0 /\ taken'[k] = taken[k] + out[k] /\ lost'[k] = lost[k]
            /\ counted'[k] = counted[k]
            /\ slipped'[k] = slipped[k] + (Held[k] - since[c][k])
            /\ since[c][k] <= out[k] /\ out[k] <= Held[k]
        BY <3>1
      <4>3. /\ Held[k] \in Nat /\ taken[k] \in Nat /\ lost[k] \in Nat /\ counted[k] \in Nat
            /\ slipped[k] \in Int /\ since[c][k] \in Nat /\ out[k] \in Nat
        BY <1>1, <3>2
      <4> QED
        BY <4>1, <4>2, <4>3
    <3> QED
      BY <3>3 DEF Balance
  <2> QED
    BY <2>1, <2>2
<1> QED
  BY <1>2, <1>3, <1>4, <1>5 DEF MeterStep, Stands, Renews, Begins, Fails

\* No packet is counted twice or disappears: while reads with a reset overlap no
\* other reset and no resize, every packet counted is in the table, was taken or
\* found the table full, save those that came while such a read was copying, for
\* copies that sleep or fail at any slot (ipflow_insert(), ipflowioctl()).
THEOREM PacketsConserved == Spec => []Conserved
<1>1. Init => MeterInv /\ Balance
  <2> SUFFICES ASSUME Init PROVE Balance
    BY MeterInit
  <2>1. \A k \in Pairs : Slots(k) = {}
    BY DEF Init, Slots
  <2>2. \A k \in Pairs : Held[k] = 0
    BY <2>1 DEF Held, InTable
  <2> QED
    BY <2>2 DEF Init, Balance
<1>2. MeterInv /\ Balance /\ [Next]_vars => MeterInv' /\ Balance'
  <2> SUFFICES ASSUME MeterInv, Balance, [Next]_vars
               PROVE  MeterInv' /\ Balance'
    OBVIOUS
  <2>1. MeterInv' /\ MeterStep
    BY MeterNext
  <2> QED
    BY <2>1, BalanceStep DEF MeterInv
<1>3. Balance => Conserved
  BY DEF Balance, Held, Conserved, Pairs
<1> QED
  BY <1>1, <1>2, <1>3, PTL DEF Spec

\* The steps of FlowMeter, on what the table shows of itself.
MeterVars == <<Held, taken, lost, Reading, whole, since>>
MeterAct == \/ Meter!Count \/ Meter!TakeAll \/ Meter!NewArray
            \/ \E r \in Callers : Meter!Begin(r) \/ Meter!Fail(r) \/ Meter!End(r)

LEMMA MeterMaps == ASSUME TableInv, MeterStep PROVE [MeterAct]_MeterVars
<1>1. /\ Held \in [Pairs -> Nat] /\ taken \in [Pairs -> Nat] /\ lost \in [Pairs -> Nat]
      /\ since \in [Callers -> [Pairs -> Nat]]
  BY MeterTypes
<1>2. CASE Stands
  BY <1>2 DEF Stands, Rests, tally, marks, MeterVars
<1>3. CASE Renews
  BY <1>3 DEF Renews, Rests, tally, Disturb, Nothing, Meter!NewArray, Meter!Disturbed,
     MeterAct, Held, Reading
<1>4. CASE TakesAll
  BY <1>4 DEF TakesAll, Disturb, Nothing, Meter!TakeAll, Meter!Disturbed, Meter!Emptied,
     MeterAct, Held, Reading
<1>5. ASSUME NEW f \in Flow, Counts(f), Reading' = Reading PROVE Meter!Count
  <2>1. f.key \in Pairs /\ f.pkts \in Nat
    BY DEF Flow
  <2>2. CASE Held' = [Held EXCEPT ![f.key] = @ + f.pkts] /\ UNCHANGED <<lost, taken, marks>>
    <3>1. Meter!Grows(Held, Held', f.key)
      BY <1>1, <2>1, <2>2 DEF Meter!Grows
    <3> QED
      BY <1>5, <2>1, <2>2, <3>1 DEF Meter!Count, Held, Reading, marks
  <2>3. CASE lost' = [lost EXCEPT ![f.key] = @ + f.pkts] /\ UNCHANGED <<Held, taken, marks>>
    <3>1. Meter!Grows(lost, lost', f.key)
      BY <1>1, <2>1, <2>3 DEF Meter!Grows
    <3> QED
      BY <1>5, <2>1, <2>3, <3>1 DEF Meter!Count, Held, Reading, marks
  <2> QED
    BY <1>5, <2>2, <2>3 DEF Counts
<1>6. ASSUME NEW c \in Callers, Begins(c) PROVE Meter!Begin(c)
  BY <1>6 DEF Begins, Rests, tally, Enter, Meter!Begin, Held, Reading
<1>7. ASSUME NEW c \in Callers, Fails(c) PROVE Meter!Fail(c)
  BY <1>7 DEF Fails, Rests, tally, Leave, Nothing, Meter!Fail, Held, Reading
<1>8. ASSUME NEW c \in Callers, NEW out \in [Pairs -> Nat], Ends(c, out) PROVE Meter!End(c)
  <2>1. /\ c \in Reading /\ Reading' = Reading \ {c}
        /\ Held' = [k \in Pairs |-> 0] /\ Disturb /\ lost' = lost
    BY <1>8 DEF Ends
  <2>2. ASSUME c \in whole, NEW k \in Pairs
        PROVE  taken'[k] - taken[k] \in since[c][k] .. Held[k]
    <3>1. taken'[k] = taken[k] + out[k] /\ since[c][k] <= out[k] /\ out[k] <= Held[k]
      BY <1>8, <2>2 DEF Ends
    <3>2. taken[k] \in Nat /\ out[k] \in Nat /\ since[c][k] \in Nat /\ Held[k] \in Nat
      BY <1>1
    <3> QED
      BY <3>1, <3>2
  <2> QED
    BY <2>1, <2>2 DEF Disturb, Nothing, Meter!End, Meter!Disturbed, Meter!Emptied, Held, Reading
<1> QED
  BY <1>2, <1>3, <1>4, <1>5, <1>6, <1>7, <1>8 DEF MeterStep, MeterAct

\* The table with its system calls implements FlowMeter: flows grow one at a
\* time, a reset takes all, and a read with a reset that nobody disturbs takes at
\* least what was there when it began, also if its copies sleep
\* (ipflow_dev.c:128-169).
THEOREM TableIsMeter == Spec => MeterRefined
<1>1. Init => Meter!Init
  <2> SUFFICES ASSUME Init PROVE Meter!Init
    OBVIOUS
  <2>1. \A k \in Pairs : Slots(k) = {}
    BY DEF Init, Slots
  <2>2. \A k \in Pairs : InTable(k) = 0
    BY <2>1 DEF InTable
  <2>3. {c \in Callers : pc[c] = "copyout" /\ cmd[c].flush} = {}
    BY DEF Init
  <2> QED
    BY <2>2, <2>3 DEF Init, Nothing, Meter!Init
<1>2. MeterInv /\ [Next]_vars => MeterInv' /\ [MeterAct]_MeterVars
  BY MeterNext, MeterMaps DEF MeterInv
<1> QED
  BY <1>1, <1>2, MeterInit, PTL
     DEF Spec, MeterRefined, Meter!MeterSpec, MeterAct, MeterVars, Held, Reading
===============================================================================
