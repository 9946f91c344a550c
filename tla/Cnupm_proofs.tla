------------------------------ MODULE Cnupm_proofs ------------------------------
(***************************************************************************)
(* Proofs about Cnupm and CnupmDump, for any flows, table, number of       *)
(* children and switches: the flows in memory are in the slots that are    *)
(* counted, so that collect() never writes a packet over one of them;      *)
(* every packet is accounted for; and the cron job reads a dump to the end *)
(* before it removes it.                                                   *)
(*                                                                         *)
(* All three need every record of a dump that was begun to be written:     *)
(* when write() fails in the middle, the table keeps holes, and the dump   *)
(* has fewer records than its header says.                                 *)
(***************************************************************************)
EXTENDS CnupmDump, SumLemmas, SequenceTheorems

USE CnupmAssumption

Places == {"unborn", "test", "dispatch", "check", "fork", "open", "header", "records", "exited"}

Entry == [flow : Flows, bytes : Nat]

\* A table whose entries are in slots that exist, and counted.
Sound(t) ==
    /\ t \in [entry : {t.entry}, count : Nat] /\ t.entry \in [Tree(t) -> Entry]
    /\ Tree(t) \subseteq 1 .. MaxEntries /\ IsFiniteSet(Tree(t))
    /\ t.count = Cardinality(Tree(t)) /\ t.count <= MaxEntries

\* ... and in the first slots.
Dense(t) == Sound(t) /\ Tree(t) = 1 .. t.count

\* If every record is written, only a process that writes them has a table with
\* holes.
Packed(p) == "record" \notin Faults /\ pc[p] # "records" => Dense(tab[p])
SlotInv ==
    /\ pc \in [Procs -> Places] /\ DOMAIN tab = Procs
    /\ \A p \in Procs : Sound(tab[p]) /\ Packed(p)

LEMMA NewTableDense == Dense(NewTable)
<1>1. Tree(NewTable) = {}
  BY DEF Tree, NewTable
<1>2. IsFiniteSet({}) /\ Cardinality({}) = 0
  BY FS_EmptySet
<1>3. MaxEntries \in Nat
  BY CnupmAssumption
<1>4. 1 .. 0 = {}
  OBVIOUS
<1>5. NewTable \in [entry : {NewTable.entry}, count : Nat] /\ NewTable.count = 0
  BY DEF NewTable
<1>7. NewTable.entry \in [Tree(NewTable) -> Entry]
  <2>1. NewTable.entry = << >> /\ DOMAIN << >> = {}
    BY DEF NewTable
  <2>2. << >> = [i \in {} |-> 0]
    BY <2>1
  <2>3. QED
    BY <1>1, <2>1, <2>2
<1>6. QED
  BY <1>1, <1>2, <1>3, <1>4, <1>5, <1>7 DEF Dense, Sound

\* Counting a packet keeps the table sound, and dense if it was.
LEMMA StoreSound ==
  ASSUME NEW t, Sound(t), ~ Full(t), NEW f \in Flows, NEW u \in Store(t, f)
  PROVE  Sound(u) /\ (Dense(t) => Dense(u))
<1> DEFINE n == t.count + 1
           e == [flow |-> f, bytes |-> 1]
           written == Put(t.entry, n, e)
           same == {i \in Tree(t) : written[i].flow = f}
<1>1. /\ t \in [entry : {t.entry}, count : Nat] /\ t.entry \in [Tree(t) -> Entry]
      /\ t.count \in Nat /\ t.count < MaxEntries /\ MaxEntries \in Nat
      /\ Tree(t) \subseteq 1 .. MaxEntries
      /\ IsFiniteSet(Tree(t)) /\ t.count = Cardinality(Tree(t))
  BY DEF Sound, Full
<1>2. e \in Entry
  BY DEF Entry
<1>3. written \in [Tree(t) \cup {n} -> Entry]
  <2> HIDE DEF e, n
  <2>1. QED
    BY <1>1, <1>2 DEF Put, Tree
<1>4. n \in 1 .. MaxEntries
  BY <1>1
<1>5. CASE same = {}
  <2>1. u = [entry |-> written, count |-> n]
    BY <1>5 DEF Store
  <2>2. n \notin Tree(t)
    <3>1. n \in Tree(t) => written[n] = e
      BY DEF Put, Tree
    <3>2. QED
      BY <1>5, <3>1
  <2> HIDE DEF written
  <2>3. u.entry = written /\ u.count = n /\ Tree(u) = Tree(t) \cup {n}
    BY <1>3, <2>1 DEF Tree
  <2>4. IsFiniteSet(Tree(u)) /\ Cardinality(Tree(u)) = n
    BY <1>1, <2>2, <2>3, FS_AddElement
  <2>5. u \in [entry : {u.entry}, count : Nat]
    BY <1>1, <2>1
  <2>6. Sound(u)
    BY <1>1, <1>3, <1>4, <2>3, <2>4, <2>5 DEF Sound
  <2>7. Dense(t) => Dense(u)
    <3>1. 1 .. n = (1 .. t.count) \cup {n}
      BY <1>1
    <3>2. QED
      BY <2>3, <2>6, <3>1 DEF Dense
  <2>8. QED
    BY <2>6, <2>7
<1>6. CASE same # {}
  <2> DEFINE kept == Restrict(written, Tree(t))
  <2>1. PICK i \in same : u = [t EXCEPT !.entry = [kept EXCEPT ![i] = PlusByte(@)]]
    BY <1>6 DEF Store
  <2>2. kept \in [Tree(t) -> Entry]
    <3> HIDE DEF written
    <3>1. QED
      BY <1>3 DEF Restrict
  <2>3. i \in Tree(t)
    OBVIOUS
  <2> HIDE DEF kept, same
  <2>4. PlusByte(kept[i]) \in Entry
    BY <2>2, <2>3 DEF PlusByte, Entry
  <2>5. u.count = t.count /\ u \in [entry : {u.entry}, count : Nat]
        /\ u.entry = [kept EXCEPT ![i] = PlusByte(@)]
    BY <1>1, <2>1
  <2>6. u.entry \in [Tree(t) -> Entry]
    BY <2>2, <2>3, <2>4, <2>5
  <2>7. Tree(u) = Tree(t)
    BY <2>6 DEF Tree
  <2>8. QED
    BY <1>1, <2>5, <2>6, <2>7 DEF Dense, Sound
<1>7. QED
  BY <1>5, <1>6

\* A record that was written leaves the table.
LEMMA RemovedSound ==
  ASSUME NEW t, Sound(t), NEW i \in Tree(t)
  PROVE  Sound(Removed(t, i))
<1> DEFINE u == Removed(t, i)
<1>1. Tree(u) = Tree(t) \ {i} /\ u.count = t.count - 1
  BY DEF Removed, Restrict, Tree
<1>2. /\ IsFiniteSet(Tree(t) \ {i}) /\ Cardinality(Tree(t) \ {i}) = Cardinality(Tree(t)) - 1
      /\ Cardinality(Tree(t) \ {i}) \in Nat
  BY FS_RemoveElement, FS_CardinalityType DEF Sound
<1>3. u \in [entry : {u.entry}, count : Nat]
  BY <1>1, <1>2 DEF Removed, Sound
<1>4. u.entry \in [Tree(u) -> Entry]
  <2>1. u.entry = [k \in Tree(t) \ {i} |-> t.entry[k]]
    BY DEF Removed, Restrict, Tree
  <2>2. t.entry \in [Tree(t) -> Entry]
    BY DEF Sound
  <2> HIDE DEF u
  <2>3. QED
    BY <1>1, <2>1, <2>2
<1>5. Tree(u) \subseteq 1 .. MaxEntries /\ u.count <= MaxEntries /\ u.count = Cardinality(Tree(u))
  <2>1. Tree(t) \subseteq 1 .. MaxEntries /\ t.count \in Nat /\ t.count <= MaxEntries
        /\ t.count = Cardinality(Tree(t)) /\ MaxEntries \in Nat
    BY DEF Sound
  <2> HIDE DEF u
  <2>2. QED
    BY <1>1, <1>2, <2>1
<1>6. QED
  BY <1>1, <1>2, <1>3, <1>4, <1>5 DEF Sound

\* A table with nothing in it is dense.
LEMMA EmptyDense ==
  ASSUME NEW t, Sound(t), Tree(t) = {}
  PROVE  Dense(t)
<1>1. t.count = 0
  BY FS_EmptySet DEF Sound
<1>2. 1 .. 0 = {}
  OBVIOUS
<1>3. QED
  BY <1>1, <1>2 DEF Dense

-------------------------------------------------------------------------------
(* What a step does to the tables.                                         *)

LEMMA InitSlotInv == Init => SlotInv
<1>1. Init => /\ pc \in [Procs -> Places] /\ DOMAIN tab = Procs
              /\ \A p \in Procs : tab[p] = NewTable
  BY DEF Init, CnupmInit, Places
<1>2. QED
  BY <1>1, NewTableDense DEF SlotInv, Packed, Dense

\* The process moves on with the table it has, and is not done with its records.
LEMMA MoveStep ==
  ASSUME SlotInv, NEW p \in Procs, NEW x \in Places, pc' = [pc EXCEPT ![p] = x], tab' = tab,
         "record" \notin Faults /\ pc[p] = "records" => Dense(tab[p])
  PROVE  SlotInv'
BY DEF SlotInv, Packed

\* The process moves on with another table.
LEMMA TableStep ==
  ASSUME SlotInv, NEW p \in Procs, NEW x \in Places, pc' = [pc EXCEPT ![p] = x],
         NEW t, tab' = [tab EXCEPT ![p] = t], Sound(t),
         "record" \notin Faults /\ x # "records" => Dense(t)
  PROVE  SlotInv'
BY DEF SlotInv, Packed

\* The process ends, and its table with it.
LEMMA ExitStep ==
  ASSUME SlotInv, NEW p \in Procs, Exit(p)
  PROVE  SlotInv'
<1>1. PICK x \in Places : pc' = [pc EXCEPT ![p] = x]
  BY DEF Exit, Goto, Places
<1>2. tab' = [tab EXCEPT ![p] = NewTable]
  BY DEF Exit
<1>3. Sound(NewTable) /\ Dense(NewTable)
  BY NewTableDense DEF Dense
<1>4. QED
  BY <1>1, <1>2, <1>3, TableStep

LEMMA ReturnStep ==
  ASSUME SlotInv, NEW p \in Procs, Return(p),
         "record" \notin Faults /\ pc[p] = "records" => Dense(tab[p])
  PROVE  SlotInv'
<1>1. CASE p = Main
  BY <1>1, MoveStep DEF Return, Goto, Places
<1>2. CASE p # Main
  BY <1>2, ExitStep DEF Return
<1>3. QED
  BY <1>1, <1>2

LEMMA CollectorSlots ==
  ASSUME SlotInv, CollectorStep \/ \E f \in Flows : Collect(f)
  PROVE  SlotInv'
<1>1. Main \in Procs /\ pc \in [Procs -> Places] /\ DOMAIN tab = Procs
  BY DEF SlotInv, Procs
<1>2. CASE While
  BY <1>1, <1>2, ExitStep, MoveStep DEF While, Goto, Places
<1>3. CASE Dispatched
  BY <1>1, <1>3, ExitStep, MoveStep DEF Dispatched, Goto, Places
<1>4. CASE Check
  <2>1. Dumps \in Places
    BY DEF Dumps, Places
  <2>2. QED
    BY <1>1, <1>4, <2>1, MoveStep DEF Check, Goto
<1>5. CASE Fork
  <2>1. CASE Goto(Main, "open") /\ tab' = tab
    BY <1>1, <1>5, <2>1, MoveStep DEF Fork, Goto, Places
  <2>2. ASSUME NEW c \in Children, tab' = [tab EXCEPT ![c] = tab[Main], ![Main] = NewTable],
               pc' = [pc EXCEPT ![c] = "open", ![Main] = "test"]
        PROVE  SlotInv'
    <3>1. Sound(tab[Main]) /\ ("record" \notin Faults => Dense(tab[Main]))
      BY <1>1, <1>5 DEF Fork, SlotInv, Packed
    <3>2. c \in Procs /\ c # Main
      BY <2>2 DEF Procs
    <3>3. Sound(NewTable) /\ Dense(NewTable)
      BY NewTableDense DEF Dense
    <3>4. \A p \in Procs : /\ pc'[p] = IF p = c THEN "open" ELSE IF p = Main THEN "test" ELSE pc[p]
                           /\ tab'[p] = IF p = c THEN tab[Main] ELSE IF p = Main THEN NewTable ELSE tab[p]
      BY <1>1, <2>2, <3>2
    <3>5. \A p \in Procs : Sound(tab'[p]) /\ Packed(p)'
      BY <3>1, <3>3, <3>4 DEF SlotInv, Packed
    <3>6. pc' \in [Procs -> Places] /\ DOMAIN tab' = Procs
      BY <1>1, <2>2 DEF Places
    <3>7. QED
      BY <3>5, <3>6 DEF SlotInv
  <2>3. QED
    BY <1>5, <2>1, <2>2 DEF Fork
<1>6. ASSUME NEW f \in Flows, Collect(f)
      PROVE  SlotInv'
  <2>1. pc[Main] = "dispatch" /\ pc' = pc
    BY <1>6 DEF Collect
  <2>2. CASE Full(tab[Main])
    BY <1>6, <2>1, <2>2 DEF Collect, SlotInv, Packed
  <2>3. CASE ~ Full(tab[Main])
    <3>1. PICK t \in Store(tab[Main], f) : tab' = [tab EXCEPT ![Main] = t]
      BY <1>6, <2>3 DEF Collect
    <3>2. Sound(tab[Main]) /\ ("record" \notin Faults => Dense(tab[Main]))
      BY <1>1, <2>1 DEF SlotInv, Packed
    <3>3. Sound(t) /\ ("record" \notin Faults => Dense(t))
      BY <2>3, <3>2, StoreSound
    <3>4. pc' = [pc EXCEPT ![Main] = "dispatch"] /\ "dispatch" \in Places
      BY <1>1, <2>1 DEF Places
    <3>5. QED
      BY <1>1, <3>1, <3>3, <3>4, TableStep
  <2>4. QED
    BY <2>2, <2>3
<1>7. QED
  BY <1>2, <1>3, <1>4, <1>5, <1>6 DEF CollectorStep

LEMMA DumpSlots ==
  ASSUME SlotInv, NEW p \in Procs, DumpStep(p)
  PROVE  SlotInv'
<1>1. CASE Empty(p)
  BY <1>1, ReturnStep DEF Empty
<1>2. CASE Open(p)
  BY <1>2, ReturnStep, MoveStep DEF Open, Goto, Places
<1>3. CASE WriteHeader(p)
  BY <1>3, ReturnStep, MoveStep DEF WriteHeader, Goto, Places
<1>4. CASE WriteRecord(p)
  <2>1. PICK i \in Tree(tab[p]), ok \in Outcomes("record") :
              IF ok THEN tab' = [tab EXCEPT ![p] = Removed(@, i)] /\ pc' = pc ELSE Return(p)
    BY <1>4 DEF WriteRecord
  <2>2. Sound(Removed(tab[p], i)) /\ pc[p] = "records" /\ DOMAIN tab = Procs /\ pc \in [Procs -> Places]
    BY <1>4, RemovedSound DEF SlotInv, WriteRecord
  <2>3. CASE ok
    <3>1. pc' = [pc EXCEPT ![p] = "records"] /\ "records" \in Places
      BY <2>1, <2>2, <2>3 DEF Places
    <3>2. tab' = [tab EXCEPT ![p] = Removed(tab[p], i)]
      BY <2>1, <2>3
    <3>3. QED
      BY <2>2, <3>1, <3>2, TableStep
  <2>4. CASE ~ ok
    <3>1. Return(p) /\ ~ ("record" \notin Faults)
      BY <2>1, <2>4 DEF Outcomes
    <3>2. QED
      BY <3>1, ReturnStep
  <2>5. QED
    BY <2>3, <2>4
<1>5. CASE Dumped(p)
  <2>1. Dense(tab[p])
    BY <1>5, EmptyDense DEF Dumped, SlotInv
  <2>2. QED
    BY <1>5, <2>1, ReturnStep DEF Dumped
<1>6. QED
  BY <1>1, <1>2, <1>3, <1>4, <1>5 DEF DumpStep

LEMMA NextSlotInv ==
  ASSUME SlotInv, [Next]_vars
  PROVE  SlotInv'
<1>1. CASE UNCHANGED <<tab, pc>>
  BY <1>1 DEF SlotInv, Packed
<1>2. CASE CnupmNext
  <2>1. CASE Signal
    BY <1>1, <2>1 DEF Signal, Hup, Term
  <2>2. QED
    BY <1>2, <2>1, CollectorSlots, DumpSlots DEF CnupmNext
<1>3. CASE Cron
  <2>1. CASE UNCHANGED <<tab, pc>>
    BY <1>1, <2>1
  <2>2. CASE /\ Goto(Main, "test") /\ tab' = [tab EXCEPT ![Main] = NewTable]
    <3>1. Main \in Procs /\ Sound(NewTable) /\ Dense(NewTable)
      BY NewTableDense DEF Dense, Procs
    <3>2. QED
      BY <2>2, <3>1, TableStep DEF Goto, Places
  <2>3. QED
    BY <1>3, <2>1, <2>2 DEF Cron, Hup
<1>4. CASE JobStep
  BY <1>1, <1>4 DEF JobStep, SleepEnd, OpenDump, ReadItem, Rm, cnupmvars, collector
<1>5. CASE UNCHANGED vars
  BY <1>1, <1>5 DEF vars, cnupmvars, collector
<1>6. QED
  BY <1>2, <1>3, <1>4, <1>5 DEF Next

\* For any flows, table and children: as long as no write() of a record fails, the
\* flows a process holds are in the slots it has counted, except while it writes
\* them, so collect() counts the next packet in a slot that is free.
THEOREM SlotsStayFree == "record" \notin Faults => (FairSpec => []SlotsFree)
<1> SUFFICES ASSUME "record" \notin Faults PROVE FairSpec => []SlotsFree
  OBVIOUS
<1>1. SlotInv /\ [Next]_vars => SlotInv'
  BY NextSlotInv
<1>2. SlotInv => SlotsFree
  BY DEF SlotInv, Packed, SlotsFree, Dense
<1>3. QED
  BY <1>1, <1>2, InitSlotInv, PTL DEF FairSpec

-------------------------------------------------------------------------------
(* Types.  The counts are sums over tables, so they need the tables to be  *)
(* sound; the dump needs the process that writes to have it open.          *)

Items == [flow : Flows \cup {Header}, bytes : Nat]

FlagsOK == opt \in Options /\ need \in BOOLEAN /\ terminate \in BOOLEAN
TallyOK == /\ lost \in [Flows -> Nat] /\ seen \in [Flows -> Nat]
           /\ gone \in [Flows -> Nat] /\ printed \in [Flows -> Nat]
DiskOK ==
    /\ disk \in [Files -> Seq(Items)] /\ file \in Files \cup {0}
    /\ fd \in [Procs -> Files \cup {0}]
    /\ \A p \in Procs : pc[p] \in {"header", "records"} => fd[p] \in Files

\* The dump is read from its start and item by item, and never beyond its end.
ReaderOK ==
    /\ job \in {"idle", "sleep", "open", "read", "rm"}
    /\ at \in Nat /\ left \in Nat /\ got \in [Files -> Nat] /\ ready \in Nat
    /\ \A n \in Files : got[n] <= Len(disk[n])
    /\ job \in {"idle", "sleep", "open"} /\ file # 0 => got[file] = 0
    /\ job = "read" => file \in Files /\ got[file] = at

TypeInv == SlotInv /\ FlagsOK /\ TallyOK /\ DiskOK /\ ReaderOK

LEMMA FilesFinite == IsFiniteSet(Files) /\ Files \subseteq Nat \ {0}
<1>1. MaxFiles \in Nat /\ 1 \in Int /\ MaxFiles \in Int
  BY CnupmAssumption
<1>2. QED
  BY <1>1, FS_Interval DEF Files

LEMMA ProcsFinite == IsFiniteSet(Procs) /\ Main \in Procs
BY CnupmAssumption, FS_Singleton, FS_Union DEF Procs

\* The bytes of entries or items are natural numbers.
LEMMA BytesType ==
  ASSUME NEW S, IsFiniteSet(S), NEW items, \A i \in S : items[i].bytes \in Nat
  PROVE  BytesOf(items, S) \in [Flows -> Nat]
<1>1. ASSUME NEW f \in Flows
      PROVE  SumFunction([i \in S |-> IF items[i].flow = f THEN items[i].bytes ELSE 0]) \in Nat
  <2> DEFINE h == [i \in S |-> IF items[i].flow = f THEN items[i].bytes ELSE 0]
  <2>1. h \in [S -> Int] /\ \A i \in S : h[i] \in Nat
    OBVIOUS
  <2> HIDE DEF h
  <2>2. SumFunction(h) \in Nat
    BY <2>1, SumFunctionType
  <2>3. QED
    BY <2>2 DEF h
<1>2. QED
  BY <1>1 DEF BytesOf

LEMMA HeldType ==
  ASSUME NEW t, Sound(t)
  PROVE  Held(t) \in [Flows -> Nat]
<1>1. IsFiniteSet(Tree(t)) /\ \A i \in Tree(t) : t.entry[i].bytes \in Nat
  BY DEF Sound, Entry
<1>2. QED
  BY <1>1, BytesType DEF Held

-------------------------------------------------------------------------------
LEMMA InitTypeInv == Init => TypeInv
<1> SUFFICES ASSUME Init PROVE TypeInv
  OBVIOUS
<1>1. SlotInv
  BY InitSlotInv
<1>2. FlagsOK
  BY DEF Init, CnupmInit, FlagsOK
<1>3. TallyOK
  BY DEF Init, CnupmInit, TallyOK, None
<1>4. DiskOK
  <2>1. pc = [p \in Procs |-> IF p = Main THEN "test" ELSE "unborn"]
    BY DEF Init, CnupmInit
  <2>2. << >> \in Seq(Items)
    OBVIOUS
  <2>3. disk = [n \in Files |-> << >>] /\ file = 0 /\ fd = [p \in Procs |-> 0]
    BY DEF Init, CnupmInit
  <2>4. QED
    BY <2>1, <2>2, <2>3 DEF DiskOK
<1>5. ReaderOK
  <2>1. /\ job = "idle" /\ at = 0 /\ left = 0 /\ got = [n \in Files |-> 0] /\ ready = 0
        /\ file = 0 /\ disk = [n \in Files |-> << >>]
    BY DEF Init, CnupmInit
  <2>2. \A n \in Files : Len(disk[n]) = 0
    BY <2>1
  <2>3. QED
    BY <2>1, <2>2 DEF ReaderOK
<1>6. QED
  BY <1>1, <1>2, <1>3, <1>4, <1>5 DEF TypeInv

\* A process that returns from collect_dump() does not write.
LEMMA Returns ==
  ASSUME NEW p \in Procs, Return(p) \/ Exit(p)
  PROVE  /\ \E x \in {"test", "exited", "unborn"} : pc' = [pc EXCEPT ![p] = x]
         /\ \/ UNCHANGED <<tab, gone>>
            \/ gone' = Plus(gone, Held(tab[p])) /\ tab' = [tab EXCEPT ![p] = NewTable]
BY DEF Return, Exit, Goto

LEMMA FlagsStep ==
  ASSUME FlagsOK, [Next]_vars
  PROVE  FlagsOK'
<1>1. CASE CnupmNext
  <2>1. ASSUME NEW f \in Flows, Collect(f) PROVE FlagsOK'
    <3>1. CASE Full(tab[Main])
      BY <2>1, <3>1 DEF Collect, FlagsOK
    <3>2. CASE ~ Full(tab[Main])
      <4>1. PICK t \in Store(tab[Main], f) : need' = (need \/ Crowded(t))
        BY <2>1, <3>2 DEF Collect
      <4>2. need' \in BOOLEAN
        BY <4>1 DEF FlagsOK
      <4>3. QED
        BY <2>1, <4>2 DEF Collect, FlagsOK
    <3>3. QED
      BY <3>1, <3>2
  <2>2. CASE CollectorStep
    BY <2>2 DEF CollectorStep, While, Dispatched, Check, Fork, FlagsOK
  <2>3. ASSUME NEW p \in Procs, DumpStep(p) PROVE FlagsOK'
    BY <2>3 DEF DumpStep, Empty, Open, WriteHeader, WriteRecord, Dumped, FlagsOK
  <2>4. CASE Signal
    BY <2>4 DEF Signal, Hup, Term, FlagsOK
  <2>5. QED
    BY <1>1, <2>1, <2>2, <2>3, <2>4 DEF CnupmNext
<1>2. CASE Cron
  BY <1>2 DEF Cron, Hup, FlagsOK
<1>3. CASE JobStep
  BY <1>3 DEF JobStep, SleepEnd, OpenDump, ReadItem, Rm, cnupmvars, collector, FlagsOK
<1>4. CASE UNCHANGED vars
  BY <1>4 DEF vars, cnupmvars, collector, FlagsOK
<1>5. QED
  BY <1>1, <1>2, <1>3, <1>4 DEF Next

LEMMA PlusType ==
  ASSUME NEW a \in [Flows -> Nat], NEW b \in [Flows -> Nat]
  PROVE  Plus(a, b) \in [Flows -> Nat]
BY DEF Plus

\* What a process had in its table is counted as gone when it ends.
LEMMA GoneType ==
  ASSUME SlotInv, TallyOK, NEW p \in Procs, Return(p) \/ Exit(p)
  PROVE  gone' \in [Flows -> Nat]
<1>1. Held(tab[p]) \in [Flows -> Nat]
  BY HeldType DEF SlotInv
<1>2. QED
  BY <1>1, Returns, PlusType DEF TallyOK

LEMMA TallyStep ==
  ASSUME SlotInv, DiskOK, ReaderOK, TallyOK, [Next]_vars
  PROVE  TallyOK'
<1>1. CASE CnupmNext /\ UNCHANGED jobvars
  <2> USE <1>1
  <2>0. printed' = printed
    BY DEF jobvars, reader
  <2>1. ASSUME NEW f \in Flows, Collect(f) PROVE TallyOK'
    <3>1. /\ seen' = [seen EXCEPT ![f] = @ + 1] /\ gone' = gone
          /\ lost' = lost \/ lost' = [lost EXCEPT ![f] = @ + 1]
      BY <2>1 DEF Collect
    <3>2. QED
      BY <2>0, <3>1 DEF TallyOK
  <2>2. CASE CollectorStep
    <3>1. lost' = lost /\ seen' = seen
      BY <2>2 DEF CollectorStep, While, Dispatched, Check, Fork, history
    <3>2. gone' = gone \/ Exit(Main)
      BY <2>2 DEF CollectorStep, While, Dispatched, Check, Fork, history
    <3>3. gone' \in [Flows -> Nat]
      BY <3>2, ProcsFinite, GoneType DEF TallyOK
    <3>4. QED
      BY <2>0, <3>1, <3>3 DEF TallyOK
  <2>3. ASSUME NEW p \in Procs, DumpStep(p) PROVE TallyOK'
    <3>1. lost' = lost /\ seen' = seen
      BY <2>3 DEF DumpStep, Empty, Open, WriteHeader, WriteRecord, Dumped
    <3>2. gone' = gone \/ Return(p)
      BY <2>3 DEF DumpStep, Empty, Open, WriteHeader, WriteRecord, Dumped
    <3>3. gone' \in [Flows -> Nat]
      BY <3>2, GoneType DEF TallyOK
    <3>4. QED
      BY <2>0, <3>1, <3>3 DEF TallyOK
  <2>4. CASE Signal
    BY <2>0, <2>4 DEF Signal, Hup, Term, TallyOK, history
  <2>5. QED
    BY <2>1, <2>2, <2>3, <2>4 DEF CnupmNext
<1>2. CASE Cron
  <2>1. seen' = seen /\ printed' = printed
    BY <1>2 DEF Cron, Hup, history, reader
  <2>2. CASE UNCHANGED <<lost, gone>>
    BY <2>1, <2>2 DEF TallyOK
  <2>3. CASE lost' = None /\ gone' = Plus(gone, lost)
    <3>1. None \in [Flows -> Nat]
      BY DEF None
    <3>2. QED
      BY <2>1, <2>3, <3>1, PlusType DEF TallyOK
  <2>4. QED
    BY <1>2, <2>2, <2>3 DEF Cron, Hup, history
<1>3. CASE JobStep
  <2>1. lost' = lost /\ seen' = seen /\ gone' = gone
    BY <1>3 DEF JobStep, SleepEnd, OpenDump, ReadItem, Rm, cnupmvars, collector, history
  <2>2. CASE printed' = printed
    BY <2>1, <2>2 DEF TallyOK
  <2>3. CASE /\ ReadItem /\ ~ IsHeader /\ at < Len(disk[file])
             /\ (IsHeader <=> disk[file][at + 1].flow = Header)
             /\ printed' = [printed EXCEPT ![disk[file][at + 1].flow] =
                              @ + disk[file][at + 1].bytes]
    <3>1. disk[file] \in Seq(Items) /\ at \in Nat
      BY <2>3 DEF ReadItem, DiskOK, ReaderOK
    <3>2. disk[file][at + 1] \in Items
      BY <2>3, <3>1, ElementOfSeq
    <3> DEFINE item == disk[file][at + 1]
    <3>3. item.flow \in Flows /\ item.bytes \in Nat
      BY <2>3, <3>2 DEF Items
    <3>4. printed' = [printed EXCEPT ![item.flow] = @ + item.bytes]
      BY <2>3
    <3> HIDE DEF item
    <3>5. QED
      BY <2>1, <3>3, <3>4 DEF TallyOK
  <2>4. QED
    BY <1>3, <2>2, <2>3 DEF JobStep, SleepEnd, OpenDump, ReadItem, Rm, reader
<1>4. CASE UNCHANGED vars
  BY <1>4 DEF vars, cnupmvars, collector, history, jobvars, reader, TallyOK
<1>5. QED
  BY <1>1, <1>2, <1>3, <1>4 DEF Next

-------------------------------------------------------------------------------
(* The dump: only a process that dumps writes, and the reader follows.     *)

Writing == {"header", "records"}

\* A process that dumps writes one item to the file it has open, or none.
LEMMA DumpWrites ==
  ASSUME SlotInv, NEW p \in Procs, DumpStep(p)
  PROVE  \/ disk' = disk
         \/ pc[p] \in Writing /\ \E item \in Items : Write(p, item)
<1>1. CASE Empty(p) \/ Open(p) \/ Dumped(p)
  BY <1>1 DEF Empty, Open, Dumped, dump
<1>2. CASE WriteHeader(p)
  <2>1. tab[p].count \in Nat
    BY DEF SlotInv, Sound
  <2>2. HeaderOf(tab[p]) \in Items
    BY <2>1 DEF HeaderOf, Items
  <2>3. QED
    BY <1>2, <2>2 DEF WriteHeader, Writing
<1>3. CASE WriteRecord(p)
  <2>1. \A i \in Tree(tab[p]) : tab[p].entry[i] \in Items
    BY DEF SlotInv, Sound, Entry, Items
  <2>2. QED
    BY <1>3, <2>1 DEF WriteRecord, Writing
<1>4. QED
  BY <1>1, <1>2, <1>3 DEF DumpStep

\* An item more in a file.
LEMMA Appended ==
  ASSUME DiskOK, NEW p \in Procs, pc[p] \in Writing, NEW item \in Items, Write(p, item)
  PROVE  /\ disk' \in [Files -> Seq(Items)] /\ fd[p] \in Files
         /\ disk'[fd[p]] = Append(disk[fd[p]], item)
         /\ \A n \in Files \ {fd[p]} : disk'[n] = disk[n]
         /\ \A n \in Files : Len(disk'[n]) >= Len(disk[n])
<1>1. fd[p] \in Files /\ disk \in [Files -> Seq(Items)]
  BY DEF DiskOK, Writing
<1>2. Append(disk[fd[p]], item) \in Seq(Items) /\ Len(Append(disk[fd[p]], item)) = Len(disk[fd[p]]) + 1
  BY <1>1, AppendProperties
<1>3. disk' \in [Files -> Seq(Items)] /\ disk'[fd[p]] = Append(disk[fd[p]], item)
      /\ \A n \in Files \ {fd[p]} : disk'[n] = disk[n]
  BY <1>1, <1>2 DEF Write
<1>4. \A n \in Files : Len(disk[n]) \in Nat
  BY <1>1, LenProperties
<1>5. ASSUME NEW n \in Files PROVE Len(disk'[n]) >= Len(disk[n])
  <2>1. CASE n = fd[p]
    <3>1. Len(disk'[n]) = Len(disk[n]) + 1
      BY <1>2, <1>3, <2>1
    <3>2. QED
      BY <1>4, <3>1
  <2>2. CASE n # fd[p]
    <3>1. disk'[n] = disk[n]
      BY <1>3, <2>2
    <3>2. QED
      BY <1>4, <3>1
  <2>3. QED
    BY <2>1, <2>2
<1>6. QED
  BY <1>1, <1>3, <1>5

\* The name stands for the file it stood for, or for one with nothing in it.
LEMMA DumpNames ==
  ASSUME DiskOK, NEW p \in Procs, DumpStep(p)
  PROVE  \/ UNCHANGED file
         \/ file = 0 /\ file' \in Files /\ disk[file'] = << >>
BY DEF DumpStep, Empty, Open, WriteHeader, WriteRecord, Dumped, dump, Free

\* A process that moves to another place does not write, or keeps its file.
LEMMA FdKept ==
  ASSUME SlotInv, DiskOK, NEW p \in Procs, NEW x, pc' = [pc EXCEPT ![p] = x],
         NEW n \in Files \cup {0},
         fd' = fd \/ fd' = [fd EXCEPT ![p] = n],
         x \in Writing => fd'[p] \in Files
  PROVE  /\ fd' \in [Procs -> Files \cup {0}]
         /\ \A q \in Procs : pc'[q] \in {"header", "records"} => fd'[q] \in Files
BY DEF SlotInv, DiskOK, Writing

LEMMA DumpFd ==
  ASSUME SlotInv, DiskOK, NEW p \in Procs, DumpStep(p)
  PROVE  /\ fd' \in [Procs -> Files \cup {0}]
         /\ \A q \in Procs : pc'[q] \in {"header", "records"} => fd'[q] \in Files
<1>0. 0 \in Files \cup {0}
  OBVIOUS
<1>1. ASSUME Return(p), fd' = fd \/ fd' = [fd EXCEPT ![p] = 0]
      PROVE  /\ fd' \in [Procs -> Files \cup {0}]
             /\ \A q \in Procs : pc'[q] \in {"header", "records"} => fd'[q] \in Files
  <2>1. PICK x \in {"test", "exited", "unborn"} : pc' = [pc EXCEPT ![p] = x]
    BY <1>1, Returns
  <2>2. x \notin Writing
    BY DEF Writing
  <2>3. QED
    BY <1>0, <1>1, <2>1, <2>2, FdKept
<1>2. CASE Empty(p)
  BY <1>1, <1>2 DEF Empty, dump
<1>3. CASE Open(p)
  <2>1. CASE Return(p) /\ fd' = fd
    BY <1>1, <2>1
  <2>2. ASSUME Goto(p, "header"), NEW n \in Files \cup {0}, n # 0, fd' = [fd EXCEPT ![p] = n]
        PROVE  /\ fd' \in [Procs -> Files \cup {0}]
               /\ \A q \in Procs : pc'[q] \in {"header", "records"} => fd'[q] \in Files
    <3>1. fd'[p] \in Files
      BY <2>2 DEF DiskOK
    <3>2. QED
      BY <2>2, <3>1, FdKept DEF Goto
  <2>3. QED
    <3>1. \A n \in (IF file = 0 THEN Free ELSE {file}) : n \in Files /\ n # 0
      BY FilesFinite DEF Free, DiskOK
    <3>2. QED
      BY <1>3, <2>1, <2>2, <3>1 DEF Open
<1>4. CASE WriteHeader(p)
  <2>1. CASE Return(p) /\ Close(p)
    BY <1>1, <2>1 DEF Close
  <2>2. CASE Goto(p, "records") /\ fd' = fd
    <3>1. fd[p] \in Files
      BY <1>4 DEF WriteHeader, DiskOK
    <3>2. QED
      BY <1>0, <2>2, <3>1, FdKept DEF Goto
  <2>3. QED
    BY <1>4, <2>1, <2>2 DEF WriteHeader
<1>5. CASE WriteRecord(p)
  <2>1. CASE Return(p) /\ Close(p)
    BY <1>1, <2>1 DEF Close
  <2>2. CASE pc' = pc /\ fd' = fd
    BY <2>2 DEF DiskOK
  <2>3. QED
    BY <1>5, <2>1, <2>2 DEF WriteRecord
<1>6. CASE Dumped(p)
  BY <1>1, <1>6 DEF Dumped, Close
<1>7. QED
  BY <1>2, <1>3, <1>4, <1>5, <1>6 DEF DumpStep

LEMMA DiskStep ==
  ASSUME SlotInv, DiskOK, ReaderOK, [Next]_vars
  PROVE  DiskOK'
<1>1. ASSUME UNCHANGED <<disk, fd>>, file' \in {file, 0},
             \A q \in Procs : pc'[q] \in {"header", "records"} => pc'[q] = pc[q]
      PROVE  DiskOK'
  BY <1>1 DEF DiskOK
<1>2. CASE CnupmNext
  <2>1. ASSUME NEW f \in Flows, Collect(f) PROVE DiskOK'
    BY <1>1, <2>1 DEF Collect, dump
  <2>2. CASE CollectorStep
    <3>1. UNCHANGED <<disk, fd, file>>
      BY <2>2 DEF CollectorStep, While, Dispatched, Check, Fork, dump
    <3>2. CASE While \/ Dispatched
      BY <1>1, <3>1, <3>2 DEF While, Dispatched, Exit, Goto, SlotInv
    <3>3. CASE Check
      <4>1. Dumps \notin {"header", "records"} /\ pc' = [pc EXCEPT ![Main] = Dumps]
        BY <3>3 DEF Dumps, Check, Goto
      <4>2. QED
        BY <1>1, <3>1, <4>1 DEF SlotInv
    <3>4. CASE Fork
      <4>1. CASE Goto(Main, "open")
        BY <1>1, <3>1, <4>1 DEF Goto, SlotInv
      <4>2. ASSUME NEW c \in Children, pc' = [pc EXCEPT ![c] = "open", ![Main] = "test"]
            PROVE  DiskOK'
        BY <1>1, <3>1, <4>2 DEF SlotInv
      <4>3. QED
        BY <3>4, <4>1, <4>2 DEF Fork
    <3>5. QED
      BY <2>2, <3>2, <3>3, <3>4 DEF CollectorStep
  <2>3. ASSUME NEW p \in Procs, DumpStep(p) PROVE DiskOK'
    <3>1. disk' \in [Files -> Seq(Items)]
      <4>1. CASE disk' = disk
        BY <4>1 DEF DiskOK
      <4>2. ASSUME pc[p] \in Writing, NEW item \in Items, Write(p, item)
            PROVE  disk' \in [Files -> Seq(Items)]
        BY <4>2, Appended
      <4>3. QED
        BY <2>3, <4>1, <4>2, DumpWrites
    <3>2. file' \in Files \cup {0}
      BY <2>3, DumpNames DEF DiskOK
    <3>3. QED
      BY <2>3, <3>1, <3>2, DumpFd DEF DiskOK
  <2>4. CASE Signal
    BY <1>1, <2>4 DEF Signal, Hup, Term, dump
  <2>5. QED
    BY <1>2, <2>1, <2>2, <2>3, <2>4 DEF CnupmNext
<1>3. CASE Cron
  <2>1. UNCHANGED <<disk, fd, file>> /\ (pc' = pc \/ Goto(Main, "test"))
    BY <1>3 DEF Cron, Hup, dump
  <2>2. QED
    BY <1>1, <2>1 DEF Goto, SlotInv
<1>4. CASE JobStep
  <2>1. UNCHANGED <<disk, fd, pc>> /\ file' \in {file, 0}
    BY <1>4 DEF JobStep, SleepEnd, OpenDump, ReadItem, Rm, cnupmvars, collector, dump
  <2>2. QED
    BY <1>1, <2>1
<1>5. CASE UNCHANGED vars
  BY <1>1, <1>5 DEF vars, cnupmvars, collector, dump
<1>6. QED
  BY <1>2, <1>3, <1>4, <1>5 DEF Next

\* Files only grow.
LEMMA FilesGrow ==
  ASSUME SlotInv, DiskOK, [Next]_vars
  PROVE  \A n \in Files : Len(disk[n]) \in Nat /\ Len(disk'[n]) \in Nat /\ Len(disk'[n]) >= Len(disk[n])
<1>1. \A n \in Files : Len(disk[n]) \in Nat
  BY LenProperties DEF DiskOK
<1>2. CASE disk' = disk
  BY <1>1, <1>2
<1>3. ASSUME NEW p \in Procs, DumpStep(p), disk' # disk
      PROVE  \A n \in Files : Len(disk'[n]) \in Nat /\ Len(disk'[n]) >= Len(disk[n])
  <2>1. PICK item \in Items : pc[p] \in Writing /\ Write(p, item)
    BY <1>3, DumpWrites
  <2>2. disk' \in [Files -> Seq(Items)] /\ \A n \in Files : Len(disk'[n]) >= Len(disk[n])
    BY <2>1, Appended
  <2>3. \A n \in Files : Len(disk'[n]) \in Nat
    BY <2>2, LenProperties
  <2>4. QED
    BY <2>2, <2>3
<1>4. disk' = disk \/ \E p \in Procs : DumpStep(p)
  <2>1. (\E f \in Flows : Collect(f)) \/ CollectorStep \/ Signal => disk' = disk
    BY DEF Collect, CollectorStep, While, Dispatched, Check, Fork, Signal, Hup, Term, dump
  <2>2. Cron \/ JobStep => disk' = disk
    BY DEF Cron, Hup, JobStep, SleepEnd, OpenDump, ReadItem, Rm, cnupmvars, dump
  <2>3. UNCHANGED vars => disk' = disk
    BY DEF vars, cnupmvars, dump
  <2>4. QED
    BY <2>1, <2>2, <2>3 DEF Next, CnupmNext
<1>5. QED
  BY <1>1, <1>2, <1>3, <1>4

LEMMA ReaderStep ==
  ASSUME SlotInv, DiskOK, ReaderOK, [Next]_vars
  PROVE  ReaderOK'
<1> DEFINE Longer == \A n \in Files : /\ Len(disk[n]) \in Nat /\ Len(disk'[n]) \in Nat
                                      /\ Len(disk'[n]) >= Len(disk[n])
<1>0. Longer
  BY FilesGrow
<1> HIDE DEF Longer
<1>1. ASSUME UNCHANGED <<job, reader>>,
             file' = file \/ (file = 0 /\ file' \in Files /\ disk[file'] = << >>)
      PROVE  ReaderOK'
  <2>1. \A n \in Files : got[n] <= Len(disk'[n])
    BY <1>0 DEF ReaderOK, Longer
  <2>2. file' # file => got[file'] = 0
    <3>1. file' # file => Len(disk[file']) = 0 /\ got[file'] \in Nat /\ got[file'] <= Len(disk[file'])
      BY <1>1 DEF ReaderOK
    <3>2. QED
      BY <3>1
  <2>3. job = "read" => file' = file
    BY <1>1, FilesFinite DEF ReaderOK
  <2>4. QED
    BY <1>1, <2>1, <2>2, <2>3 DEF ReaderOK, reader
<1>2. CASE CnupmNext /\ UNCHANGED jobvars
  <2>1. CASE file' = file
    BY <1>1, <1>2, <2>1 DEF jobvars
  <2>2. ASSUME NEW p \in Procs, DumpStep(p) PROVE ReaderOK'
    BY <1>1, <1>2, <2>2, DumpNames DEF jobvars
  <2>3. QED
    BY <1>2, <2>1, <2>2 DEF CnupmNext, Collect, CollectorStep, While, Dispatched, Check, Fork,
       Signal, Hup, Term, dump
<1>3. CASE Cron
  <2>1. job = "idle" /\ job' \in {"sleep", "open"} /\ UNCHANGED <<file, disk>> /\ UNCHANGED reader
    BY <1>3 DEF Cron, Hup, dump
  <2>2. QED
    BY <2>1 DEF ReaderOK, reader
<1>4. CASE SleepEnd
  <2>1. job = "sleep" /\ job' = "open" /\ UNCHANGED <<file, disk>> /\ UNCHANGED reader
    BY <1>4 DEF SleepEnd, cnupmvars, dump
  <2>2. QED
    BY <2>1 DEF ReaderOK, reader
<1>5. CASE OpenDump
  <2>1. /\ job = "open" /\ job' = (IF file = 0 THEN "rm" ELSE "read") /\ at' = 0 /\ left' = 0
        /\ UNCHANGED <<file, disk, got>>
    BY <1>5 DEF OpenDump, cnupmvars, dump
  <2>2. ready' \in Nat
    <3>1. file # 0 => file \in Files
      BY DEF DiskOK
    <3>2. ready' = IF file = 0 \/ opt.fork THEN 0 ELSE Len(disk[file])
      BY <1>5 DEF OpenDump
    <3>3. QED
      BY <1>0, <3>1, <3>2 DEF Longer
  <2>3. QED
    BY <2>1, <2>2 DEF ReaderOK, DiskOK
<1>6. CASE ReadItem
  <2>1. UNCHANGED <<file, disk, ready>> /\ job = "read" /\ file \in Files /\ got[file] = at
    BY <1>6 DEF ReadItem, cnupmvars, dump, ReaderOK
  <2>2. CASE job' = "rm" /\ UNCHANGED <<at, left, got>>
    BY <2>1, <2>2 DEF ReaderOK
  <2>3. CASE /\ at < Len(disk[file]) /\ (IsHeader <=> disk[file][at + 1].flow = Header)
             /\ at' = at + 1 /\ got' = [got EXCEPT ![file] = at + 1] /\ job' = job
             /\ left' = IF IsHeader THEN disk[file][at + 1].bytes ELSE left - 1
    <3>1. disk[file] \in Seq(Items) /\ at \in Nat /\ left \in Nat
      BY <2>1 DEF DiskOK, ReaderOK
    <3>2. disk[file][at + 1] \in Items
      BY <2>3, <3>1, ElementOfSeq
    <3>3. left' \in Nat
      BY <2>3, <3>1, <3>2 DEF Items, IsHeader
    <3>4. at + 1 \in Nat /\ at + 1 <= Len(disk[file])
      BY <1>0, <2>1, <2>3, <3>1 DEF Longer
    <3>5. got' \in [Files -> Nat] /\ \A n \in Files : got'[n] <= Len(disk[n])
      BY <2>1, <2>3, <3>4 DEF ReaderOK
    <3>6. got'[file] = at'
      BY <2>1, <2>3 DEF ReaderOK
    <3>7. QED
      BY <2>1, <2>3, <3>3, <3>4, <3>5, <3>6 DEF ReaderOK
  <2>4. QED
    BY <1>6, <2>2, <2>3 DEF ReadItem
<1>7. CASE Rm
  <2>1. job' = "idle" /\ file' = 0 /\ UNCHANGED <<disk, at, left, got, ready>>
    BY <1>7 DEF Rm, reader
  <2>2. QED
    BY <2>1 DEF ReaderOK
<1>8. CASE UNCHANGED vars
  BY <1>1, <1>8 DEF vars, jobvars, cnupmvars, dump
<1>9. QED
  BY <1>2, <1>3, <1>4, <1>5, <1>6, <1>7, <1>8 DEF Next, JobStep

LEMMA NextTypeInv == TypeInv /\ [Next]_vars => TypeInv'
BY NextSlotInv, FlagsStep, TallyStep, DiskStep, ReaderStep DEF TypeInv

\* For any flows, table, children, switches and failures: every variable of the
\* collector, the dump and the cron job keeps its type.  In particular the entries
\* are in slots the table has, no count goes below zero, and a process that writes
\* the dump has it open.
THEOREM DumpTypes == FairSpec => []DumpTypeOK
<1>1. TypeInv => DumpTypeOK
  <2> SUFFICES ASSUME TypeInv PROVE DumpTypeOK
    OBVIOUS
  <2>1. \A p \in Procs : /\ tab[p].count \in 0 .. MaxEntries /\ Tree(tab[p]) \subseteq 1 .. MaxEntries
                         /\ tab[p].entry \in [Tree(tab[p]) -> [flow : Flows, bytes : Nat]]
    BY DEF TypeInv, SlotInv, Sound, Entry
  <2>2. pc \in [Procs -> {"unborn", "test", "dispatch", "check", "fork",
                          "open", "header", "records", "exited"}]
    BY DEF TypeInv, SlotInv, Places
  <2>3. /\ opt \in Options /\ need \in BOOLEAN /\ terminate \in BOOLEAN
        /\ lost \in [Flows -> Nat] /\ seen \in [Flows -> Nat] /\ gone \in [Flows -> Nat]
        /\ disk \in [Files -> Seq([flow : Flows \cup {Header}, bytes : Nat])]
        /\ file \in Files \cup {0} /\ fd \in [Procs -> Files \cup {0}]
    BY DEF TypeInv, FlagsOK, TallyOK, DiskOK, Items
  <2>4. CnupmTypeOK
    BY <2>1, <2>2, <2>3 DEF CnupmTypeOK
  <2>5. QED
    BY <2>4 DEF DumpTypeOK, TypeInv, ReaderOK, TallyOK
<1>2. QED
  BY <1>1, InitTypeInv, NextTypeInv, PTL DEF FairSpec

-------------------------------------------------------------------------------
(* Every packet is accounted for.  First what tables and files hold.       *)

One(e, f) == IF e.flow = f THEN e.bytes ELSE 0

\* One entry or item more.
HasBytes(items, S, x) == /\ IsFiniteSet(S) /\ x \notin S
                         /\ \A i \in S \cup {x} : items[i].bytes \in Nat

LEMMA BytesMore ==
  ASSUME NEW S, NEW items, NEW x, HasBytes(items, S, x), NEW f \in Flows
  PROVE  BytesOf(items, S \cup {x})[f] = BytesOf(items, S)[f] + One(items[x], f)
<1> DEFINE h == [i \in S |-> IF items[i].flow = f THEN items[i].bytes ELSE 0]
           g == [i \in S \cup {x} |-> IF items[i].flow = f THEN items[i].bytes ELSE 0]
<1>1. h \in [S -> Int] /\ g \in [S \cup {x} -> Int] /\ \A y \in S : g[y] = h[y]
  BY DEF HasBytes
<1>2. g[x] = One(items[x], f)
  BY DEF One
<1>3. BytesOf(items, S)[f] = SumFunction(h) /\ BytesOf(items, S \cup {x})[f] = SumFunction(g)
  BY DEF BytesOf
<1> HIDE DEF h, g
<1>4. Widens(g, h, S, x)
  BY <1>1 DEF Widens, HasBytes
<1>5. SumFunction(g) = SumFunction(h) + g[x]
  BY <1>4, SumFunctionAdded DEF HasBytes
<1>6. QED
  BY <1>2, <1>3, <1>5

\* The same entries or items in another place.
LEMMA BytesSame ==
  ASSUME NEW S, NEW items, NEW others, \A i \in S : others[i] = items[i]
  PROVE  BytesOf(others, S) = BytesOf(items, S)
<1>1. \A f \in Flows : [i \in S |-> IF others[i].flow = f THEN others[i].bytes ELSE 0]
                     = [i \in S |-> IF items[i].flow = f THEN items[i].bytes ELSE 0]
  OBVIOUS
<1>2. QED
  BY <1>1 DEF BytesOf

LEMMA BytesOfNothing ==
  ASSUME NEW items, NEW f \in Flows
  PROVE  BytesOf(items, {})[f] = 0
<1> DEFINE h == [i \in {} |-> IF items[i].flow = f THEN items[i].bytes ELSE 0]
<1>1. h \in [{} -> Int] /\ BytesOf(items, {})[f] = SumFunction(h) /\ IsFiniteSet({})
  BY FS_EmptySet DEF BytesOf
<1> HIDE DEF h
<1>2. QED
  BY <1>1, SumFunctionOfZeros

\* A packet more in a dense table.
LEMMA HeldStored ==
  ASSUME NEW t, Dense(t), ~ Full(t), NEW f \in Flows, NEW u \in Store(t, f), NEW g \in Flows
  PROVE  Held(u)[g] = Held(t)[g] + (IF g = f THEN 1 ELSE 0)
<1> DEFINE n == t.count + 1
           e == [flow |-> f, bytes |-> 1]
           written == Put(t.entry, n, e)
           same == {i \in Tree(t) : written[i].flow = f}
<1>1. /\ t \in [entry : {t.entry}, count : Nat] /\ t.entry \in [Tree(t) -> Entry]
      /\ IsFiniteSet(Tree(t)) /\ t.count \in Nat /\ Tree(t) = 1 .. t.count
  BY DEF Dense, Sound
<1>2. n \notin Tree(t)
  BY <1>1
<1>3. e \in Entry /\ e.flow = f /\ e.bytes = 1
  BY DEF Entry
<1>4. /\ DOMAIN written = Tree(t) \cup {n} /\ written[n] = e
      /\ \A i \in Tree(t) : written[i] = t.entry[i]
  <2> HIDE DEF e, n
  <2>1. QED
    BY <1>1, <1>2 DEF Put, Tree
<1>5. CASE same = {}
  <2>1. u = [entry |-> written, count |-> n]
    BY <1>5 DEF Store
  <2> HIDE DEF written, e, n
  <2>2. Held(u) = BytesOf(written, Tree(t) \cup {n})
    BY <1>4, <2>1 DEF Held, Tree
  <2>3. HasBytes(written, Tree(t), n)
    BY <1>1, <1>2, <1>3, <1>4 DEF Entry, HasBytes
  <2>4. Held(u)[g] = BytesOf(written, Tree(t))[g] + One(e, g)
    BY <1>4, <2>2, <2>3, BytesMore
  <2>5. BytesOf(written, Tree(t)) = Held(t)
    BY <1>4, BytesSame DEF Held
  <2>6. One(e, g) = IF g = f THEN 1 ELSE 0
    BY <1>3 DEF One
  <2>7. QED
    BY <2>4, <2>5, <2>6
<1>6. CASE same # {}
  <2> DEFINE kept == Restrict(written, Tree(t))
  <2>1. PICK i \in same : u = [t EXCEPT !.entry = [kept EXCEPT ![i] = PlusByte(@)]]
    BY <1>6 DEF Store
  <2>2. i \in Tree(t) /\ t.entry[i].flow = f
    BY <1>4
  <2>3. kept = t.entry
    <3> HIDE DEF written
    <3>1. QED
      BY <1>1, <1>4 DEF Restrict
  <2> HIDE DEF kept, same, written
  <2>4. u.entry = [t.entry EXCEPT ![i] = PlusByte(@)]
    BY <1>1, <2>1, <2>3
  <2>5. Tree(u) = Tree(t)
    BY <1>1, <2>4 DEF Tree
  <2>6. /\ u.entry[i].flow = f /\ u.entry[i].bytes = t.entry[i].bytes + 1
        /\ t.entry[i].bytes \in Nat /\ \A k \in Tree(t) \ {i} : u.entry[k] = t.entry[k]
    BY <1>1, <2>2, <2>4 DEF PlusByte, Entry
  <2> DEFINE h == [k \in Tree(t) |-> IF t.entry[k].flow = g THEN t.entry[k].bytes ELSE 0]
             q == [k \in Tree(t) |-> IF u.entry[k].flow = g THEN u.entry[k].bytes ELSE 0]
  <2>7. Held(t)[g] = SumFunction(h) /\ Held(u)[g] = SumFunction(q)
    BY <2>5 DEF Held, BytesOf
  <2>8. \A k \in Tree(t) : t.entry[k].bytes \in Nat /\ u.entry[k].bytes \in Nat
    <3>1. \A k \in Tree(t) : t.entry[k].bytes \in Nat
      BY <1>1 DEF Entry
    <3>2. QED
      BY <2>6, <3>1
  <2>9. h \in [Tree(t) -> Int] /\ q \in [Tree(t) -> Int] /\ \A k \in Tree(t) \ {i} : q[k] = h[k]
    BY <2>6, <2>8
  <2>10. h[i] \in Int /\ q[i] = h[i] + (IF g = f THEN 1 ELSE 0)
    BY <2>2, <2>6
  <2> HIDE DEF h, q
  <2>11. Differs(q, h, Tree(t), i)
    BY <2>2, <2>9 DEF Differs
  <2>12. SumFunction(q) = SumFunction(h) - h[i] + q[i] /\ SumFunction(h) \in Int
    BY <1>1, <2>11, SumFunctionChanged
  <2>13. QED
    BY <2>7, <2>10, <2>12
<1>7. QED
  BY <1>5, <1>6

\* A record less.
LEMMA HeldRemoved ==
  ASSUME NEW t, Sound(t), NEW i \in Tree(t), NEW f \in Flows
  PROVE  Held(t)[f] = Held(Removed(t, i))[f] + One(t.entry[i], f)
<1> DEFINE u == Removed(t, i)
           S == Tree(t) \ {i}
<1>1. Tree(u) = S /\ \A k \in S : u.entry[k] = t.entry[k]
  BY DEF Removed, Restrict, Tree
<1>2. IsFiniteSet(S) /\ S \cup {i} = Tree(t) /\ \A k \in Tree(t) : t.entry[k].bytes \in Nat
  BY FS_RemoveElement DEF Sound, Entry
<1> HIDE DEF u
<1>3. i \notin S
  OBVIOUS
<1> HIDE DEF S
<1>4. Held(u) = BytesOf(t.entry, S)
  <2>1. BytesOf(u.entry, S) = BytesOf(t.entry, S)
    BY <1>1, BytesSame
  <2>2. QED
    BY <1>1, <2>1 DEF Held
<1>5. BytesOf(t.entry, S \cup {i})[f] = BytesOf(t.entry, S)[f] + One(t.entry[i], f)
  <2>1. HasBytes(t.entry, S, i)
    BY <1>2, <1>3 DEF HasBytes
  <2>2. QED
    BY <2>1, BytesMore
<1>6. QED
  BY <1>2, <1>4, <1>5 DEF Held, u

LEMMA HeldEmpty ==
  ASSUME NEW f \in Flows
  PROVE  Held(NewTable)[f] = 0
<1>1. Tree(NewTable) = {}
  BY DEF Tree, NewTable
<1>2. QED
  BY <1>1, BytesOfNothing DEF Held

\* An item more in a file of which k items were read.
LEMMA UnreadAppended ==
  ASSUME NEW s \in Seq(Items), NEW e \in Items, NEW k \in Nat, k <= Len(s), NEW f \in Flows
  PROVE  BytesOf(Append(s, e), k + 1 .. Len(Append(s, e)))[f]
           = BytesOf(s, k + 1 .. Len(s))[f] + One(e, f)
<1> DEFINE u == Append(s, e)
           l == Len(s)
           S == k + 1 .. l
<1>1. l \in Nat /\ u \in Seq(Items) /\ Len(u) = l + 1 /\ u[l + 1] = e
      /\ \A i \in 1 .. l : u[i] = s[i]
  BY AppendProperties, LenProperties
<1>2. /\ k + 1 .. l + 1 = S \cup {l + 1} /\ l + 1 \notin S /\ S \subseteq 1 .. l
      /\ S \cup {l + 1} \subseteq 1 .. Len(u)
  BY <1>1
<1>3. IsFiniteSet(S)
  <2>1. k + 1 \in Int /\ l \in Int
    BY <1>1
  <2>2. QED
    BY <2>1, FS_Interval
<1>4. \A i \in S \cup {l + 1} : u[i].bytes \in Nat
  <2>1. \A i \in 1 .. Len(u) : u[i] \in Items
    BY <1>1, ElementOfSeq
  <2>2. QED
    BY <1>2, <2>1 DEF Items
<1> HIDE DEF u, l, S
<1>5. BytesOf(u, S \cup {l + 1})[f] = BytesOf(u, S)[f] + One(e, f)
  <2>1. HasBytes(u, S, l + 1)
    BY <1>2, <1>3, <1>4 DEF HasBytes
  <2>2. QED
    BY <1>1, <2>1, BytesMore
<1>6. BytesOf(u, S) = BytesOf(s, S)
  BY <1>1, <1>2, BytesSame
<1>7. BytesOf(u, k + 1 .. Len(u))[f] = BytesOf(s, S)[f] + One(e, f)
  BY <1>1, <1>2, <1>5, <1>6
<1>8. QED
  BY <1>7 DEF u, l, S

\* An item is read.
LEMMA UnreadRead ==
  ASSUME NEW s \in Seq(Items), NEW k \in Nat, k < Len(s), NEW f \in Flows
  PROVE  BytesOf(s, k + 1 .. Len(s))[f] = BytesOf(s, k + 1 + 1 .. Len(s))[f] + One(s[k + 1], f)
<1> DEFINE l == Len(s)
           S == k + 1 + 1 .. l
<1>1. l \in Nat
  BY LenProperties
<1>2. k + 1 .. l = S \cup {k + 1} /\ k + 1 \notin S /\ S \cup {k + 1} \subseteq 1 .. Len(s)
  BY <1>1
<1>3. IsFiniteSet(S)
  <2>1. k + 1 + 1 \in Int /\ l \in Int
    BY <1>1
  <2>2. QED
    BY <2>1, FS_Interval
<1>4. \A i \in S \cup {k + 1} : s[i].bytes \in Nat
  <2>1. \A i \in 1 .. Len(s) : s[i] \in Items
    BY ElementOfSeq
  <2>2. QED
    BY <1>2, <2>1 DEF Items
<1> HIDE DEF l, S
<1>5. BytesOf(s, S \cup {k + 1})[f] = BytesOf(s, S)[f] + One(s[k + 1], f)
  <2>1. HasBytes(s, S, k + 1)
    BY <1>2, <1>3, <1>4 DEF HasBytes
  <2>2. QED
    BY <2>1, BytesMore
<1>6. BytesOf(s, k + 1 .. l)[f] = BytesOf(s, S)[f] + One(s[k + 1], f)
  BY <1>2, <1>5
<1>7. QED
  BY <1>6 DEF l, S

-------------------------------------------------------------------------------
(* What all tables and all files hold.                                     *)

TablesHold(tb) == [f \in Flows |-> SumFunction([p \in Procs |-> Held(tb[p])[f]])]
FilesHold(d, g) == [f \in Flows |-> SumFunction([n \in Files |->
                                   BytesOf(d[n], g[n] + 1 .. Len(d[n]))[f]])]

SoundAll(tb) == DOMAIN tb = Procs /\ \A p \in Procs : Sound(tb[p])

\* An amount changes by the change of one of its parts.
Moved(new, old, from, to) == new = old - from + to

\* One table changes.
OneTable(tb, tc, p, t) == SoundAll(tb) /\ tc = [tb EXCEPT ![p] = t] /\ Sound(t)

LEMMA TablesChanged ==
  ASSUME NEW tb, NEW tc, NEW p \in Procs, NEW t, OneTable(tb, tc, p, t), NEW f \in Flows
  PROVE  /\ SoundAll(tc)
         /\ Moved(TablesHold(tc)[f], TablesHold(tb)[f], Held(tb[p])[f], Held(t)[f])
         /\ TablesHold(tb)[f] \in Int /\ Held(tb[p])[f] \in Nat /\ Held(t)[f] \in Nat
<1> DEFINE h == [q \in Procs |-> Held(tb[q])[f]]
           g == [q \in Procs |-> Held(tc[q])[f]]
<1>1. \A q \in Procs : tc[q] = IF q = p THEN t ELSE tb[q]
  BY DEF OneTable, SoundAll
<1>2. DOMAIN tc = Procs
  BY DEF OneTable, SoundAll
<1>3. SoundAll(tc)
  BY <1>1, <1>2 DEF OneTable, SoundAll
<1>4. \A q \in Procs : Held(tb[q])[f] \in Nat /\ Held(tc[q])[f] \in Nat
  BY <1>3, HeldType DEF OneTable, SoundAll
<1>5. h[p] = Held(tb[p])[f] /\ g[p] = Held(t)[f]
  BY <1>1
<1>6. Differs(g, h, Procs, p)
  BY <1>1, <1>4 DEF Differs
<1>7. TablesHold(tb)[f] = SumFunction(h) /\ TablesHold(tc)[f] = SumFunction(g)
  BY DEF TablesHold
<1> HIDE DEF h, g
<1>8. SumFunction(g) = SumFunction(h) - h[p] + g[p] /\ SumFunction(h) \in Int
  BY <1>6, ProcsFinite, SumFunctionChanged
<1>9. Held(t)[f] \in Nat /\ Held(tb[p])[f] \in Nat
  BY <1>1, <1>4
<1>10. QED
  BY <1>3, <1>5, <1>7, <1>8, <1>9 DEF Moved

\* What is not read yet of a file changes.
FilesRead(d, g) == /\ d \in [Files -> Seq(Items)] /\ g \in [Files -> Nat]
              /\ \A n \in Files : g[n] <= Len(d[n])

LEMMA UnreadType ==
  ASSUME NEW s \in Seq(Items), NEW k \in Nat, NEW f \in Flows
  PROVE  BytesOf(s, k + 1 .. Len(s))[f] \in Nat
<1>1. k + 1 \in Int /\ Len(s) \in Int
  BY LenProperties
<1>2. IsFiniteSet(k + 1 .. Len(s))
  BY <1>1, FS_Interval
<1>3. \A i \in 1 .. Len(s) : s[i] \in Items
  BY ElementOfSeq
<1>4. k + 1 .. Len(s) \subseteq 1 .. Len(s)
  BY <1>1
<1>5. \A i \in k + 1 .. Len(s) : s[i].bytes \in Nat
  BY <1>3, <1>4 DEF Items
<1>6. BytesOf(s, k + 1 .. Len(s)) \in [Flows -> Nat]
  BY <1>2, <1>5, BytesType
<1>7. QED
  BY <1>6

Elsewhere(d, g, e, k, n) == \A m \in Files \ {n} : e[m] = d[m] /\ k[m] = g[m]

LEMMA DumpsChanged ==
  ASSUME NEW d, NEW g, NEW e, NEW k, FilesRead(d, g), FilesRead(e, k), NEW n \in Files, NEW f \in Flows,
         Elsewhere(d, g, e, k, n)
  PROVE  /\ Moved(FilesHold(e, k)[f], FilesHold(d, g)[f],
                  BytesOf(d[n], g[n] + 1 .. Len(d[n]))[f], BytesOf(e[n], k[n] + 1 .. Len(e[n]))[f])
         /\ FilesHold(d, g)[f] \in Int
         /\ BytesOf(d[n], g[n] + 1 .. Len(d[n]))[f] \in Nat
         /\ BytesOf(e[n], k[n] + 1 .. Len(e[n]))[f] \in Nat
<1> DEFINE U(c, l, m) == BytesOf(c[m], l[m] + 1 .. Len(c[m]))[f]
           h == [m \in Files |-> U(d, g, m)]
           q == [m \in Files |-> U(e, k, m)]
<1>1. \A m \in Files : U(d, g, m) \in Nat /\ U(e, k, m) \in Nat
  BY UnreadType DEF FilesRead
<1>2. \A m \in Files \ {n} : U(e, k, m) = U(d, g, m)
  BY DEF Elsewhere
<1>3. FilesHold(d, g)[f] = SumFunction(h) /\ FilesHold(e, k)[f] = SumFunction(q)
  BY DEF FilesHold
<1> HIDE DEF U
<1>4. Differs(q, h, Files, n)
  BY <1>1, <1>2 DEF Differs
<1>5. h[n] = U(d, g, n) /\ q[n] = U(e, k, n)
  OBVIOUS
<1> HIDE DEF h, q
<1>6. SumFunction(q) = SumFunction(h) - h[n] + q[n] /\ SumFunction(h) \in Int
  BY <1>4, FilesFinite, SumFunctionChanged
<1>7. QED
  BY <1>1, <1>3, <1>5, <1>6 DEF U, Moved

LEMMA InTablesIs == InTables = TablesHold(tab)
BY DEF InTables, TablesHold

LEMMA InDumpsIs == InDumps = FilesHold(disk, got)
BY DEF InDumps, FilesHold, Unread

LEMMA InTablesNext == InTables' = TablesHold(tab')
BY DEF InTables, TablesHold

LEMMA InDumpsNext == InDumps' = FilesHold(disk', got')
BY DEF InDumps, FilesHold, Unread

-------------------------------------------------------------------------------
(* Every step keeps the books.                                             *)

Balanced(f) == seen[f] = (lost[f] + gone[f]) + ((InTables[f] + InDumps[f]) + printed[f])

\* A process that ended, or was not forked, has an empty table.
RestInv == \A p \in Procs : pc[p] \in {"unborn", "exited"} => tab[p] = NewTable

LEMMA InitRestInv == Init => RestInv
BY DEF Init, CnupmInit, RestInv

LEMMA RestStep ==
  ASSUME SlotInv, RestInv, [Next]_vars
  PROVE  RestInv'
<1>1. ASSUME tab' = tab, \A p \in Procs : pc'[p] \in {"unborn", "exited"} => pc'[p] = pc[p]
      PROVE  RestInv'
  BY <1>1 DEF RestInv
<1>2. ASSUME NEW p \in Procs, Return(p) \/ Exit(p)
      PROVE  RestInv'
  <2>1. CASE Exit(p)
    BY <2>1 DEF Exit, Goto, RestInv, SlotInv
  <2>2. CASE Return(p) /\ p = Main
    BY <1>1, <2>2 DEF Return, Goto, SlotInv
  <2>3. QED
    BY <1>2, <2>1, <2>2 DEF Return
<1>3. CASE CnupmNext
  <2>1. ASSUME NEW f \in Flows, Collect(f) PROVE RestInv'
    <3>1. pc' = pc /\ pc[Main] = "dispatch"
      BY <2>1 DEF Collect
    <3>2. tab' = tab \/ \E t \in Store(tab[Main], f) : tab' = [tab EXCEPT ![Main] = t]
      BY <2>1 DEF Collect
    <3>3. \A p \in Procs : p # Main => tab'[p] = tab[p]
      BY <3>2 DEF SlotInv
    <3>4. QED
      BY <3>1, <3>3 DEF RestInv
  <2>2. CASE CollectorStep
    <3>1. CASE While \/ Dispatched
      <4>1. CASE Exit(Main)
        BY <1>2, <4>1, ProcsFinite
      <4>2. CASE tab' = tab /\ (Goto(Main, "dispatch") \/ Goto(Main, "check"))
        BY <1>1, <4>2 DEF Goto, SlotInv
      <4>3. QED
        BY <3>1, <4>1, <4>2 DEF While, Dispatched
    <3>2. CASE Check
      <4>1. Dumps \notin {"unborn", "exited"} /\ pc' = [pc EXCEPT ![Main] = Dumps] /\ tab' = tab
        BY <3>2 DEF Dumps, Check, Goto
      <4>2. QED
        BY <1>1, <4>1 DEF SlotInv
    <3>3. CASE Fork
      <4>1. CASE Goto(Main, "open") /\ tab' = tab
        BY <1>1, <4>1 DEF Goto, SlotInv
      <4>2. ASSUME NEW c \in Children, pc' = [pc EXCEPT ![c] = "open", ![Main] = "test"],
                   tab' = [tab EXCEPT ![c] = tab[Main], ![Main] = NewTable]
            PROVE  RestInv'
        BY <4>2 DEF SlotInv, RestInv
      <4>3. QED
        BY <3>3, <4>1, <4>2 DEF Fork
    <3>4. QED
      BY <2>2, <3>1, <3>2, <3>3 DEF CollectorStep
  <2>3. ASSUME NEW p \in Procs, DumpStep(p) PROVE RestInv'
    <3>1. CASE Return(p)
      BY <1>2, <3>1
    <3>2. CASE tab' = tab /\ (Goto(p, "header") \/ Goto(p, "records"))
      BY <1>1, <3>2 DEF Goto, SlotInv
    <3>3. ASSUME pc[p] = "records", pc' = pc, NEW t, tab' = [tab EXCEPT ![p] = t]
          PROVE  RestInv'
      BY <3>3 DEF RestInv
    <3>4. WriteRecord(p) => \/ Return(p)
                            \/ /\ pc[p] = "records" /\ pc' = pc
                               /\ \E i \in Tree(tab[p]) : tab' = [tab EXCEPT ![p] = Removed(@, i)]
      BY DEF WriteRecord
    <3>5. WriteRecord(p) => RestInv'
      BY <3>1, <3>3, <3>4
    <3>6. QED
      BY <2>3, <3>1, <3>2, <3>5 DEF DumpStep, Empty, Open, WriteHeader, Dumped
  <2>4. CASE Signal
    BY <1>1, <2>4 DEF Signal, Hup, Term
  <2>5. QED
    BY <1>3, <2>1, <2>2, <2>3, <2>4 DEF CnupmNext
<1>4. CASE Cron
  <2>1. CASE UNCHANGED <<tab, pc>>
    BY <1>1, <2>1
  <2>2. CASE Goto(Main, "test") /\ tab' = [tab EXCEPT ![Main] = NewTable]
    BY <2>2 DEF Goto, SlotInv, RestInv
  <2>3. QED
    BY <1>4, <2>1, <2>2 DEF Cron, Hup
<1>5. CASE JobStep
  BY <1>1, <1>5 DEF JobStep, SleepEnd, OpenDump, ReadItem, Rm, cnupmvars, collector
<1>6. CASE UNCHANGED vars
  BY <1>1, <1>6 DEF vars, cnupmvars, collector
<1>7. QED
  BY <1>3, <1>4, <1>5, <1>6 DEF Next

\* The amounts are numbers.
LEMMA Amounts ==
  ASSUME TypeInv, NEW f \in Flows
  PROVE  /\ InTables[f] \in Int /\ InDumps[f] \in Int
         /\ seen[f] \in Nat /\ lost[f] \in Nat /\ gone[f] \in Nat /\ printed[f] \in Nat
<1>1. InTables[f] \in Int
  <2> DEFINE h == [p \in Procs |-> Held(tab[p])[f]]
  <2>1. \A p \in Procs : Held(tab[p])[f] \in Nat
    BY HeldType DEF TypeInv, SlotInv
  <2>2. h \in [Procs -> Int]
    BY <2>1
  <2>3. InTables[f] = SumFunction(h)
    BY DEF InTables
  <2> HIDE DEF h
  <2>4. QED
    BY <2>2, <2>3, ProcsFinite, SumFunctionType
<1>2. InDumps[f] \in Int
  <2> DEFINE h == [n \in Files |-> Unread(n)[f]]
  <2>1. \A n \in Files : Unread(n)[f] \in Nat
    BY UnreadType DEF TypeInv, DiskOK, ReaderOK, Unread
  <2>2. h \in [Files -> Int]
    BY <2>1
  <2>3. InDumps[f] = SumFunction(h)
    BY DEF InDumps
  <2> HIDE DEF h
  <2>4. QED
    BY <2>2, <2>3, FilesFinite, SumFunctionType
<1>3. QED
  BY <1>1, <1>2 DEF TypeInv, TallyOK

\* One table changes, or none.
Turns(p, t) == tab' = [tab EXCEPT ![p] = t] /\ Sound(t)

LEMMA TableStepHolds ==
  ASSUME TypeInv, NEW p \in Procs, NEW t, Turns(p, t), NEW f \in Flows
  PROVE  /\ Moved(InTables'[f], InTables[f], Held(tab[p])[f], Held(t)[f])
         /\ Held(tab[p])[f] \in Nat /\ Held(t)[f] \in Nat
<1>1. OneTable(tab, tab', p, t)
  BY DEF TypeInv, SlotInv, SoundAll, OneTable, Turns
<1>2. /\ Moved(TablesHold(tab')[f], TablesHold(tab)[f], Held(tab[p])[f], Held(t)[f])
      /\ Held(tab[p])[f] \in Nat /\ Held(t)[f] \in Nat
  BY <1>1, TablesChanged
<1>3. QED
  BY <1>2, InTablesIs, InTablesNext

LEMMA SameTables == tab' = tab => InTables' = InTables
BY InTablesIs, InTablesNext

LEMMA SameDumps == UNCHANGED <<disk, got>> => InDumps' = InDumps
BY InDumpsIs, InDumpsNext

\* An item is written.
Writes(p, item) == pc[p] \in Writing /\ Write(p, item) /\ got' = got

LEMMA WriteHolds ==
  ASSUME TypeInv, TypeInv', NEW p \in Procs, NEW item \in Items, Writes(p, item), NEW f \in Flows
  PROVE  InDumps'[f] = InDumps[f] + One(item, f)
<1> DEFINE n == fd[p]
<1>1. /\ disk'[n] = Append(disk[n], item) /\ n \in Files
      /\ \A m \in Files \ {n} : disk'[m] = disk[m]
  BY Appended DEF TypeInv, Writes
<1>2. FilesRead(disk, got) /\ FilesRead(disk', got')
  BY DEF TypeInv, DiskOK, ReaderOK, FilesRead
<1>3. disk[n] \in Seq(Items) /\ got[n] \in Nat /\ got[n] <= Len(disk[n]) /\ got'[n] = got[n]
  BY <1>1, <1>2 DEF FilesRead, Writes
<1>4. Elsewhere(disk, got, disk', got', n)
  BY <1>1 DEF Elsewhere, Writes
<1> HIDE DEF n
<1> DEFINE old == BytesOf(disk[n], got[n] + 1 .. Len(disk[n]))[f]
           new == BytesOf(disk'[n], got'[n] + 1 .. Len(disk'[n]))[f]
<1>5. new = old + One(item, f)
  <2> DEFINE s == disk[n]
             k == got[n]
  <2>1. s \in Seq(Items) /\ k \in Nat /\ k <= Len(s)
    BY <1>3
  <2>2. disk'[n] = Append(s, item) /\ got'[n] = k
    BY <1>1, <1>3
  <2> HIDE DEF s, k
  <2>3. BytesOf(Append(s, item), k + 1 .. Len(Append(s, item)))[f]
          = BytesOf(s, k + 1 .. Len(s))[f] + One(item, f)
    BY <2>1, UnreadAppended
  <2>4. QED
    BY <2>2, <2>3 DEF s, k
<1>6. /\ Moved(FilesHold(disk', got')[f], FilesHold(disk, got)[f], old, new)
      /\ FilesHold(disk, got)[f] \in Int /\ old \in Nat /\ new \in Nat
  BY <1>1, <1>2, <1>4, DumpsChanged
<1>7. One(item, f) \in Nat
  BY DEF One, Items
<1> HIDE DEF old, new
<1>8. FilesHold(disk', got')[f] = FilesHold(disk, got)[f] + One(item, f)
  BY <1>5, <1>6, <1>7 DEF Moved
<1>9. QED
  BY <1>8, InDumpsIs, InDumpsNext

\* An item is read.
Reads == /\ disk' = disk /\ file \in Files /\ at < Len(disk[file]) /\ got[file] = at
         /\ got' = [got EXCEPT ![file] = at + 1]

LEMMA ReadHolds ==
  ASSUME TypeInv, TypeInv', Reads, NEW f \in Flows
  PROVE  InDumps[f] = InDumps'[f] + One(disk[file][at + 1], f) /\ InDumps'[f] \in Int
<1>1. FilesRead(disk, got) /\ FilesRead(disk', got')
  BY DEF TypeInv, DiskOK, ReaderOK, FilesRead
<1>2. disk[file] \in Seq(Items) /\ at \in Nat /\ got'[file] = at + 1 /\ file \in Files
  BY <1>1 DEF FilesRead, TypeInv, ReaderOK, Reads
<1>3. Elsewhere(disk, got, disk', got', file)
  BY <1>1 DEF FilesRead, Elsewhere, Reads
<1> DEFINE old == BytesOf(disk[file], got[file] + 1 .. Len(disk[file]))[f]
           new == BytesOf(disk'[file], got'[file] + 1 .. Len(disk'[file]))[f]
           item == disk[file][at + 1]
<1>4. old = new + One(item, f)
  <2> DEFINE s == disk[file]
  <2>1. s \in Seq(Items) /\ at \in Nat /\ at < Len(s)
    BY <1>2 DEF Reads
  <2>2. disk'[file] = s /\ got'[file] = at + 1 /\ got[file] = at
    BY <1>2 DEF Reads
  <2> HIDE DEF s
  <2>3. BytesOf(s, at + 1 .. Len(s))[f] = BytesOf(s, at + 1 + 1 .. Len(s))[f] + One(s[at + 1], f)
    BY <2>1, UnreadRead
  <2>4. QED
    BY <2>2, <2>3 DEF s
<1>5. /\ Moved(FilesHold(disk', got')[f], FilesHold(disk, got)[f], old, new)
      /\ FilesHold(disk, got)[f] \in Int /\ old \in Nat /\ new \in Nat
  BY <1>1, <1>2, <1>3, DumpsChanged
<1>6. item \in Items
  BY <1>2, ElementOfSeq DEF Reads
<1>7. One(item, f) \in Nat
  BY <1>6 DEF One, Items
<1> HIDE DEF old, new, item
<1>8. /\ FilesHold(disk, got)[f] = FilesHold(disk', got')[f] + One(item, f)
      /\ FilesHold(disk', got')[f] \in Int
  BY <1>4, <1>5, <1>7 DEF Moved
<1>9. QED
  BY <1>8, InDumpsIs, InDumpsNext DEF item

\* A process that returns from a dump or ends takes nothing with it that is not
\* counted as gone.
LEMMA LeaveBalanced ==
  ASSUME TypeInv, NEW p \in Procs, Return(p) \/ Exit(p), UNCHANGED <<seen, lost, printed, disk, got>>,
         NEW f \in Flows, Balanced(f)
  PROVE  Balanced(f)'
<1>1. InDumps' = InDumps
  BY SameDumps
<1>2. CASE UNCHANGED <<tab, gone>>
  <2>1. InTables' = InTables
    BY <1>2, SameTables
  <2>2. QED
    BY <1>1, <1>2, <2>1 DEF Balanced
<1>3. CASE gone' = Plus(gone, Held(tab[p])) /\ tab' = [tab EXCEPT ![p] = NewTable]
  <2>1. Turns(p, NewTable)
    BY <1>3, NewTableDense DEF Turns, Dense
  <2>2. Moved(InTables'[f], InTables[f], Held(tab[p])[f], 0) /\ Held(tab[p])[f] \in Nat
    BY <2>1, TableStepHolds, HeldEmpty
  <2>3. gone'[f] = gone[f] + Held(tab[p])[f]
    BY <1>3 DEF Plus
  <2> DEFINE h == Held(tab[p])[f]
             T == InTables[f]
             U == InTables'[f]
             D == InDumps[f]
  <2>4. T \in Int /\ D \in Int /\ seen[f] \in Nat /\ lost[f] \in Nat /\ gone[f] \in Nat /\ printed[f] \in Nat
    BY Amounts
  <2>5. /\ seen'[f] = seen[f] /\ lost'[f] = lost[f] /\ printed'[f] = printed[f]
        /\ gone'[f] = gone[f] + h /\ h \in Nat /\ U = T - h + 0 /\ InDumps'[f] = D
    BY <1>1, <2>2, <2>3 DEF Moved
  <2>6. seen[f] = (lost[f] + gone[f]) + ((T + D) + printed[f])
    BY DEF Balanced
  <2> HIDE DEF h, T, U, D
  <2>7. seen'[f] = (lost'[f] + gone'[f]) + ((U + InDumps'[f]) + printed'[f])
    BY <2>4, <2>5, <2>6
  <2>8. QED
    BY <2>7 DEF Balanced, U
<1>4. QED
  BY <1>2, <1>3, Returns

\* Nothing moves.
LEMMA StillBalanced ==
  ASSUME UNCHANGED <<seen, lost, gone, printed, disk, got, tab>>, NEW f \in Flows, Balanced(f)
  PROVE  Balanced(f)'
BY SameTables, SameDumps DEF Balanced

\* A packet is counted: the table has it, or it is lost.
LEMMA CollectBalanced ==
  ASSUME TypeInv, "record" \notin Faults, NEW g \in Flows, Collect(g), UNCHANGED <<printed, got>>,
         NEW f \in Flows, Balanced(f)
  PROVE  Balanced(f)'
<1> DEFINE d == IF f = g THEN 1 ELSE 0
           T == InTables[f]
           U == InTables'[f]
           D == InDumps[f]
<1>1. InDumps' = InDumps
  BY SameDumps DEF Collect, dump
<1>2. T \in Int /\ D \in Int /\ seen[f] \in Nat /\ lost[f] \in Nat /\ gone[f] \in Nat /\ printed[f] \in Nat
  BY Amounts
<1>3. /\ seen'[f] = seen[f] + d /\ gone'[f] = gone[f] /\ printed'[f] = printed[f] /\ InDumps'[f] = D
      /\ d \in Nat
  BY <1>1 DEF Collect, TypeInv, TallyOK
<1>4. seen[f] = (lost[f] + gone[f]) + ((T + D) + printed[f])
  BY DEF Balanced
<1>5. CASE Full(tab[Main])
  <2>1. lost'[f] = lost[f] + d /\ tab' = tab
    BY <1>5 DEF Collect, TypeInv, TallyOK
  <2>2. U = T
    BY <2>1, SameTables
  <2> HIDE DEF d, T, U, D
  <2>3. seen'[f] = (lost'[f] + gone'[f]) + ((U + InDumps'[f]) + printed'[f])
    BY <1>2, <1>3, <1>4, <2>1, <2>2
  <2>4. QED
    BY <2>3 DEF Balanced, U
<1>6. CASE ~ Full(tab[Main])
  <2>1. PICK t \in Store(tab[Main], g) : tab' = [tab EXCEPT ![Main] = t]
    BY <1>6 DEF Collect
  <2>2. Main \in Procs /\ Sound(tab[Main]) /\ Dense(tab[Main])
    BY ProcsFinite DEF TypeInv, SlotInv, Packed, Collect
  <2>3. Held(t)[f] = Held(tab[Main])[f] + d
    BY <1>6, <2>2, HeldStored
  <2>4. Sound(t)
    BY <1>6, <2>2, StoreSound
  <2>5. Turns(Main, t)
    BY <2>1, <2>4 DEF Turns
  <2> DEFINE h == Held(tab[Main])[f]
  <2>6. Moved(U, T, h, h + d) /\ h \in Nat
    BY <2>2, <2>3, <2>5, TableStepHolds
  <2>7. lost'[f] = lost[f]
    BY <1>6 DEF Collect
  <2> HIDE DEF d, T, U, D, h
  <2>8. seen'[f] = (lost'[f] + gone'[f]) + ((U + InDumps'[f]) + printed'[f])
    BY <1>2, <1>3, <1>4, <2>6, <2>7 DEF Moved
  <2>9. QED
    BY <2>8 DEF Balanced, U
<1>7. QED
  BY <1>5, <1>6

\* The child has the table, the collector none.
LEMMA ForkBalanced ==
  ASSUME TypeInv, RestInv, Fork, UNCHANGED <<printed, got>>, NEW f \in Flows, Balanced(f)
  PROVE  Balanced(f)'
<1>1. UNCHANGED <<seen, lost, gone, printed, disk, got>>
  BY DEF Fork, dump, history
<1>2. CASE tab' = tab
  BY <1>1, <1>2, StillBalanced
<1>3. ASSUME NEW c \in Children, pc[c] = "unborn",
             tab' = [tab EXCEPT ![c] = tab[Main], ![Main] = NewTable]
      PROVE  Balanced(f)'
  <2>1. c \in Procs /\ Main \in Procs /\ c # Main /\ tab[c] = NewTable
    BY <1>3, CnupmAssumption DEF Procs, RestInv
  <2>2. PICK mid : mid = [tab EXCEPT ![c] = tab[Main]]
    OBVIOUS
  <2>3. SoundAll(tab) /\ Sound(tab[Main]) /\ Sound(NewTable)
    BY <2>1, NewTableDense DEF TypeInv, SlotInv, SoundAll, Dense
  <2>4. OneTable(tab, mid, c, tab[Main])
    BY <2>2, <2>3 DEF OneTable
  <2>5. /\ SoundAll(mid) /\ Moved(TablesHold(mid)[f], TablesHold(tab)[f], Held(tab[c])[f], Held(tab[Main])[f])
        /\ TablesHold(tab)[f] \in Int /\ Held(tab[Main])[f] \in Nat
    BY <2>1, <2>4, TablesChanged
  <2>6. mid[Main] = tab[Main] /\ tab' = [mid EXCEPT ![Main] = NewTable]
    BY <1>3, <2>1, <2>2
  <2>7. OneTable(mid, tab', Main, NewTable)
    BY <2>3, <2>5, <2>6 DEF OneTable
  <2>8. /\ Moved(TablesHold(tab')[f], TablesHold(mid)[f], Held(mid[Main])[f], Held(NewTable)[f])
        /\ TablesHold(mid)[f] \in Int
    BY <2>1, <2>7, TablesChanged
  <2>9. Held(NewTable)[f] = 0 /\ Held(tab[c])[f] = 0
    BY <2>1, HeldEmpty
  <2>10. TablesHold(tab')[f] = TablesHold(tab)[f]
    <3> DEFINE h == Held(tab[Main])[f]
               A == TablesHold(tab)[f]
               B == TablesHold(mid)[f]
               C == TablesHold(tab')[f]
    <3>1. /\ Moved(B, A, 0, h) /\ Moved(C, B, h, 0) /\ A \in Int /\ B \in Int /\ h \in Nat
      BY <2>5, <2>6, <2>8, <2>9
    <3> HIDE DEF h, A, B, C
    <3>2. C = A
      BY <3>1 DEF Moved
    <3>3. QED
      BY <3>2 DEF A, C
  <2>11. InTables'[f] = InTables[f] /\ InDumps' = InDumps
    BY <1>1, <2>10, InTablesIs, InTablesNext, SameDumps
  <2>12. QED
    BY <1>1, <2>11 DEF Balanced
<1>4. QED
  BY <1>2, <1>3 DEF Fork

\* An item is written, or the process returns.
LEMMA DumpBalanced ==
  ASSUME TypeInv, TypeInv', NEW p \in Procs, DumpStep(p), UNCHANGED <<printed, got>>,
         NEW f \in Flows, Balanced(f)
  PROVE  Balanced(f)'
<1>1. UNCHANGED <<seen, lost>>
  BY DEF DumpStep, Empty, Open, WriteHeader, WriteRecord, Dumped
<1>2. CASE Return(p) /\ disk' = disk
  BY <1>1, <1>2, LeaveBalanced
<1>3. CASE UNCHANGED <<tab, gone, disk>>
  BY <1>1, <1>3, StillBalanced
<1> DEFINE T == InTables[f]
           U == InTables'[f]
           D == InDumps[f]
           E == InDumps'[f]
<1>4. /\ T \in Int /\ D \in Int /\ seen[f] \in Nat /\ lost[f] \in Nat /\ gone[f] \in Nat
      /\ printed[f] \in Nat /\ seen[f] = (lost[f] + gone[f]) + ((T + D) + printed[f])
  BY Amounts DEF Balanced
<1>5. CASE /\ pc[p] = "header" /\ Write(p, HeaderOf(tab[p])) /\ UNCHANGED <<tab, gone>>
  <2>1. HeaderOf(tab[p]) \in Items
    BY DEF HeaderOf, Items, TypeInv, SlotInv, Sound
  <2>2. Writes(p, HeaderOf(tab[p]))
    BY <1>5 DEF Writes, Writing
  <2>3. E = D + One(HeaderOf(tab[p]), f)
    BY <2>1, <2>2, WriteHolds
  <2>4. One(HeaderOf(tab[p]), f) = 0
    BY CnupmAssumption DEF One, HeaderOf
  <2>5. U = T
    BY <1>5, SameTables
  <2> HIDE DEF T, U, D, E
  <2>6. U = T /\ E = D
    BY <1>4, <2>3, <2>4, <2>5
  <2>7. QED
    BY <1>1, <1>4, <1>5, <2>6 DEF Balanced, T, U, D, E
<1>6. ASSUME NEW i \in Tree(tab[p]), pc[p] = "records", Write(p, tab[p].entry[i]),
             tab' = [tab EXCEPT ![p] = Removed(@, i)], gone' = gone
      PROVE  Balanced(f)'
  <2> DEFINE e == tab[p].entry[i]
             u == Removed(tab[p], i)
  <2>1. Sound(tab[p]) /\ DOMAIN tab = Procs
    BY DEF TypeInv, SlotInv
  <2>2. e \in Items
    BY <2>1 DEF Items, Sound, Entry
  <2>3. Writes(p, e)
    BY <1>6 DEF Writes, Writing
  <2>4. E = D + One(e, f)
    BY <2>2, <2>3, WriteHolds
  <2>5. Turns(p, u)
    BY <1>6, <2>1, RemovedSound DEF Turns
  <2>6. Moved(U, T, Held(tab[p])[f], Held(u)[f]) /\ Held(tab[p])[f] \in Nat /\ Held(u)[f] \in Nat
    <3> HIDE DEF u
    <3>1. QED
      BY <2>5, TableStepHolds
  <2>7. Held(tab[p])[f] = Held(u)[f] + One(e, f)
    BY <2>1, HeldRemoved
  <2>8. One(e, f) \in Nat
    BY <2>2 DEF One, Items
  <2> DEFINE h == Held(tab[p])[f]
             k == Held(u)[f]
             o == One(e, f)
  <2>9. Moved(U, T, h, k) /\ h \in Nat /\ k \in Nat /\ h = k + o /\ o \in Nat /\ E = D + o
    BY <2>4, <2>6, <2>7, <2>8
  <2> HIDE DEF T, U, D, E, h, k, o
  <2>10. U + E = T + D
    BY <1>4, <2>9 DEF Moved
  <2>11. Balanced(f)' <=> seen'[f] = (lost'[f] + gone'[f]) + ((U + E) + printed'[f])
    BY DEF Balanced, U, E
  <2>12. QED
    BY <1>1, <1>4, <1>6, <2>10, <2>11
<1>7. Empty(p) \/ Open(p) \/ Dumped(p) => Balanced(f)'
  BY <1>2, <1>3 DEF Empty, Open, Dumped, dump
<1>8. WriteHeader(p) => Balanced(f)'
  BY <1>2, <1>5 DEF WriteHeader
<1>9. WriteRecord(p) => Balanced(f)'
  BY <1>2, <1>6 DEF WriteRecord
<1>10. QED
  BY <1>7, <1>8, <1>9 DEF DumpStep

\* A record is printed when it is read; a header is of no flow.
LEMMA ReadBalanced ==
  ASSUME TypeInv, TypeInv', ReadItem, NEW f \in Flows, Balanced(f)
  PROVE  Balanced(f)'
<1>1. UNCHANGED <<seen, lost, gone, disk, tab>>
  BY DEF ReadItem, cnupmvars, collector, dump, history
<1>2. CASE UNCHANGED <<printed, got>>
  BY <1>1, <1>2, StillBalanced
<1>3. CASE /\ at < Len(disk[file]) /\ (IsHeader <=> disk[file][at + 1].flow = Header)
           /\ got' = [got EXCEPT ![file] = at + 1]
           /\ IF IsHeader THEN printed' = printed
              ELSE printed' = [printed EXCEPT ![disk[file][at + 1].flow] =
                                  @ + disk[file][at + 1].bytes]
  <2> DEFINE item == disk[file][at + 1]
             o == One(item, f)
             D == InDumps[f]
             E == InDumps'[f]
             T == InTables[f]
  <2>1. Reads
    BY <1>1, <1>3 DEF Reads, TypeInv, ReaderOK, ReadItem
  <2>2. D = E + o /\ E \in Int
    BY <2>1, ReadHolds
  <2>3. item \in Items
    <3>1. disk[file] \in Seq(Items) /\ at \in Nat
      BY <2>1 DEF Reads, TypeInv, DiskOK, ReaderOK
    <3>2. QED
      BY <1>3, <3>1, ElementOfSeq
  <2>4. o \in Nat
    BY <2>3 DEF One, Items
  <2>5. printed'[f] = printed[f] + o
    <3>1. CASE IsHeader
      <4>1. item.flow = Header /\ printed' = printed
        BY <1>3, <3>1
      <4>2. o = 0
        BY <4>1, CnupmAssumption DEF One
      <4>3. printed[f] \in Nat
        BY Amounts
      <4> HIDE DEF o
      <4>4. QED
        BY <4>1, <4>2, <4>3
    <3>2. CASE ~ IsHeader
      <4>1. item.flow \in Flows /\ item.bytes \in Nat
        BY <1>3, <2>3, <3>2 DEF Items
      <4>2. printed' = [printed EXCEPT ![item.flow] = @ + item.bytes] /\ printed \in [Flows -> Nat]
        BY <1>3, <3>2 DEF TypeInv, TallyOK
      <4> HIDE DEF item
      <4>3. QED
        BY <4>1, <4>2 DEF One
    <3>3. QED
      BY <3>1, <3>2
  <2>6. /\ T \in Int /\ D \in Int /\ seen[f] \in Nat /\ lost[f] \in Nat /\ gone[f] \in Nat
        /\ printed[f] \in Nat /\ seen[f] = (lost[f] + gone[f]) + ((T + D) + printed[f])
    BY Amounts DEF Balanced
  <2>7. InTables' = InTables
    BY <1>1, SameTables
  <2>8. Balanced(f)' <=> seen'[f] = (lost'[f] + gone'[f]) + ((T + E) + printed'[f])
    BY <2>7 DEF Balanced
  <2> HIDE DEF o, D, E, T, item
  <2>9. QED
    BY <1>1, <2>2, <2>4, <2>5, <2>6, <2>8
<1>4. QED
  BY <1>2, <1>3 DEF ReadItem

LEMMA NextBalanced ==
  ASSUME TypeInv, TypeInv', RestInv, "record" \notin Faults, [Next]_vars, NEW f \in Flows, Balanced(f)
  PROVE  Balanced(f)'
<1>1. CASE CnupmNext /\ UNCHANGED jobvars
  <2>0. UNCHANGED <<printed, got>>
    BY <1>1 DEF jobvars, reader
  <2>1. ASSUME NEW g \in Flows, Collect(g) PROVE Balanced(f)'
    BY <2>0, <2>1, CollectBalanced
  <2>2. CASE CollectorStep
    <3>1. CASE Fork
      BY <2>0, <3>1, ForkBalanced
    <3>2. UNCHANGED <<seen, lost, disk>>
      BY <2>2 DEF CollectorStep, While, Dispatched, Check, Fork, dump, history
    <3>3. ~ Fork => Exit(Main) \/ UNCHANGED <<tab, gone>>
      BY <2>2 DEF CollectorStep, While, Dispatched, Check, history
    <3>4. QED
      BY <2>0, <3>1, <3>2, <3>3, ProcsFinite, LeaveBalanced, StillBalanced
  <2>3. ASSUME NEW p \in Procs, DumpStep(p) PROVE Balanced(f)'
    BY <2>0, <2>3, DumpBalanced
  <2>4. CASE Signal
    BY <2>0, <2>4, StillBalanced DEF Signal, Hup, Term, dump, history
  <2>5. QED
    BY <1>1, <2>1, <2>2, <2>3, <2>4 DEF CnupmNext
<1>2. CASE Cron
  <2>1. UNCHANGED <<seen, printed, disk, got>>
    BY <1>2 DEF Cron, Hup, dump, history, reader
  <2>2. CASE UNCHANGED <<tab, lost, gone>>
    BY <2>1, <2>2, StillBalanced
  <2>3. CASE /\ pc[Main] = "exited" /\ tab' = [tab EXCEPT ![Main] = NewTable]
             /\ lost' = None /\ gone' = Plus(gone, lost)
    <3>1. tab[Main] = NewTable /\ Main \in Procs
      BY <2>3, ProcsFinite DEF RestInv
    <3>2. Turns(Main, NewTable)
      BY <2>3, NewTableDense DEF Turns, Dense
    <3>8. Moved(InTables'[f], InTables[f], 0, 0) /\ InTables[f] \in Int
      BY <3>1, <3>2, TableStepHolds, HeldEmpty, Amounts
    <3>3. InTables'[f] = InTables[f] /\ InDumps' = InDumps
      BY <2>1, <3>8, SameDumps DEF Moved
    <3>4. lost'[f] = 0 /\ gone'[f] = gone[f] + lost[f]
      BY <2>3 DEF None, Plus
    <3>5. lost[f] \in Nat /\ gone[f] \in Nat
      BY Amounts
    <3>6. lost'[f] + gone'[f] = lost[f] + gone[f]
      BY <3>4, <3>5
    <3>7. QED
      BY <2>1, <3>3, <3>6 DEF Balanced
  <2>4. QED
    BY <1>2, <2>2, <2>3 DEF Cron, Hup, history
<1>3. CASE JobStep
  <2>1. CASE ReadItem
    BY <2>1, ReadBalanced
  <2>2. CASE SleepEnd \/ OpenDump \/ Rm
    BY <2>2, StillBalanced DEF SleepEnd, OpenDump, Rm, cnupmvars, collector, dump, history, reader
  <2>3. QED
    BY <1>3, <2>1, <2>2 DEF JobStep
<1>4. CASE UNCHANGED vars
  BY <1>4, StillBalanced DEF vars, cnupmvars, collector, dump, history, jobvars, reader
<1>5. QED
  BY <1>1, <1>2, <1>3, <1>4 DEF Next

BooksInv == TypeInv /\ RestInv /\ \A f \in Flows : Balanced(f)

LEMMA InitBalanced == Init => \A f \in Flows : Balanced(f)
<1> SUFFICES ASSUME Init, NEW f \in Flows PROVE Balanced(f)
  OBVIOUS
<1>1. \A p \in Procs : tab[p] = NewTable
  BY DEF Init, CnupmInit
<1>2. InTables[f] = 0
  <2> DEFINE h == [p \in Procs |-> Held(tab[p])[f]]
  <2>1. h \in [Procs -> Int] /\ \A p \in Procs : h[p] = 0
    BY <1>1, HeldEmpty
  <2>2. InTables[f] = SumFunction(h)
    BY DEF InTables
  <2> HIDE DEF h
  <2>3. QED
    BY <2>1, <2>2, ProcsFinite, SumFunctionOfZeros
<1>3. InDumps[f] = 0
  <2> DEFINE h == [n \in Files |-> Unread(n)[f]]
  <2>1. \A n \in Files : Unread(n)[f] = 0
    <3> SUFFICES ASSUME NEW n \in Files PROVE Unread(n)[f] = 0
      OBVIOUS
    <3>1. disk[n] = << >> /\ got[n] = 0
      BY DEF Init, CnupmInit
    <3>2. got[n] + 1 .. Len(disk[n]) = {}
      BY <3>1
    <3>3. QED
      BY <3>2, BytesOfNothing DEF Unread
  <2>2. h \in [Files -> Int] /\ \A n \in Files : h[n] = 0
    BY <2>1
  <2>3. InDumps[f] = SumFunction(h)
    BY DEF InDumps
  <2> HIDE DEF h
  <2>4. QED
    BY <2>2, <2>3, FilesFinite, SumFunctionOfZeros
<1>4. seen[f] = 0 /\ lost[f] = 0 /\ gone[f] = 0 /\ printed[f] = 0
  BY DEF Init, CnupmInit, None
<1>5. QED
  BY <1>2, <1>3, <1>4 DEF Balanced

\* For any flows, table, children and switches: as long as no write() of a record
\* fails, every packet that reached the collector is, and is once, in the table of a
\* process, in a dump that was not read that far, printed, lost because the table
\* was full, or gone with a process that ended.
THEOREM EveryPacketAccounted == "record" \notin Faults => (FairSpec => []Accounted)
<1> SUFFICES ASSUME "record" \notin Faults PROVE FairSpec => []Accounted
  OBVIOUS
<1>1. Init => BooksInv
  BY InitTypeInv, InitRestInv, InitBalanced DEF BooksInv
<1>2. BooksInv /\ [Next]_vars => BooksInv'
  <2> SUFFICES ASSUME BooksInv, [Next]_vars PROVE BooksInv'
    OBVIOUS
  <2>1. TypeInv /\ RestInv /\ TypeInv' /\ RestInv'
    BY NextTypeInv, RestStep DEF BooksInv, TypeInv
  <2>2. \A f \in Flows : Balanced(f)'
    BY <2>1, NextBalanced DEF BooksInv
  <2>3. QED
    BY <2>1, <2>2 DEF BooksInv
<1>3. BooksInv => Accounted
  <2> SUFFICES ASSUME BooksInv PROVE Accounted
    OBVIOUS
  <2> DEFINE rhs == Plus(Plus(lost, gone), Plus(Plus(InTables, InDumps), printed))
  <2>1. \A f \in Flows : seen[f] = rhs[f]
    BY DEF BooksInv, Balanced, Plus
  <2>2. rhs = [f \in Flows |-> rhs[f]]
    BY DEF Plus
  <2>3. seen = [f \in Flows |-> seen[f]]
    BY DEF BooksInv, TypeInv, TallyOK
  <2> HIDE DEF rhs
  <2>4. seen = rhs
    BY <2>1, <2>2, <2>3
  <2>5. QED
    BY <2>4 DEF Accounted, rhs
<1>4. QED
  BY <1>1, <1>2, <1>3, PTL DEF FairSpec

-------------------------------------------------------------------------------
(* Without -k a dump is read to its end: the records that the header       *)
(* counts follow it, or are about to be written by the collector.          *)

\* after[i] is the number of records that follow the first i items of s.
Parses(s, after) ==
    /\ after \in [0 .. Len(s) -> Nat] /\ after[0] = 0
    /\ \A i \in 1 .. Len(s) :
          IF after[i - 1] = 0 THEN s[i].flow = Header /\ after[i] = s[i].bytes
          ELSE s[i].flow # Header /\ after[i] = after[i - 1] - 1

LEMMA ParsesAt ==
    ASSUME NEW s, NEW after, Parses(s, after), Len(s) \in Nat,
           NEW k \in Nat, NEW i \in Nat, i = k + 1, i <= Len(s)
    PROVE  IF after[k] = 0 THEN s[i].flow = Header /\ after[i] = s[i].bytes
           ELSE s[i].flow # Header /\ after[i] = after[k] - 1
<1>1. i \in 1 .. Len(s) /\ i - 1 = k
  OBVIOUS
<1>2. \A j \in 1 .. Len(s) :
          IF after[j - 1] = 0 THEN s[j].flow = Header /\ after[j] = s[j].bytes
          ELSE s[j].flow # Header /\ after[j] = after[j - 1] - 1
  BY DEF Parses
<1>3. IF after[i - 1] = 0 THEN s[i].flow = Header /\ after[i] = s[i].bytes
      ELSE s[i].flow # Header /\ after[i] = after[i - 1] - 1
  BY <1>1, <1>2
<1>4. QED
  BY <1>1, <1>3

\* The records of file n that the collector has announced and not written.
Pending(n) == IF pc[Main] = "records" /\ fd[Main] = n THEN tab[Main].count ELSE 0

Whole(n) == \E after : /\ Parses(disk[n], after) /\ after[Len(disk[n])] = Pending(n)
                       /\ job = "read" /\ file = n => after[at] = left

AloneInv == ~ opt.fork => pc[Main] # "fork" /\ \A c \in Children : pc[c] = "unborn"
ReadyInv == /\ opt.fork => ready = 0
            /\ job = "read" => ready <= Len(disk[file])
            /\ job = "rm" => IF file = 0 THEN ready = 0 ELSE ready <= got[file]
WholeInv == ~ opt.fork => \A n \in Files : Whole(n)

LEMMA OptKept == [Next]_vars => opt' = opt
<1>1. CnupmNext => opt' = opt
  BY DEF CnupmNext, Collect, CollectorStep, While, Dispatched, Check, Fork, DumpStep, Empty, Open,
     WriteHeader, WriteRecord, Dumped, Signal, Hup, Term
<1>2. Cron \/ JobStep => opt' = opt
  BY DEF Cron, Hup, JobStep, SleepEnd, OpenDump, ReadItem, Rm, cnupmvars, collector
<1>3. QED
  BY <1>1, <1>2 DEF Next, vars, cnupmvars, collector

LEMMA AloneStep ==
  ASSUME SlotInv, AloneInv, [Next]_vars
  PROVE  AloneInv'
<1> SUFFICES ASSUME ~ opt.fork PROVE pc'[Main] # "fork" /\ \A c \in Children : pc'[c] = "unborn"
  BY OptKept DEF AloneInv
<1>1. /\ pc[Main] # "fork" /\ \A c \in Children : pc[c] = "unborn" /\ c # Main
      /\ pc \in [Procs -> Places] /\ Main \in Procs /\ Procs = {Main} \cup Children
  BY CnupmAssumption DEF AloneInv, SlotInv, Procs
<1>2. ASSUME NEW x, x # "fork", pc' = [pc EXCEPT ![Main] = x]
      PROVE  pc'[Main] # "fork" /\ \A c \in Children : pc'[c] = "unborn"
  BY <1>1, <1>2
<1>3. CASE pc' = pc
  BY <1>1, <1>3
<1>4. CASE CnupmNext
  <2>1. (\E f \in Flows : Collect(f)) \/ Signal => pc' = pc
    BY DEF Collect, Signal, Hup, Term
  <2>2. CollectorStep => \E x : x # "fork" /\ pc' = [pc EXCEPT ![Main] = x]
    <3>1. Dumps # "fork"
      BY DEF Dumps
    <3>2. ~ Fork
      BY <1>1 DEF Fork
    <3>3. QED
      BY <3>1, <3>2 DEF CollectorStep, While, Dispatched, Check, Exit, Goto
  <2>3. ASSUME NEW p \in Procs, DumpStep(p)
        PROVE  p = Main /\ (pc' = pc \/ \E x : x # "fork" /\ pc' = [pc EXCEPT ![Main] = x])
    <3>1. pc[p] # "unborn"
      BY <2>3 DEF DumpStep, Empty, Open, WriteHeader, WriteRecord, Dumped
    <3>2. p = Main
      BY <1>1, <3>1
    <3>3. QED
      BY <2>3, <3>2 DEF DumpStep, Empty, Open, WriteHeader, WriteRecord, Dumped, Return, Exit, Goto
  <2>4. QED
    BY <1>2, <1>3, <1>4, <2>1, <2>2, <2>3 DEF CnupmNext
<1>5. CASE Cron
  BY <1>2, <1>3, <1>5 DEF Cron, Hup, Goto
<1>6. CASE JobStep
  BY <1>3, <1>6 DEF JobStep, SleepEnd, OpenDump, ReadItem, Rm, cnupmvars, collector
<1>7. QED
  BY <1>3, <1>4, <1>5, <1>6 DEF Next, vars, cnupmvars, collector

\* An item more parses if it is what has to follow.
Follows(e, k, v) == IF k = 0 THEN e.flow = Header /\ v = e.bytes ELSE e.flow # Header /\ v = k - 1

LEMMA ParsesMore ==
  ASSUME NEW s \in Seq(Items), NEW e \in Items, NEW after, Parses(s, after),
         NEW v \in Nat, Follows(e, after[Len(s)], v)
  PROVE  \E more : /\ Parses(Append(s, e), more) /\ more[Len(Append(s, e))] = v
                   /\ \A i \in 0 .. Len(s) : more[i] = after[i]
<1> DEFINE l == Len(s)
           u == Append(s, e)
           more == [i \in 0 .. l + 1 |-> IF i = l + 1 THEN v ELSE after[i]]
<1>1. l \in Nat /\ Len(u) = l + 1 /\ u[l + 1] = e /\ \A i \in 1 .. l : u[i] = s[i]
  BY AppendProperties, LenProperties
<1>2. after \in [0 .. l -> Nat] /\ after[0] = 0
  BY DEF Parses
<1>3. \A i \in 1 .. l : IF after[i - 1] = 0 THEN s[i].flow = Header /\ after[i] = s[i].bytes
                        ELSE s[i].flow # Header /\ after[i] = after[i - 1] - 1
  BY DEF Parses
<1>4. IF after[l] = 0 THEN e.flow = Header /\ v = e.bytes ELSE e.flow # Header /\ v = after[l] - 1
  BY DEF Follows
<1> HIDE DEF l, u
<1>5. more \in [0 .. l + 1 -> Nat]
  BY <1>1, <1>2
<1>6. more[l + 1] = v /\ \A i \in 0 .. l : more[i] = after[i]
  BY <1>1
<1>7. more[0] = 0
  BY <1>1, <1>2, <1>6
<1> HIDE DEF more
<1>8. ASSUME NEW i \in 1 .. l + 1
      PROVE  IF more[i - 1] = 0 THEN u[i].flow = Header /\ more[i] = u[i].bytes
             ELSE u[i].flow # Header /\ more[i] = more[i - 1] - 1
  <2>1. CASE i = l + 1
    <3>1. i - 1 = l /\ l \in 0 .. l
      BY <1>1, <2>1
    <3>2. more[i - 1] = after[l] /\ more[i] = v /\ u[i] = e
      BY <1>1, <1>6, <2>1, <3>1
    <3>3. QED
      BY <1>4, <3>2
  <2>2. CASE i # l + 1
    <3>1. i \in 1 .. l /\ i - 1 \in 0 .. l /\ i \in 0 .. l
      BY <1>1, <2>2
    <3>2. more[i - 1] = after[i - 1] /\ more[i] = after[i] /\ u[i] = s[i]
      BY <1>1, <1>6, <3>1
    <3>3. QED
      BY <1>3, <3>1, <3>2
  <2>3. QED
    BY <2>1, <2>2
<1>9. Parses(u, more)
  BY <1>1, <1>5, <1>7, <1>8 DEF Parses
<1>10. QED
  BY <1>1, <1>6, <1>9 DEF l, u

\* The file stays, and what the reader knows of it, or the reader starts.
StaysWhole(n) == /\ disk'[n] = disk[n] /\ Pending(n)' = Pending(n)
                 /\ job' = "read" /\ file' = n =>
                      \/ job = "read" /\ file = n /\ at' = at /\ left' = left
                      \/ at' = 0 /\ left' = 0

LEMMA WholeStays ==
  ASSUME NEW n \in Files, Whole(n), StaysWhole(n)
  PROVE  Whole(n)'
<1>1. PICK after : /\ Parses(disk[n], after) /\ after[Len(disk[n])] = Pending(n)
                   /\ job = "read" /\ file = n => after[at] = left
  BY DEF Whole
<1>2. after[0] = 0
  BY <1>1 DEF Parses
<1>3. Parses(disk'[n], after) /\ after[Len(disk'[n])] = Pending(n)'
  BY <1>1 DEF StaysWhole
<1>4. job' = "read" /\ file' = n => after[at'] = left'
  BY <1>1, <1>2 DEF StaysWhole
<1>5. QED
  BY <1>3, <1>4 DEF Whole

\* An item is written to file n.
LEMMA WholeGrows ==
  ASSUME TypeInv, NEW n \in Files, Whole(n), NEW e \in Items, disk'[n] = Append(disk[n], e),
         Pending(n)' \in Nat, Follows(e, Pending(n), Pending(n)'),
         UNCHANGED <<job, file, at, left>>
  PROVE  Whole(n)'
<1>1. PICK after : /\ Parses(disk[n], after) /\ after[Len(disk[n])] = Pending(n)
                   /\ job = "read" /\ file = n => after[at] = left
  BY DEF Whole
<1>2. disk[n] \in Seq(Items)
  BY DEF TypeInv, DiskOK
<1> DEFINE s == disk[n]
           v == Pending(n)'
<1>3. Follows(e, after[Len(s)], v) /\ v \in Nat /\ s \in Seq(Items) /\ Parses(s, after)
  BY <1>1, <1>2
<1> HIDE DEF s, v
<1>4. PICK more : /\ Parses(Append(s, e), more) /\ more[Len(Append(s, e))] = v
                  /\ \A i \in 0 .. Len(s) : more[i] = after[i]
  BY <1>3, ParsesMore
<1>5. disk'[n] = Append(s, e)
  BY DEF s
<1>6. Parses(disk'[n], more) /\ more[Len(disk'[n])] = Pending(n)'
  BY <1>4, <1>5 DEF v
<1>7. job = "read" /\ file = n => more[at] = left
  <2>1. job = "read" /\ file = n => at \in 0 .. Len(s)
    <3>1. got[n] <= Len(s) /\ got[n] \in Nat /\ (job = "read" /\ file = n => got[n] = at)
      BY DEF TypeInv, ReaderOK, s
    <3>2. Len(s) \in Nat
      BY <1>3, LenProperties
    <3>3. QED
      BY <3>1, <3>2
  <2>2. QED
    BY <1>1, <1>4, <2>1
<1>8. QED
  BY <1>6, <1>7 DEF Whole

\* What the collector does to the dump, if it is the only one that writes.
LEMMA DumpWhole ==
  ASSUME TypeInv, "record" \notin Faults, DumpStep(Main), UNCHANGED jobvars,
         NEW n \in Files, Whole(n)
  PROVE  Whole(n)'
<1>1. Main \in Procs /\ pc \in [Procs -> Places] /\ Sound(tab[Main]) /\ DOMAIN tab = Procs
      /\ fd \in [Procs -> Files \cup {0}]
  BY ProcsFinite DEF TypeInv, SlotInv, DiskOK
<1>2. UNCHANGED <<job, at, left>>
  BY DEF jobvars, reader
<1>3. job' = "read" /\ file' = n => job = "read" /\ file = n
  <2>1. job = "read" => file \in Files /\ file # 0
    BY FilesFinite DEF TypeInv, ReaderOK
  <2>2. UNCHANGED file \/ file = 0
    BY <1>1, DumpNames DEF TypeInv
  <2>3. QED
    BY <1>2, <2>1, <2>2
<1>4. ASSUME disk' = disk, Pending(n)' = Pending(n)
      PROVE  Whole(n)'
  <2>1. StaysWhole(n)
    BY <1>2, <1>3, <1>4 DEF StaysWhole
  <2>2. QED
    BY <2>1, WholeStays
<1>5. ASSUME pc[Main] # "records", pc'[Main] # "records", disk' = disk
      PROVE  Whole(n)'
  BY <1>4, <1>5 DEF Pending
<1>6. ASSUME Return(Main) PROVE pc'[Main] = "test" /\ tab' = tab
  BY <1>1, <1>6 DEF Return, Goto
<1>7. CASE Empty(Main)
  BY <1>5, <1>6, <1>7 DEF Empty, dump
<1>8. CASE Open(Main)
  <2>1. pc[Main] # "records" /\ disk' = disk /\ (Return(Main) \/ Goto(Main, "header"))
    BY <1>8 DEF Open
  <2>2. Goto(Main, "header") => pc'[Main] = "header"
    BY <1>1 DEF Goto
  <2>3. QED
    BY <1>5, <1>6, <2>1, <2>2
<1>9. CASE WriteHeader(Main)
  <2>1. pc[Main] = "header" /\ file' = file
    BY <1>9 DEF WriteHeader
  <2>2. CASE Return(Main) /\ disk' = disk
    BY <1>5, <1>6, <2>1, <2>2
  <2>3. CASE /\ Write(Main, HeaderOf(tab[Main])) /\ Goto(Main, "records")
             /\ UNCHANGED <<tab, fd>>
    <3>1. Pending(n) = 0
      BY <2>1 DEF Pending
    <3>2. pc'[Main] = "records"
      BY <1>1, <2>3 DEF Goto
    <3>3. Pending(n)' = IF fd[Main] = n THEN tab[Main].count ELSE 0
      BY <2>3, <3>2 DEF Pending
    <3>4. tab[Main].count \in Nat
      BY <1>1 DEF Sound
    <3>5. HeaderOf(tab[Main]) \in Items
      BY <3>4 DEF HeaderOf, Items
    <3>6. pc[Main] \in Writing
      BY <2>1 DEF Writing
    <3>7. CASE fd[Main] = n
      <4>1. disk'[n] = Append(disk[n], HeaderOf(tab[Main]))
        BY <1>1, <2>3, <3>5, <3>6, <3>7, Appended DEF TypeInv
      <4>2. Follows(HeaderOf(tab[Main]), Pending(n), Pending(n)')
        BY <3>1, <3>3, <3>7 DEF Follows, HeaderOf
      <4>3. Pending(n)' \in Nat
        BY <3>3, <3>4
      <4>4. QED
        BY <1>2, <2>1, <3>5, <4>1, <4>2, <4>3, WholeGrows
    <3>8. CASE fd[Main] # n
      <4>1. disk'[n] = disk[n]
        BY <1>1, <2>3, <3>5, <3>6, <3>8, Appended DEF TypeInv
      <4>2. StaysWhole(n)
        BY <1>2, <1>3, <3>1, <3>3, <3>8, <4>1 DEF StaysWhole
      <4>3. QED
        BY <4>2, WholeStays
    <3>9. QED
      BY <3>7, <3>8
  <2>4. QED
    BY <1>9, <2>2, <2>3 DEF WriteHeader
<1>10. CASE WriteRecord(Main)
  <2>1. PICK i \in Tree(tab[Main]) :
             /\ Write(Main, tab[Main].entry[i])
             /\ tab' = [tab EXCEPT ![Main] = Removed(@, i)]
             /\ UNCHANGED <<pc, fd, gone>>
    BY <1>10 DEF WriteRecord, Outcomes
  <2>2. pc[Main] = "records" /\ file' = file
    BY <1>10 DEF WriteRecord
  <2> DEFINE e == tab[Main].entry[i]
             u == Removed(tab[Main], i)
  <2>3. e \in Items /\ e.flow # Header
    BY <1>1, CnupmAssumption DEF Sound, Entry, Items
  <2>4. tab'[Main] = u /\ u.count = tab[Main].count - 1 /\ Sound(u)
    BY <1>1, <2>1, RemovedSound DEF Removed
  <2>5. tab[Main].count \in Nat /\ u.count \in Nat
    BY <1>1, <2>4 DEF Sound
  <2> HIDE DEF u
  <2>6. /\ Pending(n) = IF fd[Main] = n THEN tab[Main].count ELSE 0
        /\ Pending(n)' = IF fd[Main] = n THEN u.count ELSE 0
    BY <2>1, <2>2, <2>4 DEF Pending
  <2>7. pc[Main] \in Writing
    BY <2>2 DEF Writing
  <2>8. CASE fd[Main] = n
    <3>1. disk'[n] = Append(disk[n], e)
      BY <1>1, <2>1, <2>3, <2>7, <2>8, Appended DEF TypeInv
    <3>2. Pending(n) # 0 /\ Pending(n)' = Pending(n) - 1 /\ Pending(n)' \in Nat
      BY <2>4, <2>5, <2>6, <2>8
    <3>3. Follows(e, Pending(n), Pending(n)')
      BY <2>3, <3>2 DEF Follows
    <3>4. QED
      BY <1>2, <2>2, <2>3, <3>1, <3>2, <3>3, WholeGrows
  <2>9. CASE fd[Main] # n
    <3>1. disk'[n] = disk[n]
      BY <1>1, <2>1, <2>3, <2>7, <2>9, Appended DEF TypeInv
    <3>2. StaysWhole(n)
      BY <1>2, <1>3, <2>6, <2>9, <3>1 DEF StaysWhole
    <3>3. QED
      BY <3>2, WholeStays
  <2>10. QED
    BY <2>8, <2>9
<1>11. CASE Dumped(Main)
  <2>1. Tree(tab[Main]) = {} /\ disk' = disk /\ Return(Main)
    BY <1>11 DEF Dumped
  <2>2. tab[Main].count = 0
    BY <1>1, <2>1, FS_EmptySet DEF Sound
  <2>3. Pending(n) = 0
    BY <2>2 DEF Pending
  <2>4. Pending(n)' = 0
    BY <1>6, <2>1 DEF Pending
  <2>5. QED
    BY <1>4, <2>1, <2>3, <2>4
<1>12. QED
  BY <1>7, <1>8, <1>9, <1>10, <1>11 DEF DumpStep

LEMMA WholeStep ==
  ASSUME TypeInv, AloneInv, ~ opt.fork, "record" \notin Faults, [Next]_vars, NEW n \in Files, Whole(n)
  PROVE  Whole(n)'
<1>0. Main \in Procs /\ pc \in [Procs -> Places]
  BY ProcsFinite DEF TypeInv, SlotInv
<1>1. ASSUME UNCHANGED <<job, at, left, disk, file>>, Pending(n)' = Pending(n)
      PROVE  Whole(n)'
  <2>1. StaysWhole(n)
    BY <1>1 DEF StaysWhole
  <2>2. QED
    BY <2>1, WholeStays
<1>2. ASSUME UNCHANGED <<job, at, left, disk, file>>, pc[Main] # "records", pc'[Main] # "records"
      PROVE  Whole(n)'
  <2>1. Pending(n)' = Pending(n)
    BY <1>2 DEF Pending
  <2>2. QED
    BY <1>1, <1>2, <2>1
<1>3. CASE CnupmNext /\ UNCHANGED jobvars
  <2>0. UNCHANGED <<job, at, left>>
    BY <1>3 DEF jobvars, reader
  <2>1. ASSUME NEW f \in Flows, Collect(f) PROVE Whole(n)'
    BY <1>2, <2>0, <2>1 DEF Collect, dump
  <2>2. CASE CollectorStep
    <3>1. UNCHANGED <<disk, file>> /\ pc[Main] # "records" /\ ~ Fork
      BY <2>2 DEF CollectorStep, While, Dispatched, Check, Fork, dump, AloneInv
    <3>2. pc'[Main] # "records"
      <4>1. Dumps # "records"
        BY DEF Dumps
      <4>2. QED
        BY <1>0, <2>2, <3>1, <4>1 DEF CollectorStep, While, Dispatched, Check, Exit, Goto
    <3>3. QED
      BY <1>2, <2>0, <3>1, <3>2
  <2>3. ASSUME NEW p \in Procs, DumpStep(p) PROVE Whole(n)'
    <3>1. p = Main
      BY <2>3 DEF DumpStep, Empty, Open, WriteHeader, WriteRecord, Dumped, AloneInv, Procs
    <3>2. QED
      BY <1>3, <2>3, <3>1, DumpWhole
  <2>4. CASE Signal
    <3>1. UNCHANGED <<pc, tab, fd, disk, file>>
      BY <2>4 DEF Signal, Hup, Term, dump
    <3>2. Pending(n)' = Pending(n)
      BY <3>1 DEF Pending
    <3>3. QED
      BY <1>1, <2>0, <3>1, <3>2
  <2>5. QED
    BY <1>3, <2>1, <2>2, <2>3, <2>4 DEF CnupmNext
<1>4. CASE Cron
  <2>1. UNCHANGED <<disk, file, fd>> /\ job' # "read"
    BY <1>4 DEF Cron, Hup, dump
  <2>2. Pending(n)' = Pending(n)
    <3>1. CASE UNCHANGED <<pc, tab>>
      BY <2>1, <3>1 DEF Pending
    <3>2. CASE pc[Main] = "exited" /\ Goto(Main, "test")
      BY <1>0, <3>2 DEF Pending, Goto
    <3>3. QED
      BY <1>4, <3>1, <3>2 DEF Cron, Hup
  <2>3. StaysWhole(n)
    BY <2>1, <2>2 DEF StaysWhole
  <2>4. QED
    BY <2>3, WholeStays
<1>5. CASE JobStep
  <2>1. UNCHANGED <<pc, tab, fd, disk>>
    BY <1>5 DEF JobStep, SleepEnd, OpenDump, ReadItem, Rm, cnupmvars, collector, dump
  <2>2. Pending(n)' = Pending(n)
    BY <2>1 DEF Pending
  <2>3. CASE SleepEnd \/ Rm
    <3>1. job' # "read"
      BY <2>3 DEF SleepEnd, Rm
    <3>2. StaysWhole(n)
      BY <2>1, <2>2, <3>1 DEF StaysWhole
    <3>3. QED
      BY <3>2, WholeStays
  <2>4. CASE OpenDump
    <3>1. at' = 0 /\ left' = 0
      BY <2>4 DEF OpenDump
    <3>2. StaysWhole(n)
      BY <2>1, <2>2, <3>1 DEF StaysWhole
    <3>3. QED
      BY <3>2, WholeStays
  <2>5. CASE ReadItem
    <3>1. file' = file /\ job = "read"
      BY <2>5 DEF ReadItem, cnupmvars, dump
    <3>2. CASE job' = "rm" \/ file # n
      <4>1. StaysWhole(n)
        BY <2>1, <2>2, <3>1, <3>2 DEF StaysWhole
      <4>2. QED
        BY <4>1, WholeStays
    <3>3. CASE job' # "rm" /\ file = n
      <4>1. /\ at < Len(disk[n]) /\ (IsHeader <=> disk[n][at + 1].flow = Header) /\ at' = at + 1
            /\ left' = IF IsHeader THEN disk[n][at + 1].bytes ELSE left - 1
        BY <2>5, <3>3 DEF ReadItem
      <4>2. PICK after : /\ Parses(disk[n], after) /\ after[Len(disk[n])] = Pending(n)
                         /\ after[at] = left
        BY <3>1, <3>3 DEF Whole
      <4>3. at \in Nat /\ at + 1 \in Nat /\ at + 1 <= Len(disk[n]) /\ Len(disk[n]) \in Nat
        <5>1. at \in Nat /\ Len(disk[n]) \in Nat
          BY LenProperties DEF TypeInv, DiskOK, ReaderOK
        <5>2. QED
          BY <4>1, <5>1
      <4>4. after[at + 1] = left'
        <5>1. IF after[at] = 0
              THEN disk[n][at + 1].flow = Header /\ after[at + 1] = disk[n][at + 1].bytes
              ELSE disk[n][at + 1].flow # Header /\ after[at + 1] = after[at] - 1
          BY <4>2, <4>3, ParsesAt
        <5>2. IsHeader <=> after[at] = 0
          BY <4>2 DEF IsHeader
        <5>3. QED
          BY <4>1, <4>2, <5>1, <5>2
      <4>5. Parses(disk'[n], after) /\ after[Len(disk'[n])] = Pending(n)' /\ after[at'] = left'
        BY <2>1, <2>2, <4>1, <4>2, <4>4
      <4>6. QED
        BY <4>5 DEF Whole
    <3>4. QED
      BY <3>2, <3>3
  <2>6. QED
    BY <1>5, <2>3, <2>4, <2>5 DEF JobStep
<1>6. CASE UNCHANGED vars
  <2>1. Pending(n)' = Pending(n)
    BY <1>6 DEF Pending, vars, cnupmvars, collector, dump
  <2>2. QED
    BY <1>1, <1>6, <2>1 DEF vars, cnupmvars, collector, dump, jobvars, reader
<1>7. QED
  BY <1>3, <1>4, <1>5, <1>6 DEF Next

\* The reader stops at the end of the file, which is not before it was.
LEMMA ReadyStep ==
  ASSUME TypeInv, WholeInv, ReadyInv, [Next]_vars
  PROVE  ReadyInv'
<1>0. opt' = opt
  BY OptKept
<1>1. \A n \in Files : Len(disk[n]) \in Nat /\ Len(disk'[n]) \in Nat /\ Len(disk'[n]) >= Len(disk[n])
  BY FilesGrow DEF TypeInv
<1>2. ASSUME UNCHANGED <<job, ready, got>>,
             file' = file \/ (file = 0 /\ file' \in Files)
      PROVE  ReadyInv'
  <2>1. job = "read" => file \in Files /\ file' = file
    BY <1>2, FilesFinite DEF TypeInv, ReaderOK
  <2>2. ready \in Nat /\ \A n \in Files : got[n] \in Nat
    BY DEF TypeInv, ReaderOK
  <2>3. job = "read" => ready <= Len(disk'[file'])
    BY <1>1, <2>1, <2>2 DEF ReadyInv
  <2>4. job = "rm" => IF file' = 0 THEN ready = 0 ELSE ready <= got[file']
    BY <1>2, <2>2 DEF ReadyInv
  <2>5. QED
    BY <1>0, <1>2, <2>3, <2>4 DEF ReadyInv
<1>3. CASE CnupmNext /\ UNCHANGED jobvars
  <2>1. UNCHANGED <<job, ready, got>>
    BY <1>3 DEF jobvars, reader
  <2>2. file' = file \/ (file = 0 /\ file' \in Files)
    <3>1. ASSUME NEW p \in Procs, DumpStep(p) PROVE file' = file \/ (file = 0 /\ file' \in Files)
      BY <3>1, DumpNames DEF TypeInv
    <3>2. (\E f \in Flows : Collect(f)) \/ CollectorStep \/ Signal => file' = file
      BY DEF Collect, CollectorStep, While, Dispatched, Check, Fork, Signal, Hup, Term, dump
    <3>3. QED
      BY <1>3, <3>1, <3>2 DEF CnupmNext
  <2>3. QED
    BY <1>2, <2>1, <2>2
<1>4. CASE Cron \/ SleepEnd \/ Rm
  <2>1. job' \notin {"read", "rm"} /\ ready' = ready
    BY <1>4 DEF Cron, Hup, SleepEnd, Rm, reader
  <2>2. QED
    BY <1>0, <2>1 DEF ReadyInv
<1>5. CASE OpenDump
  <2>1. /\ job' = (IF file = 0 THEN "rm" ELSE "read") /\ UNCHANGED <<file, disk, got>>
        /\ ready' = IF file = 0 \/ opt.fork THEN 0 ELSE Len(disk[file])
    BY <1>5 DEF OpenDump, cnupmvars, dump
  <2>2. file # 0 => file \in Files
    BY DEF TypeInv, DiskOK
  <2>3. QED
    BY <1>0, <1>1, <2>1, <2>2 DEF ReadyInv
<1>6. CASE ReadItem
  <2>1. UNCHANGED <<file, disk, ready>> /\ job = "read" /\ file \in Files /\ got[file] = at /\ file # 0
    BY <1>6, FilesFinite DEF ReadItem, cnupmvars, dump, TypeInv, ReaderOK
  <2>2. CASE job' = job
    BY <1>0, <2>1, <2>2 DEF ReadyInv
  <2>3. CASE /\ job' = "rm" /\ got' = got
             /\ ~ (at < Len(disk[file]) /\ (IsHeader <=> disk[file][at + 1].flow = Header))
    <3>1. ready <= Len(disk[file]) /\ ready \in Nat /\ at \in Nat /\ Len(disk[file]) \in Nat
      BY <1>1, <2>1 DEF ReadyInv, TypeInv, ReaderOK
    <3>2. ready <= at
      <4>1. CASE opt.fork
        BY <3>1, <4>1 DEF ReadyInv
      <4>2. CASE ~ opt.fork
        <5>1. PICK after : Parses(disk[file], after) /\ after[at] = left
          BY <2>1, <4>2 DEF WholeInv, Whole
        <5>2. ASSUME at < Len(disk[file]) PROVE IsHeader <=> disk[file][at + 1].flow = Header
          <6>1. at + 1 \in Nat /\ at + 1 <= Len(disk[file])
            BY <3>1, <5>2
          <6>2. IF after[at] = 0
                THEN disk[file][at + 1].flow = Header /\ after[at + 1] = disk[file][at + 1].bytes
                ELSE disk[file][at + 1].flow # Header /\ after[at + 1] = after[at] - 1
            BY <3>1, <5>1, <6>1, ParsesAt
          <6>3. QED
            BY <5>1, <6>2 DEF IsHeader
        <5>3. QED
          BY <2>3, <3>1, <5>2
      <4>3. QED
        BY <4>1, <4>2
    <3>3. QED
      BY <1>0, <2>1, <2>3, <3>2 DEF ReadyInv
  <2>4. QED
    BY <1>6, <2>2, <2>3 DEF ReadItem
<1>7. CASE UNCHANGED vars
  BY <1>2, <1>7 DEF vars, cnupmvars, dump, jobvars, reader
<1>8. QED
  BY <1>3, <1>4, <1>5, <1>6, <1>7 DEF Next, JobStep

LEMMA InitWhole == Init => AloneInv /\ ReadyInv /\ WholeInv
<1> SUFFICES ASSUME Init PROVE AloneInv /\ ReadyInv /\ WholeInv
  OBVIOUS
<1>1. AloneInv
  BY CnupmAssumption DEF Init, CnupmInit, AloneInv, Procs
<1>2. ReadyInv
  BY DEF Init, ReadyInv
<1>3. ASSUME NEW n \in Files PROVE Whole(n)
  <2>1. disk[n] = << >> /\ pc[Main] = "test" /\ job = "idle"
    BY <1>3, ProcsFinite DEF Init, CnupmInit
  <2>2. PICK after : after = [i \in 0 .. 0 |-> 0]
    OBVIOUS
  <2>3. after \in [0 .. 0 -> Nat] /\ after[0] = 0
    BY <2>2
  <2>4. Len(<< >>) = 0 /\ 1 .. 0 = {}
    OBVIOUS
  <2>5. Parses(<< >>, after)
    BY <2>3, <2>4 DEF Parses
  <2>6. Pending(n) = 0
    BY <2>1 DEF Pending
  <2>7. QED
    BY <2>1, <2>3, <2>4, <2>5, <2>6 DEF Whole
<1>4. QED
  BY <1>1, <1>2, <1>3 DEF WholeInv

\* For any flows, table and switches: as long as no write() of a record fails and
\* only the collector writes, cnupmstat prints what the dump held when it was
\* opened before the cron job removes it, even if the collector is writing.
THEOREM DumpReadToTheEnd == "record" \notin Faults => (FairSpec => []ReadToTheEnd)
<1> SUFFICES ASSUME "record" \notin Faults PROVE FairSpec => []ReadToTheEnd
  OBVIOUS
<1> DEFINE I == TypeInv /\ AloneInv /\ ReadyInv /\ WholeInv
<1>1. Init => I
  BY InitTypeInv, InitWhole
<1>2. I /\ [Next]_vars => I'
  <2> SUFFICES ASSUME I, [Next]_vars PROVE I'
    OBVIOUS
  <2>1. TypeInv' /\ AloneInv' /\ ReadyInv'
    BY NextTypeInv, AloneStep, ReadyStep DEF TypeInv
  <2>2. WholeInv'
    <3> SUFFICES ASSUME ~ opt'.fork PROVE \A n \in Files : Whole(n)'
      BY DEF WholeInv
    <3>1. ~ opt.fork
      BY OptKept
    <3>2. QED
      BY <3>1, WholeStep DEF WholeInv
  <2>3. QED
    BY <2>1, <2>2
<1>3. I => ReadToTheEnd
  <2> SUFFICES ASSUME I PROVE ReadToTheEnd
    OBVIOUS
  <2>1. ready \in Nat /\ (file # 0 => got[file] \in Nat)
    BY DEF TypeInv, ReaderOK, DiskOK
  <2>2. job = "rm" /\ file # 0 => ready <= got[file]
    BY DEF ReadyInv
  <2>3. QED
    BY <2>1, <2>2 DEF ReadToTheEnd
<1>4. QED
  BY <1>1, <1>2, <1>3, PTL DEF FairSpec
===============================================================================
