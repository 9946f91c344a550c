--------------------------------- MODULE Cnupm ---------------------------------
(***************************************************************************)
(* cnupm, the traffic collector: the table of flows in memory              *)
(* (cnupm/collect.c), the main loop, its signals and the children that -k  *)
(* forks to write a dump (cnupm/cnupm.c), and the dump file.               *)
(*                                                                         *)
(* A packet is one byte long.  The number of lost packets is kept for each *)
(* flow, and the dump file holds its headers and records as items.         *)
(***************************************************************************)
EXTENDS Integers, Sequences, FiniteSets, Functions

CONSTANTS Flows,            \* what ct_entry_compare() tells apart
          Main,             \* the collector
          Children,         \* processes that -k forks
          Options,          \* switches: [fork : -k, empty : -e]
          MaxEntries,       \* ct_entries_max
          ToSave,           \* ENTRIES_TO_SAVE
          Header,           \* marks the header among the items of a file
          Faults,           \* calls that may fail
          MaxFiles,         \* bound: dump files made one after another
          MaxPackets,       \* bound: packets
          MaxEvents         \* bound: signals and failed calls

ASSUME CnupmAssumption ==
    /\ IsFiniteSet(Flows) /\ Header \notin Flows
    /\ IsFiniteSet(Children) /\ Main \notin Children
    /\ Options \subseteq [fork : BOOLEAN, empty : BOOLEAN]
    /\ MaxEntries \in Nat \ {0} /\ ToSave \in Nat /\ MaxFiles \in Nat
    /\ Faults \subseteq {"pcap", "fork", "open", "header", "record"}

Procs == {Main} \cup Children
Files == 1 .. MaxFiles

VARIABLES
    opt,                \* switches of the command line
    tab,                \* ct_entries, ct_head and ct_entries_count of a process
    pc,                 \* where a process is
    need,               \* collect_need_dump of the collector
    terminate,          \* cnupm_terminate
    lost,               \* collect_lost_packets, by flow
    disk,               \* what was written to each file
    file,               \* the file the name of the dump stands for, 0 if none
    fd,                 \* the file a process writes to
    seen,               \* history: packets counted or lost
    gone,               \* history: packets in tables of processes that ended
    packets, signals, faults    \* bounds

collector == <<opt, tab, pc, need, terminate, lost>>
dump == <<disk, file, fd>>
history == <<seen, gone>>
limits == <<packets, signals, faults>>
cnupmvars == <<collector, dump, history, limits>>

None == [f \in Flows |-> 0]
Plus(a, b) == [f \in Flows |-> a[f] + b[f]]

\* collect_init(): no flow in the tree.  A table is the entries that are in the tree,
\* by their slots, and the number of slots counted.
NewTable == [entry |-> << >>, count |-> 0]
Tree(t) == DOMAIN t.entry

\* The bytes of some entries of a table, or of some items of a file, by flow.
BytesOf(items, S) ==
    [f \in Flows |-> SumFunction([i \in S |-> IF items[i].flow = f THEN items[i].bytes ELSE 0])]
Held(t) == BytesOf(t.entry, Tree(t))

CnupmInit ==
    /\ opt \in Options
    /\ tab = [p \in Procs |-> NewTable]
    /\ pc = [p \in Procs |-> IF p = Main THEN "test" ELSE "unborn"]
    /\ need = FALSE /\ terminate = FALSE
    /\ lost = None
    /\ disk = [n \in Files |-> << >>] /\ file = 0 /\ fd = [p \in Procs |-> 0]
    /\ seen = None /\ gone = None
    /\ packets = 0 /\ signals = 0 /\ faults = 0

Goto(p, label) == pc' = [pc EXCEPT ![p] = label]

\* A call that may fail: TRUE if it does not.
Outcomes(call) == IF call \in Faults /\ signals + faults < MaxEvents THEN BOOLEAN ELSE {TRUE}
Count(ok) == faults' = faults + IF ok THEN 0 ELSE 1

-------------------------------------------------------------------------------
(* collect()                                                               *)

Put(entry, i, e) == [k \in DOMAIN entry \cup {i} |-> IF k = i THEN e ELSE entry[k]]

\* Mutant: the entry that is found is overwritten, not added to.
MutantPlusByte(e) == [e EXCEPT !.bytes = 1]

PlusByte(e) == [e EXCEPT !.bytes = @ + 1]

\* The packet is first written to the slot behind the last one counted.  The tree
\* then yields an entry of the same flow, which the bytes are added to, or takes
\* the slot.  If the slot is in the tree already, the entry it was is lost, and
\* the one found may be the slot itself.
Store(t, f) ==
    LET n == t.count + 1
        written == Put(t.entry, n, [flow |-> f, bytes |-> 1])
        same == {i \in Tree(t) : written[i].flow = f}
    IN  IF same = {} THEN {[entry |-> written, count |-> n]}
        ELSE {[t EXCEPT !.entry = [Restrict(written, Tree(t))
                                      EXCEPT ![i] = PlusByte(@)]] : i \in same}

Crowded(t) == t.count >= MaxEntries - ToSave

Full(t) == t.count >= MaxEntries

-------------------------------------------------------------------------------
(* The main loop                                                           *)

Exit(p) ==
    /\ Goto(p, IF p = Main THEN "exited" ELSE "unborn")
    /\ gone' = Plus(gone, Held(tab[p]))
    /\ tab' = [tab EXCEPT ![p] = NewTable]

While ==
    /\ pc[Main] = "test"
    /\ IF terminate THEN Exit(Main)
       ELSE Goto(Main, "dispatch") /\ UNCHANGED <<tab, gone>>
    /\ UNCHANGED <<opt, need, terminate, lost, dump, seen, limits>>

\* A packet of the filter and family, passed to collect() by pcap_dispatch().
Collect(f) ==
    /\ pc[Main] = "dispatch" /\ packets < MaxPackets
    /\ packets' = packets + 1
    /\ seen' = [seen EXCEPT ![f] = @ + 1]
    /\ IF Full(tab[Main])
       THEN lost' = [lost EXCEPT ![f] = @ + 1] /\ UNCHANGED <<tab, need>>
       ELSE /\ \E t \in Store(tab[Main], f) :
                  /\ tab' = [tab EXCEPT ![Main] = t]
                  /\ need' = (need \/ Crowded(t))
            /\ UNCHANGED lost
    /\ UNCHANGED <<opt, pc, terminate, dump, gone, signals, faults>>

\* pcap_dispatch() returns: no more packets, or an error that ends the program.
Dispatched ==
    /\ pc[Main] = "dispatch"
    /\ \E ok \in Outcomes("pcap") :
          /\ Count(ok)
          /\ IF ok THEN Goto(Main, "check") /\ UNCHANGED <<tab, gone>> ELSE Exit(Main)
    /\ UNCHANGED <<opt, need, terminate, lost, dump, seen, packets, signals>>

\* Mutant: the main loop looks at the signal's flag alone.
MutantDumps == IF terminate THEN "open" ELSE "test"

\* What the collector does about collect_need_dump: with -k it forks, unless it
\* terminates.
Dumps == IF ~ need THEN "test"
         ELSE IF opt.fork /\ ~ terminate THEN "fork" ELSE "open"

Check ==
    /\ pc[Main] = "check"
    /\ Goto(Main, Dumps)
    /\ UNCHANGED <<opt, tab, need, terminate, lost, dump, history, limits>>

\* fork(): the child has the table, the collector a new one.  If it fails, also
\* because there are too many processes, the collector writes the dump itself.
Fork ==
    /\ pc[Main] = "fork"
    /\ \/ \E c \in Children :
             /\ pc[c] = "unborn"
             /\ tab' = [tab EXCEPT ![c] = tab[Main], ![Main] = NewTable]
             /\ pc' = [pc EXCEPT ![c] = "open", ![Main] = "test"]
             /\ need' = FALSE /\ UNCHANGED faults
       \/ /\ IF \A c \in Children : pc[c] # "unborn" THEN UNCHANGED faults
             ELSE FALSE \in Outcomes("fork") /\ Count(FALSE)
          /\ Goto(Main, "open") /\ UNCHANGED <<tab, need>>
    /\ UNCHANGED <<opt, terminate, lost, dump, history, packets, signals>>

-------------------------------------------------------------------------------
(* collect_dump(), by the collector or a child                             *)

\* Where the process goes when collect_dump() returns, and when it fails: the
\* collector tries again later, a child is lost with its table.
Return(p) == IF p = Main THEN Goto(Main, "test") /\ UNCHANGED <<tab, gone>> ELSE Exit(p)

Empty(p) ==
    /\ pc[p] = "open" /\ tab[p].count = 0 /\ ~ opt.empty
    /\ Return(p)
    /\ UNCHANGED <<opt, need, terminate, lost, dump, seen, limits>>

\* Files that the name has not stood for.
Free == {n \in Files : disk[n] = << >> /\ n # file /\ \A p \in Procs : fd[p] # n}

Open(p) ==
    /\ pc[p] = "open" /\ (tab[p].count # 0 \/ opt.empty)
    /\ \E ok \in Outcomes("open") :
          /\ Count(ok)
          /\ IF ok
             THEN /\ Goto(p, "header")
                  /\ \E n \in (IF file = 0 THEN Free ELSE {file}) :
                        file' = n /\ fd' = [fd EXCEPT ![p] = n]
                  /\ UNCHANGED <<tab, gone>>
             ELSE Return(p) /\ UNCHANGED <<file, fd>>
    /\ UNCHANGED <<opt, need, terminate, lost, disk, seen, packets, signals>>

Write(p, item) == disk' = [disk EXCEPT ![fd[p]] = Append(@, item)]
Close(p) == fd' = [fd EXCEPT ![p] = 0]

HeaderOf(t) == [flow |-> Header, bytes |-> t.count]

WriteHeader(p) ==
    /\ pc[p] = "header"
    /\ \E ok \in Outcomes("header") :
          /\ Count(ok)
          /\ IF ok
             THEN /\ Write(p, HeaderOf(tab[p])) /\ Goto(p, "records")
                  /\ UNCHANGED <<tab, fd, gone>>
             ELSE Return(p) /\ Close(p) /\ UNCHANGED disk
    /\ UNCHANGED <<opt, need, terminate, lost, file, seen, packets, signals>>

\* Mutant: an entry that was written stays in the tree.
MutantRemoved(t, i) == [t EXCEPT !.count = @ - 1]

\* Mutant: it is not uncounted.
MutantUncounted(t, i) == [t EXCEPT !.entry = Restrict(@, Tree(t) \ {i})]

Removed(t, i) == [entry |-> Restrict(t.entry, Tree(t) \ {i}), count |-> t.count - 1]

\* The least entry of the tree; the order of flows is left open.
WriteRecord(p) ==
    /\ pc[p] = "records"
    /\ \E i \in Tree(tab[p]), ok \in Outcomes("record") :
          /\ Count(ok)
          /\ IF ok
             THEN /\ Write(p, tab[p].entry[i])
                  /\ tab' = [tab EXCEPT ![p] = Removed(@, i)]
                  /\ UNCHANGED <<pc, fd, gone>>
             ELSE Return(p) /\ Close(p) /\ UNCHANGED disk
    /\ UNCHANGED <<opt, need, terminate, lost, file, seen, packets, signals>>

Dumped(p) ==
    /\ pc[p] = "records" /\ Tree(tab[p]) = {}
    /\ Return(p) /\ Close(p)
    /\ need' = (need /\ p # Main)
    /\ UNCHANGED <<opt, terminate, lost, disk, file, seen, limits>>

-------------------------------------------------------------------------------
(* Signals                                                                 *)

\* SIGHUP, and SIGALRM of the timer of -a.
Hup ==
    /\ pc[Main] # "exited" /\ need' = TRUE
    /\ UNCHANGED <<opt, tab, pc, terminate, lost, dump, history, packets, faults>>

\* SIGTERM, SIGINT and SIGQUIT.
Term ==
    /\ pc[Main] # "exited" /\ need' = TRUE /\ terminate' = TRUE
    /\ UNCHANGED <<opt, tab, pc, lost, dump, history, packets, faults>>

Signal == signals + faults < MaxEvents /\ signals' = signals + 1 /\ (Hup \/ Term)

CollectorStep == While \/ Dispatched \/ Check \/ Fork
DumpStep(p) == Empty(p) \/ Open(p) \/ WriteHeader(p) \/ WriteRecord(p) \/ Dumped(p)

CnupmNext ==
    \/ \E f \in Flows : Collect(f)
    \/ CollectorStep
    \/ \E p \in Procs : DumpStep(p)
    \/ Signal

\* The collector and its children are scheduled.
CnupmFair ==
    /\ WF_cnupmvars(CollectorStep)
    /\ \A p \in Procs : WF_cnupmvars(DumpStep(p))

CnupmSpec == CnupmInit /\ [][CnupmNext]_cnupmvars /\ CnupmFair

-------------------------------------------------------------------------------
CnupmTypeOK ==
    /\ opt \in Options
    /\ \A p \in Procs :
          /\ tab[p].count \in 0 .. MaxEntries /\ Tree(tab[p]) \subseteq 1 .. MaxEntries
          /\ tab[p].entry \in [Tree(tab[p]) -> [flow : Flows, bytes : Nat]]
    /\ pc \in [Procs -> {"unborn", "test", "dispatch", "check", "fork",
                         "open", "header", "records", "exited"}]
    /\ need \in BOOLEAN /\ terminate \in BOOLEAN
    /\ lost \in [Flows -> Nat]
    /\ disk \in [Files -> Seq([flow : Flows \cup {Header}, bytes : Nat])]
    /\ file \in Files \cup {0} /\ fd \in [Procs -> Files \cup {0}]
    /\ seen \in [Flows -> Nat] /\ gone \in [Flows -> Nat]

\* The slots behind the last one counted are not in the tree: collect() writes the
\* next packet to the first of them before it looks the flow up.
SlotsFree == \A p \in Procs : /\ Tree(tab[p]) = 1 .. tab[p].count
                              \/ pc[p] = "records"
===============================================================================
