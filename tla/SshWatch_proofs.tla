---------------------------- MODULE SshWatch_proofs ----------------------------
(***************************************************************************)
(* Proofs about SshWatch, for any addresses, buffer, limits and rotations. *)
(***************************************************************************)
EXTENDS SshWatch, SequenceTheorems, TLAPS

USE WatchAssumption

\* A buffer without its first line, and with what was read, is a buffer.
LEMMA RestOfBuffer ==
  ASSUME NEW b \in Seq(Piece), Len(b) <= Cap, NEW n \in FirstEnd(b)
  PROVE  /\ SubSeq(b, n + 1, Len(b)) \in Seq(Piece)
         /\ Len(SubSeq(b, n + 1, Len(b))) <= Cap
         /\ \A i \in 1 .. n : b[i].addr \in Addrs
<1>1. n \in 1 .. Len(b)
  BY DEF FirstEnd
<1>2. \A i \in 1 .. n : b[i] \in Piece
  BY <1>1, ElementOfSeq
<1>3. SubSeq(b, n + 1, Len(b)) \in Seq(Piece)
  <2>1. \A i \in n + 1 .. Len(b) : b[i] \in Piece
    BY <1>1, ElementOfSeq
  <2>2. QED
    BY <1>1, <2>1, SubSeqProperties
<1>4. Len(SubSeq(b, n + 1, Len(b))) <= Cap
  BY <1>1, SubSeqProperties
<1>5. QED
  BY <1>2, <1>3, <1>4 DEF Piece

LEMMA FilledBuffer ==
  ASSUME NEW b \in Seq(Piece), Len(b) <= Cap, NEW l \in Seq(Piece), NEW p \in Nat,
         NEW n \in Nat, n <= Cap - Len(b), n = 0 \/ p + n <= Len(l)
  PROVE  /\ b \o SubSeq(l, p + 1, p + n) \in Seq(Piece)
         /\ Len(b \o SubSeq(l, p + 1, p + n)) = Len(b) + n
<1> DEFINE t == SubSeq(l, p + 1, p + n)
<1>1. \A i \in p + 1 .. p + n : l[i] \in Piece
  BY ElementOfSeq
<1>2. t \in Seq(Piece) /\ Len(t) = n
  <2>1. CASE n = 0
    BY <2>1, SubSeqProperties
  <2>2. CASE n # 0
    BY <1>1, <2>2, SubSeqProperties
  <2>3. QED
    BY <2>1, <2>2
<1>3. QED
  BY <1>2, ConcatProperties

-------------------------------------------------------------------------------
(* The log and the buffer, with what their types rest on: how often the log *)
(* was turned, and that the program has a file while it reads.              *)

InTheTree == {"insert", "link", "count", "block", "remove", "leave"}
Labels == {"open", "seek", "kevent", "read", "parse", "malloc", "enter", "exit"} \cup InTheTree

LogTypes ==
    /\ debug \in BOOLEAN
    /\ log \in [Files -> Seq(Piece)] /\ writer \in Files /\ named \in Files \cup {0}
    /\ fd \in Files \cup {0} /\ pos \in Nat /\ watched \in BOOLEAN
    /\ notes \subseteq {"EXTEND", "RENAME", "TRUNCATE"}
    /\ buf \in Seq(Piece) /\ Len(buf) <= Cap
    /\ pc \in Labels /\ tries \in 0 .. RETRY_COUNT

Turned == /\ turns \in 0 .. MaxRotations /\ writer <= turns + 1
          /\ named = 0 => writer <= turns
HasFile == pc \notin {"open", "exit"} => fd # 0
Quiet == ~ watched => notes = {}

LogInv == LogTypes /\ Turned /\ HasFile /\ Quiet /\ now \in Nat

\* The initial state has its types.
LEMMA InitLog == Init => LogInv
<1> SUFFICES ASSUME Init PROVE LogInv
  OBVIOUS
<1>1. log \in [Files -> Seq(Piece)] /\ buf \in Seq(Piece) /\ Len(buf) <= Cap
  BY DEF Init, Piece
<1>2. /\ writer \in Files /\ named \in Files \cup {0} /\ fd \in Files \cup {0}
      /\ pos \in Nat /\ tries \in 0 .. RETRY_COUNT
  BY DEF Init, Files
<1>3. /\ debug \in BOOLEAN /\ watched \in BOOLEAN /\ pc \in Labels
      /\ notes \subseteq {"EXTEND", "RENAME", "TRUNCATE"}
  BY DEF Init, Labels
<1>4. Turned /\ HasFile /\ Quiet /\ now \in Nat
  BY DEF Init, Turned, HasFile, Quiet
<1>5. QED
  BY <1>1, <1>2, <1>3, <1>4 DEF LogInv, LogTypes

\* What syslogd, newsyslog and the clock do keeps the types.
LEMMA WorldLog ==
  ASSUME LogInv, (\E a \in Addrs : Log(a)) \/ Rename \/ Create \/ Truncate \/ Tick
  PROVE  LogInv'
<1> USE DEF LogInv, LogTypes, Turned, HasFile, Quiet
<1>1. CASE \E a \in Addrs : Log(a)
  <2>1. PICK a \in Addrs : Log(a)
    BY <1>1
  <2> DEFINE line == <<[addr |-> a, last |-> FALSE], [addr |-> a, last |-> TRUE]>>
  <2>2. line \in Seq(Piece)
    BY DEF Piece
  <2>3. log[writer] \o line \in Seq(Piece)
    BY <2>2, ConcatProperties
  <2>4. log' \in [Files -> Seq(Piece)]
    BY <2>1, <2>3 DEF Log
  <2>5. notes' \subseteq {"EXTEND", "RENAME", "TRUNCATE"} /\ Quiet'
    BY <2>1 DEF Log, Note, readvars
  <2>6. QED
    BY <2>1, <2>4, <2>5 DEF Log, readvars, timevars
<1>2. CASE Rename
  <2>1. notes' \subseteq {"EXTEND", "RENAME", "TRUNCATE"} /\ Quiet'
    BY <1>2 DEF Rename, Note, readvars
  <2>2. Turned'
    BY <1>2 DEF Rename, Files
  <2>3. QED
    BY <1>2, <2>1, <2>2 DEF Rename, readvars, timevars, Files
<1>3. CASE Create
  <2>1. writer' \in Files /\ named' \in Files /\ Turned'
    BY <1>3 DEF Create, Files
  <2>2. QED
    BY <1>3, <2>1 DEF Create, readvars, timevars
<1>4. CASE Truncate
  <2>1. notes' \subseteq {"EXTEND", "RENAME", "TRUNCATE"} /\ Quiet'
    BY <1>4 DEF Truncate, Note, readvars
  <2>2. Turned'
    BY <1>4 DEF Truncate, Files
  <2>3. log' \in [Files -> Seq(Piece)]
    BY <1>4 DEF Truncate
  <2>4. QED
    BY <1>4, <2>1, <2>2, <2>3 DEF Truncate, readvars, timevars
<1>5. CASE Tick
  BY <1>5 DEF Tick, logvars, readvars
<1>6. QED
  BY <1>1, <1>2, <1>3, <1>4, <1>5

\* The steps of the main loop keep the types.
LEMMA ReadsLog ==
  ASSUME LogInv, Open \/ Seek \/ Watch \/ Event \/ Read
  PROVE  LogInv'
<1> USE DEF LogInv, LogTypes, Turned, HasFile, Quiet, Labels
<1>1. CASE Open
  <2>1. fd' \in Files \cup {0} /\ tries' \in 0 .. RETRY_COUNT
    BY <1>1 DEF Open
  <2>2. pc' \in {"open", "seek", "exit"} /\ (pc' = "seek" => fd' # 0)
    BY <1>1 DEF Open, Goto
  <2>3. watched' = FALSE /\ notes' = {}
    BY <1>1 DEF Open
  <2>4. QED
    BY <1>1, <2>1, <2>2, <2>3 DEF Open, logvars, timevars
<1>2. CASE Seek
  <2>1. pos' \in Nat
    BY <1>2 DEF Seek, End
  <2>2. QED
    BY <1>2, <2>1 DEF Seek, Goto, logvars, timevars
<1>3. CASE Watch
  BY <1>3 DEF Watch, logvars, timevars
<1>4. CASE Event
  BY <1>4 DEF Event, Answer, Goto, logvars, timevars
<1>5. CASE Read
  <2> DEFINE n == IF Behind <= Room THEN Behind ELSE Room
             got == buf \o SubSeq(log[fd], pos + 1, pos + n)
  <2>1. fd \in Files /\ log[fd] \in Seq(Piece)
    BY <1>5 DEF Read
  <2>2. n \in Nat /\ n <= Cap - Len(buf) /\ (n = 0 \/ pos + n <= Len(log[fd]))
    BY <2>1 DEF Behind, Room
  <2>3. got \in Seq(Piece) /\ Len(got) <= Cap
    <3>1. buf \in Seq(Piece) /\ Len(buf) <= Cap /\ pos \in Nat
      OBVIOUS
    <3> HIDE DEF n
    <3>2. got \in Seq(Piece) /\ Len(got) = Len(buf) + n
      BY ONLY <2>1, <2>2, <3>1, FilledBuffer
    <3>3. \A x \in Nat : x = Len(buf) + n => x <= Cap
      BY <2>2, <3>1
    <3>4. QED
      BY ONLY <3>2, <3>3, got \in Seq(Piece) => Len(got) \in Nat
  <2>4. buf' \in Seq(Piece) /\ Len(buf') <= Cap /\ pos' = pos + n
    BY <1>5, <2>3 DEF Read
  <2>5. pc' \in {"kevent", "parse"}
    BY <1>5 DEF Read, Goto
  <2>6. pos' \in Nat
    BY <2>2, <2>4
  <2>7. QED
    BY <1>5, <2>4, <2>5, <2>6 DEF Read, logvars, timevars
<1>6. QED
  BY <1>1, <1>2, <1>3, <1>4, <1>5

\* Where each step of parse() is, and where it goes.
LEMMA ParseMoves ==
  ASSUME ParseStep
  PROVE  /\ UNCHANGED <<debug, logvars, readvars, notes, now>>
         /\ Parse \/ buf' = buf
         /\ pc \in {"parse", "malloc", "enter"} \cup InTheTree
         /\ pc' \in {"kevent", "parse", "malloc", "enter"} \cup InTheTree
<1>1. CASE Parse
  <2>1. UNCHANGED <<debug, logvars, readvars, notes, now>>
    BY <1>1 DEF Parse, timevars
  <2>2. pc = "parse" /\ pc' \in {"kevent", "malloc", "parse"}
    BY <1>1 DEF Parse, Goto
  <2>3. QED
    BY <1>1, <2>1, <2>2
<1>2. CASE Malloc \/ Enter \/ Insert \/ Link \/ Count \/ Block \/ Remove \/ Leave
  <2>1. InParse
    BY <1>2 DEF Malloc, Enter, Insert, Link, Count, Block, Remove, Leave
  <2>2. UNCHANGED <<debug, logvars, readvars, notes, now, buf>>
    BY <2>1 DEF InParse, timevars
  <2>3. CASE Malloc \/ Enter \/ Insert \/ Link
    BY <2>2, <2>3 DEF Malloc, Enter, Insert, Link, Goto, InTheTree
  <2>4. CASE Count \/ Block \/ Remove \/ Leave
    BY <2>2, <2>4 DEF Count, Block, Remove, Leave, Goto, InTheTree
  <2>5. QED
    BY <1>2, <2>3, <2>4
<1>3. QED
  BY <1>1, <1>2 DEF ParseStep

\* parse() and the alarm leave the log alone; parse() takes lines off the buffer.
LEMMA ParseLog ==
  ASSUME LogInv, ParseStep \/ Alarm
  PROVE  LogInv'
<1>1. CASE ParseStep
  <2>1. buf' \in Seq(Piece) /\ Len(buf') <= Cap
    <3>1. CASE Parse
      BY <3>1, RestOfBuffer DEF Parse, LogInv, LogTypes
    <3>2. CASE buf' = buf
      BY <3>2 DEF LogInv, LogTypes
    <3>3. QED
      BY <1>1, <3>1, <3>2, ParseMoves
  <2>2. UNCHANGED <<debug, log, writer, named, fd, pos, watched, tries, notes, now>>
    BY <1>1, ParseMoves DEF logvars, readvars
  <2>3. UNCHANGED turns
    BY <1>1 DEF ParseStep, Parse, Malloc, Enter, Insert, Link, Count, Block, Remove, Leave, InParse
  <2>4. pc' \in Labels /\ HasFile'
    BY <1>1, <2>2, ParseMoves DEF LogInv, HasFile, Labels, InTheTree
  <2>5. QED
    BY <2>1, <2>2, <2>3, <2>4 DEF LogInv, LogTypes, Turned, Quiet
<1>2. CASE Alarm
  BY <1>2 DEF Alarm, logvars, readvars, LogInv, LogTypes, Turned, HasFile, Quiet
<1>3. QED
  BY <1>1, <1>2

LEMMA NextLog ==
  ASSUME LogInv, [Next]_vars
  PROVE  LogInv'
<1>1. CASE UNCHANGED vars
  BY <1>1 DEF vars, LogInv, LogTypes, Turned, HasFile, Quiet, logvars, readvars, timevars
<1>2. QED
  BY <1>1, WorldLog, ReadsLog, ParseLog DEF Next, Step
-------------------------------------------------------------------------------
(* The tree.  The flag is set exactly while parse() is in the tree; what    *)
(* parse() has found there still is there; an entry reaches the limit only  *)
(* while parse() is about to take it out.                                   *)

TreeTypes ==
    /\ who \in Addrs /\ stamp \in Nat
    /\ blocked \subseteq Addrs /\ refused \subseteq Addrs
Marked == critical = IF pc \in InTheTree THEN 1 ELSE 0
Entries ==
    /\ DOMAIN fails \subseteq Addrs
    /\ \A a \in DOMAIN fails :
          /\ fails[a] \in [time : Nat, count : 1 .. maxfails]
          /\ fails[a].count = maxfails => a = who /\ pc \in {"block", "remove"}
Found ==
    /\ pc = "link" => who \notin DOMAIN fails
    /\ pc \in {"count", "block", "remove"} => who \in DOMAIN fails
    /\ pc \in {"block", "remove"} => fails[who].count = maxfails
    /\ pc = "remove" => who \in blocked \cup refused

TreeInv == TreeTypes /\ Marked /\ Entries /\ Found

LEMMA InitTree == Init => TreeInv
<1> SUFFICES ASSUME Init PROVE TreeInv
  OBVIOUS
<1>1. who \in Addrs
  BY DEF Init
<1>2. DOMAIN fails = {} /\ pc = "open" /\ critical = 0
  BY DEF Init
<1>3. stamp \in Nat /\ blocked = {} /\ refused = {}
  BY DEF Init
<1>4. QED
  BY <1>1, <1>2, <1>3 DEF TreeInv, TreeTypes, Marked, Entries, Found, InTheTree

\* The steps outside the tree: of the world, and of the main loop.
Outside == \/ \E a \in Addrs : Log(a)
           \/ Rename \/ Create \/ Truncate \/ Tick
           \/ Open \/ Seek \/ Watch \/ Event \/ Read
LEMMA OutsideStays ==
  ASSUME Outside
  PROVE  /\ UNCHANGED treevars
         /\ pc' = pc \/ (/\ pc \in {"open", "seek", "kevent", "read"}
                         /\ pc' \in {"open", "seek", "kevent", "read", "parse", "exit"})
<1>1. CASE (\E a \in Addrs : Log(a)) \/ Rename \/ Create \/ Truncate \/ Tick
  BY <1>1 DEF Log, Rename, Create, Truncate, Tick
<1>2. CASE Open
  BY <1>2 DEF Open, Goto
<1>3. CASE Seek \/ Watch
  BY <1>3 DEF Seek, Watch, Goto
<1>4. CASE Event \/ Read
  BY <1>4 DEF Event, Answer, Read, Goto
<1>5. QED
  BY <1>1, <1>2, <1>3, <1>4 DEF Outside

LEMMA OutsideTree ==
  ASSUME TreeInv, Outside \/ UNCHANGED vars
  PROVE  TreeInv'
<1>1. /\ UNCHANGED <<who, stamp, critical, fails, blocked, refused>>
      /\ pc' = pc \/ (/\ pc \in {"open", "seek", "kevent", "read"}
                      /\ pc' \in {"open", "seek", "kevent", "read", "parse", "exit"})
  BY OutsideStays DEF treevars, entry, table, vars
<1>2. QED
  BY <1>1 DEF TreeInv, TreeTypes, Marked, Entries, Found, InTheTree

\* parse() before it is in the tree.
LEMMA EnterTree ==
  ASSUME LogInv, TreeInv, Parse \/ Malloc \/ Enter \/ Insert
  PROVE  TreeInv'
<1>1. CASE Parse
  <2>1. who' \in Addrs
    <3>1. buf \in Seq(Piece) /\ Len(buf) <= Cap /\ who \in Addrs
      BY DEF LogInv, LogTypes, TreeInv, TreeTypes
    <3>2. QED
      BY <1>1, <3>1, RestOfBuffer DEF Parse
  <2>2. UNCHANGED <<stamp, critical, fails, blocked, refused>>
    BY <1>1 DEF Parse, table
  <2>3. pc = "parse" /\ pc' \in {"kevent", "malloc", "parse"}
    BY <1>1 DEF Parse, Goto
  <2>4. QED
    BY <2>1, <2>2, <2>3 DEF TreeInv, TreeTypes, Marked, Entries, Found, InTheTree
<1>2. CASE Malloc
  <2>1. UNCHANGED <<who, critical, fails, blocked, refused>> /\ stamp' \in {stamp, now \div 2}
    BY <1>2 DEF Malloc, InParse, table
  <2>2. pc = "malloc" /\ pc' \in {"enter", "parse"}
    BY <1>2 DEF Malloc, Goto
  <2>3. now \div 2 \in Nat
    BY DEF LogInv
  <2>4. QED
    BY <2>1, <2>2, <2>3 DEF TreeInv, TreeTypes, Marked, Entries, Found, InTheTree
<1>3. CASE Enter
  BY <1>3 DEF Enter, InParse, Goto, table, TreeInv, TreeTypes, Marked, Entries, Found, InTheTree
<1>4. CASE Insert
  BY <1>4 DEF Insert, InParse, Goto, table, TreeInv, TreeTypes, Marked, Entries, Found, InTheTree
<1>5. QED
  BY <1>1, <1>2, <1>3, <1>4

\* parse() in the tree.
LEMMA ChangeTree ==
  ASSUME TreeInv, Link \/ Count \/ Block \/ Remove \/ Leave
  PROVE  TreeInv'
<1> USE DEF TreeInv, TreeTypes, Marked, Entries, Found
<1>1. CASE Link
  <2>1. UNCHANGED <<who, stamp, critical, blocked, refused>> /\ pc = "link" /\ pc' = "leave"
    BY <1>1 DEF Link, InParse, Goto, table
  <2>2. /\ DOMAIN fails' = DOMAIN fails \cup {who}
        /\ \A a \in DOMAIN fails' : fails'[a] = IF a = who THEN [time |-> stamp, count |-> 1]
                                                ELSE fails[a]
    BY <1>1 DEF Link
  <2>3. QED
    BY <2>1, <2>2 DEF InTheTree
<1>2. CASE Count
  <2>1. UNCHANGED <<who, stamp, critical, blocked, refused>> /\ pc = "count"
    BY <1>2 DEF Count, InParse, table
  <2>2. /\ DOMAIN fails' = DOMAIN fails
        /\ \A a \in DOMAIN fails' : fails'[a] = IF a = who
                                                THEN [fails[a] EXCEPT !.count = @ + 1]
                                                ELSE fails[a]
    BY <1>2 DEF Count
  <2>3. who \in DOMAIN fails /\ fails[who].count \in 1 .. maxfails - 1
    BY <2>1
  <2>4. pc' = IF fails[who].count + 1 = maxfails THEN "block" ELSE "leave"
    BY <1>2, <2>3 DEF Count, Goto, Enough, InTree
  <2>5. /\ \A a \in DOMAIN fails' : /\ fails'[a].time = fails[a].time
                                    /\ a # who => fails'[a].count = fails[a].count
        /\ fails'[who].count = fails[who].count + 1
    <3>1. ASSUME NEW a \in DOMAIN fails'
          PROVE  /\ fails'[a].time = fails[a].time
                 /\ a # who => fails'[a].count = fails[a].count
      <4>1. CASE a = who
        <5>1. fails'[a].time = [fails[a] EXCEPT !.count = @ + 1].time
          BY <2>2, <4>1
        <5>2. QED
          BY <4>1, <5>1
      <4>2. CASE a # who
        BY <2>2, <4>2
      <4>3. QED
        BY <4>1, <4>2
    <3>2. fails'[who] = [fails[who] EXCEPT !.count = @ + 1]
      BY <2>2, <2>3
    <3>3. fails'[who].count = fails[who].count + 1
      BY <3>2
    <3>4. QED
      BY <3>1, <3>3
  <2>6. QED
    BY <2>1, <2>2, <2>3, <2>4, <2>5 DEF InTheTree
<1>3. CASE Block
  BY <1>3 DEF Block, InParse, Goto, InTheTree
<1>4. CASE Remove
  <2>1. UNCHANGED <<who, stamp, critical, blocked, refused>> /\ pc = "remove" /\ pc' = "leave"
    BY <1>4 DEF Remove, InParse, Goto, table
  <2>2. /\ DOMAIN fails' = DOMAIN fails \ {who}
        /\ \A a \in DOMAIN fails' : fails'[a] = fails[a]
    BY <1>4 DEF Remove, Forget
  <2>3. QED
    BY <2>1, <2>2 DEF InTheTree
<1>5. CASE Leave
  BY <1>5 DEF Leave, InParse, Goto, table, InTheTree
<1>6. QED
  BY <1>1, <1>2, <1>3, <1>4, <1>5

\* The alarm takes out entries that are old, when parse() is not in the tree.
LEMMA AlarmStep ==
  ASSUME TreeInv, Alarm
  PROVE  /\ UNCHANGED <<pc, who, stamp, critical, blocked, refused, counted, dropped, now>>
         /\ \/ UNCHANGED <<fails, spent>>
            \/ /\ pc \notin InTheTree
               /\ \E gone \in SUBSET DOMAIN fails :
                     Forget(gone) /\ \A a \in gone : Old(fails[a])
<1>1. UNCHANGED <<pc, who, stamp, critical, blocked, refused, counted, dropped, now>>
  BY DEF Alarm, entry, table
<1>2. CASE Busy
  BY <1>1, <1>2 DEF Alarm
<1>3. CASE ~ Busy
  <2>1. pc \notin InTheTree
    BY <1>3 DEF Busy, TreeInv, Marked
  <2>2. PICK gone \in Swept : Forget(gone)
    BY <1>3 DEF Alarm
  <2>3. gone \in SUBSET DOMAIN fails /\ \A a \in gone : Old(fails[a])
    BY <2>2 DEF Swept
  <2>4. QED
    BY <1>1, <2>1, <2>2, <2>3
<1>4. QED
  BY <1>2, <1>3

LEMMA AlarmTree ==
  ASSUME TreeInv, Alarm
  PROVE  TreeInv'
<1>1. CASE UNCHANGED <<fails, spent>>
  BY <1>1, AlarmStep DEF TreeInv, TreeTypes, Marked, Entries, Found
<1>2. CASE \E gone \in SUBSET DOMAIN fails : pc \notin InTheTree /\ Forget(gone)
  <2>1. PICK gone \in SUBSET DOMAIN fails : pc \notin InTheTree /\ Forget(gone)
    BY <1>2
  <2>2. /\ DOMAIN fails' = DOMAIN fails \ gone
        /\ \A a \in DOMAIN fails' : fails'[a] = fails[a]
    BY <2>1 DEF Forget
  <2>3. QED
    BY <2>1, <2>2, AlarmStep DEF TreeInv, TreeTypes, Marked, Entries, Found, InTheTree
<1>3. QED
  BY <1>1, <1>2, AlarmStep

LEMMA NextTree ==
  ASSUME LogInv, TreeInv, [Next]_vars
  PROVE  TreeInv'
BY OutsideTree, EnterTree, ChangeTree, AlarmTree DEF Next, Step, ParseStep, Outside

LEMMA Kept == FairSpec => [](LogInv /\ TreeInv)
<1>1. (LogInv /\ TreeInv) /\ [Next]_vars => (LogInv /\ TreeInv)'
  BY NextLog, NextTree
<1>2. Init => LogInv /\ TreeInv
  BY InitLog, InitTree
<1>3. QED
  BY <1>1, <1>2, PTL DEF FairSpec

\* Every variable of the program, the log and the clock stays in its type, for any
\* rotations: a buffer never holds more than BUFFER_SIZE - 1 bytes, a counter in the
\* tree never passes the limit, and the flag of parse() is 0 or 1.
THEOREM WatchTypeCorrect == FairSpec => []WatchTypeOK
<1>1. LogInv /\ TreeInv => WatchTypeOK
  BY DEF LogInv, LogTypes, TreeInv, TreeTypes, Marked, Entries, WatchTypeOK, Labels, InTheTree
<1>2. QED
  BY <1>1, Kept, PTL
-------------------------------------------------------------------------------
(* What a step does to the tree.                                           *)

\* Only four steps change the tree.
LEMMA TreeChanges ==
  ASSUME LogInv, TreeInv, [Next]_vars
  PROVE  fails' = fails \/ Link \/ Count \/ Remove \/ Alarm
<1>1. CASE Outside \/ UNCHANGED vars
  BY <1>1, OutsideStays DEF treevars, vars
<1>2. CASE Parse \/ Malloc \/ Enter \/ Insert \/ Block \/ Leave
  BY <1>2 DEF Parse, Malloc, Enter, Insert, Block, Leave
<1>3. QED
  BY <1>1, <1>2 DEF Next, Step, ParseStep, Outside

LEMMA StepForgets ==
  ASSUME LogInv, TreeInv, [Next]_vars
  PROVE  [KeepOrForget]_fails
<1> USE DEF TreeInv, TreeTypes, Entries, Found
<1>1. CASE Link
  <2>1. pc = "link" /\ DOMAIN fails \subseteq DOMAIN fails'
        /\ \A a \in DOMAIN fails : a # who => fails'[a] = fails[a]
    BY <1>1 DEF Link
  <2>2. QED
    BY <2>1 DEF KeepOrForget
<1>2. CASE Count
  <2>1. DOMAIN fails' = DOMAIN fails
        /\ \A a \in DOMAIN fails : fails'[a] = IF a = who
                                               THEN [fails[a] EXCEPT !.count = @ + 1]
                                               ELSE fails[a]
    BY <1>2 DEF Count
  <2>2. ASSUME NEW a \in DOMAIN fails
        PROVE  fails'[a].time = fails[a].time /\ fails'[a].count - fails[a].count \in {0, 1}
    <3>0. fails[a].count \in Nat
      OBVIOUS
    <3>1. CASE a = who
      <4>1. fails'[a] = [fails[a] EXCEPT !.count = @ + 1]
        BY <2>1, <3>1
      <4>2. fails'[a].time = fails[a].time
        BY <4>1
      <4>3. fails'[a].count = fails[a].count + 1
        BY <4>1
      <4>4. QED
        BY <3>0, <4>2, <4>3
    <3>2. CASE a # who
      BY <2>1, <3>0, <3>2
    <3>3. QED
      BY <3>1, <3>2
  <2>3. QED
    BY <2>1, <2>2 DEF KeepOrForget
<1>3. CASE Remove
  <2>1. /\ DOMAIN fails' = DOMAIN fails \ {who}
        /\ \A a \in DOMAIN fails' : fails'[a] = fails[a]
        /\ pc = "remove"
    BY <1>3 DEF Remove, Forget
  <2>2. \A a \in DOMAIN fails : fails[a].count - fails[a].count = 0
    OBVIOUS
  <2>3. QED
    BY <2>1, <2>2 DEF KeepOrForget
<1>4. CASE Alarm
  <2>1. CASE UNCHANGED <<fails, spent>>
    BY <2>1
  <2>2. CASE \E gone \in SUBSET DOMAIN fails : Forget(gone) /\ \A a \in gone : Old(fails[a])
    <3>1. PICK gone \in SUBSET DOMAIN fails : Forget(gone) /\ \A a \in gone : Old(fails[a])
      BY <2>2
    <3>2. /\ DOMAIN fails' = DOMAIN fails \ gone
          /\ \A a \in DOMAIN fails' : fails'[a] = fails[a]
      BY <3>1 DEF Forget
    <3>3. \A a \in DOMAIN fails : fails[a].count - fails[a].count = 0
      OBVIOUS
    <3>4. QED
      BY <3>1, <3>2, <3>3 DEF KeepOrForget, Old
  <2>3. QED
    BY <1>4, <2>1, <2>2, AlarmStep
<1>5. QED
  BY <1>1, <1>2, <1>3, <1>4, TreeChanges

LEMMA StepSteady ==
  ASSUME LogInv, TreeInv, [Next]_vars
  PROVE  [OnlyParse]_fails
<1>1. CASE Link \/ Count \/ Remove
  <2>1. pc' # pc
    BY <1>1 DEF Link, Count, Remove, Goto
  <2>2. QED
    BY <2>1 DEF OnlyParse
<1>2. CASE Alarm
  BY <1>2, AlarmStep DEF OnlyParse, Holds, InTheTree
<1>3. QED
  BY <1>1, <1>2, TreeChanges

\* For any addresses, limits and times of the alarm: an entry of the tree keeps the
\* time of its first failure and counts upwards by one, until it is older than -s or
\* has reached -m, with its address blocked or refused by pf.
THEOREM FailuresForgotten == FairSpec => Forgotten
<1>1. LogInv /\ TreeInv /\ [Next]_vars => [KeepOrForget]_fails
  BY StepForgets
<1>2. QED
  BY <1>1, Kept, PTL DEF FairSpec, Forgotten

\* The flag of parse() is enough: between going down the tree and the last use of
\* what it found there, no alarm takes an entry out.
THEOREM TreeNeverTorn == FairSpec => TreeWhole
<1>1. LogInv /\ TreeInv /\ [Next]_vars => [OnlyParse]_fails
  BY StepSteady
<1>2. QED
  BY <1>1, Kept, PTL DEF FairSpec, TreeWhole
-------------------------------------------------------------------------------
(* What was parsed is in the tree, on its way there, taken out or dropped.  *)

Tally == /\ counted \in [Addrs -> Nat] /\ spent \in [Addrs -> Nat] /\ dropped \in [Addrs -> Nat]
         /\ Tallied

LEMMA InitTally == Init => Tally
<1> SUFFICES ASSUME Init PROVE Tally
  OBVIOUS
<1>1. DOMAIN fails = {} /\ pc = "open"
  BY DEF Init
<1>2. \A a \in Addrs : counted[a] = 0 /\ spent[a] = 0 /\ dropped[a] = 0
  BY DEF Init
<1>3. \A a \in Addrs : InTree(a) = 0 /\ OnItsWay(a) = 0
  BY <1>1 DEF InTree, OnItsWay
<1>4. QED
  BY <1>2, <1>3 DEF Init, Tally, Tallied

LEMMA Numbers ==
  ASSUME TreeInv, NEW a \in Addrs
  PROVE  InTree(a) \in Nat /\ OnItsWay(a) \in {0, 1}
BY DEF TreeInv, Entries, InTree, OnItsWay

Way == {"malloc", "enter", "insert", "link", "count"}

\* A step that counts nothing, and after which the failure is as near to the tree.
LEMMA SameTally ==
  ASSUME Tally, UNCHANGED <<who, counted, spent, dropped, fails>>,
         pc' = pc \/ (pc \in Way <=> pc' \in Way)
  PROVE  Tally'
BY DEF Tally, Tallied, InTree, OnItsWay, Way

\* The alarm moves the counters of what it takes out to spent.
LEMMA AlarmTally ==
  ASSUME TreeInv, Tally, Alarm
  PROVE  Tally'
<1>1. UNCHANGED <<pc, who, counted, dropped>>
  BY AlarmStep
<1>2. CASE UNCHANGED <<fails, spent>>
  BY <1>1, <1>2, SameTally
<1>3. CASE \E gone \in SUBSET DOMAIN fails : Forget(gone)
  <2>1. PICK gone \in SUBSET DOMAIN fails : Forget(gone)
    BY <1>3
  <2>2. spent' \in [Addrs -> Nat]
    <3>1. \A a \in Addrs : spent[a] \in Nat /\ InTree(a) \in Nat
      BY Numbers DEF Tally
    <3>2. spent' = [a \in Addrs |-> spent[a] + IF a \in gone THEN InTree(a) ELSE 0]
      BY <2>1 DEF Forget
    <3>3. QED
      BY <3>1, <3>2
  <2>3. ASSUME NEW a \in Addrs
        PROVE  counted'[a] = spent'[a] + dropped'[a] + InTree(a)' + OnItsWay(a)'
    <3>1. /\ InTree(a) \in Nat /\ spent[a] \in Nat /\ dropped[a] \in Nat
          /\ OnItsWay(a) \in Nat /\ OnItsWay(a)' = OnItsWay(a)
      BY <1>1, Numbers DEF Tally, OnItsWay
    <3>2. counted[a] = spent[a] + dropped[a] + InTree(a) + OnItsWay(a)
      BY DEF Tally, Tallied
    <3>3. spent'[a] = spent[a] + IF a \in gone THEN InTree(a) ELSE 0
      BY <2>1 DEF Forget
    <3>4. InTree(a)' = IF a \in gone THEN 0 ELSE InTree(a)
      BY <2>1 DEF Forget, InTree
    <3>5. CASE a \in gone
      BY <1>1, <3>1, <3>2, <3>3, <3>4, <3>5
    <3>6. CASE a \notin gone
      BY <1>1, <3>1, <3>2, <3>3, <3>4, <3>6
    <3>7. QED
      BY <3>5, <3>6
  <2>4. QED
    BY <1>1, <2>2, <2>3 DEF Tally, Tallied
<1>4. QED
  BY <1>2, <1>3, AlarmStep

\* A line of a failed login puts a failure on its way.
LEMMA ParseTally ==
  ASSUME LogInv, TreeInv, Tally, Parse
  PROVE  Tally'
<1>1. fails' = fails /\ spent' = spent /\ dropped' = dropped /\ pc = "parse"
  BY DEF Parse
<1>2. CASE UNCHANGED <<who, counted>> /\ pc' \in {"kevent", "parse"}
  BY <1>1, <1>2, SameTally DEF Way
<1>3. CASE /\ who' \in Addrs /\ pc' = "malloc"
           /\ counted' = [counted EXCEPT ![who'] = @ + 1]
  <2>1. counted' \in [Addrs -> Nat]
    BY <1>3 DEF Tally
  <2>2. ASSUME NEW a \in Addrs
        PROVE  counted'[a] = spent'[a] + dropped'[a] + InTree(a)' + OnItsWay(a)'
    <3>1. /\ InTree(a) \in Nat /\ spent[a] \in Nat /\ dropped[a] \in Nat
          /\ InTree(a)' = InTree(a)
      BY <1>1, Numbers DEF Tally, InTree
    <3>2. counted[a] = spent[a] + dropped[a] + InTree(a)
      BY <1>1, <3>1 DEF Tally, Tallied, OnItsWay
    <3>3. OnItsWay(a)' = IF a = who' THEN 1 ELSE 0
      BY <1>3 DEF OnItsWay
    <3>4. counted'[a] = counted[a] + IF a = who' THEN 1 ELSE 0
      BY <1>3 DEF Tally
    <3>5. CASE a = who'
      BY <1>1, <3>1, <3>2, <3>3, <3>4, <3>5
    <3>6. CASE a # who'
      BY <1>1, <3>1, <3>2, <3>3, <3>4, <3>6
    <3>7. QED
      BY <3>5, <3>6
  <2>3. QED
    BY <1>1, <2>1, <2>2 DEF Tally, Tallied
<1>4. buf \in Seq(Piece) /\ Len(buf) <= Cap
  BY DEF LogInv, LogTypes
<1>5. QED
  <2>1. CASE FirstEnd(buf) = {} /\ Goto("kevent") /\ UNCHANGED <<buf, who, counted>>
    BY <1>2, <2>1 DEF Goto
  <2>2. CASE UNCHANGED <<pc, who, counted>>
    BY <1>1, <1>2, <2>2
  <2>3. CASE \E n \in FirstEnd(buf) :
               /\ \E i \in 1 .. n : who' = buf[i].addr
               /\ Goto("malloc") /\ counted' = [counted EXCEPT ![who'] = @ + 1]
    BY <1>3, <1>4, <2>3, RestOfBuffer DEF Goto
  <2>4. QED
    BY <2>1, <2>2, <2>3 DEF Parse

\* Without memory the failure is dropped.
LEMMA MallocTally ==
  ASSUME TreeInv, Tally, Malloc
  PROVE  Tally'
<1>1. UNCHANGED <<who, counted, spent, fails>> /\ pc = "malloc"
  BY DEF Malloc, InParse
<1>2. CASE dropped' = dropped /\ pc' = "enter"
  BY <1>1, <1>2, SameTally DEF Way
<1>3. CASE dropped' = [dropped EXCEPT ![who] = @ + 1] /\ pc' = "parse"
  <2>1. ASSUME NEW a \in Addrs
        PROVE  counted'[a] = spent'[a] + dropped'[a] + InTree(a)' + OnItsWay(a)'
    <3>1. /\ InTree(a) \in Nat /\ spent[a] \in Nat /\ dropped[a] \in Nat
          /\ InTree(a)' = InTree(a)
      BY <1>1, Numbers DEF Tally, InTree
    <3>2. counted[a] = spent[a] + dropped[a] + InTree(a) + IF a = who THEN 1 ELSE 0
      BY <1>1 DEF Tally, Tallied, OnItsWay
    <3>3. OnItsWay(a)' = 0
      BY <1>3 DEF OnItsWay
    <3>4. dropped'[a] = dropped[a] + IF a = who THEN 1 ELSE 0
      BY <1>3, <3>1 DEF Tally
    <3>5. CASE a = who
      BY <1>1, <3>1, <3>2, <3>3, <3>4, <3>5
    <3>6. CASE a # who
      BY <1>1, <3>1, <3>2, <3>3, <3>4, <3>6
    <3>7. QED
      BY <3>5, <3>6
  <2>2. dropped' \in [Addrs -> Nat]
    BY <1>3 DEF Tally, TreeInv, TreeTypes
  <2>3. QED
    BY <1>1, <2>1, <2>2 DEF Tally, Tallied
<1>4. QED
  BY <1>2, <1>3 DEF Malloc, Goto

\* The failure becomes an entry, or one more in the counter of its entry.
LEMMA CountTally ==
  ASSUME TreeInv, Tally, Link \/ Count
  PROVE  Tally'
<1>1. UNCHANGED <<who, counted, spent, dropped>>
  BY DEF Link, Count, InParse
<1>2. pc \in {"link", "count"} /\ pc' \in {"leave", "block"}
  BY DEF Link, Count, Goto
<1>3. ASSUME NEW a \in Addrs
      PROVE  InTree(a)' = InTree(a) + IF a = who THEN 1 ELSE 0
  <2>1. CASE Link
    <3>1. /\ DOMAIN fails' = DOMAIN fails \cup {who} /\ who \notin DOMAIN fails
          /\ \A b \in DOMAIN fails' : fails'[b] = IF b = who THEN [time |-> stamp, count |-> 1]
                                                  ELSE fails[b]
      BY <2>1 DEF Link, TreeInv, Found
    <3>2. CASE a = who
      <4>1. fails'[a].count = 1 /\ a \in DOMAIN fails' /\ a \notin DOMAIN fails
        BY <3>1, <3>2
      <4>2. QED
        BY <3>2, <4>1 DEF InTree
    <3>3. CASE a # who
      <4>1. InTree(a)' = InTree(a)
        BY <3>1, <3>3 DEF InTree
      <4>2. QED
        BY <3>3, <4>1, Numbers
    <3>4. QED
      BY <3>2, <3>3
  <2>2. CASE Count
    <3>1. /\ DOMAIN fails' = DOMAIN fails /\ who \in DOMAIN fails
          /\ \A b \in DOMAIN fails' : fails'[b] = IF b = who
                                                  THEN [fails[b] EXCEPT !.count = @ + 1]
                                                  ELSE fails[b]
      BY <2>2 DEF Count, TreeInv, Found
    <3>2. \A b \in DOMAIN fails : fails[b] \in [time : Nat, count : 1 .. maxfails]
      BY DEF TreeInv, Entries
    <3>3. CASE a = who
      <4>1. fails'[a] = [fails[a] EXCEPT !.count = @ + 1]
        BY <3>1, <3>3
      <4>2. fails'[a].count = fails[a].count + 1
        BY <3>1, <3>2, <3>3, <4>1
      <4>3. QED
        BY <3>1, <3>3, <4>2 DEF InTree
    <3>4. CASE a # who
      BY <3>1, <3>4, Numbers DEF InTree
    <3>5. QED
      BY <3>3, <3>4
  <2>3. QED
    BY <2>1, <2>2
<1>4. ASSUME NEW a \in Addrs
      PROVE  counted'[a] = spent'[a] + dropped'[a] + InTree(a)' + OnItsWay(a)'
  <2>1. InTree(a) \in Nat /\ spent[a] \in Nat /\ dropped[a] \in Nat
    BY Numbers DEF Tally
  <2>2. OnItsWay(a) = (IF a = who THEN 1 ELSE 0) /\ OnItsWay(a)' = 0
    BY <1>2 DEF OnItsWay
  <2>3. counted[a] = spent[a] + dropped[a] + InTree(a) + OnItsWay(a)
    BY DEF Tally, Tallied
  <2>4. CASE a = who
    BY <1>1, <1>3, <2>1, <2>2, <2>3, <2>4
  <2>5. CASE a # who
    BY <1>1, <1>3, <2>1, <2>2, <2>3, <2>5
  <2>6. QED
    BY <2>4, <2>5
<1>5. QED
  BY <1>1, <1>4 DEF Tally, Tallied

\* The whole counter of an entry leaves the tree with it.
LEMMA RemoveTally ==
  ASSUME TreeInv, Tally, Remove
  PROVE  Tally'
<1>1. UNCHANGED <<who, counted, dropped>> /\ pc = "remove" /\ pc' = "leave"
  BY DEF Remove, InParse, Goto
<1>2. spent' \in [Addrs -> Nat]
  <2>1. \A a \in Addrs : spent[a] \in Nat /\ InTree(a) \in Nat
    BY Numbers DEF Tally
  <2>2. spent' = [a \in Addrs |-> spent[a] + IF a \in {who} THEN InTree(a) ELSE 0]
    BY DEF Remove, Forget
  <2>3. QED
    BY <2>1, <2>2
<1>3. ASSUME NEW a \in Addrs
      PROVE  counted'[a] = spent'[a] + dropped'[a] + InTree(a)' + OnItsWay(a)'
  <2>1. /\ InTree(a) \in Nat /\ spent[a] \in Nat /\ dropped[a] \in Nat
        /\ OnItsWay(a) = 0 /\ OnItsWay(a)' = 0
    BY <1>1, Numbers DEF Tally, OnItsWay
  <2>2. counted[a] = spent[a] + dropped[a] + InTree(a) + OnItsWay(a)
    BY DEF Tally, Tallied
  <2>3. spent'[a] = spent[a] + IF a = who THEN InTree(a) ELSE 0
    BY DEF Remove, Forget
  <2>4. InTree(a)' = IF a = who THEN 0 ELSE InTree(a)
    BY DEF Remove, Forget, InTree
  <2>5. CASE a = who
    BY <1>1, <2>1, <2>2, <2>3, <2>4, <2>5
  <2>6. CASE a # who
    BY <1>1, <2>1, <2>2, <2>3, <2>4, <2>6
  <2>7. QED
    BY <2>5, <2>6
<1>4. QED
  BY <1>1, <1>2, <1>3 DEF Tally, Tallied

LEMMA NextTally ==
  ASSUME LogInv, TreeInv, Tally, [Next]_vars
  PROVE  Tally'
<1>1. CASE Outside \/ UNCHANGED vars
  <2>1. UNCHANGED <<who, counted, spent, dropped, fails>>
    BY <1>1, OutsideStays DEF treevars, entry, tally, vars
  <2>2. pc' = pc \/ (pc \in Way <=> pc' \in Way)
    BY <1>1, OutsideStays DEF vars, Way
  <2>3. QED
    BY <2>1, <2>2, SameTally
<1>2. CASE Enter \/ Insert \/ Block \/ Leave
  <2>1. UNCHANGED <<who, counted, spent, dropped, fails>>
    BY <1>2 DEF Enter, Insert, Block, Leave, InParse
  <2>2. pc \in Way <=> pc' \in Way
    BY <1>2 DEF Enter, Insert, Block, Leave, Goto, Way
  <2>3. QED
    BY <2>1, <2>2, SameTally
<1>3. QED
  BY <1>1, <1>2, AlarmTally, ParseTally, MallocTally, CountTally, RemoveTally
  DEF Next, Step, ParseStep, Outside

\* For any addresses, limits and times of the alarm every failure that was parsed is
\* counted once: on its way to the tree, in it, taken out of it, or without memory.
THEOREM FailuresTallied == FairSpec => []Tallied
<1>1. LogInv /\ TreeInv /\ Tally /\ [Next]_vars => Tally'
  BY NextTally
<1>2. Tally => Tallied
  BY DEF Tally
<1>3. QED
  BY <1>1, <1>2, InitTally, Kept, PTL DEF FairSpec
-------------------------------------------------------------------------------
(* What the program has not read is announced by an event not taken yet.   *)

OnFile == pc \notin {"open", "seek", "exit"} /\ ~ early /\ "TRUNCATE" \notin notes
Within == OnFile => pos <= Len(log[fd])
Caught == OnFile /\ pc # "read" /\ ~ cut /\ "EXTEND" \notin notes => pos = Len(log[fd])
PlaceInv == Within /\ Caught

LEMMA InitPlace == Init => PlaceInv
BY DEF Init, PlaceInv, Within, Caught, OnFile

\* A line that is written leaves an event, or the file was not watched.
LEMMA LogPlace ==
  ASSUME LogInv, PlaceInv, NEW a \in Addrs, Log(a)
  PROVE  PlaceInv'
<1> DEFINE line == <<[addr |-> a, last |-> FALSE], [addr |-> a, last |-> TRUE]>>
<1>1. UNCHANGED <<pc, pos, fd, watched, cut>>
  BY DEF Log, readvars
<1>2. log' = [log EXCEPT ![writer] = @ \o line] /\ early' = (early \/ (fd = writer /\ ~ watched))
  BY DEF Log, Unseen
<1>3. notes' = IF watched /\ fd = writer THEN notes \cup {"EXTEND"} ELSE notes
  BY DEF Log, Note
<1>4. line \in Seq(Piece)
  BY DEF Piece
<1> HIDE DEF line
<1>5. CASE fd = writer
  <2>1. log[writer] \in Seq(Piece)
    BY DEF LogInv, LogTypes
  <2>2. Len(log'[fd]) = Len(log[fd]) + Len(line)
    BY <1>2, <1>4, <1>5, <2>1, ConcatProperties DEF LogInv, LogTypes
  <2>3. Len(log'[fd]) >= Len(log[fd])
    BY <1>4, <1>5, <2>1, <2>2
  <2>4. CASE watched
    <3>1. "EXTEND" \in notes' /\ ("TRUNCATE" \in notes' <=> "TRUNCATE" \in notes)
      BY <1>3, <1>5, <2>4
    <3>2. Within'
      <4>1. SUFFICES ASSUME OnFile' PROVE pos <= Len(log'[fd])
        BY <1>1 DEF Within
      <4>2. pos <= Len(log[fd])
        BY <1>1, <1>2, <3>1, <4>1 DEF PlaceInv, Within, OnFile
      <4>3. pos \in Nat /\ Len(log[fd]) \in Nat /\ Len(log'[fd]) \in Nat
        BY <1>4, <1>5, <2>1, <2>2 DEF LogInv, LogTypes
      <4>4. QED
        BY <2>3, <4>2, <4>3
    <3>3. QED
      BY <3>1, <3>2 DEF PlaceInv, Caught
  <2>5. CASE ~ watched
    BY <1>2, <1>5, <2>5 DEF PlaceInv, Within, Caught, OnFile
  <2>6. QED
    BY <2>4, <2>5
<1>6. CASE fd # writer
  <2>1. log'[fd] = log[fd]
    BY <1>2, <1>6 DEF LogInv, LogTypes
  <2>2. QED
    BY <1>1, <1>2, <1>3, <1>6, <2>1 DEF PlaceInv, Within, Caught, OnFile
<1>7. QED
  BY <1>5, <1>6

LEMMA TruncatePlace ==
  ASSUME LogInv, PlaceInv, Truncate
  PROVE  PlaceInv'
<1>1. UNCHANGED <<pc, pos, fd, watched, cut>>
  BY DEF Truncate, readvars
<1>2. early' = (early \/ (fd = named /\ ~ watched))
  BY DEF Truncate, Unseen
<1>3. notes' = IF watched /\ fd = named THEN notes \cup {"TRUNCATE"} ELSE notes
  BY DEF Truncate, Note
<1>4. CASE fd = named
  BY <1>2, <1>3, <1>4 DEF PlaceInv, Within, Caught, OnFile
<1>5. CASE fd # named
  <2>1. log'[fd] = log[fd]
    BY <1>5 DEF Truncate, LogInv, LogTypes
  <2>2. QED
    BY <1>1, <1>2, <1>3, <1>5, <2>1 DEF PlaceInv, Within, Caught, OnFile
<1>6. QED
  BY <1>4, <1>5

\* A read that does not fill the buffer gets to the end of the file.
LEMMA ReadPlace ==
  ASSUME LogInv, PlaceInv, Read
  PROVE  PlaceInv'
<1> DEFINE n == IF Behind <= Room THEN Behind ELSE Room
           got == buf \o SubSeq(log[fd], pos + 1, pos + n)
<1>1. UNCHANGED <<notes, early, log, fd>> /\ pc = "read" /\ pos' = pos + n
  BY DEF Read, logvars
<1>2. cut' = (Len(got) = Cap)
  BY DEF Read
<1>3. log[fd] \in Seq(Piece) /\ buf \in Seq(Piece) /\ Len(buf) <= Cap /\ pos \in Nat
  BY <1>1 DEF LogInv, LogTypes, HasFile
<1>4. n \in Nat /\ n <= Cap - Len(buf) /\ (n = 0 \/ pos + n <= Len(log[fd]))
  BY <1>3 DEF Behind, Room
<1>5. pos <= Len(log[fd]) => /\ pos + n <= Len(log[fd])
                             /\ n # Room => pos + n = Len(log[fd])
  BY <1>3 DEF Behind, Room
<1> HIDE DEF n
<1>6. Len(got) = Len(buf) + n
  BY ONLY <1>3, <1>4, FilledBuffer
<1> HIDE DEF got
<1>7. ~ cut' => n # Room
  <2>1. ~ cut' => Len(got) # Cap
    BY <1>2, Zenon
  <2>2. Len(got) # Cap => n # Cap - Len(buf)
    BY <1>3, <1>4, <1>6
  <2>3. QED
    BY <2>1, <2>2 DEF Room
<1>8. OnFile' => pos <= Len(log[fd])
  BY <1>1 DEF PlaceInv, Within, OnFile
<1>9. QED
  BY <1>1, <1>5, <1>7, <1>8 DEF PlaceInv, Within, Caught

LEMMA ParsePlace ==
  ASSUME PlaceInv, ParseStep
  PROVE  PlaceInv'
<1>1. UNCHANGED <<log, fd, pos, notes>>
  BY ParseMoves DEF logvars, readvars
<1>2. UNCHANGED <<cut, early>>
  <2>1. CASE Parse
    BY <2>1 DEF Parse, past
  <2>2. CASE Malloc \/ Enter \/ Insert \/ Link \/ Count \/ Block \/ Remove \/ Leave
    <3>1. InParse
      BY <2>2 DEF Malloc, Enter, Insert, Link, Count, Block, Remove, Leave
    <3>2. QED
      BY <3>1 DEF InParse, past
  <2>3. QED
    BY <2>1, <2>2 DEF ParseStep
<1>3. pc \notin {"open", "seek", "exit", "read"} /\ pc' \notin {"open", "seek", "exit", "read"}
  BY ParseMoves DEF InTheTree
<1>4. QED
  BY <1>1, <1>2, <1>3 DEF PlaceInv, Within, Caught, OnFile

LEMMA NextPlace ==
  ASSUME LogInv, PlaceInv, [Next]_vars
  PROVE  PlaceInv'
<1>1. CASE \E a \in Addrs : Log(a)
  BY <1>1, LogPlace
<1>2. CASE Rename
  <2>1. UNCHANGED <<pc, pos, fd, log, cut, early>>
    BY <1>2 DEF Rename, readvars
  <2>2. notes' \in {notes, notes \cup {"RENAME"}}
    BY <1>2 DEF Rename, Note
  <2>3. QED
    BY <2>1, <2>2 DEF PlaceInv, Within, Caught, OnFile
<1>3. CASE Create \/ Tick \/ Alarm \/ Watch \/ UNCHANGED vars
  <2>1. UNCHANGED <<pc, pos, fd, log, notes, cut, early>>
    <3>1. CASE Create \/ Tick
      BY <3>1 DEF Create, Tick, readvars, logvars, past
    <3>2. CASE Alarm \/ Watch
      BY <3>2 DEF Alarm, Watch, readvars, logvars, past
    <3>3. CASE UNCHANGED vars
      BY <3>3 DEF vars, readvars, logvars, past
    <3>4. QED
      BY <1>3, <3>1, <3>2, <3>3
  <2>2. QED
    BY <2>1 DEF PlaceInv, Within, Caught, OnFile
<1>4. CASE Open
  BY <1>4 DEF Open, Goto, PlaceInv, Within, Caught, OnFile
<1>5. CASE Seek
  <2>1. pos' = Len(log[fd]) /\ fd' = fd /\ log' = log
    BY <1>5 DEF Seek, End, logvars
  <2>2. log[fd] \in Seq(Piece)
    BY <1>5 DEF Seek, LogInv, LogTypes, HasFile
  <2>3. QED
    BY <2>1, <2>2 DEF PlaceInv, Within, Caught
<1>6. CASE Event
  <2>1. UNCHANGED <<log, fd, pos, early, cut>> /\ pc = "kevent"
    BY <1>6 DEF Event, logvars, past
  <2>2. pc' = Answer
    BY <1>6 DEF Event, Goto
  <2>3. CASE pc' = "read"
    <3>1. "TRUNCATE" \notin notes
      BY <2>2, <2>3 DEF Answer
    <3>2. QED
      BY <2>1, <2>3, <3>1 DEF PlaceInv, Within, Caught, OnFile
  <2>4. CASE pc' \in {"open", "seek"}
    BY <2>4 DEF PlaceInv, Within, Caught, OnFile
  <2>5. QED
    BY <2>2, <2>3, <2>4 DEF Answer
<1>7. QED
  BY <1>1, <1>2, <1>3, <1>4, <1>5, <1>6, TruncatePlace, ReadPlace, ParsePlace DEF Next, Step

\* However lines, renames and truncations fall together, the program asleep without
\* an event has read its file to the end and is not beyond it, but for a read that
\* filled the buffer and a file that changed before it was watched.
THEOREM ReadsOn == FairSpec => []ReadUpToDate
<1>1. LogInv /\ PlaceInv /\ [Next]_vars => PlaceInv'
  BY NextPlace
<1>2. PlaceInv => ReadUpToDate
  BY DEF PlaceInv, Caught, OnFile, ReadUpToDate
<1>3. QED
  BY <1>1, <1>2, InitPlace, Kept, PTL DEF FairSpec
===============================================================================
