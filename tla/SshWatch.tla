-------------------------------- MODULE SshWatch -------------------------------
(***************************************************************************)
(* sshwatchd (sshwatchd/sshwatchd.c): it follows the log of sshd with      *)
(* kevent(), counts failed logins of an address, and puts an address that  *)
(* fails too often into a table of pf.  An alarm forgets old failures; it  *)
(* comes between any two steps of the program.                             *)
(*                                                                         *)
(* A line of the log is two pieces, written at once; a read may end        *)
(* between them.  Only lines of failed logins are modelled, and the log    *)
(* has no lines longer than the buffer.                                    *)
(***************************************************************************)
EXTENDS Integers, Sequences, FiniteSets

CONSTANTS Addrs,            \* addresses, numbers as the tree compares them
          Cap,              \* BUFFER_SIZE - 1, in pieces
          maxfails,         \* -m
          seconds,          \* -s
          RETRY_COUNT,
          MaxLines,         \* bound: lines
          MaxTime,          \* bound: half seconds
          MaxRotations      \* bound: renames and truncations of the log

ASSUME WatchAssumption ==
    /\ Addrs \subseteq Nat /\ IsFiniteSet(Addrs) /\ Addrs # {}
    /\ Cap \in Nat \ {0, 1} /\ maxfails \in Nat \ {0, 1} /\ seconds \in Nat \ {0}
    /\ RETRY_COUNT \in Nat \ {0}
    /\ MaxLines \in Nat /\ MaxTime \in Nat /\ MaxRotations \in Nat

VARIABLES
    debug,              \* -d: no daemon()
    log, writer,        \* the log: pieces in each file, and the file syslogd writes to
    named,              \* the file that has the name of the log, 0 if none
    fd, pos,            \* the file the program reads, and how far
    notes, watched,     \* events not taken yet, and whether the file is watched
    buf,                \* pieces read and not parsed
    pc, tries,          \* where the program is, and its attempts to open the log
    who, stamp,         \* address of the line it parses, f_time of its new entry
    critical,           \* parse() is in the tree
    fails,              \* the tree: [time, count] by address
    now, due,           \* half seconds, and when the alarm comes
    blocked, refused,   \* the table of pf; the addresses it refused when last asked
    counted, spent,     \* history: failures parsed; failures taken out of the tree
    dropped,            \* history: failures there was no memory for
    cut,                \* history: the last read filled the buffer
    early,              \* history: the file was written or truncated after the program
                        \* went to its end, and before it was watched
    missed,             \* history: the log was renamed before it was watched
    lines, turns        \* bounds

logvars == <<log, writer, named>>
readvars == <<fd, pos, watched, tries>>
entry == <<who, stamp, critical>>
table == <<blocked, refused>>
tally == <<counted, spent, dropped>>
treevars == <<entry, fails, table, tally>>
timevars == <<now, due>>
past == <<cut, early, missed>>
vars == <<debug, logvars, readvars, notes, buf, pc, treevars, timevars, past, lines, turns>>

Files == 1 .. MaxRotations + 1
Piece == [addr : Addrs, last : BOOLEAN]
Never == MaxTime + 1

\* The timer of setitimer() is set before daemon() forks, and a child has none.
FirstAlarm(d) == IF d THEN 2 * seconds + 1 ELSE Never

Init ==
    /\ debug \in BOOLEAN
    /\ log = [n \in Files |-> << >>] /\ writer = 1 /\ named = 1
    /\ fd = 0 /\ pos = 0 /\ watched = FALSE /\ notes = {}
    /\ buf = << >> /\ pc = "open" /\ tries = 0
    /\ who = (CHOOSE a \in Addrs : TRUE) /\ stamp = 0 /\ critical = 0
    /\ fails = << >>
    /\ now = 0 /\ due = FirstAlarm(debug)
    /\ blocked = {} /\ refused = {}
    /\ counted = [a \in Addrs |-> 0] /\ spent = [a \in Addrs |-> 0]
    /\ dropped = [a \in Addrs |-> 0]
    /\ cut = FALSE /\ early = FALSE /\ missed = FALSE
    /\ lines = 0 /\ turns = 0

\* What kevent() reports to a file that is watched.
Note(n, what) == notes' = IF watched /\ fd = n THEN notes \cup {what} ELSE notes

-------------------------------------------------------------------------------
(* syslogd, newsyslog and the clock                                        *)

\* The file changes after the program has gone to its end, and kevent() does not
\* know the file yet.
Unseen(n) == fd = n /\ ~ watched

Log(a) ==
    /\ lines < MaxLines /\ lines' = lines + 1
    /\ log' = [log EXCEPT ![writer] = @ \o <<[addr |-> a, last |-> FALSE],
                                             [addr |-> a, last |-> TRUE]>>]
    /\ Note(writer, "EXTEND")
    /\ early' = (early \/ Unseen(writer))
    /\ UNCHANGED <<debug, writer, named, readvars, buf, pc, treevars, timevars, cut, missed, turns>>

\* The log gets another name; syslogd goes on with it until it is told.
Rename ==
    /\ named # 0 /\ turns < MaxRotations /\ turns' = turns + 1
    /\ named' = 0 /\ Note(named, "RENAME")
    /\ missed' = (missed \/ Unseen(named))
    /\ UNCHANGED <<debug, log, writer, readvars, buf, pc, treevars, timevars, cut, early, lines>>

Create ==
    /\ named = 0 /\ named' = writer + 1 /\ writer' = writer + 1
    /\ UNCHANGED <<debug, log, readvars, notes, buf, pc, treevars, timevars, past, lines, turns>>

Truncate ==
    /\ named # 0 /\ turns < MaxRotations /\ turns' = turns + 1
    /\ log' = [log EXCEPT ![named] = << >>]
    /\ Note(named, "TRUNCATE")
    /\ early' = (early \/ Unseen(named))
    /\ UNCHANGED <<debug, writer, named, readvars, buf, pc, treevars, timevars, cut, missed, lines>>

Tick ==
    /\ now < MaxTime /\ now # due /\ now' = now + 1
    /\ UNCHANGED <<debug, logvars, readvars, notes, buf, pc, treevars, due, past, lines, turns>>

-------------------------------------------------------------------------------
(* sigalrm()                                                               *)

\* Mutant: a failure is old one second early.
MutantOld(f) == now \div 2 - f.time >= seconds

Old(f) == now \div 2 - f.time > seconds

Follows(as, a, b) == a < b /\ \A c \in as : ~ (a < c /\ c < b)

\* The addresses the loop forgets: behind one it forgets it steps over the next.
Swept ==
    LET as == DOMAIN fails IN
    {gone \in SUBSET as :
        \A a \in as : a \in gone <=> Old(fails[a]) /\ \A b \in gone : ~ Follows(as, b, a)}

InTree(a) == IF a \in DOMAIN fails THEN fails[a].count ELSE 0

\* RB_REMOVE() and free().
Forget(as) ==
    /\ fails' = [a \in DOMAIN fails \ as |-> fails[a]]
    /\ spent' = [a \in Addrs |-> spent[a] + IF a \in as THEN InTree(a) ELSE 0]

\* Mutant: the handler does not look at the mark.
MutantBusy == FALSE

\* The handler does nothing while parse() is in the tree.
Busy == critical # 0

Alarm ==
    /\ now = due /\ due' = now + 2 * seconds + 1
    /\ IF Busy THEN UNCHANGED <<fails, spent>>
       ELSE \E gone \in Swept : Forget(gone)
    /\ UNCHANGED <<debug, logvars, readvars, notes, buf, pc, entry, table, counted, dropped, now,
                   past, lines, turns>>

-------------------------------------------------------------------------------
(* The main loop                                                           *)

Goto(label) == pc' = label

\* An error other than ENOENT ends the program at once.
Open ==
    /\ pc = "open"
    /\ \/ named # 0 /\ fd' = named /\ tries' = 0 /\ Goto("seek")
       \/ named = 0 /\ tries + 1 < RETRY_COUNT /\ tries' = tries + 1 /\ UNCHANGED <<fd, pc>>
       \/ named = 0 /\ tries + 1 = RETRY_COUNT /\ Goto("exit") /\ UNCHANGED <<fd, tries>>
       \/ Goto("exit") /\ UNCHANGED <<fd, tries>>
    /\ watched' = FALSE /\ notes' = {}
    /\ UNCHANGED <<debug, logvars, pos, buf, treevars, timevars, past, lines, turns>>

\* Mutant: the file is read from its beginning.
MutantEnd == 0

End == Len(log[fd])

\* lseek() to the end; the rest of a line stays in the buffer.
Seek ==
    /\ pc = "seek" /\ pos' = End /\ Goto("kevent")
    /\ cut' = FALSE /\ early' = FALSE
    /\ UNCHANGED <<debug, logvars, fd, watched, tries, notes, buf, treevars, timevars, missed, lines,
                   turns>>

\* The first kevent() on a file adds it to the queue.
Watch ==
    /\ pc = "kevent" /\ ~ watched /\ watched' = TRUE
    /\ UNCHANGED <<debug, logvars, fd, pos, tries, notes, buf, pc, treevars, timevars, past, lines,
                   turns>>

\* Mutant: new lines come before everything else.
MutantAnswer == IF "EXTEND" \in notes THEN "read"
                ELSE IF "RENAME" \in notes THEN "open" ELSE "seek"

Answer == IF "RENAME" \in notes THEN "open"
          ELSE IF "TRUNCATE" \in notes THEN "seek" ELSE "read"

Event ==
    /\ pc = "kevent" /\ watched /\ notes # {}
    /\ notes' = {} /\ Goto(Answer)
    /\ watched' = ("RENAME" \notin notes)
    /\ UNCHANGED <<debug, logvars, fd, pos, tries, buf, treevars, timevars, past, lines, turns>>

\* Where the first line of the buffer ends, if it does.
FirstEnd(b) == {i \in DOMAIN b : b[i].last /\ \A j \in 1 .. i - 1 : ~ b[j].last}

\* A read fills the buffer at most; without the end of a line in a full buffer its
\* pieces are thrown away.
Behind == IF pos <= Len(log[fd]) THEN Len(log[fd]) - pos ELSE 0
Room == Cap - Len(buf)

Read ==
    /\ pc = "read"
    /\ LET n == IF Behind <= Room THEN Behind ELSE Room
           got == buf \o SubSeq(log[fd], pos + 1, pos + n)
       IN  /\ pos' = pos + n
           /\ buf' = IF FirstEnd(got) = {} /\ Len(got) = Cap THEN << >> ELSE got
           /\ Goto(IF FirstEnd(got) = {} THEN "kevent" ELSE "parse")
           /\ cut' = (Len(got) = Cap)
    /\ UNCHANGED <<debug, logvars, fd, watched, tries, notes, treevars, timevars, early, missed,
                   lines, turns>>

-------------------------------------------------------------------------------
(* parse(), for the lines of the buffer one after another                  *)

\* A line that was joined from pieces of several has the address of one of them, or
\* none that is understood.
Whole(line) == Len(line) = 2 /\ line[1].addr = line[2].addr
Parse ==
    /\ pc = "parse"
    /\ \/ FirstEnd(buf) = {} /\ Goto("kevent") /\ UNCHANGED <<buf, who, counted>>
       \/ \E n \in FirstEnd(buf) :
             /\ buf' = SubSeq(buf, n + 1, Len(buf))
             /\ \/ /\ \E i \in 1 .. n : who' = buf[i].addr
                   /\ Goto("malloc")
                   /\ counted' = [counted EXCEPT ![who'] = @ + 1]
                \/ ~ Whole(SubSeq(buf, 1, n)) /\ UNCHANGED <<pc, who, counted>>
    /\ UNCHANGED <<debug, logvars, readvars, notes, stamp, critical, fails, table, spent, dropped,
                   timevars, past, lines, turns>>

\* Every step of parse() behind its malloc().
InParse == UNCHANGED <<debug, logvars, readvars, notes, buf, who, counted, timevars, past, lines,
                       turns>>

\* Without memory the failure is forgotten; otherwise it has the time of now.
Malloc ==
    /\ pc = "malloc" /\ InParse
    /\ \/ stamp' = now \div 2 /\ Goto("enter") /\ UNCHANGED dropped
       \/ dropped' = [dropped EXCEPT ![who] = @ + 1] /\ Goto("parse") /\ UNCHANGED stamp
    /\ UNCHANGED <<critical, fails, table, spent>>

Enter ==
    /\ pc = "enter" /\ Goto("insert") /\ InParse
    /\ critical' = critical + 1
    /\ UNCHANGED <<stamp, fails, table, spent, dropped>>

\* RB_INSERT() goes down the tree, to the entry of the address or to the place for it.
Insert ==
    /\ pc = "insert" /\ Goto(IF who \in DOMAIN fails THEN "count" ELSE "link") /\ InParse
    /\ UNCHANGED <<stamp, critical, fails, table, spent, dropped>>

Link ==
    /\ pc = "link" /\ Goto("leave") /\ InParse
    /\ fails' = [a \in DOMAIN fails \cup {who} |->
                    IF a = who THEN [time |-> stamp, count |-> 1] ELSE fails[a]]
    /\ UNCHANGED <<stamp, critical, table, spent, dropped>>

\* Mutant: an address is blocked one failure late.
MutantEnough(n) == n > maxfails

Enough(n) == n = maxfails

Count ==
    /\ pc = "count" /\ Goto(IF Enough(InTree(who) + 1) THEN "block" ELSE "leave") /\ InParse
    /\ fails' = [a \in DOMAIN fails |->
                    IF a = who THEN [fails[a] EXCEPT !.count = @ + 1] ELSE fails[a]]
    /\ UNCHANGED <<stamp, critical, table, spent, dropped>>

\* block() is DIOCRADDADDRS, which may fail.
Block ==
    /\ pc = "block" /\ Goto("remove") /\ InParse
    /\ \/ blocked' = blocked \cup {who} /\ refused' = refused \ {who}
       \/ refused' = refused \cup {who} /\ UNCHANGED blocked
    /\ UNCHANGED <<stamp, critical, fails, spent, dropped>>

\* The entry goes, whatever pf has said.
Remove ==
    /\ pc = "remove" /\ Goto("leave") /\ InParse
    /\ Forget({who})
    /\ UNCHANGED <<stamp, critical, table, dropped>>

Leave ==
    /\ pc = "leave" /\ Goto("parse") /\ InParse
    /\ critical' = critical - 1
    /\ UNCHANGED <<stamp, fails, table, spent, dropped>>

-------------------------------------------------------------------------------
ParseStep == Parse \/ Malloc \/ Enter \/ Insert \/ Link \/ Count \/ Block \/ Remove \/ Leave

Step == Open \/ Seek \/ Watch \/ Event \/ Read \/ ParseStep

Next == \/ \E a \in Addrs : Log(a)
        \/ Rename \/ Create \/ Truncate \/ Tick \/ Alarm \/ Step

\* The program is scheduled, and newsyslog makes the new log.
FairSpec == Init /\ [][Next]_vars /\ WF_vars(Step) /\ WF_vars(Create)

-------------------------------------------------------------------------------
WatchTypeOK ==
    /\ debug \in BOOLEAN
    /\ log \in [Files -> Seq(Piece)] /\ writer \in Files /\ named \in Files \cup {0}
    /\ fd \in Files \cup {0} /\ pos \in Nat /\ watched \in BOOLEAN
    /\ notes \subseteq {"EXTEND", "RENAME", "TRUNCATE"}
    /\ buf \in Seq(Piece) /\ Len(buf) <= Cap
    /\ pc \in {"open", "seek", "kevent", "read", "parse", "malloc", "enter", "insert", "link",
               "count", "block", "remove", "leave", "exit"}
    /\ tries \in 0 .. RETRY_COUNT /\ who \in Addrs /\ stamp \in Nat /\ critical \in {0, 1}
    /\ DOMAIN fails \subseteq Addrs
    /\ \A a \in DOMAIN fails : fails[a] \in [time : Nat, count : 1 .. maxfails]
    /\ blocked \subseteq Addrs /\ refused \subseteq Addrs

\* Every failure that was parsed is counted once: it is on its way to the tree, in
\* the counter of its address, has left the tree with it, or found no memory -
\* wherever the alarm comes between the steps of parse() (sshwatchd.c:164-181).
OnItsWay(a) ==
    IF pc \in {"malloc", "enter", "insert", "link", "count"} /\ who = a THEN 1 ELSE 0
Tallied ==
    \A a \in Addrs : counted[a] = spent[a] + dropped[a] + InTree(a) + OnItsWay(a)

\* An entry leaves the tree when its first failure is more than -s seconds old, or
\* when it has reached -m and pf has blocked the address or refused to; until then
\* it keeps the time of its first failure, and counts upwards by one.
KeepOrForget ==
    \A a \in DOMAIN fails :
        IF a \in DOMAIN fails'
        THEN fails'[a].time = fails[a].time /\ fails'[a].count - fails[a].count \in {0, 1}
        ELSE \/ now \div 2 - fails[a].time > seconds
             \/ fails[a].count = maxfails /\ a \in blocked \cup refused
Forgotten == [][KeepOrForget]_fails

\* parse() holds a place in the tree, or an entry of it, between going down the tree
\* and its last use of what it found (sshwatchd.c:169-176); the alarm, which frees
\* entries, changes nothing meanwhile.
Holds == pc \in {"link", "count", "block", "remove"}
OnlyParse == Holds /\ fails' # fails => pc' # pc
TreeWhole == [][OnlyParse]_fails

\* Asleep without an event to come, the program is at the end of its file: it is
\* neither behind lines nor, after a truncation, beyond the end, where it would read
\* nothing more.  Excepted are what a read that filled the buffer has left, and a
\* file that changed between lseek() and the first kevent() (sshwatchd.c:341, 347).
ReadUpToDate ==
    pc = "kevent" /\ watched /\ notes = {} /\ ~ cut /\ ~ early => pos = Len(log[fd])

\* When the log has been renamed the program gets to the new one or gives up, unless
\* that happened between open() and the first kevent() on the file.
Reopens == (fd # named /\ ~ missed) ~> (fd = named \/ pc = "exit" \/ missed)
===============================================================================
