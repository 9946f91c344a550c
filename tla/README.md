# Formal models of rubsd

The repository collects the programs of one network operator: a billing system
(`src/src/bee`), a kernel module that counts traffic (`src/src/ipflow`), daemons,
drivers, ports and fonts. This directory holds TLA+ models of the parts whose
correctness depends on several processes working on shared state, the TLC
configurations that check small instances, and TLAPS proofs of what matters most.

## 1. Inventory

| component | state | operations | interacts with | models |
|---|---|---|---|---|
| **bee account file** (`lib/db/acc.c`) | fixed-size records `acc_t`: number, tags, balance, temporary credit, resource count | `acc_baselock`, `acci_get`, `acci_put`, `acc_add`, `acc_get`, `acc_async_on/off` | `flock(2)` between processes | `BeeAccount`, `BeeSessions` |
| **bee log** (`lib/db/log.c`, `db.c`) | appended `logrec_t` records | `log_add` (lock, count, write, unlock), `log_async_on/off` | accounts: a record per transaction | `BeeSessions` |
| **bee core** (`core/core.c`, `core/command.c`) | one process per client, its own handles, locals and asynchronous flags | transactions, two-way transactions, daily charge, edits, `lock`/`unlock`, pay cards | all files, the SQL server | `BeeSessions`, `BeeAudit` |
| **bee gates** (`lib/db/links.c`) | gate file and each session's copy `linktab[]` | load, save, new, delete, look up | `flock` on the gate file | `BeeGates`, `BeeAccess` |
| **bee permissions** (`access_update()`, `core.c:552`) | `allowed.*` and `disallowed.*`, update lock | rewrite all, apply | accounts, gates, scripts, packet filter | `BeeAccess` |
| **bee traffic** (`modules/traff/beetraff.c`) | list of sums | parse lines, filter, sum, send | cnupmstat, core | `BeeTraff` |
| bee tariffs (`core/res.c`) | tariff tables | price of traffic, daily price, limits | called inside a transaction | - |
| bee SQL (`lib/db2`, `lib/sql`, `core/queries.c`) | in the SQL server | stored procedures | card commands | one step of `BeeSessions` |
| **ipflow table** (`ipflow_collect.c`, `ipflow_dev.c`) | array of flows, search tree, counters | insert, get and reset, set, resize, read, write, poll | interrupts, user processes | `FlowTable` |
| **ipflow interfaces** (`ipflow_proc.c`) | list of descriptors, a kernel process each, a master process | add, delete, reset, set filter, list, load, unload | sleep and wakeup, signals | `FlowIface` |
| **ipflow program** (`bin/ipflow/ipflow.c`) | - | sequences of system calls | the device | `FlowTable`, `FlowIface` |
| **cnupm** (`cnupm.c`, `collect.c`), `cnupmstat`, `bee-cnupmdump.sh` | array and tree of flows, flags set by signals, dump file | count, dump, fork; print; HUP, read, remove | packets, signals, cron | `Cnupm`, `CnupmDump` |
| **sshwatchd** | tree of failed logins, line buffer | follow the log, count, block, forget | system log, alarm, packet filter | `SshWatch` |
| ipstatd, ircyka, bcrelayd, tunneld, if_acct, hideproc, drivers, ports, fonts | see `PROJECT.json` and section 5 | | | - |

What is hard here: sessions of the billing core interleave at every file
operation, and the only discipline is `flock(2)` used by hand on four files with
early returns in between; a session may die or a write may fail between the
account and its log record; one command (`lock`) turns all locking off; a session
works on a copy of the gates as old as its connection; an update gives up on its
lock after three seconds, and gives the lock back before its work is applied.
The kernel table is copied to user memory that may have to be paged in, and all
who wait for an interface sleep on one address. cnupm writes its dump while
signals arrive, children write theirs and a cron job reads and removes the file.
sshwatchd changes a tree its alarm walks, and follows a file that is renamed.

What makes each part correct:

* accounts and log: no update is lost; the log explains every balance; the log
  never loses a record; a freeze, a deletion, the unlimited mode and the `lock`
  command mean what the manuals say; every command is answered;
* gates: an address and a number belong to one gate, no gate is lost by two writers;
* permissions: the files agree with the accounts, the firewall with the files;
* traffic: an account is charged its own traffic, once and in the right direction;
* ipflow table: every counted packet is in the table, delivered or dropped, but for
  what comes while a read with a reset is copying;
* ipflow interfaces: no descriptor is used after it is freed, or lost, and every call
  returns;
* cnupm: every packet is in a table, in a dump, printed, or lost in a known way;
* sshwatchd: every failed login is counted once; the log is followed.

`PROJECT.json` lists all components, with those left out, and the hazards with
their source lines.

## 2. Modules

    BeeAccount          the record, acci_get(), arithmetic of a transaction
      BeeSessions       processes, locks, files: one action per call into lib/db
        BeeAudit        the properties
          MCBee         instances for TLC
          BeeSessions_proofs   types, what the locks give, the log and the
                               balances, refinement of BeeLedger
      BeeAccess         gate commands and updates; with BeeGates
        MCAccess
        BeeAccess_proofs       gates kept and apart, permissions, firewall
    BeeGates            the table of gates and its operations
    BeeLedger           abstract: balances and a book, one posting at a time

    BeeTraff            beetraff
      MCTraff
      BeeTraff_proofs   types, every account charged its traffic, the end

    FlowTable           the ipflow table, its device, and the ipflow program
      MCFlow
      FlowTable_proofs  types, shape of the table, pollers, conservation of
                        packets, refinement of FlowMeter
    FlowMeter           abstract: a meter that is read and reset as a whole
    FlowIface           the interface processes, their callers, the module
      MCFlowIface
      FlowIface_proofs  types, life of a descriptor, unloading

    Cnupm               the collector, its children, its dump
      CnupmDump         with the cron job and cnupmstat
        MCCnupm
        Cnupm_proofs    types, slots of the table, every packet, the cron job
    SshWatch            sshwatchd
      MCWatch
      SshWatch_proofs   types, tally, tree, reading

    SumLemmas           sums over a finite set, for the proofs

### BeeAccount
`acc_t` is a record of the fields a transaction or an edit reads or writes.
Money is in hundredths, so `balance < 0.01` is `bal < 1`. `acci_get` keeps the
order of the code's tests, and `Loaded` the mark it leaves in the caller's copy
of a record with a wrong number. `Applies` and `Writable` are the two conditions
of `acc_transaction()` (`core.c:721` and `core.c:736`), which differ.

### BeeSessions
| TLA+ | code |
|---|---|
| `accs`, `log` | the two files; `Len` is the record count |
| `accEx`, `logEx` | holder of `LOCK_EX` |
| `accAsync[s]`, `logAsync[s]` | `fasync` of the handle |
| `pc[s]` | the next call the handler makes into `lib/db` |
| `cmd[s]`, `buf[s]`, `rc[s]`, `pos[s]`, `pend[s]` | arguments, `acc_t`, return code, record count taken in `db_add()`, log records built and not yet written |
| `cards` | cards the SQL server still accepts |
| `ops`, `faults` | counters of the bounds `MaxOps`, `MaxFaults` |
| `adj`, `doubt` | history: corrections by `_fix`, which is not logged; accounts a fault hit |

`Start` is `cmd_exec()` up to the first file operation. `Lock`, `Get*`, `*Put`,
`Unlock`, `Log*`, `Add*`, `Async*` are the operations after it, each one step,
with the early returns as they are in the code: `GetCharge` does not unlock an
account it does not charge (`core.c:839,842`), `UnlocksAtGet` and `Refuses` are
different conditions because the code unlocks on paths on which it goes on to
write (`command.c:809-817`, `2683-2691`), `TransLog` and `GetTrans` log accounts
that could not be posted, and `FreeLog` inside `acc_bitrans()` gives the log away
after the first of two records. `Crash` kills a process inside a command: the
kernel drops its locks and nothing else is undone; `NoCommand` is what is left of
its command. An I/O error is a put that
did not reach the file, a put that did with an error from `fsync()`, or a log
write that failed.

A record that does not exist leaves the handler's `acc_t` unset, which `ReadInto`
models as a choice over the records the stack could still hold.

Left out: the PAYMAN fields, dates, checksums, monthly counters, time stamps;
commands that only read; faults in `acc_add()`. Traffic prices are the sums the
commands carry.

### BeeLedger and the refinement
`BeeLedger` has balances and a book; a step opens an account or posts one sum to
one account and one line to the book at once. `LedgerRefined` maps the account
file and the log, with the record its writer has prepared, to it. It holds where
only `acc_transaction()` posts; `acc_bitrans()` logs after it has unlocked, and is
covered by `LedgerBalanced` instead, which does not depend on order: a balance is the
initial one, `adj`, and the sums of the records about the account in the log and in
the sessions' hands. The sums are over the indices of a sequence, which the
community modules' `SumFunction` adds up in any order.

### BeeGates and BeeAccess
`BeeGates` is the table: blocks and names, `Matches` and `Intersects` as the code
compares them (a block of zero bits matches nothing, but a new one is compared),
`make_addrandmask` with the length in a signed char, `reslinks_load` with the
gates it disables, `reslink_new`, `reslink_del`. Addresses have `Width` bits.

| TLA+ (`BeeAccess`) | code |
|---|---|
| `accs`, `gates`, `grant`, `deny` | account file, gate file, `allowed.*`, `disallowed.*` |
| `accEx`, `gateEx`, `updEx` | holders of the three locks |
| `tab[s]` | `linktab[]` of a session |
| `pc[s]`, `add[s]`, `del[s]` | where a command is, and the gates it adds or deletes |
| `upd[s]` | the loop of `access_update()`: account, count, what stdio keeps |
| `active`, `got[s]` | the table of the packet filter; the list as an apply script read it |
| `pub`, `owed`, `due`, `covers[s]`, `wiped`, `raced` | history: the table last published; accounts changed since; gates there were when that update was ordered; what an update under way has to publish; files left empty by a death; an update that overlapped a script |

Changes of accounts are one step here (`Change`); `BeeSessions` has their steps.
`UpdOpen` takes the lock and opens all files, `UpdRead` is one account, `UpdClose`
is `fclose()`, when stdio's buffers reach the files; `UpdTimeout` is the end of
three seconds of polling. A command names its account by number or by the name of a
gate; the other forms of `cmd_getaccno()` (a resource, `addr`, `*`;
`command.c:585-686`) are left out, and so are `new_name`, the rulers (those in the
repository write no state), an error of `reslinks_save()`.

### BeeTraff
`text` is what cnupmstat prints, `stat` the list of sums, `charged` what `bires`
added in the core. `ParseLine` is one line with its filters, including what
`inet_pton()` leaves in the variables for an address it does not know; `Send` is
one item and its outcomes: charged, refused, link down before or after the
charge. Sums have 32 bits (`UInt`). `failed` is history: what was refused, or in
the list when the program ended, by account (`Owed` adds up a list). `detail` is
how items are told apart: by address, by gate (`-d`), by account (`-D`), or by
account with the address of its first line (`-D -d`). Left out: `-L`, the SQL file, and
numbers of bytes that `strtoul()` cuts off at its largest value.

### FlowTable
| TLA+ | code |
|---|---|
| `entries`, `maxflows`, `nflows`, `dropped` | `ipflow_entries` and `ipflow_info` |
| `Slots(k)` | what the search tree finds: it orders flows by source and destination only (`ipflow.h:147`) |
| `array` | which allocation `ipflow_entries` points to; `ipflow_realloc()` moves it |
| `pc[c]` | the next system call of a process of the ipflow program, or the copy inside one it sleeps in |
| `room[c]`, `n[c]`, `from[c]`, `got[c]`, `todo[c]`, `off[c]` | `irq_nflows`, the loop counter, the array of the slot being copied, the buffer, the offset in the dump file |
| `file` | the dump file of `save` and `load` |
| `counted`, `taken`, `lost` | history: packets offered, delivered or discarded by a reset, and refused by a full table |
| `whole`, `since`, `slipped`, `calm` | history: reads with a reset that nobody has disturbed, and the table as they found it; packets that came while such a read was copying; whether all reads so far were of this kind |

Packets are counted by kernel processes (`ipflow_proc.c`), and a kernel process
is not preempted, so a system call is one step up to the point where it sleeps.
It can sleep only in `copyout()`, `uiomove()` and `copyin()`, when user memory has
to be paged in: a copy is one step per flow, with anything in between. `Faulty`
lets a copy end with `EFAULT`, after which the table is left as the code
leaves it. A copy that wakes in an array which has been freed meanwhile
reads `Garbage`, a pair no packet has. `save` writes at the start of the dump file, or
with `-a` at its end, so that two saves may write over one another.

A flow is a pair and its packets. Octets and time stamps are updated together
with the packets, under the same mutex, and are left out. So are kqueue,
`IIOCGINFO`, the reading of the number of flows alone, the packet parsers, and
running out of kernel memory in `ipflow_realloc()`, which changes nothing.

`FlowMeter` is what a user of the device can rely on: packets are counted one pair at
a time, and a reset takes everything counted. A read with a reset has a beginning
and an end (`Begin`, `End`, or `Fail`): it takes all that was there when it began, and any
part of what came since, of which the rest is lost. That is promised unless
another reset or another array meets it on the way (`TakeAll`, `End` of another,
`NewArray`), after which it may have read anything. `MeterRefined` maps the table to it;
it says that neither a load, a failed copy nor a resize takes or adds packets by
the way, and bounds what a sleeping copy costs. `Conserved` says the same of the
sums, as long as `calm`.

### FlowIface
| TLA+ | code |
|---|---|
| `used`, `list` | descriptors `malloc()` has given out; `ipflow_if_list` |
| `name[d]`, `err[d]`, `th[d]`, `sig[d]` | `ii_name`, `ii_error`, the process of the descriptor (none, started, reading, asleep after an error) and its pending signals |
| `pc[p]`, `on[p]` | where a caller or the master is, and the descriptor whose address it sleeps on or holds |
| `loaded`, `pc[Master]` | the module and its master process |
| `served[c]`, `shot` | history: the reset a caller waits for was done; processes a user has stopped |
| `settled` | history: no calls have met in a way the code has no defence against |

`Wake(d)` is `wakeup()` on a descriptor: it wakes all who sleep there, whatever they
wait for. `Signals` is the loop over `CURSIG()` after each read. The copies of
`IIOCSETF` and of the list are steps of their own, since they may sleep.

Every call may come at any time. Where one call frees or fails a descriptor that
another is using, the code has no defence; `Meets` names these cases, and `settled`
is false from then on: a descriptor that is deleted, reset, stopped or fails to read
before the caller that adds it has read `ii_error`; one that is deleted twice, or
while a copy with it sleeps; a copy that begins on one that is being deleted, or a
list on one whose process a user has stopped; and a module unloaded while an
interface is added, either one first. Each case is needed: leave it out, and TLC
finds a property broken. All other meetings are harmless, and covered: additions of
one name that overlap, commands of every kind while an interface of the same name
is added, filters and lists during an addition, resets during a deletion, and
commands, copies and signals while the module is unloaded.

### Cnupm and CnupmDump
| TLA+ | code |
|---|---|
| `tab[p]` | `ct_entries`, the tree and `ct_entries_count` of the collector or a child; the entries in the tree by their slots |
| `need`, `terminate`, `lost` | `collect_need_dump`, `cnupm_terminate`, `collect_lost_packets` |
| `disk`, `file`, `fd[p]` | what was written, the file the name stands for, the file a process writes |
| `pc[p]` | the main loop and `collect_dump()` |
| `seen`, `gone` | history: packets counted or lost; packets of processes that ended |
| `job`, `at`, `left` | the cron job; the position of cnupmstat and the records it still expects |
| `printed`, `got`, `ready` | history of what was printed and read |

A packet is first written to the slot behind the last counted one and then
looked up, as `collect()` does, so `Store` has to say what happens when that slot
is in the tree. Nothing in a dump tells a header from a record; once cnupmstat takes
one for the other it prints rubbish up to the end of the file, which the model
counts as not read. A packet has one byte. `Faults` names the calls that may fail.
Left out: the capture, `-d`, the display filters, and a `write()` that writes a part of a
record without an error (`collect.c:292`).

### SshWatch
| TLA+ | code |
|---|---|
| `log`, `writer`, `named` | the files, the one syslogd writes, the one with the log's name |
| `fd`, `pos`, `buf` | the open file, its offset, the buffer |
| `notes`, `watched` | events of kqueue not taken yet; whether the file was added |
| `fails`, `blocked`, `refused` | the tree, the table of pf, addresses `DIOCRADDADDRS` refused |
| `who`, `stamp`, `critical` | the line being parsed, `f_time` of its entry, the flag that keeps the alarm out |
| `now`, `due` | half seconds, the next alarm |
| `counted`, `spent`, `dropped` | history: failures parsed, taken out of the tree, dropped for want of memory |
| `cut`, `early`, `missed` | history: the last read filled the buffer; the file changed, or was renamed, before it was watched |

A line is two pieces, so that a read can end inside one; a line joined from pieces
of several has the address of any of them, or none that is understood. `parse()` is
a step for each thing the alarm may come between: `malloc()` (which may fail: the
failure is dropped), setting `critical`, going down the tree, the new entry or the
counter, `block()` (which may fail: the entry goes all the same), removal, clearing
`critical`. `Swept` is the set of outcomes of the alarm's loop, which steps over the
entry behind one it removes. Left out: errors of `kevent()`, `lseek()` and `read()`; `-m 1`,
which needs no tree; and `malloc()` interrupted by the `free()` of the handler.

## 3. Runs
| run | result | what it shows |
|---|---|---|
| `bee_ledger` | holds | credits with a limit or by a part, traffic, the daily charge, a pay card, freezes, corrections, temporary credit, new accounts, `lock`: types, no lost update, new numbers distinct, refinement of BeeLedger, freezes hold, `lock` excludes |
| `bee_audit` | holds | two-way traffic on an account in resource mode whose records are logged when they are zero, the unlimited mode, a correction of an account with a wrong number, new accounts, with one crash or I/O error anywhere: the log explains the balances, it only grows, traffic takes nothing from an unlimited account that is not off, locks are taken in order, and every command is answered |
| `bee_charge_starves` | violated | `docharge` ends with the account file locked |
| `bee_unlimit_off` | violated | an account that is unlimited and off pays for its traffic |
| `bee_access` | holds | two sessions add and delete gates (blocks inside, next to and around another, one with a length that wraps), create clients, change accounts, lock the file and update, with one death anywhere |
| `bee_stale_gates` | violated | an update publishes the gates of its session's last load |
| `traff` | holds | three lines of every kind of inet traffic, sums by address, gate or account, a link that fails anywhere |
| `flow_table` | holds | every command of the ipflow program by two processes, with copies that sleep and fail: no packet disappears but what came during a copy with a reset, one flow per pair, no process asleep in `poll()` before a table with flows, the table is a FlowMeter |
| `flow_iface` | holds | two processes add, delete, reset, filter, list and unload at any time, with read errors and signals, until calls meet in a way `Meets` names |
| `flow_overlap` | violated | two additions of one interface that overlap start two processes for it |
| `cnupm` | holds | the collector with and without `-k`, one signal or failed call anywhere (but for the writing of a record), a table that is full, and a cron job |
| `sshwatch` | holds | lines, a rename or truncation, `malloc()`, `open()` and pf that fail, and the alarm at any time |

Each violated run checks what the manuals or the code's comments say; the
quotations are in `PROJECT.json` under `findings`.

**Bounds.** *bee*: each hazard is a race of two processes over one or two files, so
there are two sessions; two commands per session (three in all in `bee_access`) let
a session be hurt by what its own first command left behind, and in `bee_access` let
an update meet a gate command or a second update and be followed by another.
Addresses have two bits: there are blocks of 4, 2 and 1 addresses. *traff*: three
lines make two items of one account and a third that joins or exceeds them; `UInt` =
3 makes the sums wrap. *flow_table*: the table has 1 to 3 slots and starts with 2,
so that it is full, resized both ways and refused a size, with three pairs; four
packets fill a table twice or add to a flow that is being copied; two processes and
three command lines give every race of two calls and a third call to see its result.
*flow_iface*: two descriptors, so that one is allocated again; three commands and
two events. Its `CONSTRAINT` stops TLC at states that are not `settled`: every
property of the run is true there by what it says, and `settled` never becomes true
again, so that neither a state nor a behaviour that could break one is left out.
*cnupm*: a table of two entries with three packets is full and overflows; two
children; two dump files, so that one is written after another was removed; one
event. *sshwatch*: a buffer of three pieces is filled by two lines with an end in
the middle; two failures block; the alarm comes at most twice, at 3 and 6 half
seconds, with failures that are old and that are not; one rotation. Runs whose
bounds can be used up do not check for deadlock.

**Fairness.** *bee*: a process that can run is run (weak fairness of its steps), and
a process waiting in `flock()` gets the lock at last if it is free again and again
(strong fairness of the waiting steps `Lock*`, `GateLock`, `UpdRead`), as the kernel
queues waiters. `bee_audit` leaves out `docharge`, which `bee_charge_starves` shows
to keep the others waiting, and the `lock` command, which keeps them waiting on
purpose. Nothing is assumed of clients, but that in `bee_access` one that has locked
the account file unlocks it; crashes are not fair. The three-second timeout needs no
clock: it may come whenever the lock is taken. *FlowIface*: kernel processes and
callers that are not asleep run, and `bpfread()` returns at least every second
(`ThreadStep`). *Cnupm*: the collector and each child run, and `pcap_dispatch()`
returns (it has a timeout); cron need not start the job. *SshWatch*: the program
runs and newsyslog creates the log it has renamed. *BeeTraff*: the program runs and
the core answers, or the link ends.

### Disagreements seen and not among the runs
Each can be had by giving the named property to the named instance.

*bee*: a deleted account that is also frozen is edited by `unfreeze`, because the
tag word is compared with a flag (`command.c:809-817`; `UnreliableUntouched` with
such an account and `unfreeze`). `resadd` writes after it has unlocked if the
account is not in resource mode (`command.c:2683-2691`; `NoStaleWrite` with
`resadd`), and so does that edit of a deleted account, with traffic in between
(`LedgerBalanced` likewise). A card is used up and not credited when the account is
frozen between the check and the credit (`command.c:2627`; `CardCredited` with a
card and `freeze`). A credit to an UNLIMIT account is posted (`core.c:722`,
BILLING:204-209 forbids all transactions); `new <sum>` ignores its sum
(`command.c:1017-1020`, COMMANDS:114); edits answer success when `acci_put()` fails
(`rc <= 0`, `command.c:823`). Permissions: the update lock is given back before the
apply script (`core.c:651`, BILLING:348), so that an older list can be applied last
(`ActiveSettles` without `raced`); a death with the files open leaves them empty
(`wiped`); an update that times out says "Done."; `addgate` does not check that the
account exists; `cmdh_gate()` ignores an error of `reslinks_save()`; `NeedUpdate` is
set and never read; the apply scripts in the repository do nothing.

*beetraff*: when the link goes down, what was not sent is lost, since the dump has
been removed; the core looks the address up again, in a gate table that may be
newer. `inet_pton()` returns 0 for an inet6 address, and only a negative result skips
the line (`beetraff.c:283`, 298): it keeps the addresses of the line before, or any,
and its bytes are charged there (`UnknownSkipped`, with `V6 = {six}`).

*ipflow table*: packets that are counted while `IIOCGFLOWS` with a reset sleeps in a
copy are discarded (`Conserved` without `slipped`; `ipflow_dev.c:142`), and two such
reads that overlap deliver packets twice or not at all (without `calm`); `load -f`
resets the table with every buffer, so the last part of a long file only is kept
(`FileLoaded`, one caller, a file longer than the table; `ipflow.c:243`); the count
alone is returned when `irq_nflows` is 0, not `irq_flows` (`ipflow_dev.c:134`,
ipflow/README:246); `save` truncates the file before a read that can still fail
(`ipflow.c:261`); that failure leaves the interrupt level raised
(`ipflow_dev.c:139`).

*ipflow interfaces*, each with the properties of `flow_iface` without the clause of `Meets`
or `Note` about it: two `IIOCDELIF` of one interface free its descriptor twice; the
creator may read an `ii_error` that a later read has set, and free a descriptor that
is in use; a filter or a list asleep in a copy uses a descriptor that is freed; an
interface that is added while the module is unloaded outlives it. A user's TERM or
KILL leaves the descriptor allocated for good (`shot`); a module unloaded before
the master's first sleep waits for ever (`Stuck`). Between `IIOCADDIF` and `IIOCSETF` all
packets are counted, filtered or not.

*cnupm*: SIGTERM between the test of `collect_need_dump` and that of the loop ends
the program without the dump cnupm.8:170-172 promises (`SavedOnTerm`;
`cnupm.c:271,292`). When a record cannot be written, the entries left in the tree
are not the first slots any more, and later packets are written over them
(`SlotsFree` and `Accounted` with `"record"` in `Faults`); cnupmstat takes the header of
the next dump for a record of this one, and the job removes the file with records
that were not printed (`ReadToTheEnd`, likewise). With `-k` two children may
write to one dump at a time, and their records mix (cnupm/README:178). A dump that
comes more than two seconds after the signal, or while the job reads, is removed
unread. An empty table without `-e` leaves `need_dump` set.

*sshwatchd*: `setitimer()` is called before `daemon()`, and a child has no timer: as
a daemon it never forgets a failure. The alarm steps over the entry behind one it
removes. `malloc()` comes before `critical`, so that `free()` in the handler can
meet it. A read that fills the buffer leaves the rest until the next line comes; a
rename before the first `kevent()` on a file is never noticed (`missed`); after a
truncation in that place the program reads nothing until the file has grown beyond
the old end (`early`); an address that pf refuses is forgotten as if it were
blocked, and so is a failure `malloc()` has no memory for; a rename that is reported
with new lines loses them; the rest of a line stays in the buffer when the log is
truncated or opened again, and is joined to the next line.

## 4. Proofs
`BeeSessions_proofs`: `TypeCorrect`, `Spec => []TypeOK`, one lemma per action; on it,
what the locks give, in two layers:

1. `LockInv` - a process in asynchronous mode holds the file; a process counting
   or writing log records holds the log, and its count is the length of the log.
   It is inductive with the type invariant (`LocksHeld`), and gives `LocksOrdered`
   and `LogOnlyGrows` for every instance, crashes and I/O errors included. The
   count has to be in the invariant: that the lock is held says nothing unless
   the length read under it is still the length.
2. `FileInv` - a session between its read and its write holds the account file,
   and its record is what the file says (`FileKept`). This is false in the code as
   it is, because of the paths that unlock and write; it is proved under
   `ReliableFile`: the file has no deleted, broken or misnumbered account, and
   clients do not delete, break or count resources. From it follow `NoUpdateLost`,
   `FreezeHolds` and `LockExcludes`. The instance of `bee_ledger` satisfies it.

The second half of the module adds the money, still under `ReliableFile`. `MoneyInv`
says what the records in a session's hands are about: its own account, at most
two, and only on the way to the log; `OpenInv`, that sessions which have opened
accounts have opened different ones.

* `OpenedOnce` (`NewAccountsDistinct`): whoever has counted the accounts holds the
  file until it has written, and a session that has opened one does not forget
  its number.
* `LogExplainsBalances` (`LedgerBalanced`), with any crashes and I/O errors. Each step
  moves a balance by the sum of the records that it prepares (`BalanceInv`), or
  brings the account into `doubt`; a record on its way to the log leaves the sum as
  it is. Hypothesis `OneSwitch`: no account is ever both off and unlimited. It
  cannot be dropped: the code debits such an account and logs a sum of 0
  (section 3).
* `UnlimitedPaysNothing` (`UnlimitedNotCharged`): whatever a session has read, traffic or a
  charge that is about to write an account finds in its record that the account
  is not unlimited, or is off, because nobody can have set the mode since
  (`FileInv`); only a credit, a credit limit or a correction lowers the balance of an
  account that is unlimited and not off. It needs no `OneSwitch`. That the manual
  promises it of an account that is off, too, is refuted by `bee_unlimit_off`.
* `CoreIsLedger` (`LedgerRefined`), the refinement: a transaction's write is a posting,
  the write of its log record a stutter. `HolderInv` says that who has a record
  prepared holds the account file, so that there is one such record at most and
  the book has an order. Hypotheses `OneRecord` (no two-way transactions, which log
  after they have unlocked) and `NoFailure` (a crash between account and log is
  what BeeLedger does not have).

`bee_ledger` satisfies the hypotheses of `OpenedOnce`, `LogExplainsBalances` and
`CoreIsLedger`. `bee_audit` has what the theorems leave out in one place: an account with
a wrong number, which a correction repairs.

`BeeAccess_proofs`, for any sessions, accounts, gates and commands, deaths included;
only the second part looks at what is in a gate:

1. `GateInv` - who is about to save gates has the lock and the table as the file
   is; from it, with lemmas on prefixes and removal, `GatesKept`.
2. `ApartInv` - the gates of the file are apart, and those a session is about to add
   were compared with all that are in the file; from it `GatesStayApart`
   (`GatesDistinct`). The core compares prefixes of two blocks at the shorter length,
   the property speaks of single addresses: `Coarser` says that addresses with a
   common prefix have all shorter ones in common, which needs 2^(m+n) = 2^m * 2^n.
   Hypotheses: `SoundStart` (the first file has no such pair, and its address gates
   have blocks) and `AddressedCmds` (a command that adds an address gives a block;
   any integers, since `make_addrandmask` cuts them down).
3. `FireInv` - who writes the permission files holds the update lock; unless `raced`,
   one session at most is past it and the list it read is the list in the file.
   It gives `FirewallSettles`.
4. `PubInv` - the loop of `access_update()`: `Rights` relates a table of gates, the
   two files and the accounts that have access; halfway through the loop it
   holds of the accounts already read, for those that have not been changed
   since the update was ordered (`Sure`). Accounts may change under the loop,
   which is why the invariant speaks of three sets of accounts: read, sure, and
   with access. Closing the files turns it into `UpdatesPublish`.

`FlowTable_proofs`: `TableInv` is the type invariant, `TableSound`, and `CopyInv`: a
copy out that wakes in the array it went to sleep with has its slot inside, since a
reset only lowers `nflows`, and a resize that cuts the array moves it. It is
inductive for every instance, with copies that sleep or fail anywhere, and gives
`FlowTypeCorrect` and `FlowTableSound`. `PollersWoken` needs no more than that and the
fact that a table with no room has flows.

`MeterInv` adds what copies with a reset have in hand (`ReadInv`): one that nobody has
disturbed still reads the array in use, has copied its first slots, and has of each
pair no fewer packets than there were when it began and no more than there are now.
Packets only add to slots and append new ones meanwhile, and whatever else changes
the table ends the promise (`Disturb`), with no need to say what the read then gets.
From the invariant each step stands still, gives the meter a new array, takes all,
counts one flow, or begins, fails or ends a read (`MeterStep`), one lemma per action;
`PacketsConserved` and the refinement `TableIsMeter` both follow from `MeterStep`, without
a hypothesis. `FlowMeter` bounds nothing, so the refinement is for any number of
packets and calls.

`FlowIface_proofs`, with no hypothesis: `IfaceTypeCorrect` holds of every step; the
others rest on `settled => IfaceInv`, that is, on an invariant that holds until
calls meet. At its centre are the claims: a caller in `ipflow_if_create()` or
`ipflow_if_destroy()`, or the master, has a claim on a descriptor, and a descriptor
has one claim at most (`ClaimInv`); what a claimer finds when it wakes follows from
where its process is (`WaitInv`) - in particular who deletes has left `KILL` in the
signals, so that a `wakeup()` of the process is the one it waits for. `CopyInv`
keeps copies and resets away from claims that free, `StopInv` says who told a
process to stop, and `UnloadInv` that no interface is being added while the module
goes. The list holds running processes, each once (`ListInv`), though perhaps two of
one name. None of the four properties (`NoUseAfterFree`, `NoLeak`, `ResetDone`,
`CleanUnload`) is inductive alone: each needs to know what the other sleepers on the
channel wait for. The list is reasoned about by two lemmas, on inserting and on
removing an entry.

`Cnupm_proofs`: `TypeInv` gives `DumpTypes` for every instance. `SlotInv` - the number
counted is the number of entries in the tree, and they are the first slots,
except in a process that writes records. The cardinality is what makes the
invariant inductive: it says that the count is 0 when the last record has been
written; it gives `SlotsStayFree`. `EveryPacketAccounted` (`Accounted`) adds up the
tables of all processes and the unread parts of all dumps: each step moves
packets from one of these places to another, and a header has no packets of its
own (`BooksInv`). `DumpReadToTheEnd` needs to know that a dump is a header and as
many records as it announces, unless it is still being written (`WholeInv`), and
that without `-k` only the collector writes (`AloneInv`); `ready` is the length of the
dump when cnupmstat opened it, also if the collector was in the middle of
it. Hypothesis of these three: `"record"` is not in `Faults`. Without it they do
not hold (section 3).

`SshWatch_proofs`: `LogInv`, the files and the offset, gives with the types of the
tree `WatchTypeCorrect`. `TreeInv` says where the flag is set (`Marked`: from before
the way down the tree to behind the last use of what was found there), what a
counter may be (`Entries`), and that what `parse()` has found is still in the tree
or still missing there (`Found`); from it the alarm changes nothing in between
(`TreeNeverTorn`), and an entry goes only when it is old, or at the limit after
`block()` (`FailuresForgotten`). `Tally` gives `FailuresTallied`: failures move
between the line being parsed, the tree, what was taken out of it, and what there
was no memory for. `PlaceInv` - the offset is not past the end of the file, and at
it when no event waits - holds but after a read that filled the buffer (`cut`) or a
change before the file was watched (`early`), and gives `ReadsOn`.

Assumptions: the named ASSUMEs of the modules - sessions, flows, addresses and
processes are sets with the types their comments say, commands and records
have their types, sizes are in order, markers are not members of the sets they mark.

`BeeTraff_proofs`: `TraffTypes` for every instance. `TrafficCharged` rests on the
books (`Books`): for each account and direction, the bytes due are those charged,
those that failed and those in the list, plus some multiple of 2^32. `Wraps` is that
relation; it adds up, so that each place where the code cuts a sum to 32 bits can be
looked at alone. Three facts make a line come out right: an address has one gate at
most, since blocks do not meet (`TraffAssumption`; of the gates commands add,
`GatesStayApart` shows it), so that a line makes one item and the core finds the
account that beetraff found; the last exclusion that covers an address decides, in
the code's loop as in the property (`LocalIsNotGlobal`); and no two items of the
list are alike (`Distinct`), so that a line is added to one. The invariant has no
hypothesis on the constants: it speaks of the time until a line of inet6 is parsed
(`NoInet6`), after which it may be false (section 3). Under it an account is also
never charged more than it had. `Inet4Charged` is the same for traffic without
inet6, as in `traff`. `EndIsNearer` is the part of `Ends` that is not fairness: a
number that every step lowers, `StepsLeft`.

`SumLemmas` has the facts about sums that the ledger, the dumps and the traffic
need: a sum changes by as much as one term changes, an index that is added adds
its term, and a sequence sums up to its first term and the sum of its tail.
`SumFunction` is a fold whose recursion the provers cannot unroll by induction over
an operator; the lemmas are proved over the sets of indices on which the
equation fails, of which a smallest one does not exist. Powers of two are
handled in the same spirit, as the number of subsets of a set.

Only model-checked: liveness (`EveryCommandAnswered`, `CommandsEnd`, `Ends`, `DumpServed`,
`Reopens`, `CallsReturn`), which the prover does not do. Every other property of a
passing run is the subject of a theorem.

## 5. Not modelled
* `bee` tariffs, the command parser, reports, rulers and utilities: functions of
  one line or one sum, with no state shared between processes. The commands'
  effects on the shared files are in `BeeSessions` and `BeeAccess`.
* `ipflow` packet parsers and `ipfshow`, cnupm's parsers and filters: pure functions
  of a packet or a record.
* `ipstatd`: one process with one loop over the packet filter's log, its tables
  private to it; no step of another process comes between two of its own.
* `ircyka`: a robot whose behaviour is the text of the IRC protocol; its state is
  one connection.
* `tunneld` is mostly the third-party `libalias`; `ffq` is patches to third-party
  kernel schedulers (`altq`); `lkm/nullfs` and its kin are vendored file systems;
  `radio`, `pcmax` are drivers that move bits of hardware registers; `if_acct`,
  `bcrelayd` and `hideproc` keep no state across packets or calls.
* ports, fonts, scripts and web pages: data and packaging.

Most lines of the repository belong to this list, so the models stand for a
small part of its text: the part in which several processes share state.

Candidate for more: the record life cycle of bee's SQL cards (the procedures are
not in the repository).
