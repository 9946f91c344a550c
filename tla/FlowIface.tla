-------------------------------- MODULE FlowIface ------------------------------
(***************************************************************************)
(* Interface processes of ipflow (lkm/ipflow/ipflow_proc.c), the device    *)
(* calls that create, reset, list and delete them (ipflow_dev.c), the      *)
(* commands of the ipflow program that make these calls, and loading and   *)
(* unloading of the module.                                                *)
(*                                                                         *)
(* A process inside the kernel runs until it sleeps.  Everybody who waits  *)
(* for an interface sleeps on the address of its descriptor, so a wakeup() *)
(* there wakes all of them, whatever they wait for.                        *)
(***************************************************************************)
EXTENDS Integers, Sequences, FiniteSets

CONSTANTS Callers,          \* processes of the ipflow program, and of modload
          Master,           \* the master process
          Names,            \* interfaces
          Descs,            \* addresses malloc() may return for a descriptor
          Nil,              \* no descriptor
          UserSigs,         \* signals users send to interface processes
          MaxCmds,          \* bound: commands in all, but for loading the module
          MaxEvents         \* bound: read errors and signals of users

ASSUME IfaceAssumption ==
    /\ Master \notin Callers /\ Nil \notin Descs
    /\ IsFiniteSet(Callers) /\ IsFiniteSet(Descs) /\ Names # {}
    /\ UserSigs \subseteq {"HUP", "KILL", "TERM"}
    /\ MaxCmds \in Nat /\ MaxEvents \in Nat

Procs == Callers \cup {Master}

VARIABLES
    loaded,             \* the module is loaded
    used,               \* descriptors allocated
    list,               \* ipflow_if_list
    name, err,          \* ii_name and ii_error of a descriptor
    th, sig,            \* its process, and the signals pending for it
    pc, on,             \* where a process is, and the descriptor it holds
    arg, room,          \* interface and buffer size of a command
    served,             \* history: the reset a caller waits for was done, or
                        \* the interface was told to stop
    shot,               \* history: descriptors whose process a user has stopped
    settled,            \* history: no calls have met in a way Meets names
    cmds, events        \* bounds

iface == <<list, name, err, th, sig>>
proc == <<pc, on>>
locals == <<arg, room>>
bounds == <<cmds, events>>
vars == <<loaded, used, iface, proc, locals, served, shot, settled, bounds>>

Init ==
    /\ loaded = FALSE
    /\ used = {} /\ list = << >>
    /\ name = [d \in Descs |-> CHOOSE n \in Names : TRUE]
    /\ err = [d \in Descs |-> 0]
    /\ th = [d \in Descs |-> "none"] /\ sig = [d \in Descs |-> {}]
    /\ pc = [p \in Procs |-> IF p = Master THEN "gone" ELSE "idle"]
    /\ on = [p \in Procs |-> Nil]
    /\ arg = [c \in Callers |-> CHOOSE n \in Names : TRUE]
    /\ room = [c \in Callers |-> 0]
    /\ served = [c \in Callers |-> TRUE] /\ shot = {} /\ settled = TRUE
    /\ cmds = 0 /\ events = 0

Listed == {list[i] : i \in DOMAIN list}

\* ipflow_if_lookup(): the first descriptor of that name, none if there is none.
lookup(n) ==
    {d \in Listed : /\ name[d] = n
                    /\ \A i, j \in DOMAIN list :
                           list[i] = d /\ name[list[j]] = n => i <= j}

\* LIST_REMOVE()
Unlinked(d) ==
    IF d \in Listed
    THEN LET i == CHOOSE j \in DOMAIN list : list[j] = d
         IN  SubSeq(list, 1, i - 1) \o SubSeq(list, i + 1, Len(list))
    ELSE list

\* wakeup(): everybody asleep on the descriptor becomes runnable.
Asleep == {"adding", "deleting", "flushing"}
Woken(state) ==
    CASE state = "adding" -> "added" [] state = "deleting" -> "deleted"
      [] state = "flushing" -> "flushed" [] OTHER -> state
Wake(d) == [p \in Procs |-> IF on[p] = d THEN Woken(pc[p]) ELSE pc[p]]

\* Where a descriptor is used by one call and freed or failed by another the code
\* has no defence: what happens to it, and meets what.
\*   - It is deleted, reset or stopped, or its read fails, before the call that adds
\*     it has read its error: that call frees it.
\*   - It is deleted while another call deletes it, or sleeps in a copy with it.
\*   - A call goes to sleep in a copy with it while it is deleted; a list, also when
\*     a user has stopped it or does so then: the list goes on from it.
Coming == {"adding", "added"}
Going == {"deleting", "deleted"}
Copying == {"copyin", "walk"}
Ending == {"KILL", "TERM"}

Held(states, d) == \E p \in Procs : pc[p] \in states /\ on[p] = d
Meets(op, d) ==
    \/ op \in {"del", "reset", "stop", "error"} /\ Held(Coming, d)
    \/ op = "del" /\ Held(Going \cup Copying, d)
    \/ op = "copyin" /\ Held(Going, d)
    \/ op = "walk" /\ sig[d] \cap Ending # {}
    \/ op = "stop" /\ Held({"walk"}, d)

\* The module is unloaded while an interface is being added.
Unloading == \E c \in Callers : pc[c] \in {"unloading", "unloaded"}
Adding == \E c \in Callers : pc[c] \in Coming

Note(clash) == settled' = (settled /\ ~ clash)

Cmd(c) ==
    /\ pc[c] = "idle" /\ loaded /\ cmds < MaxCmds
    /\ cmds' = cmds + 1

Goto(c, label) == pc' = [pc EXCEPT ![c] = label]

-------------------------------------------------------------------------------
(* ipflow add                                                              *)

Exists(c, n) ==
    /\ Cmd(c) /\ lookup(n) # {}
    /\ UNCHANGED <<loaded, used, iface, proc, locals, served, shot, settled, events>>

Fresh(n) == lookup(n) = {}

\* ipflow_if_create(): the descriptor, its process, and a sleep until that has
\* started.  Without memory or a process the call fails and leaves nothing.
Add(c, n) ==
    /\ Cmd(c) /\ Fresh(n) /\ Note(Unloading)
    /\ \E d \in Descs \ used :
          /\ used' = used \cup {d}
          /\ name' = [name EXCEPT ![d] = n] /\ err' = [err EXCEPT ![d] = 0]
          /\ th' = [th EXCEPT ![d] = "new"] /\ sig' = [sig EXCEPT ![d] = {}]
          /\ on' = [on EXCEPT ![c] = d]
          /\ shot' = shot \ {d}
    /\ arg' = [arg EXCEPT ![c] = n]
    /\ Goto(c, "adding")
    /\ UNCHANGED <<loaded, list, room, served, events>>

\* Mutant: a descriptor whose process did not start is kept.
MutantAdded(c) ==
    /\ pc[c] = "added"
    /\ Goto(c, IF err[on[c]] # 0 THEN "idle" ELSE "conf")
    /\ on' = [on EXCEPT ![c] = Nil]
    /\ UNCHANGED <<loaded, used, iface, locals, served, shot, settled, bounds>>

\* The caller reads ii_error and frees the descriptor if it is an error.
Added(c) ==
    /\ pc[c] = "added"
    /\ IF err[on[c]] # 0
       THEN used' = used \ {on[c]} /\ Goto(c, "idle")
       ELSE used' = used /\ Goto(c, "conf")
    /\ on' = [on EXCEPT ![c] = Nil]
    /\ UNCHANGED <<loaded, iface, locals, served, shot, settled, bounds>>

\* ipflow set, and the rest of ipflow add: IIOCGIFCONF for the link type ...
SetCmd(c, n) ==
    /\ Cmd(c)
    /\ arg' = [arg EXCEPT ![c] = n]
    /\ Goto(c, "conf")
    /\ UNCHANGED <<loaded, used, iface, on, room, served, shot, settled, events>>

Conf(c) ==
    /\ pc[c] = "conf"
    /\ Goto(c, IF lookup(arg[c]) = {} THEN "idle" ELSE "setf")
    /\ UNCHANGED <<loaded, used, iface, on, locals, served, shot, settled, bounds>>

\* ... and IIOCSETF, which looks the interface up and then copies the filter in.
SetF(c) ==
    /\ pc[c] = "setf"
    /\ \/ lookup(arg[c]) = {} /\ Goto(c, "idle") /\ UNCHANGED <<on, settled>>
       \/ /\ \E d \in lookup(arg[c]) :
                on' = [on EXCEPT ![c] = d] /\ Note(Meets("copyin", d))
          /\ Goto(c, "copyin")
    /\ UNCHANGED <<loaded, used, iface, locals, served, shot, bounds>>

CopyIn(c) ==
    /\ pc[c] = "copyin"
    /\ Goto(c, "idle")
    /\ on' = [on EXCEPT ![c] = Nil]
    /\ UNCHANGED <<loaded, used, iface, locals, served, shot, settled, bounds>>

-------------------------------------------------------------------------------
(* ipflow del, reset and info                                              *)

Unknown(c, n) ==
    /\ Cmd(c) /\ lookup(n) = {}
    /\ UNCHANGED <<loaded, used, iface, proc, locals, served, shot, settled, events>>

\* Who waits for a reset of the interface is excused: it is told to stop.
Serve(d) == [c \in Callers |-> served[c] \/ on[c] = d]

\* ipflow_if_destroy(): it wakes everybody on the descriptor, and then sleeps there.
Destroy(p, d) ==
    /\ Note(Meets("del", d))
    /\ sig' = [sig EXCEPT ![d] = @ \cup {"KILL"}]
    /\ served' = Serve(d)
    /\ pc' = [Wake(d) EXCEPT ![p] = "deleting"]
    /\ on' = [on EXCEPT ![p] = d]

Del(c, n) ==
    /\ Cmd(c)
    /\ \E d \in lookup(n) : Destroy(c, d)
    /\ arg' = [arg EXCEPT ![c] = n]
    /\ UNCHANGED <<loaded, used, list, name, err, th, room, shot, events>>

Free(p, label) ==
    /\ pc[p] = "deleted"
    /\ used' = used \ {on[p]}
    /\ on' = [on EXCEPT ![p] = Nil]
    /\ Goto(p, label)
    /\ UNCHANGED <<loaded, iface, locals, served, shot, settled, bounds>>

Deleted(c) == Free(c, "idle")

\* Mutant: a reset wakes the interface process the way a deletion does.
MutantAfterHup(c, d) == [Wake(d) EXCEPT ![c] = "flushing"]

AfterHup(c, d) == [pc EXCEPT ![c] = "flushing"]

\* IIOCFLUSHIF
FlushIf(c, n) ==
    /\ Cmd(c)
    /\ \E d \in lookup(n) :
          /\ Note(Meets("reset", d))
          /\ sig' = [sig EXCEPT ![d] = @ \cup {"HUP"}]
          /\ pc' = AfterHup(c, d)
          /\ on' = [on EXCEPT ![c] = d]
    /\ served' = [served EXCEPT ![c] = FALSE]
    /\ arg' = [arg EXCEPT ![c] = n]
    /\ UNCHANGED <<loaded, used, list, name, err, th, room, shot, events>>

Flushed(c) ==
    /\ pc[c] = "flushed"
    /\ Goto(c, "idle")
    /\ on' = [on EXCEPT ![c] = Nil]
    /\ served' = [served EXCEPT ![c] = TRUE]
    /\ UNCHANGED <<loaded, used, iface, locals, shot, settled, bounds>>

\* ipflow info: IIOCGIFLIST for the count, and again with a buffer of that size.
InfoCmd(c) ==
    /\ Cmd(c)
    /\ room' = [room EXCEPT ![c] = Len(list)]
    /\ Goto(c, IF list = << >> THEN "idle" ELSE "list")
    /\ UNCHANGED <<loaded, used, iface, on, arg, served, shot, settled, events>>

\* One interface is copied out at a time.
Visit(c, d) ==
    /\ Note(Meets("walk", d))
    /\ on' = [on EXCEPT ![c] = d]
    /\ room' = [room EXCEPT ![c] = @ - 1]
    /\ Goto(c, "walk")

Leave(c) ==
    /\ on' = [on EXCEPT ![c] = Nil]
    /\ room' = [room EXCEPT ![c] = 0]
    /\ Goto(c, "idle")
    /\ settled' = settled

\* Mutant: the size of the buffer is not checked.
MutantBufferFull(c) == FALSE

BufferFull(c) == room[c] = 0

List(c) ==
    /\ pc[c] = "list"
    /\ IF list = << >> THEN Leave(c) ELSE Visit(c, list[1])
    /\ UNCHANGED <<loaded, used, iface, arg, served, shot, bounds>>

Walk(c) ==
    /\ pc[c] = "walk"
    /\ LET next == {list[i + 1] : i \in {j \in DOMAIN list \ {Len(list)} : list[j] = on[c]}}
       IN  IF next = {} \/ BufferFull(c) THEN Leave(c)
           ELSE \E d \in next : Visit(c, d)
    /\ UNCHANGED <<loaded, used, iface, arg, served, shot, bounds>>

-------------------------------------------------------------------------------
(* The process of an interface.                                            *)

\* ipflowd_iface() up to the first read: bpf gives it a unit and a buffer or an error.
Start(d) ==
    /\ th[d] = "new"
    /\ \/ /\ th' = [th EXCEPT ![d] = "run"] /\ err' = [err EXCEPT ![d] = 0]
          /\ list' = <<d>> \o list
       \/ /\ th' = [th EXCEPT ![d] = "none"] /\ err' = [err EXCEPT ![d] = 1]
          /\ list' = list
    /\ pc' = Wake(d)
    /\ UNCHANGED <<loaded, used, name, sig, on, locals, served, shot, settled, bounds>>

\* Mutant: after a reset nobody is told.
MutantSignals(d) ==
    LET die == sig[d] \cap {"KILL", "TERM"} # {} IN
    /\ sig' = [sig EXCEPT ![d] = {}]
    /\ served' = IF sig[d] # {} THEN Serve(d) ELSE served
    /\ pc' = IF die THEN Wake(d) ELSE pc
    /\ th' = [th EXCEPT ![d] = IF die THEN "none" ELSE "run"]
    /\ list' = IF die THEN Unlinked(d) ELSE list

\* Mutant: one signal is handled after each read.
MutantOneSignal(d) ==
    LET die == "HUP" \notin sig[d] /\ sig[d] # {} IN
    /\ sig' = [sig EXCEPT ![d] = @ \ {"HUP"}]
    /\ served' = IF sig[d] # {} THEN Serve(d) ELSE served
    /\ pc' = IF sig[d] # {} THEN Wake(d) ELSE pc
    /\ th' = [th EXCEPT ![d] = IF die THEN "none" ELSE "run"]
    /\ list' = IF die THEN Unlinked(d) ELSE list

\* The loop over CURSIG(), lowest signal first: HUP resets the counters of bpf,
\* KILL and TERM end the process, which takes itself off the list.
Signals(d) ==
    LET die == sig[d] \cap {"KILL", "TERM"} # {} IN
    /\ sig' = [sig EXCEPT ![d] = {}]
    /\ served' = IF sig[d] # {} THEN Serve(d) ELSE served
    /\ pc' = IF sig[d] # {} THEN Wake(d) ELSE pc
    /\ th' = [th EXCEPT ![d] = IF die THEN "none" ELSE "run"]
    /\ list' = IF die THEN Unlinked(d) ELSE list

\* bpfread() returns packets, or nothing after a second; -1 if it is interrupted.
Read(d) ==
    /\ th[d] = "run"
    /\ \/ err' = [err EXCEPT ![d] = 0]
       \/ sig[d] # {} /\ err' = [err EXCEPT ![d] = -1]
    /\ Signals(d)
    /\ UNCHANGED <<loaded, used, name, on, locals, shot, settled, bounds>>

\* bpfread() fails: the process sleeps for a second, on its descriptor too.
ReadError(d) ==
    /\ th[d] = "run" /\ events < MaxEvents
    /\ Note(Meets("error", d))
    /\ events' = events + 1
    /\ err' = [err EXCEPT ![d] = 1]
    /\ th' = [th EXCEPT ![d] = "nap"]
    /\ UNCHANGED <<loaded, used, list, name, sig, proc, locals, served, shot, cmds>>

NapEnd(d) ==
    /\ th[d] = "nap"
    /\ Signals(d)
    /\ UNCHANGED <<loaded, used, name, err, on, locals, shot, settled, bounds>>

\* A user sends a signal to the process.
Signal(d, s) ==
    /\ th[d] \in {"run", "nap"} /\ events < MaxEvents
    /\ Note(Meets(IF s = "HUP" THEN "reset" ELSE "stop", d))
    /\ events' = events + 1
    /\ sig' = [sig EXCEPT ![d] = @ \cup {s}]
    /\ IF s = "HUP" THEN UNCHANGED <<shot, served>>
                    ELSE shot' = shot \cup {d} /\ served' = Serve(d)
    /\ UNCHANGED <<loaded, used, list, name, err, th, proc, locals, cmds>>

-------------------------------------------------------------------------------
(* The module.                                                             *)

\* ipflowattach(): an empty list, and the master process.
Load(c) ==
    /\ pc[c] = "idle" /\ ~ loaded
    /\ loaded' = TRUE /\ list' = << >>
    /\ Goto(Master, "new")
    /\ UNCHANGED <<used, name, err, th, sig, on, locals, served, shot, settled, bounds>>

MasterSleeps ==
    /\ pc[Master] = "new"
    /\ Goto(Master, "asleep")
    /\ UNCHANGED <<loaded, used, iface, on, locals, served, shot, settled, bounds>>

\* ipflowdetach(): wake the master, sleep until it is done.  A master that has not
\* got as far as its own sleep misses that.
Unload(c) ==
    /\ Cmd(c) /\ ~ Unloading /\ Note(Adding)
    /\ pc' = [pc EXCEPT ![c] = "unloading",
                        ![Master] = IF @ = "asleep" THEN "awake" ELSE @]
    /\ UNCHANGED <<loaded, used, iface, on, locals, served, shot, events>>

\* ipflowd_master() destroys the interfaces one by one.
MasterDestroys ==
    /\ pc[Master] = "awake" /\ list # << >>
    /\ Destroy(Master, list[1])
    /\ UNCHANGED <<loaded, used, list, name, err, th, locals, shot, bounds>>

MasterFrees == Free(Master, "awake")

\* Mutant: the last interface is left.
MutantNoIface == Len(list) <= 1

NoIface == list = << >>

MasterExits ==
    /\ pc[Master] = "awake" /\ NoIface
    /\ pc' = [p \in Procs |-> CASE p = Master -> "gone"
                                [] pc[p] = "unloading" -> "unloaded"
                                [] OTHER -> pc[p]]
    /\ UNCHANGED <<loaded, used, iface, on, locals, served, shot, settled, bounds>>

Unloaded(c) ==
    /\ pc[c] = "unloaded"
    /\ loaded' = FALSE
    /\ Goto(c, "idle")
    /\ UNCHANGED <<used, iface, on, locals, served, shot, settled, bounds>>

-------------------------------------------------------------------------------
CallerStep(c) ==
    \/ Added(c) \/ Conf(c) \/ SetF(c) \/ CopyIn(c) \/ Deleted(c) \/ Flushed(c)
    \/ List(c) \/ Walk(c) \/ Unloaded(c)

Command(c) ==
    \/ InfoCmd(c) \/ Load(c) \/ Unload(c)
    \/ \E n \in Names : \/ Exists(c, n) \/ Add(c, n) \/ SetCmd(c, n) \/ Unknown(c, n)
                        \/ Del(c, n) \/ FlushIf(c, n)

MasterStep == MasterSleeps \/ MasterDestroys \/ MasterFrees \/ MasterExits

ThreadStep(d) == Start(d) \/ Read(d) \/ NapEnd(d)

Next ==
    \/ \E c \in Callers : CallerStep(c) \/ Command(c)
    \/ MasterStep
    \/ \E d \in Descs : \/ ThreadStep(d) \/ ReadError(d)
                        \/ \E s \in UserSigs : Signal(d, s)

Spec == Init /\ [][Next]_vars

\* A process that can run does run, and bpfread() returns every second.
FairSpec ==
    /\ Spec
    /\ WF_vars(MasterStep)
    /\ \A c \in Callers : WF_vars(CallerStep(c))
    /\ \A d \in Descs : WF_vars(ThreadStep(d))

-------------------------------------------------------------------------------
(* Properties.                                                             *)

\* Every variable stays in its type.
IfaceTypeOK ==
    /\ loaded \in BOOLEAN /\ used \subseteq Descs /\ list \in Seq(Descs)
    /\ name \in [Descs -> Names] /\ err \in [Descs -> {-1, 0, 1}]
    /\ th \in [Descs -> {"none", "new", "run", "nap"}]
    /\ sig \in [Descs -> SUBSET {"HUP", "KILL", "TERM"}]
    /\ pc \in [Procs -> {"idle", "conf", "setf", "list", "flushed", "unloading", "unloaded",
                         "gone", "new", "asleep", "awake"}
                        \cup Asleep \cup Coming \cup Going \cup Copying]
    /\ on \in [Procs -> Descs \cup {Nil}]
    /\ arg \in [Callers -> Names] /\ room \in [Callers -> Nat]
    /\ served \in [Callers -> BOOLEAN] /\ shot \subseteq Descs /\ settled \in BOOLEAN
    /\ cmds \in 0 .. MaxCmds /\ events \in 0 .. MaxEvents

\* A descriptor is freed once, and by a caller that nobody else's wakeup() has sent
\* on its way early: whoever still uses it - its process, the list, a caller that
\* will read its error, free it, or set its filter - finds it allocated, until calls
\* have met in a way Meets names.  Two calls may add one interface.
NoUseAfterFree ==
    settled =>
        /\ Listed \subseteq used
        /\ \A d \in Descs : th[d] # "none" => d \in used
        /\ \A p \in Procs : pc[p] \in Coming \cup Going \cup Copying => on[p] \in used

\* README: a process for each interface counted, so none for one that has a process.
OneProcess == \A i, j \in DOMAIN list : name[list[i]] = name[list[j]] => i = j

\* Until then memory is lost in one way only: a user stops the process with a signal.
NoLeak ==
    settled => used \subseteq Listed \cup shot
                              \cup {on[p] : p \in {q \in Procs : pc[q] \in Coming \cup Going}}

\* IIOCFLUSHIF returns after the counters were reset or the interface was told to
\* stop, and not because of a wakeup() meant for somebody else.
ResetDone == settled => \A c \in Callers : pc[c] = "flushed" => served[c]

\* The module goes away only when no process runs its code any more, even if its
\* callers are inside when that begins, but for one that adds an interface.
CleanUnload == settled /\ ~ loaded => list = << >> /\ \A d \in Descs : th[d] = "none"

\* Every call returns: no wakeup() is missed, by callers, by the process of an
\* interface that sleeps after an error, or by the master; but a module unloaded
\* before the first sleep of the master waits for ever.
Stuck(c) == pc[c] = "unloading" /\ pc[Master] \in {"new", "asleep"}
CallsReturn == \A c \in Callers : pc[c] # "idle" ~> pc[c] = "idle" \/ ~ settled \/ Stuck(c)
===============================================================================
