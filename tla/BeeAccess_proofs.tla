--------------------------- MODULE BeeAccess_proofs ----------------------------
(***************************************************************************)
(* Proofs about BeeAccess, for any sessions, accounts, gates and commands: *)
(* the locks of the gate file and of the update exclude, no gate is lost,  *)
(* no two gates of the file claim the same, and what an update publishes   *)
(* is right.                                                               *)
(*                                                                         *)
(* Only the section on what gates claim looks at what is in a gate; the    *)
(* others know no more of the gate file than that it is a sequence.        *)
(***************************************************************************)
EXTENDS BeeAccess, SumLemmas, SequenceTheorems, FunctionTheorems, TLAPS

USE AccessAssumption

IsSequence(t) == \E S : t \in Seq(S)
AtGates == {"gatelock", "gatesave"}
Steps == {"gone", "idle"} \cup AtGates \cup Updating

\* Steps that neither begin, make nor end a gate command.
Elsewhere(s) ==
    /\ UNCHANGED <<conf, tab, add, del>>
    /\ pc[s] \notin AtGates
    /\ pc' = pc \/ \E x \in Steps \ AtGates : pc' = [pc EXCEPT ![s] = x]

LEMMA ElsewhereSteps ==
  ASSUME NEW s \in Sessions, pc \in [Sessions -> Steps],
         \/ Exit(s) \/ LockCmd(s) \/ UnlockCmd(s) \/ UpdStart(s)
         \/ UpdOpen(s) \/ UpdTimeout(s) \/ UpdRead(s) \/ UpdClose(s) \/ UpdUnlock(s)
         \/ ApplyRead(s) \/ ApplySet(s)
         \/ \E n \in DOMAIN accs, c \in Contents : Change(s, n, c)
  PROVE  Elsewhere(s)
<1> USE DEF Elsewhere, Steps, Updating, Applying, AtGates, Goto
<1>1. CASE Exit(s) \/ LockCmd(s) \/ UnlockCmd(s) \/ UpdStart(s)
  BY <1>1 DEF Exit, LockCmd, UnlockCmd, UpdStart, Op
<1>2. CASE UpdOpen(s) \/ UpdTimeout(s) \/ UpdRead(s) \/ UpdClose(s) \/ UpdUnlock(s)
  BY <1>2 DEF UpdOpen, UpdTimeout, UpdRead, UpdClose, UpdUnlock
<1>3. CASE ApplyRead(s) \/ ApplySet(s)
  BY <1>3 DEF ApplyRead, ApplySet
<1>4. CASE \E n \in DOMAIN accs, c \in Contents : Change(s, n, c)
  BY <1>4 DEF Change, Op
<1>5. QED
  BY <1>1, <1>2, <1>3, <1>4

-------------------------------------------------------------------------------
(* The gate file.                                                          *)

\* Who saves gates has the lock and the table the file gave it; a session has gates
\* to add or to delete only during a gate command, and not both.
GateInv ==
    /\ pc \in [Sessions -> Steps]
    /\ DOMAIN tab = Sessions /\ DOMAIN add = Sessions /\ DOMAIN del = Sessions
    /\ IsSequence(gates)
    /\ \A s \in Sessions :
          /\ pc[s] = "gatesave" => gateEx = s /\ tab[s] = reslinks_load(gates)
          /\ pc[s] \notin AtGates => add[s] = << >> /\ del[s] = {}
          /\ add[s] = << >> \/ del[s] = {}

LEMMA InitGateInv == Init => GateInv
<1>1. Init => IsSequence(gates)
  BY DEF Init, IsSequence
<1>2. QED
  BY <1>1 DEF Init, GateInv, Steps

\* A table read from a file and written back is the file.
LEMMA SavedLoaded ==
  ASSUME NEW links, IsSequence(links)
  PROVE  /\ reslinks_save(reslinks_load(links)) = links
         /\ IsSequence(reslinks_load(links))
         /\ DOMAIN reslinks_load(links) = DOMAIN links
<1> DEFINE t == reslinks_load(links)
<1>1. PICK S : links \in Seq(S)
  BY DEF IsSequence
<1>2. DOMAIN t = DOMAIN links /\ \A i \in DOMAIN links : t[i].gate = links[i]
  BY DEF reslinks_load
<1>3. reslinks_save(t) = [i \in DOMAIN links |-> links[i]]
  BY <1>2 DEF reslinks_save
<1>4. [i \in DOMAIN links |-> links[i]] = links
  BY <1>1
<1>5. t \in Seq({t[i] : i \in DOMAIN links})
  <2>1. Len(links) \in Nat /\ DOMAIN links = 1 .. Len(links)
    BY <1>1
  <2>2. t \in [1 .. Len(links) -> {t[i] : i \in DOMAIN links}]
    BY <1>2, <2>1 DEF reslinks_load
  <2>3. QED
    BY <2>1, <2>2, SeqDef
<1>6. QED
  BY <1>2, <1>3, <1>4, <1>5 DEF IsSequence

\* What is saved is as long as the table.
LEMMA SavedIsSequence ==
  ASSUME NEW t, IsSequence(t)
  PROVE  /\ IsSequence(reslinks_save(t)) /\ Len(reslinks_save(t)) = Len(t)
         /\ \A i \in 1 .. Len(t) : reslinks_save(t)[i] = t[i].gate
<1>1. PICK S : t \in Seq(S)
  BY DEF IsSequence
<1>2. Len(t) \in Nat /\ DOMAIN t = 1 .. Len(t)
  BY <1>1
<1>3. reslinks_save(t) \in [1 .. Len(t) -> {t[i].gate : i \in 1 .. Len(t)}]
  BY <1>2 DEF reslinks_save
<1>4. reslinks_save(t) \in Seq({t[i].gate : i \in 1 .. Len(t)})
  BY <1>2, <1>3, SeqDef
<1>5. DOMAIN reslinks_save(t) = 1 .. Len(reslinks_save(t))
  BY <1>4
<1>6. Len(reslinks_save(t)) = Len(t)
  BY <1>2, <1>3, <1>4, LenProperties
<1>7. QED
  BY <1>2, <1>4, <1>6 DEF IsSequence, reslinks_save

LEMMA PrefixByElements ==
  ASSUME NEW a, NEW b, IsSequence(a), IsSequence(b), Len(a) <= Len(b),
         \A i \in 1 .. Len(a) : a[i] = b[i]
  PROVE  IsPrefix(a, b)
<1>1. Len(a) \in Nat /\ Len(b) \in Nat
  BY DEF IsSequence
<1>2. SubSeq(a, 1, Len(a)) = SubSeq(b, 1, Len(a))
  BY <1>1
<1>3. QED
  BY <1>2 DEF IsPrefix

\* A new gate goes to the end of the table.
LEMMA AppendSaved ==
  ASSUME NEW t, IsSequence(t), NEW x
  PROVE  /\ IsSequence(Append(t, x))
         /\ Len(t) <= Len(Append(t, x))
         /\ \A i \in 1 .. Len(t) : Append(t, x)[i] = t[i]
<1>1. PICK S : t \in Seq(S)
  BY DEF IsSequence
<1>2. t \in Seq(S \cup {x})
  BY <1>1, SeqMonotonic
<1>3. QED
  BY <1>2, AppendProperties DEF IsSequence

\* t begins with the gates of old.
Extends(t, old) == /\ IsSequence(t) /\ Len(old) <= Len(t)
                   /\ \A i \in 1 .. Len(old) : t[i] = old[i]

LEMMA NewExtends ==
  ASSUME NEW t, NEW old, IsSequence(old), Extends(t, old), NEW res, NEW acc, NEW name
  PROVE  Extends(reslink_new(t, res, acc, name), old)
<1>1. CASE NewName(t, res, name) = {}
  BY <1>1 DEF reslink_new
<1>2. CASE NewName(t, res, name) # {}
  <2>1. PICK x : reslink_new(t, res, acc, name) = Append(t, x)
    BY <1>2 DEF reslink_new
  <2>2. Len(t) \in Nat /\ Len(old) \in Nat
    BY DEF Extends, IsSequence
  <2>3. QED
    BY <2>1, <2>2, AppendSaved DEF Extends
<1>3. QED
  BY <1>1, <1>2

\* The gates of a command go behind those of the table.
LEMMA AddedExtends ==
  ASSUME NEW t, IsSequence(t), NEW new
  PROVE  Extends(Added(t, new), t)
<1>1. Extends(t, t)
  BY DEF Extends, IsSequence
<1> DEFINE Try(u, g) == reslink_new(u, g.res, g.acc, g.name)
<1>2. Extends(Try(t, new[1]), t)
  BY <1>1, NewExtends
<1>3. Extends(Try(Try(t, new[1]), new[2]), t)
  BY <1>2, NewExtends
<1>4. QED
  BY <1>1, <1>2, <1>3 DEF Added

LEMMA ExtendsSaved ==
  ASSUME NEW t, NEW old, IsSequence(old), Extends(t, old)
  PROVE  IsPrefix(reslinks_save(old), reslinks_save(t))
<1>1. Len(old) \in Nat /\ Len(t) \in Nat
  BY DEF Extends, IsSequence
<1>2. \A i \in 1 .. Len(old) : reslinks_save(old)[i] = reslinks_save(t)[i]
  BY <1>1, SavedIsSequence DEF Extends
<1>3. QED
  BY <1>2, SavedIsSequence, PrefixByElements DEF Extends

\* What is left of a sequence without its element i.
LEMMA RemovedElements ==
  ASSUME NEW t, IsSequence(t), NEW i \in DOMAIN t
  PROVE  /\ IsSequence(RemoveAt(t, i)) /\ Len(RemoveAt(t, i)) = Len(t) - 1
         /\ \A j \in 1 .. Len(t) - 1 : RemoveAt(t, i)[j] = IF j < i THEN t[j] ELSE t[j + 1]
<1>1. PICK S : t \in Seq(S)
  BY DEF IsSequence
<1> DEFINE a == SubSeq(t, 1, i - 1)
           b == SubSeq(t, i + 1, Len(t))
<1>2. i \in 1 .. Len(t) /\ Len(t) \in Nat
  BY <1>1
<1>3. /\ \A j \in 1 .. i - 1 : t[j] \in S
      /\ \A j \in i + 1 .. Len(t) : t[j] \in S
  BY <1>1, <1>2, ElementOfSeq
<1>4. /\ a \in Seq(S) /\ Len(a) = i - 1
      /\ \A j \in 1 .. i - 1 : a[j] = t[j]
  BY <1>2, <1>3, SubSeqProperties
<1>5. /\ b \in Seq(S) /\ Len(b) = Len(t) - i
      /\ \A j \in 1 .. Len(t) - i : b[j] = t[j + i]
  BY <1>2, <1>3, SubSeqProperties
<1>6. /\ a \o b \in Seq(S) /\ Len(a \o b) = Len(t) - 1
      /\ \A j \in 1 .. Len(t) - 1 : (a \o b)[j] = IF j <= i - 1 THEN a[j] ELSE b[j - (i - 1)]
  <2> HIDE DEF a, b
  <2>1. Len(a) + Len(b) = Len(t) - 1
    BY <1>2, <1>4, <1>5
  <2>2. a \in Seq(S) /\ b \in Seq(S)
    BY <1>4, <1>5
  <2>3. /\ a \o b \in Seq(S) /\ Len(a \o b) = Len(a) + Len(b)
        /\ \A j \in 1 .. Len(a) + Len(b) :
              (a \o b)[j] = IF j <= Len(a) THEN a[j] ELSE b[j - Len(a)]
    BY <2>2, ConcatProperties
  <2>4. Len(a) = i - 1
    BY <1>4
  <2>5. QED
    BY <2>1, <2>3, <2>4
<1>7. \A j \in 1 .. Len(t) - 1 : (a \o b)[j] = IF j < i THEN t[j] ELSE t[j + 1]
  <2> HIDE DEF a, b
  <2> TAKE j \in 1 .. Len(t) - 1
  <2>1. CASE j < i
    <3>1. j \in 1 .. i - 1
      BY <1>2, <2>1
    <3>2. a[j] = t[j] /\ j <= i - 1
      BY <1>4, <3>1
    <3>3. QED
      BY <1>6, <2>1, <3>2
  <2>2. CASE ~ (j < i)
    <3> DEFINE k == j - (i - 1)
    <3>1. k \in 1 .. Len(t) - i /\ k + i = j + 1 /\ ~ (j <= i - 1)
      BY <1>2, <2>2
    <3>2. b[k] = t[k + i]
      BY <1>5, <3>1
    <3>3. QED
      BY <1>6, <2>2, <3>1, <3>2
  <2>3. QED
    BY <2>1, <2>2
<1>8. RemoveAt(t, i) = a \o b
  BY DEF RemoveAt
<1>9. QED
  BY <1>6, <1>7, <1>8 DEF IsSequence

LEMMA SameByElements ==
  ASSUME NEW a, NEW b, IsSequence(a), IsSequence(b), Len(a) = Len(b),
         \A i \in 1 .. Len(a) : a[i] = b[i]
  PROVE  a = b
<1>1. PICK S : a \in Seq(S)
  BY DEF IsSequence
<1>2. PICK T : b \in Seq(T)
  BY DEF IsSequence
<1>3. QED
  BY <1>1, <1>2, SeqMonotonic, SeqEqual

\* A deletion takes one gate out of the file.
LEMMA DelSaved ==
  ASSUME NEW t, IsSequence(t), NEW i \in DOMAIN t
  PROVE  /\ IsSequence(reslink_del(t, i))
         /\ reslinks_save(reslink_del(t, i)) = RemoveAt(reslinks_save(t), i)
<1> DEFINE u == reslink_del(t, i)
           g == reslinks_save(t)
<1>1. /\ IsSequence(u) /\ Len(u) = Len(t) - 1
      /\ \A j \in 1 .. Len(t) - 1 : u[j] = IF j < i THEN t[j] ELSE t[j + 1]
  BY RemovedElements DEF reslink_del
<1>2. Len(t) \in Nat /\ i \in 1 .. Len(t)
  BY DEF IsSequence
<1>3. /\ IsSequence(g) /\ Len(g) = Len(t)
      /\ \A j \in 1 .. Len(t) : g[j] = t[j].gate
  BY SavedIsSequence
<1>4. i \in DOMAIN g
  BY DEF reslinks_save
<1>5. /\ IsSequence(RemoveAt(g, i)) /\ Len(RemoveAt(g, i)) = Len(t) - 1
      /\ \A j \in 1 .. Len(t) - 1 : RemoveAt(g, i)[j] = IF j < i THEN g[j] ELSE g[j + 1]
  <2> HIDE DEF g
  <2>1. QED
    BY <1>3, <1>4, RemovedElements
<1>6. /\ IsSequence(reslinks_save(u)) /\ Len(reslinks_save(u)) = Len(t) - 1
      /\ \A j \in 1 .. Len(t) - 1 : reslinks_save(u)[j] = u[j].gate
  <2> HIDE DEF u
  <2>1. QED
    BY <1>1, SavedIsSequence
<1>7. \A j \in 1 .. Len(t) - 1 : reslinks_save(u)[j] = RemoveAt(g, i)[j]
  <2> HIDE DEF u, g
  <2> TAKE j \in 1 .. Len(t) - 1
  <2>1. j \in 1 .. Len(t) /\ j + 1 \in 1 .. Len(t)
    BY <1>2
  <2>2. reslinks_save(u)[j] = u[j].gate
    BY <1>6
  <2>3. g[j] = t[j].gate /\ g[j + 1] = t[j + 1].gate
    BY <1>3, <2>1
  <2>4. QED
    BY <1>1, <1>5, <2>2, <2>3
<1>8. QED
  BY <1>1, <1>5, <1>6, <1>7, SameByElements

\* What one gate command makes of the file.
OneCommand == \/ IsPrefix(gates, gates')
              \/ \E i \in DOMAIN gates : gates' = RemoveAt(gates, i)

LEMMA SaveStep ==
  ASSUME GateInv, NEW s \in Sessions, GateSave(s)
  PROVE  OneCommand /\ IsSequence(gates')
<1>1. /\ tab[s] = reslinks_load(gates) /\ IsSequence(gates)
      /\ add[s] = << >> \/ del[s] = {}
  BY DEF GateInv, GateSave
<1>2. /\ reslinks_save(tab[s]) = gates /\ IsSequence(tab[s])
      /\ DOMAIN tab[s] = DOMAIN gates
  BY <1>1, SavedLoaded
<1>3. PICK t \in IF Removed(tab[s], del[s]) = {} THEN {tab[s]}
                 ELSE Removed(Added(tab[s], add[s]), del[s]) :
             gates' = reslinks_save(t)
  BY DEF GateSave
<1>4. CASE t = tab[s]
  <2>1. IsPrefix(gates, gates')
    BY <1>2, <1>3, <1>4, ExtendsSaved DEF Extends, IsSequence
  <2>2. QED
    BY <1>2, <1>3, <1>4, <2>1, SavedIsSequence DEF OneCommand
<1>5. CASE del[s] = {}
  <2>1. t \in {tab[s], Added(tab[s], add[s])}
    BY <1>3, <1>5 DEF Removed
  <2>2. Extends(Added(tab[s], add[s]), tab[s])
    BY <1>2, AddedExtends
  <2>3. CASE t = Added(tab[s], add[s])
    <3>1. IsPrefix(gates, gates')
      BY <1>2, <1>3, <2>2, <2>3, ExtendsSaved
    <3>2. QED
      BY <1>3, <2>2, <2>3, <3>1, SavedIsSequence DEF OneCommand, Extends
  <2>4. QED
    BY <1>4, <2>1, <2>3
<1>6. CASE del[s] # {} /\ t # tab[s]
  <2>1. Added(tab[s], add[s]) = tab[s]
    BY <1>1, <1>6 DEF Added
  <2>2. t \in Removed(tab[s], del[s])
    BY <1>3, <1>6, <2>1
  <2>3. PICK i \in DOMAIN tab[s] : t = reslink_del(tab[s], i)
    BY <1>6, <2>2 DEF Removed, Doomed
  <2>4. gates' = RemoveAt(gates, i) /\ IsSequence(t)
    BY <1>2, <1>3, <2>3, DelSaved
  <2>5. QED
    BY <1>2, <1>3, <2>3, <2>4, SavedIsSequence DEF OneCommand
<1>7. QED
  BY <1>4, <1>5, <1>6

\* A session that does not hold the lock is not about to save.
LEMMA NotSaving ==
  ASSUME GateInv, NEW s \in Sessions, GateFree \/ gateEx = s, NEW t \in Sessions, t # s
  PROVE  pc[t] # "gatesave"
BY DEF GateInv, GateFree

LEMMA GateStep ==
  ASSUME GateInv, NEW s \in Sessions, GateLock(s) \/ GateSave(s)
  PROVE  GateInv'
<1> USE DEF GateInv, Goto, Steps, AtGates
<1>1. CASE GateLock(s)
  <2>1. \A t \in Sessions \ {s} : pc'[t] = pc[t] /\ tab'[t] = tab[t] /\ pc[t] # "gatesave"
    BY <1>1, NotSaving DEF GateLock
  <2>2. /\ pc'[s] = "gatesave" /\ gateEx' = s /\ tab'[s] = reslinks_load(gates)
        /\ UNCHANGED <<gates, add, del>>
    BY <1>1 DEF GateLock, Reread
  <2>3. DOMAIN tab' = Sessions /\ pc' \in [Sessions -> Steps]
    BY <1>1 DEF GateLock
  <2>4. QED
    BY <2>1, <2>2, <2>3
<1>2. CASE GateSave(s)
  <2>1. gateEx = s
    BY <1>2 DEF GateSave
  <2>2. \A t \in Sessions \ {s} : pc'[t] = pc[t] /\ pc[t] # "gatesave"
    BY <1>2, <2>1, NotSaving DEF GateSave
  <2>3. /\ add' = [add EXCEPT ![s] = << >>] /\ del' = [del EXCEPT ![s] = {}]
        /\ pc' = [pc EXCEPT ![s] = "idle"] /\ DOMAIN tab' = Sessions
    BY <1>2 DEF GateSave
  <2>4. IsSequence(gates')
    BY <1>2, SaveStep
  <2>5. QED
    BY <2>2, <2>3, <2>4
<1>3. QED
  BY <1>1, <1>2

LEMMA GateClient ==
  ASSUME GateInv, NEW s \in Sessions,
         Connect(s) \/ Crash(s) \/ (\E c \in Cmds : AddGate(s, c) \/ DelGate(s, c) \/ NewClient(s, c))
  PROVE  GateInv' /\ gates' = gates
<1> USE DEF GateInv, Goto, Steps, AtGates
<1>1. CASE Connect(s)
  BY <1>1 DEF Connect, conf
<1>2. CASE Crash(s)
  <2>1. \A t \in Sessions \ {s} : pc'[t] = pc[t] /\ (gateEx = t => gateEx' = t)
    BY <1>2 DEF Crash
  <2>2. /\ add' = [add EXCEPT ![s] = << >>] /\ del' = [del EXCEPT ![s] = {}]
        /\ pc' = [pc EXCEPT ![s] = "gone"] /\ UNCHANGED <<gates, tab>>
    BY <1>2 DEF Crash
  <2>3. \A t \in Sessions \ {s} : pc[t] = "gatesave" => gateEx' = t
    BY <2>1
  <2>4. QED
    BY <2>1, <2>2, <2>3
<1>3. CASE \E c \in Cmds : AddGate(s, c)
  <2>1. /\ pc[s] = "idle" /\ pc' = [pc EXCEPT ![s] = "gatelock"]
        /\ \E x : add' = [add EXCEPT ![s] = x]
        /\ UNCHANGED <<gates, gateEx, tab, del>>
    BY <1>3 DEF AddGate, Op, conf
  <2>2. QED
    BY <2>1
<1>4. CASE \E c \in Cmds : DelGate(s, c)
  <2>1. /\ pc[s] = "idle" /\ pc' = [pc EXCEPT ![s] = "gatelock"]
        /\ \E x : del' = [del EXCEPT ![s] = x]
        /\ UNCHANGED <<gates, gateEx, tab, add>>
    BY <1>4 DEF DelGate, Op, conf
  <2>2. QED
    BY <2>1
<1>5. CASE \E c \in Cmds : NewClient(s, c)
  <2>1. /\ pc[s] = "idle" /\ pc' = [pc EXCEPT ![s] = "gatelock"]
        /\ \E x : add' = [add EXCEPT ![s] = x]
        /\ UNCHANGED <<gates, gateEx, tab, del>>
    BY <1>5 DEF NewClient, Op, conf
  <2>2. QED
    BY <2>1
<1>6. QED
  BY <1>1, <1>2, <1>3, <1>4, <1>5

LEMMA GateElsewhere ==
  ASSUME GateInv, NEW s \in Sessions, Elsewhere(s)
  PROVE  GateInv' /\ gates' = gates
BY DEF GateInv, Elsewhere, Steps, AtGates, conf

LEMMA NextGateInv ==
  ASSUME GateInv, [Next]_vars
  PROVE  GateInv' /\ [OneCommand]_gates
<1>1. CASE UNCHANGED vars
  BY <1>1 DEF GateInv, vars, conf
<1>2. ASSUME NEW s \in Sessions, Step(s) \/ Client(s) \/ Crash(s)
      PROVE  GateInv' /\ [OneCommand]_gates
  <2>1. CASE GateLock(s) \/ GateSave(s)
    BY <2>1, GateStep, SaveStep DEF GateLock
  <2>2. CASE Connect(s) \/ Crash(s) \/ (\E c \in Cmds : AddGate(s, c) \/ DelGate(s, c) \/ NewClient(s, c))
    BY <2>2, GateClient
  <2>3. CASE \/ Exit(s) \/ LockCmd(s) \/ UnlockCmd(s) \/ UpdStart(s)
             \/ UpdOpen(s) \/ UpdTimeout(s) \/ UpdRead(s) \/ UpdClose(s) \/ UpdUnlock(s)
             \/ ApplyRead(s) \/ ApplySet(s)
             \/ \E n \in DOMAIN accs, c \in Contents : Change(s, n, c)
    <3>1. Elsewhere(s)
      BY <2>3, ElsewhereSteps DEF GateInv
    <3>2. QED
      BY <3>1, GateElsewhere
  <2>4. QED
    BY <1>2, <2>1, <2>2, <2>3 DEF Step, Client
<1>3. QED
  BY <1>1, <1>2 DEF Next

LEMMA GatesHeld == Spec => []GateInv
BY InitGateInv, NextGateInv, PTL DEF Spec

\* For any sessions and commands no gate of the file is lost or changed: a gate
\* command appends gates to the file as it is, or takes one out of it.
THEOREM GatesKept == Spec => NoGateLost
<1>1. GateInv /\ [Next]_vars => [OneCommand]_gates
  BY NextGateInv
<1>2. QED
  BY <1>1, GatesHeld, PTL DEF Spec, NoGateLost, OneCommand

-------------------------------------------------------------------------------
(* What the gates of the file claim.                                       *)

\* 2^n counts the subsets of n things, and a subset of two sets is a pair of
\* subsets: powers of two multiply.
LEMMA PowersOfTwo ==
  ASSUME NEW m \in Nat, NEW n \in Nat
  PROVE  2^(m + n) = 2^m * 2^n /\ 2^m \in Nat \ {0}
<1> DEFINE A == 1 .. m
           B == m + 1 .. m + n
           D == 1 .. m + n
           f == [s \in SUBSET D |-> <<s \cap A, s \cap B>>]
<1>1. /\ IsFiniteSet(A) /\ Cardinality(A) = m
      /\ IsFiniteSet(B) /\ Cardinality(B) = n
      /\ IsFiniteSet(D) /\ Cardinality(D) = m + n
  <2>1. Cardinality(A) = IF 1 > m THEN 0 ELSE m - 1 + 1
    BY FS_Interval
  <2>2. Cardinality(B) = IF m + 1 > m + n THEN 0 ELSE m + n - (m + 1) + 1
    BY FS_Interval
  <2>3. Cardinality(D) = IF 1 > m + n THEN 0 ELSE m + n - 1 + 1
    BY FS_Interval
  <2>4. IsFiniteSet(A) /\ IsFiniteSet(B) /\ IsFiniteSet(D)
    BY FS_Interval
  <2>5. QED
    BY <2>1, <2>2, <2>3, <2>4
<1>2. A \cap B = {} /\ A \cup B = D
  OBVIOUS
<1> HIDE DEF A, B, D
<1>3. f \in [SUBSET D -> (SUBSET A) \X (SUBSET B)]
  OBVIOUS
<1>4. \A s, t \in SUBSET D : f[s] = f[t] => s = t
  <2> TAKE s, t \in SUBSET D
  <2> HAVE f[s] = f[t]
  <2>1. s \cap A = t \cap A /\ s \cap B = t \cap B
    OBVIOUS
  <2>2. QED
    BY <1>2, <2>1
<1>5. \A p \in (SUBSET A) \X (SUBSET B) : \E s \in SUBSET D : f[s] = p
  <2> TAKE p \in (SUBSET A) \X (SUBSET B)
  <2> DEFINE s == p[1] \cup p[2]
  <2>1. s \in SUBSET D /\ s \cap A = p[1] /\ s \cap B = p[2] /\ p = <<p[1], p[2]>>
    BY <1>2
  <2>2. f[s] = p
    BY <2>1
  <2>3. QED
    BY <2>1, <2>2
<1>6. ExistsBijection(SUBSET D, (SUBSET A) \X (SUBSET B))
  <2> HIDE DEF f
  <2>1. f \in Bijection(SUBSET D, (SUBSET A) \X (SUBSET B))
    BY <1>3, <1>4, <1>5, Fun_IsBij
  <2>2. QED
    BY <2>1, Fun_ExistsBij
<1>7. /\ IsFiniteSet(SUBSET A) /\ Cardinality(SUBSET A) = 2^m
      /\ IsFiniteSet(SUBSET B) /\ Cardinality(SUBSET B) = 2^n
      /\ IsFiniteSet(SUBSET D) /\ Cardinality(SUBSET D) = 2^(m + n)
  BY <1>1, FS_SUBSET
<1>8. Cardinality((SUBSET A) \X (SUBSET B)) = 2^m * 2^n
  <2>1. Cardinality((SUBSET A) \X (SUBSET B)) = Cardinality(SUBSET A) * Cardinality(SUBSET B)
    BY <1>7, FS_Product
  <2>2. QED
    BY <1>7, <2>1
<1>9. 2^(m + n) = 2^m * 2^n
  BY <1>6, <1>7, <1>8, FS_Bijection
<1>10. 2^m \in Nat /\ 2^m # 0
  <2>1. Cardinality(SUBSET A) \in Nat /\ Cardinality(SUBSET A) # 0
    <3>1. SUBSET A # {}
      OBVIOUS
    <3>2. QED
      BY <1>7, <3>1, FS_CardinalityType, FS_EmptySet
  <2>2. QED
    BY <1>7, <2>1
<1>11. QED
  BY <1>9, <1>10

LEMMA DivideTwice ==
  \A x \in Int, p, q \in Nat \ {0} : x \div (p * q) = (x \div p) \div q
OBVIOUS

\* Addresses with a common prefix have all shorter prefixes in common.
LEMMA Coarser ==
  ASSUME NEW a \in Int, NEW b \in Int, NEW bits \in 0 .. Width, NEW short \in 0 .. bits,
         Prefix(a, bits) = Prefix(b, bits)
  PROVE  Prefix(a, short) = Prefix(b, short)
<1> DEFINE m == Width - bits
           n == bits - short
<1>1. m \in Nat /\ n \in Nat /\ Width - short = m + n
  BY WidthAssumption
<1>2. 2^(m + n) = 2^m * 2^n /\ 2^m \in Nat \ {0} /\ 2^n \in Nat \ {0}
  BY <1>1, PowersOfTwo
<1>3. a \div 2^m = b \div 2^m
  BY DEF Prefix
<1> HIDE DEF m, n
<1>4. a \div 2^(m + n) = (a \div 2^m) \div 2^n /\ b \div 2^(m + n) = (b \div 2^m) \div 2^n
  <2> DEFINE p == 2^m
             q == 2^n
  <2>1. 2^(m + n) = p * q /\ p \in Nat \ {0} /\ q \in Nat \ {0}
    BY <1>2
  <2> HIDE DEF p, q
  <2>2. \A x \in Int : x \div (p * q) = (x \div p) \div q
    BY <2>1, DivideTwice, Zenon
  <2>3. a \div (p * q) = (a \div p) \div q /\ b \div (p * q) = (b \div p) \div q
    BY <2>2, Zenon
  <2> QED
    BY <2>1, <2>3, Zenon DEF p, q
<1>5. a \div 2^(m + n) = b \div 2^(m + n)
  BY <1>3, <1>4
<1>6. QED
  <2>1. a \div 2^(Width - short) = b \div 2^(Width - short)
    BY <1>1, <1>5
  <2> QED
    BY <2>1 DEF Prefix

\* A gate of an address resource has a block of addresses.
Placed(g) == /\ g.uid \in Nat
             /\ fAddr(g.res) => g.name.addr \in Int /\ g.name.bits \in 0 .. Width
\* Two gates that GatesDistinct allows in one file.
Apart(g, h) ==
    /\ g.res = h.res => g.uid # h.uid
    /\ \A a \in 0 .. 2^Width - 1 : ~ (Matches(g, a) /\ Matches(h, a))
SoundGates(f) == \A i \in DOMAIN f : /\ Placed(f[i])
                                     /\ \A j \in DOMAIN f : i # j => Apart(f[i], f[j])
SoundTable(t) == IsSequence(t) /\ SoundGates(reslinks_save(t))

LEMMA SoundEntries ==
  ASSUME NEW t, IsSequence(t)
  PROVE  SoundTable(t) <=> \A i \in DOMAIN t :
            /\ Placed(t[i].gate)
            /\ \A j \in DOMAIN t : i # j => Apart(t[i].gate, t[j].gate)
BY DEF SoundTable, SoundGates, reslinks_save

\* A block that lookup_intersect() passes shares no address with the gate.
LEMMA NoSharedAddress ==
  ASSUME NEW g, Placed(g), NEW b, b.addr \in Int, b.bits \in 0 .. Width, ~ Intersects(g, b),
         NEW a \in Int, Matches(g, a)
  PROVE  Prefix(b.addr, b.bits) # Prefix(a, b.bits)
<1> DEFINE n == Bits(g)
           short == IF n < b.bits THEN n ELSE b.bits
<1>1. fAddr(g.res) /\ n = g.name.bits /\ n \in 0 .. Width /\ g.name.addr \in Int
  BY DEF Matches, Bits, Placed
<1>2. Prefix(g.name.addr, n) = Prefix(a, n) /\ Prefix(g.name.addr, short) # Prefix(b.addr, short)
  BY DEF Matches, Intersects
<1>3. short \in 0 .. n /\ short \in 0 .. b.bits
  BY <1>1
<1> HIDE DEF n, short
<1>4. Prefix(g.name.addr, short) = Prefix(a, short)
  BY <1>1, <1>2, <1>3, Coarser
<1>5. Prefix(b.addr, b.bits) = Prefix(a, b.bits) => Prefix(b.addr, short) = Prefix(a, short)
  BY <1>3, Coarser
<1>6. QED
  BY <1>2, <1>4, <1>5

\* Numbers have a largest one.
LEMMA Largest ==
  ASSUME NEW S, S \subseteq Int, IsFiniteSet(S), S # {}
  PROVE  \E u \in S : \A v \in S : v <= u
<1> DEFINE C == {T \in SUBSET S : T # {} /\ ~ \E u \in T : \A v \in T : v <= u}
<1>1. SUFFICES ASSUME C # {} PROVE FALSE
  OBVIOUS
<1>2. \A T \in C : IsFiniteSet(T)
  BY FS_Subset
<1>3. PICK T \in C : \A R \in C : R \subseteq T => R = T
  <2> HIDE DEF C
  <2>1. QED
    BY <1>1, <1>2, Smallest
<1>4. PICK x \in T : TRUE
  OBVIOUS
<1> DEFINE R == T \ {x}
<1>5. R # {}
  <2>1. R = {} => \A v \in T : v <= x
    OBVIOUS
  <2>2. QED
    BY <2>1
<1>6. R \notin C /\ R \in SUBSET S
  BY <1>3
<1>7. PICK u \in R : \A v \in R : v <= u
  BY <1>5, <1>6
<1>8. u \in Int /\ x \in Int
  OBVIOUS
<1>9. CASE x <= u
  BY <1>3, <1>7, <1>9
<1>10. CASE u <= x
  <2>1. \A v \in T : v <= x
    BY <1>7, <1>8, <1>10
  <2>2. QED
    BY <2>1
<1>11. QED
  BY <1>8, <1>9, <1>10

LEMMA MaxUidBounds ==
  ASSUME NEW t, IsSequence(t), \A i \in DOMAIN t : t[i].gate.uid \in Nat, NEW res
  PROVE  /\ MaxUid(t, res) + 1 \in Nat /\ MaxUid(t, res) \in Int
         /\ \A i \in DOMAIN t : t[i].gate.res = res => t[i].gate.uid <= MaxUid(t, res)
<1> DEFINE D == {j \in DOMAIN t : t[j].gate.res = res}
           uids == {t[i].gate.uid : i \in D}
           f == [i \in D |-> t[i].gate.uid]
<1>1. IsFiniteSet(D)
  <2>1. Len(t) \in Nat /\ DOMAIN t = 1 .. Len(t)
    BY DEF IsSequence
  <2>2. IsFiniteSet(1 .. Len(t))
    BY <2>1, FS_Interval
  <2>3. D \subseteq 1 .. Len(t)
    BY <2>1
  <2>4. QED
    BY <2>2, <2>3, FS_Subset
<1>2. IsFiniteSet(uids)
  <2>1. f \in Surjection(D, uids)
    BY Fun_IsSurj
  <2>2. QED
    BY <1>1, <2>1, FS_Surjection
<1>3. uids \subseteq Nat /\ uids \subseteq Int
  OBVIOUS
<1>4. MaxUid(t, res) = IF uids = {} THEN -1 ELSE CHOOSE u \in uids : \A v \in uids : v <= u
  BY DEF MaxUid
<1>5. \A i \in DOMAIN t : t[i].gate.res = res => t[i].gate.uid \in uids
  OBVIOUS
<1> HIDE DEF uids, D, f
<1>6. CASE uids = {}
  BY <1>4, <1>5, <1>6
<1>7. CASE uids # {}
  <2>1. \E u \in uids : \A v \in uids : v <= u
    BY <1>2, <1>3, <1>7, Largest
  <2>2. MaxUid(t, res) \in uids /\ \A v \in uids : v <= MaxUid(t, res)
    BY <1>4, <1>7, <2>1
  <2>3. MaxUid(t, res) \in Nat
    BY <1>3, <2>2
  <2>4. \A i \in DOMAIN t : t[i].gate.res = res => t[i].gate.uid <= MaxUid(t, res)
    BY <1>5, <2>2
  <2>5. QED
    BY <2>3, <2>4
<1>8. QED
  BY <1>6, <1>7

\* A command gives an address resource a number for an address.
Given(g) == fAddr(g.res) => g.name.addr \in Int

\* A new gate is apart from those of the table.
LEMMA NewSound ==
  ASSUME NEW t, SoundTable(t), NEW res, NEW acc, NEW name, fAddr(res) => name.addr \in Int
  PROVE  SoundTable(reslink_new(t, res, acc, name))
<1>1. CASE NewName(t, res, name) = {}
  BY <1>1 DEF reslink_new
<1>2. CASE NewName(t, res, name) # {}
  <2> DEFINE b == CHOOSE c \in NewName(t, res, name) : TRUE
             g == [res |-> res, uid |-> MaxUid(t, res) + 1, acc |-> acc, name |-> b]
             x == [gate |-> g, allow |-> TRUE]
  <2>1. reslink_new(t, res, acc, name) = Append(t, x) /\ x.gate = g /\ b \in NewName(t, res, name)
    BY <1>2 DEF reslink_new
  <2>2. /\ IsSequence(t) /\ \A i \in DOMAIN t : Placed(t[i].gate)
        /\ \A i, j \in DOMAIN t : i # j => Apart(t[i].gate, t[j].gate)
    BY SoundEntries DEF SoundTable
  <2>3. /\ g.uid \in Nat /\ g.res = res /\ g.name = b
        /\ \A i \in DOMAIN t : t[i].gate.res = res => t[i].gate.uid \in Nat /\ t[i].gate.uid < g.uid
    <3>1. \A i \in DOMAIN t : t[i].gate.uid \in Nat
      BY <2>2 DEF Placed
    <3>2. /\ MaxUid(t, res) + 1 \in Nat /\ MaxUid(t, res) \in Int
          /\ \A i \in DOMAIN t : t[i].gate.res = res => t[i].gate.uid <= MaxUid(t, res)
      BY <2>2, <3>1, MaxUidBounds
    <3>3. \A u \in Nat, m \in Int : u <= m => u < m + 1
      OBVIOUS
    <3>4. QED
      BY <3>1, <3>2, <3>3
  <2> HIDE DEF g, x, b
  <2>4. fAddr(res) => /\ b.addr \in Int /\ b.bits \in 0 .. Width
                      /\ \A i \in DOMAIN t : ~ Intersects(t[i].gate, b)
    BY <2>1 DEF NewName, make_addrandmask
  <2>5. Placed(g)
    BY <2>3, <2>4 DEF Placed
  <2>6. ASSUME NEW i \in DOMAIN t PROVE Apart(t[i].gate, g) /\ Apart(g, t[i].gate)
    <3> DEFINE h == t[i].gate
    <3>1. h.res = g.res => h.uid # g.uid
      BY <2>3
    <3>2. ASSUME NEW a \in 0 .. 2^Width - 1, Matches(h, a), Matches(g, a) PROVE FALSE
      <4>1. fAddr(res) /\ Prefix(b.addr, b.bits) = Prefix(a, b.bits)
        BY <2>3, <3>2 DEF Matches, Bits
      <4>2. Placed(h) /\ a \in Int
        BY <2>2
      <4> HIDE DEF h
      <4>3. QED
        BY <2>4, <3>2, <4>1, <4>2, NoSharedAddress DEF h
    <3>3. QED
      BY <3>1, <3>2 DEF Apart
  <2>7. PICK S : t \in Seq(S)
    BY <2>2 DEF IsSequence
  <2>8. t \in Seq(S \cup {x})
    BY <2>7, SeqMonotonic
  <2>9. /\ Append(t, x) \in Seq(S \cup {x}) /\ Len(Append(t, x)) = Len(t) + 1
        /\ \A i \in 1 .. Len(t) : Append(t, x)[i] = t[i]
        /\ Append(t, x)[Len(t) + 1] = x
    BY <2>8, AppendProperties
  <2>10. Len(t) \in Nat /\ DOMAIN t = 1 .. Len(t) /\ DOMAIN Append(t, x) = 1 .. Len(t) + 1
    BY <2>7, <2>9
  <2>11. IsSequence(Append(t, x))
    BY <2>9 DEF IsSequence
  <2> DEFINE u == Append(t, x)
             last == Len(t) + 1
  <2>12. /\ DOMAIN u = DOMAIN t \cup {last} /\ last \notin DOMAIN t
         /\ \A i \in DOMAIN t : u[i].gate = t[i].gate
         /\ u[last].gate = g
    BY <2>1, <2>9, <2>10
  <2> HIDE DEF u, last
  <2>13. ASSUME NEW i \in DOMAIN u
         PROVE  /\ Placed(u[i].gate)
                /\ \A j \in DOMAIN u : i # j => Apart(u[i].gate, u[j].gate)
    <3>1. Placed(u[i].gate)
      BY <2>2, <2>5, <2>12
    <3>2. ASSUME NEW j \in DOMAIN u, i # j PROVE Apart(u[i].gate, u[j].gate)
      BY <2>2, <2>6, <2>12, <3>2
    <3>3. QED
      BY <3>1, <3>2
  <2>14. SoundTable(u)
    BY <2>11, <2>13, SoundEntries DEF u
  <2>15. QED
    BY <2>1, <2>14 DEF u
<1>3. QED
  BY <1>1, <1>2

\* What a command is about to add.
GivenAll(new) == /\ Len(new) # 0 => Given(new[1])
                 /\ Len(new) \notin {0, 1} => Given(new[2])

LEMMA AddedSound ==
  ASSUME NEW t, SoundTable(t), NEW new, GivenAll(new)
  PROVE  SoundTable(Added(t, new))
<1> DEFINE Try(u, g) == reslink_new(u, g.res, g.acc, g.name)
<1>1. ASSUME NEW u, SoundTable(u), NEW g, Given(g) PROVE SoundTable(Try(u, g))
  BY <1>1, NewSound DEF Given
<1>2. Added(t, new) = CASE Len(new) = 0 -> t
                        [] Len(new) = 1 -> Try(t, new[1])
                        [] OTHER -> Try(Try(t, new[1]), new[2])
  BY DEF Added
<1> HIDE DEF Try
<1>3. CASE Len(new) = 0
  BY <1>2, <1>3
<1>4. CASE Len(new) = 1
  BY <1>1, <1>2, <1>4 DEF GivenAll
<1>5. CASE Len(new) \notin {0, 1}
  <2>1. SoundTable(Try(t, new[1]))
    BY <1>1, <1>5 DEF GivenAll
  <2>2. SoundTable(Try(Try(t, new[1]), new[2]))
    BY <1>1, <1>5, <2>1 DEF GivenAll
  <2>3. QED
    BY <1>2, <1>5, <2>2
<1>6. QED
  BY <1>3, <1>4, <1>5

LEMMA DelSound ==
  ASSUME NEW t, SoundTable(t), NEW i \in DOMAIN t
  PROVE  SoundTable(reslink_del(t, i))
<1> DEFINE u == reslink_del(t, i)
           From(j) == IF j < i THEN j ELSE j + 1
<1>1. /\ IsSequence(u) /\ Len(u) = Len(t) - 1
      /\ \A j \in 1 .. Len(t) - 1 : u[j] = IF j < i THEN t[j] ELSE t[j + 1]
  BY RemovedElements DEF reslink_del, SoundTable
<1>2. DOMAIN u = 1 .. Len(t) - 1 /\ DOMAIN t = 1 .. Len(t) /\ Len(t) \in Nat /\ i \in Nat
  BY <1>1 DEF SoundTable, IsSequence
<1> HIDE DEF u
<1>3. \A j \in DOMAIN u : u[j] = t[From(j)] /\ From(j) \in DOMAIN t
  BY <1>1, <1>2
<1>4. \A j, k \in DOMAIN u : j # k => From(j) # From(k)
  BY <1>2
<1> HIDE DEF From
<1>5. \A j \in DOMAIN u : /\ Placed(u[j].gate)
                          /\ \A k \in DOMAIN u : j # k => Apart(u[j].gate, u[k].gate)
  BY <1>3, <1>4, SoundEntries DEF SoundTable
<1>6. QED
  BY <1>1, <1>5, SoundEntries DEF u

\* The gate file holds gates that are apart when the core starts, and commands
\* give address resources a block of addresses.
SoundStart == SoundGates(InitGates)
AddressedCmds ==
    \A c \in Cmds : c.op = "new_vpn" \/ (c.op = "addgate" /\ fAddr(c.res)) =>
        c.name \in [addr : Int, bits : Int]

ApartInv == SoundGates(gates) /\ \A s \in Sessions : GivenAll(add[s])

LEMMA NothingGiven == GivenAll(<< >>)
BY DEF GivenAll

LEMMA SaveSound ==
  ASSUME GateInv, ApartInv, NEW s \in Sessions, GateSave(s)
  PROVE  ApartInv'
<1>1. tab[s] = reslinks_load(gates) /\ IsSequence(gates) /\ DOMAIN add = Sessions
  BY DEF GateInv, GateSave
<1>2. SoundTable(tab[s])
  <2>1. reslinks_save(tab[s]) = gates /\ IsSequence(tab[s])
    BY <1>1, SavedLoaded
  <2>2. QED
    BY <2>1 DEF SoundTable, ApartInv
<1>3. SoundTable(Added(tab[s], add[s]))
  BY <1>2, AddedSound DEF ApartInv
<1>4. ASSUME NEW t \in Removed(Added(tab[s], add[s]), del[s]) PROVE SoundTable(t)
  BY <1>3, <1>4, DelSound DEF Removed, Doomed
<1>5. PICK t \in IF Removed(tab[s], del[s]) = {} THEN {tab[s]}
                 ELSE Removed(Added(tab[s], add[s]), del[s]) :
             gates' = reslinks_save(t)
  BY DEF GateSave
<1>6. SoundTable(t)
  BY <1>2, <1>4, <1>5
<1>7. SoundGates(gates)'
  BY <1>5, <1>6 DEF SoundTable, SoundGates
<1>8. \A r \in Sessions : GivenAll(add'[r])
  <2>1. add' = [add EXCEPT ![s] = << >>]
    BY DEF GateSave
  <2>2. QED
    BY <1>1, <2>1, NothingGiven DEF ApartInv
<1>9. QED
  BY <1>7, <1>8 DEF ApartInv

\* The gates a command announces.
LEMMA AnnouncedGiven ==
  ASSUME AddressedCmds, NEW s \in Sessions, DOMAIN add = Sessions,
         \E c \in Cmds : AddGate(s, c) \/ DelGate(s, c) \/ NewClient(s, c)
  PROVE  add' = add \/ \E new : add' = [add EXCEPT ![s] = new] /\ GivenAll(new)
<1>1. PICK c \in Cmds : AddGate(s, c) \/ DelGate(s, c) \/ NewClient(s, c)
  OBVIOUS
<1>2. CASE AddGate(s, c)
  <2>1. PICK acc \in AccOf(s, c) :
          add' = [add EXCEPT ![s] = <<[res |-> c.res, acc |-> acc, name |-> c.name]>>]
    BY <1>2 DEF AddGate
  <2> DEFINE g == [res |-> c.res, acc |-> acc, name |-> c.name]
  <2>2. Given(g)
    BY <1>2 DEF AddGate, AddressedCmds, Given
  <2> HIDE DEF g
  <2>3. Len(<<g>>) = 1 /\ <<g>>[1] = g
    OBVIOUS
  <2>4. GivenAll(<<g>>)
    BY <2>2, <2>3 DEF GivenAll
  <2>5. QED
    BY <2>1, <2>4 DEF g
<1>3. CASE DelGate(s, c)
  BY <1>3 DEF DelGate
<1>4. CASE NewClient(s, c)
  <2> DEFINE n == Len(accs) + 1
             new == NewGates(c, n)
  <2>1. add' = [add EXCEPT ![s] = new] /\ c.op \in {"new_vpn", "new_contract"}
    BY <1>4 DEF NewClient
  <2>2. PICK g, h : new = <<g, h>> /\ Given(g) /\ Given(h)
    BY <2>1 DEF NewGates, AddressedCmds, Given, fAddr
  <2> HIDE DEF new
  <2>3. Len(<<g, h>>) = 2 /\ <<g, h>>[1] = g /\ <<g, h>>[2] = h
    OBVIOUS
  <2>4. GivenAll(new)
    BY <2>2, <2>3 DEF GivenAll
  <2>5. QED
    BY <2>1, <2>4
<1>5. QED
  BY <1>1, <1>2, <1>3, <1>4

LEMMA NextApart ==
  ASSUME AddressedCmds, GateInv, ApartInv, [Next]_vars
  PROVE  ApartInv'
<1>1. CASE UNCHANGED vars
  BY <1>1 DEF vars, conf, ApartInv, SoundGates
<1>2. ASSUME NEW s \in Sessions, Step(s) \/ Client(s) \/ Crash(s)
      PROVE  ApartInv'
  <2>0. DOMAIN add = Sessions /\ pc \in [Sessions -> Steps]
    BY DEF GateInv
  <2>1. CASE GateSave(s)
    BY <2>1, SaveSound
  <2>2. CASE gates' = gates /\ (add' = add \/ \E new : add' = [add EXCEPT ![s] = new] /\ GivenAll(new))
    BY <2>0, <2>2 DEF ApartInv, SoundGates
  <2>3. CASE GateLock(s) \/ Connect(s)
    BY <2>2, <2>3 DEF GateLock, Connect, conf
  <2>4. CASE Crash(s)
    BY <2>2, <2>4, NothingGiven DEF Crash
  <2>5. CASE \E c \in Cmds : AddGate(s, c) \/ DelGate(s, c) \/ NewClient(s, c)
    BY <2>0, <2>2, <2>5, GateClient, AnnouncedGiven
  <2>6. CASE Elsewhere(s)
    BY <2>2, <2>6 DEF Elsewhere, conf
  <2>7. QED
    BY <1>2, <2>0, <2>1, <2>3, <2>4, <2>5, <2>6, ElsewhereSteps DEF Step, Client
<1>3. QED
  BY <1>1, <1>2 DEF Next

\* Whatever sessions add and delete gates, with old and new tables, no number of a
\* resource and no address belongs to two gates of the file (reslink_new and
\* make_addrandmask, links.c), if that is so at the start.
THEOREM GatesStayApart == SoundStart /\ AddressedCmds /\ Spec => []GatesDistinct
<1>1. SoundStart /\ Init => ApartInv
  BY NothingGiven DEF Init, SoundStart, ApartInv
<1>2. AddressedCmds /\ GateInv /\ ApartInv /\ [Next]_vars => ApartInv'
  BY NextApart
<1>3. ApartInv => GatesDistinct
  BY DEF ApartInv, SoundGates, GatesDistinct, Apart
<1>4. SUFFICES ASSUME SoundStart, AddressedCmds PROVE Spec => []GatesDistinct
  OBVIOUS
<1>5. QED
  BY <1>1, <1>2, <1>3, <1>4, GatesHeld, PTL DEF Spec

-------------------------------------------------------------------------------
(* The firewall.                                                           *)

\* One update at a time holds the lock; unless one began during the script of
\* another, sessions past the lock are one at most, and the firewall has the list
\* when there is none.
Busy == {"updread", "updunlock"} \cup Applying

FireInv ==
    /\ DOMAIN got = Sessions
    /\ \A s \in Sessions : pc[s] \in {"updread", "updunlock"} => updEx = s
    /\ ~ raced =>
          /\ \A s, t \in Sessions : pc[s] \in Busy /\ pc[t] \in Busy => s = t
          /\ \A s \in Sessions : pc[s] = "applyset" => got[s] = grant["inet"]
          /\ (\A s \in Sessions : pc[s] \notin Busy) => active = grant["inet"]

LEMMA InitFireInv == Init => FireInv
<1>1. "inet" \in Counted
  BY DEF Counted
<1>2. QED
  BY <1>1 DEF Init, FireInv, Busy, Applying

\* Steps that have nothing to do with the permission files.
Inert(s) ==
    /\ UNCHANGED <<updEx, grant, active, got, raced>>
    /\ pc[s] \notin Busy
    /\ pc' = pc \/ \E x \in Steps \ Busy : pc' = [pc EXCEPT ![s] = x]

LEMMA InertSteps ==
  ASSUME NEW s \in Sessions, pc \in [Sessions -> Steps],
         \/ Connect(s) \/ Exit(s) \/ LockCmd(s) \/ UnlockCmd(s) \/ UpdStart(s) \/ UpdTimeout(s)
         \/ GateLock(s) \/ GateSave(s)
         \/ \E n \in DOMAIN accs, c \in Contents : Change(s, n, c)
         \/ \E c \in Cmds : AddGate(s, c) \/ DelGate(s, c) \/ NewClient(s, c)
  PROVE  Inert(s)
<1> USE DEF Inert, Busy, Steps, Updating, Applying, AtGates, Goto, update
<1>1. CASE Connect(s) \/ Exit(s) \/ LockCmd(s) \/ UnlockCmd(s) \/ UpdStart(s) \/ UpdTimeout(s)
  BY <1>1 DEF Connect, Exit, LockCmd, UnlockCmd, UpdStart, UpdTimeout, Op
<1>2. CASE GateLock(s) \/ GateSave(s)
  BY <1>2 DEF GateLock, GateSave
<1>3. CASE \E n \in DOMAIN accs, c \in Contents : Change(s, n, c)
  BY <1>3 DEF Change, Op
<1>4. CASE \E c \in Cmds : AddGate(s, c) \/ DelGate(s, c) \/ NewClient(s, c)
  BY <1>4 DEF AddGate, DelGate, NewClient, Op
<1>5. QED
  BY <1>1, <1>2, <1>3, <1>4

LEMMA InertFire ==
  ASSUME FireInv, NEW s \in Sessions, pc \in [Sessions -> Steps], Inert(s)
  PROVE  FireInv'
<1>1. \A t \in Sessions : /\ pc'[t] \in Busy <=> pc[t] \in Busy
                          /\ pc[t] \in Busy => pc'[t] = pc[t]
  BY DEF Inert
<1>2. \A t \in Sessions : /\ pc'[t] = "applyset" => pc[t] = "applyset"
                          /\ pc'[t] \in {"updread", "updunlock"} => pc[t] \in {"updread", "updunlock"}
  BY <1>1 DEF Busy, Applying
<1>3. QED
  BY <1>1, <1>2 DEF FireInv, Inert

LEMMA UpdateFire ==
  ASSUME FireInv, NEW s \in Sessions, pc \in [Sessions -> Steps],
         UpdOpen(s) \/ UpdRead(s) \/ UpdClose(s) \/ UpdUnlock(s) \/ ApplyRead(s) \/ ApplySet(s)
         \/ Crash(s)
  PROVE  FireInv'
<1> USE DEF Busy, Applying, Goto
<1>0. \A t \in Sessions \ {s} : pc'[t] = pc[t]
  BY DEF UpdOpen, UpdRead, UpdClose, UpdUnlock, ApplyRead, ApplySet, Crash
<1>1. CASE UpdOpen(s)
  <2>1. \A t \in Sessions : pc[t] \notin {"updread", "updunlock"}
    BY <1>1 DEF UpdOpen, MayUpdate, FireInv
  <2>2. /\ updEx' = s /\ pc'[s] = "updread" /\ got' = got
        /\ ~ raced' => \A t \in Sessions \ {s} : pc[t] \notin Applying
    BY <1>1 DEF UpdOpen
  <2>3. QED
    BY <1>0, <2>1, <2>2 DEF FireInv
<1>2. CASE UpdRead(s)
  BY <1>2 DEF UpdRead, FireInv
<1>3. CASE UpdClose(s)
  <2>1. /\ pc[s] = "updread" /\ pc'[s] = "updunlock"
        /\ UNCHANGED <<updEx, active, got, raced>>
    BY <1>3 DEF UpdClose
  <2>2. QED
    BY <1>0, <2>1 DEF FireInv
<1>4. CASE UpdUnlock(s)
  <2>1. /\ pc[s] = "updunlock" /\ pc'[s] = "applyread" /\ updEx = s
        /\ UNCHANGED <<grant, active, got, raced>>
    BY <1>4 DEF UpdUnlock, FireInv
  <2>2. \A t \in Sessions \ {s} : pc[t] \notin {"updread", "updunlock"}
    BY <2>1 DEF FireInv
  <2>3. QED
    BY <1>0, <2>1, <2>2 DEF FireInv
<1>5. CASE ApplyRead(s)
  <2>1. /\ pc[s] = "applyread" /\ pc'[s] = "applyset"
        /\ got' = [got EXCEPT ![s] = grant["inet"]]
        /\ UNCHANGED <<updEx, grant, active, raced>>
    BY <1>5 DEF ApplyRead
  <2>2. QED
    BY <1>0, <2>1 DEF FireInv
<1>6. CASE ApplySet(s)
  <2>1. /\ pc[s] = "applyset" /\ pc'[s] = "idle" /\ active' = got[s]
        /\ got' = [got EXCEPT ![s] = {}]
        /\ UNCHANGED <<updEx, grant, raced>>
    BY <1>6 DEF ApplySet
  <2>2. ~ raced => active' = grant["inet"]
    BY <2>1 DEF FireInv
  <2>3. QED
    BY <1>0, <2>1, <2>2 DEF FireInv
<1>7. CASE Crash(s)
  <2>1. /\ pc'[s] = "gone" /\ got' = [got EXCEPT ![s] = {}]
        /\ updEx' = IF updEx = s THEN None ELSE updEx
        /\ raced' = (raced \/ pc[s] \in Updating \ {"updlock"})
        /\ UNCHANGED <<grant, active>>
    BY <1>7 DEF Crash
  <2>2. ~ raced' => ~ raced /\ pc[s] \notin Busy
    BY <2>1 DEF Updating
  <2>3. QED
    BY <1>0, <2>1, <2>2 DEF FireInv
<1>8. QED
  BY <1>1, <1>2, <1>3, <1>4, <1>5, <1>6, <1>7

LEMMA NextFireInv ==
  ASSUME GateInv, FireInv, [Next]_vars
  PROVE  FireInv'
<1>1. pc \in [Sessions -> Steps]
  BY DEF GateInv
<1>2. CASE UNCHANGED vars
  BY <1>2 DEF FireInv, vars, update
<1>3. ASSUME NEW s \in Sessions, Step(s) \/ Client(s) \/ Crash(s)
      PROVE  FireInv'
  BY <1>1, <1>3, InertSteps, InertFire, UpdateFire DEF Step, Client
<1>4. QED
  BY <1>2, <1>3 DEF Next

\* For any sessions, gates and accounts, the firewall lets through what allowed.inet
\* says when no update runs, unless one began during the script of another or a
\* session died on its way.
THEOREM FirewallSettles == Spec => []ActiveSettles
<1>1. GateInv /\ FireInv /\ [Next]_vars => FireInv'
  BY NextFireInv
<1>2. Spec => []FireInv
  BY <1>1, InitFireInv, GatesHeld, PTL DEF Spec
<1>3. FireInv => ActiveSettles
  BY DEF FireInv, ActiveSettles, Updating, Busy
<1>4. QED
  BY <1>2, <1>3, PTL
-------------------------------------------------------------------------------
(* What an update publishes.                                               *)

Flags(t) == IsSequence(t) /\ \A i \in DOMAIN t : t[i].allow \in BOOLEAN

\* Accounts that have access, and what opens a gate.
Fine == {m \in DOMAIN accs : Allowed(m)}
Opens(g, fine) == g.allow /\ g.gate.acc \in fine

\* The files yes and no say of table t what the accounts in fine decide: all gates
\* of accounts in read are placed, and no name is granted by a gate of an account
\* in sure that does not open.
Rights(t, yes, no, read, sure, fine) ==
    \A r \in Counted :
       /\ \A i \in DOMAIN t :
             t[i].gate.res = r /\ t[i].gate.acc \in read =>
                t[i].gate.name \in (IF Opens(t[i], fine) THEN yes[r] ELSE no[r])
       /\ \A name \in yes[r] : \E i \in DOMAIN t :
             /\ t[i].gate.res = r /\ t[i].gate.name = name
             /\ t[i].gate.acc \in sure => Opens(t[i], fine)

\* Accounts whose rights are as they were decided, and those that would be if the
\* update of a session ended now.
Settled == DOMAIN accs \ owed
Sure(s) == DOMAIN accs \ (owed \ covers[s].accs)

Halfway(s) ==
    /\ \A m \in Sure(s) : m <= upd[s].n
    /\ Rights(tab[s], upd[s].yes, upd[s].no, {m \in Sure(s) : m < upd[s].k}, Sure(s), Fine)

PubShape ==
    /\ accs \in Seq(AccRec)
    /\ DOMAIN covers = Sessions /\ DOMAIN upd = Sessions
    /\ \A s \in Sessions :
          /\ Flags(tab[s])
          /\ covers[s] \in [accs : SUBSET Nat, gates : {covers[s].gates}]
          /\ upd[s] \in [k : Nat, n : Nat, yes : {upd[s].yes}, no : {upd[s].no}]

PubInv ==
    /\ PubShape
    /\ ~ wiped => Rights(pub, grant, deny, Settled, Settled, Fine)
    /\ \A s \in Sessions : pc[s] = "updread" => Halfway(s)

LEMMA AllowedIsFine == \A m : Allowed(m) <=> m \in Fine
BY DEF Fine, Allowed, acci_get

\* Fewer accounts are read or sure, and those that still are have not changed.
Narrows(read, sure, fine, read2, sure2, fine2) ==
    /\ read \subseteq sure /\ read2 \subseteq read \cap sure2 /\ sure2 \subseteq sure
    /\ \A m \in sure2 : m \in fine <=> m \in fine2

LEMMA RightsKept ==
  ASSUME NEW t, NEW yes, NEW no, NEW read, NEW sure, NEW fine,
         NEW read2, NEW sure2, NEW fine2,
         Rights(t, yes, no, read, sure, fine),
         Narrows(read, sure, fine, read2, sure2, fine2)
  PROVE  Rights(t, yes, no, read2, sure2, fine2)
BY DEF Rights, Opens, Narrows

-------------------------------------------------------------------------------
LEMMA LoadedFlags ==
  ASSUME NEW links, IsSequence(links)
  PROVE  Flags(reslinks_load(links))
<1>1. \A i \in DOMAIN links : reslinks_load(links)[i].allow \in BOOLEAN
  BY DEF reslinks_load
<1>2. QED
  BY <1>1, SavedLoaded DEF Flags

LEMMA NewFlags ==
  ASSUME NEW t, Flags(t), NEW res, NEW acc, NEW name
  PROVE  Flags(reslink_new(t, res, acc, name))
<1>1. CASE NewName(t, res, name) = {}
  BY <1>1 DEF reslink_new
<1>2. CASE NewName(t, res, name) # {}
  <2> DEFINE x == [gate  |-> [res |-> res, uid |-> MaxUid(t, res) + 1, acc |-> acc,
                              name |-> CHOOSE b \in NewName(t, res, name) : TRUE],
                   allow |-> TRUE]
  <2>1. reslink_new(t, res, acc, name) = Append(t, x) /\ x.allow = TRUE
    BY <1>2 DEF reslink_new
  <2> HIDE DEF x
  <2>2. PICK S : t \in Seq(S)
    BY DEF Flags, IsSequence
  <2>3. t \in Seq(S \cup {x})
    BY <2>2, SeqMonotonic
  <2>4. /\ Append(t, x) \in Seq(S \cup {x}) /\ Len(Append(t, x)) = Len(t) + 1
        /\ \A i \in 1 .. Len(t) : Append(t, x)[i] = t[i]
        /\ Append(t, x)[Len(t) + 1] = x
    BY <2>3, AppendProperties
  <2>5. Len(t) \in Nat /\ DOMAIN t = 1 .. Len(t) /\ DOMAIN Append(t, x) = 1 .. Len(t) + 1
    BY <2>2, <2>4
  <2>6. \A i \in DOMAIN Append(t, x) : Append(t, x)[i].allow \in BOOLEAN
    <3> TAKE i \in DOMAIN Append(t, x)
    <3>1. CASE i \in 1 .. Len(t)
      BY <2>4, <2>5, <3>1 DEF Flags
    <3>2. CASE i = Len(t) + 1
      BY <2>1, <2>4, <3>2
    <3>3. QED
      BY <2>5, <3>1, <3>2
  <2>7. QED
    BY <2>1, <2>4, <2>6 DEF Flags, IsSequence
<1>3. QED
  BY <1>1, <1>2

LEMMA AddedFlags ==
  ASSUME NEW t, Flags(t), NEW new
  PROVE  Flags(Added(t, new))
<1> DEFINE Try(u, g) == reslink_new(u, g.res, g.acc, g.name)
<1>1. Flags(Try(t, new[1]))
  BY NewFlags
<1>2. Flags(Try(Try(t, new[1]), new[2]))
  BY <1>1, NewFlags
<1>3. QED
  BY <1>1, <1>2 DEF Added

LEMMA DelFlags ==
  ASSUME NEW t, Flags(t), NEW i \in DOMAIN t
  PROVE  Flags(reslink_del(t, i))
<1> DEFINE u == reslink_del(t, i)
<1>1. /\ IsSequence(u) /\ Len(u) = Len(t) - 1
      /\ \A j \in 1 .. Len(t) - 1 : u[j] = IF j < i THEN t[j] ELSE t[j + 1]
  BY RemovedElements DEF reslink_del, Flags
<1>2. DOMAIN u = 1 .. Len(t) - 1 /\ DOMAIN t = 1 .. Len(t) /\ Len(t) \in Nat
  BY <1>1 DEF Flags, IsSequence
<1> HIDE DEF u
<1>3. \A j \in DOMAIN u : u[j].allow \in BOOLEAN
  <2> TAKE j \in DOMAIN u
  <2>1. u[j] \in {t[j], t[j + 1]} /\ j \in DOMAIN t /\ j + 1 \in DOMAIN t
    BY <1>1, <1>2
  <2>2. QED
    BY <2>1 DEF Flags
<1>4. QED
  BY <1>1, <1>3 DEF Flags, u

\* A gate command leaves a table of gates.
LEMMA SaveFlags ==
  ASSUME NEW s \in Sessions, DOMAIN tab = Sessions, Flags(tab[s]), GateSave(s)
  PROVE  Flags(tab'[s])
<1>1. tab'[s] = tab[s] \/ tab'[s] \in Removed(Added(tab[s], add[s]), del[s])
  BY DEF GateSave
<1>2. Flags(Added(tab[s], add[s]))
  BY AddedFlags
<1>3. \A t : t \in Removed(Added(tab[s], add[s]), del[s]) => Flags(t)
  BY <1>2, DelFlags DEF Removed, Doomed
<1>4. QED
  BY <1>1, <1>3
-------------------------------------------------------------------------------
LEMMA InitPubInv == Init => PubInv
<1> SUFFICES ASSUME Init PROVE PubInv
  OBVIOUS
<1>1. PubShape
  <2>1. << >> \in Seq({}) /\ IsSequence(<< >>)
    BY DEF IsSequence
  <2>2. \A s \in Sessions : Flags(tab[s])
    BY <2>1 DEF Init, Flags
  <2>3. QED
    BY <2>2 DEF Init, PubShape, Nothing, NoJob
<1>2. Settled = {} /\ pub = << >> /\ grant = [r \in Counted |-> {}]
  BY DEF Init, Settled
<1>3. Rights(pub, grant, deny, Settled, Settled, Fine)
  BY <1>2 DEF Rights
<1>4. \A s \in Sessions : pc[s] # "updread"
  BY DEF Init
<1>5. QED
  BY <1>1, <1>3, <1>4 DEF PubInv

\* Steps of a session that touch neither accounts nor permission files, and only its
\* own table, update and what it covers.
Quiet(s) ==
    /\ UNCHANGED <<accs, owed, grant, deny, pub, wiped>>
    /\ pc'[s] # "updread"
    /\ \A t \in Sessions \ {s} :
          pc'[t] = pc[t] /\ tab'[t] = tab[t] /\ covers'[t] = covers[t] /\ upd'[t] = upd[t]
    /\ DOMAIN tab' = Sessions /\ DOMAIN covers' = Sessions /\ DOMAIN upd' = Sessions

LEMMA QuietStep ==
  ASSUME PubInv, NEW s \in Sessions, Quiet(s),
         Flags(tab'[s]), covers'[s] \in [accs : SUBSET Nat, gates : {covers'[s].gates}],
         upd'[s] \in [k : Nat, n : Nat, yes : {upd'[s].yes}, no : {upd'[s].no}]
  PROVE  PubInv'
<1>1. PubShape'
  BY DEF PubInv, PubShape, Quiet
<1>2. Settled' = Settled /\ Fine' = Fine
  BY DEF Quiet, Settled, Fine, Allowed
<1>3. \A t \in Sessions \ {s} : Sure(t)' = Sure(t)
  BY DEF Quiet, Sure
<1>4. ASSUME NEW t \in Sessions, pc'[t] = "updread"
      PROVE  Halfway(t)'
  <2>1. t # s /\ pc[t] = "updread" /\ tab'[t] = tab[t] /\ upd'[t] = upd[t]
    BY <1>4 DEF Quiet
  <2>2. Halfway(t) /\ Sure(t)' = Sure(t)
    BY <1>3, <2>1 DEF PubInv
  <2>3. {m \in Sure(t) : m < upd[t].k}' = {m \in Sure(t) : m < upd[t].k}
    BY <2>1, <2>2
  <2>4. QED
    BY <1>2, <2>1, <2>2, <2>3 DEF Halfway
<1>5. ~ wiped' => Rights(pub, grant, deny, Settled, Settled, Fine)'
  BY <1>2 DEF PubInv, Quiet
<1>6. QED
  BY <1>1, <1>4, <1>5 DEF PubInv

LEMMA TableStep ==
  ASSUME PubInv, GateInv, NEW s \in Sessions, Connect(s) \/ GateLock(s) \/ GateSave(s)
  PROVE  PubInv'
<1> USE DEF Goto, update
<1>1. DOMAIN tab = Sessions /\ pc \in [Sessions -> Steps] /\ IsSequence(gates)
  BY DEF GateInv
<1>2. Quiet(s) /\ covers'[s] = covers[s] /\ upd'[s] = upd[s]
  BY <1>1 DEF PubInv, PubShape, Quiet, Connect, GateLock, GateSave
<1>3. Flags(tab'[s])
  <2>1. CASE Connect(s) \/ GateLock(s)
    <3>1. tab'[s] = reslinks_load(gates)
      BY <1>1, <2>1 DEF Connect, GateLock, Reread
    <3>2. QED
      BY <1>1, <3>1, LoadedFlags
  <2>2. CASE GateSave(s)
    BY <1>1, <2>2, SaveFlags DEF PubInv, PubShape
  <2>3. QED
    BY <2>1, <2>2
<1>4. QED
  BY <1>2, <1>3, QuietStep DEF PubInv, PubShape

LEMMA AsideStep ==
  ASSUME PubInv, GateInv, NEW s \in Sessions,
         \/ Exit(s) \/ LockCmd(s) \/ UnlockCmd(s) \/ UpdStart(s) \/ UpdTimeout(s)
         \/ UpdUnlock(s) \/ ApplyRead(s) \/ ApplySet(s) \/ Crash(s)
         \/ \E c \in Cmds : AddGate(s, c) \/ DelGate(s, c)
  PROVE  PubInv'
<1> USE DEF Goto, update, Op
<1>1. DOMAIN tab = Sessions /\ pc \in [Sessions -> Steps]
  BY DEF GateInv
<1>2. /\ DOMAIN covers = Sessions /\ DOMAIN upd = Sessions /\ DOMAIN accs \subseteq Nat
      /\ Flags(tab[s])
      /\ covers[s] \in [accs : SUBSET Nat, gates : {covers[s].gates}]
      /\ upd[s] \in [k : Nat, n : Nat, yes : {upd[s].yes}, no : {upd[s].no}]
  BY DEF PubInv, PubShape
<1>3. CASE Exit(s) \/ LockCmd(s) \/ UnlockCmd(s) \/ UpdTimeout(s)
  <2>1. Quiet(s) /\ tab' = tab /\ covers' = covers /\ upd' = upd
    BY <1>1, <1>2, <1>3 DEF Quiet, Exit, LockCmd, UnlockCmd, UpdTimeout
  <2>2. QED
    BY <1>2, <2>1, QuietStep
<1>4. CASE UpdUnlock(s) \/ ApplyRead(s) \/ ApplySet(s)
  <2>1. Quiet(s) /\ tab' = tab /\ covers' = covers /\ upd' = upd
    BY <1>1, <1>2, <1>4 DEF Quiet, UpdUnlock, ApplyRead, ApplySet
  <2>2. QED
    BY <1>2, <2>1, QuietStep
<1>5. CASE \E c \in Cmds : AddGate(s, c) \/ DelGate(s, c)
  <2>1. Quiet(s) /\ tab' = tab /\ covers' = covers /\ upd' = upd
    BY <1>1, <1>2, <1>5 DEF Quiet, AddGate, DelGate
  <2>2. QED
    BY <1>2, <2>1, QuietStep
<1>6. CASE UpdStart(s)
  <2>1. /\ Quiet(s) /\ tab' = tab /\ upd' = upd
        /\ covers'[s] = [accs |-> DOMAIN accs, gates |-> GatesOf(gates)]
    BY <1>1, <1>2, <1>6 DEF Quiet, UpdStart
  <2>2. covers'[s] \in [accs : SUBSET Nat, gates : {covers'[s].gates}]
    BY <1>2, <2>1
  <2>3. QED
    BY <1>2, <2>1, <2>2, QuietStep
<1>7. CASE Crash(s)
  <2>1. Quiet(s) /\ tab' = tab /\ covers' = covers /\ upd'[s] = NoJob
    BY <1>1, <1>2, <1>7 DEF Quiet, Crash
  <2>2. upd'[s] \in [k : Nat, n : Nat, yes : {upd'[s].yes}, no : {upd'[s].no}]
    BY <2>1 DEF NoJob
  <2>3. QED
    BY <1>2, <2>1, <2>2, QuietStep
<1>8. QED
  BY <1>3, <1>4, <1>5, <1>6, <1>7

\* Accounts in set are changed or new.
Altered(set) ==
    /\ accs' \in Seq(AccRec) /\ DOMAIN accs \subseteq DOMAIN accs'
    /\ DOMAIN accs' \subseteq DOMAIN accs \cup set
    /\ \A m \in DOMAIN accs \ set : accs'[m] = accs[m]
    /\ Owe(set)
    /\ UNCHANGED <<tab, upd, grant, deny, pub, wiped>>
    /\ \A t \in Sessions : pc'[t] = "updread" => pc[t] = "updread"

LEMMA AlteredStep ==
  ASSUME PubInv, NEW set, Altered(set)
  PROVE  PubInv'
<1> USE DEF PubInv, PubShape
<1>1. DOMAIN covers' = Sessions /\ owed' = owed \cup set
  BY DEF Altered, Owe
<1>2. \A t \in Sessions : covers'[t] = [covers[t] EXCEPT !.accs = @ \ set]
  BY DEF Altered, Owe
<1>3. ASSUME NEW t \in Sessions
      PROVE  /\ covers'[t].accs = covers[t].accs \ set
             /\ covers'[t] \in [accs : SUBSET Nat, gates : {covers'[t].gates}]
  <2>1. covers[t] \in [accs : SUBSET Nat, gates : {covers[t].gates}]
    BY <1>3
  <2>2. covers'[t] = [accs |-> covers[t].accs \ set, gates |-> covers[t].gates]
    BY <1>2, <1>3, <2>1
  <2>3. QED
    BY <2>1, <2>2
<1>4. PubShape'
  BY <1>1, <1>3 DEF Altered
<1>5. \A m \in DOMAIN accs' \ set : m \in DOMAIN accs /\ (m \in Fine <=> m \in Fine')
  BY DEF Altered, Fine, Allowed, acci_get
<1>6. ~ wiped' => Rights(pub, grant, deny, Settled, Settled, Fine)'
  <2>1. Settled' \subseteq Settled
    BY <1>1, <1>5 DEF Settled
  <2>2. \A m \in Settled' : m \in Fine <=> m \in Fine'
    BY <1>1, <1>5 DEF Settled
  <2>3. Narrows(Settled, Settled, Fine, Settled', Settled', Fine')
    BY <2>1, <2>2 DEF Narrows
  <2>4. wiped' = wiped /\ pub' = pub /\ grant' = grant /\ deny' = deny
    BY DEF Altered
  <2>5. ~ wiped => Rights(pub, grant, deny, Settled, Settled, Fine)
    OBVIOUS
  <2>6. QED
    BY <2>3, <2>4, <2>5, RightsKept
<1>7. ASSUME NEW t \in Sessions, pc'[t] = "updread"
      PROVE  Halfway(t)'
  <2>1. Sure(t)' = DOMAIN accs' \ ((owed \cup set) \ (covers[t].accs \ set))
    BY <1>1, <1>3 DEF Sure
  <2>2. Sure(t)' \subseteq Sure(t) /\ \A m \in Sure(t)' : m \in Fine <=> m \in Fine'
    BY <1>5, <2>1 DEF Sure
  <2>3. Halfway(t) /\ tab' = tab /\ upd' = upd
    BY <1>7 DEF Altered
  <2>4. Rights(tab[t], upd[t].yes, upd[t].no, {m \in Sure(t)' : m < upd[t].k}, Sure(t)', Fine')
    <3> DEFINE sure == Sure(t)
               sure2 == Sure(t)'
               read == {m \in sure : m < upd[t].k}
               read2 == {m \in sure2 : m < upd[t].k}
               fine == Fine
               fine2 == Fine'
    <3>1. Rights(tab[t], upd[t].yes, upd[t].no, read, sure, fine)
      BY <2>3 DEF Halfway
    <3>2. Narrows(read, sure, fine, read2, sure2, fine2)
      BY <2>2 DEF Narrows
    <3>3. Rights(tab[t], upd[t].yes, upd[t].no, read2, sure2, fine2)
      <4> HIDE DEF sure, sure2, read, read2, fine, fine2
      <4>1. QED
        BY <3>1, <3>2, RightsKept
    <3>4. QED
      BY <3>3
  <2>5. QED
    BY <2>2, <2>3, <2>4 DEF Halfway
<1>8. QED
  BY <1>4, <1>6, <1>7
LEMMA AccountStep ==
  ASSUME PubInv, GateInv, NEW s \in Sessions,
         \/ \E n \in DOMAIN accs, c \in Contents : Change(s, n, c)
         \/ \E c \in Cmds : NewClient(s, c)
  PROVE  PubInv'
<1> USE DEF Goto, update
<1>1. accs \in Seq(AccRec) /\ pc \in [Sessions -> Steps]
  BY DEF PubInv, PubShape, GateInv
<1>2. ASSUME NEW n \in DOMAIN accs, NEW c \in Contents, Change(s, n, c)
      PROVE  PubInv'
  <2>1. accs' = [accs EXCEPT ![n].tag = c.tag, ![n].bal = c.bal]
    BY <1>2 DEF Change
  <2>2. c \in [tag : SUBSET Tags, bal : Int]
    OBVIOUS
  <2>3. accs[n] \in AccRec
    BY <1>1
  <2>4. [accs[n] EXCEPT !.tag = c.tag, !.bal = c.bal] \in AccRec
    BY <2>2, <2>3 DEF AccRec
  <2>5. accs' = [accs EXCEPT ![n] = [accs[n] EXCEPT !.tag = c.tag, !.bal = c.bal]]
    BY <1>1, <2>1
  <2>6. /\ accs' \in Seq(AccRec) /\ DOMAIN accs' = DOMAIN accs
        /\ \A m \in DOMAIN accs \ {n} : accs'[m] = accs[m]
    BY <1>1, <2>4, <2>5
  <2>7. Altered({n})
    BY <1>2, <2>6 DEF Altered, Change
  <2>8. QED
    BY <2>7, AlteredStep
<1>3. ASSUME NEW c \in Cmds, NewClient(s, c)
      PROVE  PubInv'
  <2> DEFINE n == Len(accs) + 1
             more == IF c.op = "new_vpn" THEN <<NewAccount(n)>>
                                         ELSE <<NewAccount(n), NewAccount(n + 1)>>
             new == {n + i - 1 : i \in DOMAIN more}
  <2>1. n \in Nat /\ DOMAIN accs = 1 .. n - 1
    BY <1>1
  <2>2. more \in Seq(AccRec)
    <3>1. NewAccount(n) \in AccRec /\ NewAccount(n + 1) \in AccRec
      BY <2>1 DEF NewAccount, ZeroAcc, AccRec
    <3> HIDE DEF n
    <3>2. QED
      BY <3>1
  <2>3. accs' = accs \o more /\ Owe(new) /\ UNCHANGED <<tab, upd, grant, deny, pub, wiped>>
    BY <1>3 DEF NewClient
  <2>4. \A t \in Sessions : pc'[t] = "updread" => pc[t] = "updread"
    BY <1>1, <1>3 DEF NewClient
  <2> HIDE DEF more
  <2>5. /\ accs' \in Seq(AccRec) /\ Len(accs') = Len(accs) + Len(more)
        /\ \A m \in 1 .. Len(accs') : m <= Len(accs) => accs'[m] = accs[m]
    BY <1>1, <2>2, <2>3, ConcatProperties
  <2>6. /\ Len(more) \in Nat /\ DOMAIN more = 1 .. Len(more)
        /\ DOMAIN accs' = 1 .. Len(accs) + Len(more)
    BY <2>2, <2>5
  <2>7. DOMAIN accs \subseteq DOMAIN accs' /\ \A m \in DOMAIN accs \ new : accs'[m] = accs[m]
    BY <2>1, <2>5, <2>6
  <2>8. DOMAIN accs' \subseteq DOMAIN accs \cup new
    <3>1. SUFFICES ASSUME NEW m \in DOMAIN accs', m \notin DOMAIN accs
                   PROVE  m \in new
      OBVIOUS
    <3> DEFINE i == m - n + 1
    <3>2. m \in n .. Len(accs) + Len(more) /\ Len(accs) = n - 1
      BY <1>1, <2>1, <2>6, <3>1
    <3>3. i \in DOMAIN more /\ m = n + i - 1
      BY <2>1, <2>6, <3>2
    <3> HIDE DEF i
    <3>4. QED
      BY <3>3
  <2>9. Altered(new)
    BY <2>3, <2>4, <2>5, <2>7, <2>8 DEF Altered
  <2>10. QED
    BY <2>9, AlteredStep
<1>4. QED
  BY <1>2, <1>3

\* The names of the gates of account k are added to the files.
Placing(t, k, fine, yes, no, yes2, no2) ==
    \A r \in Counted :
       /\ yes2[r] = yes[r] \cup (IF k \in fine THEN NamesOf(t, k, r, {TRUE}) ELSE {})
       /\ no2[r] = no[r] \cup (IF k \in fine THEN NamesOf(t, k, r, {FALSE})
                                             ELSE NamesOf(t, k, r, BOOLEAN))

LEMMA PlacedOne ==
  ASSUME NEW t, Flags(t), NEW yes, NEW no, NEW yes2, NEW no2, NEW k,
         NEW read, NEW read2, NEW sure, NEW fine,
         Rights(t, yes, no, read, sure, fine), read2 \subseteq read \cup {k},
         Placing(t, k, fine, yes, no, yes2, no2)
  PROVE  Rights(t, yes2, no2, read2, sure, fine)
<1> SUFFICES ASSUME NEW r \in Counted
             PROVE  /\ \A i \in DOMAIN t :
                          t[i].gate.res = r /\ t[i].gate.acc \in read2 =>
                             t[i].gate.name \in (IF Opens(t[i], fine) THEN yes2[r] ELSE no2[r])
                    /\ \A name \in yes2[r] : \E i \in DOMAIN t :
                          /\ t[i].gate.res = r /\ t[i].gate.name = name
                          /\ t[i].gate.acc \in sure => Opens(t[i], fine)
  BY DEF Rights
<1>1. /\ \A i \in DOMAIN t :
            t[i].gate.res = r /\ t[i].gate.acc \in read =>
               t[i].gate.name \in (IF Opens(t[i], fine) THEN yes[r] ELSE no[r])
      /\ \A name \in yes[r] : \E i \in DOMAIN t :
            /\ t[i].gate.res = r /\ t[i].gate.name = name
            /\ t[i].gate.acc \in sure => Opens(t[i], fine)
  BY DEF Rights
<1> USE DEF Placing
<1>2. yes[r] \subseteq yes2[r] /\ no[r] \subseteq no2[r]
  OBVIOUS
<1>3. ASSUME NEW i \in DOMAIN t, t[i].gate.res = r, t[i].gate.acc \in read2
      PROVE  t[i].gate.name \in (IF Opens(t[i], fine) THEN yes2[r] ELSE no2[r])
  <2>1. CASE t[i].gate.acc \in read
    BY <1>1, <1>2, <1>3, <2>1
  <2>2. CASE t[i].gate.acc = k
    <3>1. t[i].allow \in BOOLEAN
      BY DEF Flags
    <3>2. CASE k \in fine
      <4>1. t[i].gate.name \in NamesOf(t, k, r, {t[i].allow})
        BY <1>3, <2>2 DEF NamesOf
      <4>2. t[i].allow = TRUE \/ t[i].allow = FALSE
        BY <3>1
      <4>3. QED
        BY <2>2, <3>2, <4>1, <4>2 DEF Opens
    <3>3. CASE k \notin fine
      <4>1. t[i].gate.name \in NamesOf(t, k, r, BOOLEAN)
        BY <1>3, <2>2, <3>1 DEF NamesOf
      <4>2. QED
        BY <2>2, <3>3, <4>1 DEF Opens
    <3>4. QED
      BY <3>2, <3>3
  <2>3. QED
    BY <1>3, <2>1, <2>2
<1>4. ASSUME NEW name \in yes2[r]
      PROVE  \E i \in DOMAIN t : /\ t[i].gate.res = r /\ t[i].gate.name = name
                                 /\ t[i].gate.acc \in sure => Opens(t[i], fine)
  <2>1. CASE name \in yes[r]
    BY <1>1, <2>1
  <2>2. CASE name \notin yes[r]
    <3>1. k \in fine /\ name \in NamesOf(t, k, r, {TRUE})
      BY <1>4, <2>2
    <3>2. PICK i \in DOMAIN t : /\ t[i].gate.acc = k /\ t[i].gate.res = r
                                /\ t[i].allow /\ t[i].gate.name = name
      BY <3>1 DEF NamesOf
    <3>3. Opens(t[i], fine)
      BY <3>1, <3>2 DEF Opens
    <3>4. QED
      BY <3>2, <3>3
  <2>3. QED
    BY <2>1, <2>2
<1>5. QED
  BY <1>3, <1>4
LEMMA UpdateStep ==
  ASSUME PubInv, GateInv, FireInv, NEW s \in Sessions, UpdOpen(s) \/ UpdRead(s) \/ UpdClose(s)
  PROVE  PubInv'
<1>1. /\ PubShape /\ DOMAIN upd = Sessions /\ Flags(tab[s])
      /\ upd[s] \in [k : Nat, n : Nat, yes : {upd[s].yes}, no : {upd[s].no}]
      /\ accs \in Seq(AccRec) /\ pc \in [Sessions -> Steps]
  BY DEF PubInv, PubShape, GateInv
<1>2. /\ UNCHANGED <<accs, tab, covers>>
      /\ \A t \in Sessions \ {s} : pc'[t] = pc[t] /\ upd'[t] = upd[t]
  BY <1>1 DEF UpdOpen, UpdRead, UpdClose, Goto
<1>3. Fine' = Fine
  BY <1>2 DEF Fine, Allowed
<1>4. \A t \in Sessions \ {s} : pc[t] # "updread"
  BY DEF FireInv, UpdOpen, MayUpdate, UpdRead, UpdClose
<1>5. ASSUME DOMAIN upd' = Sessions,
             upd'[s] \in [k : Nat, n : Nat, yes : {upd'[s].yes}, no : {upd'[s].no}],
             ~ wiped' => Rights(pub, grant, deny, Settled, Settled, Fine)',
             pc'[s] = "updread" => Halfway(s)'
      PROVE  PubInv'
  <2>1. PubShape'
    BY <1>1, <1>2, <1>5 DEF PubShape
  <2>2. \A t \in Sessions : pc'[t] = "updread" => t = s
    BY <1>2, <1>4
  <2>3. QED
    BY <1>5, <2>1, <2>2 DEF PubInv
<1>6. CASE UpdOpen(s)
  <2>1. /\ upd' = [upd EXCEPT ![s] = [NoJob EXCEPT !.k = 1, !.n = Len(accs)]]
        /\ wiped' = TRUE /\ UNCHANGED owed
    BY <1>6 DEF UpdOpen
  <2>2. upd'[s] = [k |-> 1, n |-> Len(accs), yes |-> [r \in Counted |-> {}],
                   no |-> [r \in Counted |-> {}]]
    BY <1>1, <2>1 DEF NoJob
  <2>3. Len(accs) \in Nat /\ DOMAIN accs = 1 .. Len(accs)
    BY <1>1
  <2>4. Sure(s)' \subseteq 1 .. Len(accs)
    BY <1>2, <2>3 DEF Sure
  <2>5. {m \in Sure(s)' : m < 1} = {}
    BY <2>4
  <2>6. Rights(tab[s], [r \in Counted |-> {}], [r \in Counted |-> {}], {}, Sure(s)', Fine)
    BY DEF Rights
  <2>7. Halfway(s)'
    <3>1. /\ upd'[s].k = 1 /\ upd'[s].n = Len(accs)
          /\ upd'[s].yes = [r \in Counted |-> {}] /\ upd'[s].no = [r \in Counted |-> {}]
      BY <2>2
    <3>2. \A m \in Sure(s)' : m <= upd'[s].n
      BY <2>3, <2>4, <3>1
    <3>3. {m \in Sure(s)' : m < upd'[s].k} = {}
      BY <2>5, <3>1
    <3>4. QED
      BY <1>2, <1>3, <2>6, <3>1, <3>2, <3>3 DEF Halfway
  <2>8. QED
    BY <1>1, <1>5, <2>1, <2>2, <2>3, <2>7
<1>7. CASE UpdRead(s)
  <2> DEFINE n == upd[s].k
             sure == Sure(s)
             yes2 == [r \in Counted |-> upd[s].yes[r] \cup
                        (IF n \in Fine THEN NamesOf(tab[s], n, r, {TRUE}) ELSE {})]
             no2 == [r \in Counted |-> upd[s].no[r] \cup
                       (IF n \in Fine THEN NamesOf(tab[s], n, r, {FALSE})
                                      ELSE NamesOf(tab[s], n, r, BOOLEAN))]
  <2>1. /\ pc[s] = "updread" /\ pc' = pc
        /\ UNCHANGED <<owed, grant, deny, pub, wiped>>
    BY <1>7 DEF UpdRead
  <2>2. upd' = [upd EXCEPT ![s].k = n + 1, ![s].yes = yes2, ![s].no = no2]
    BY <1>7, AllowedIsFine, Zenon DEF UpdRead
  <2>3. upd'[s] = [k |-> n + 1, n |-> upd[s].n, yes |-> yes2, no |-> no2]
    <3> HIDE DEF n, yes2, no2
    <3>1. QED
      BY <1>1, <2>2
  <2>4. n \in Nat /\ sure \in SUBSET Nat
    BY <1>1 DEF Sure
  <2>5. Halfway(s)
    BY <2>1 DEF PubInv
  <2>6. Rights(tab[s], upd[s].yes, upd[s].no, {m \in sure : m < n}, sure, Fine)
    BY <2>5 DEF Halfway
  <2>7. Rights(tab[s], yes2, no2, {m \in sure : m < n + 1}, sure, Fine)
    <3> DEFINE fine == Fine
    <3> HIDE DEF n, sure, fine
    <3>1. Placing(tab[s], n, fine, upd[s].yes, upd[s].no, yes2, no2)
      BY DEF fine, Placing
    <3> DEFINE read == {m \in sure : m < n}
               read2 == {m \in sure : m < n + 1}
    <3>2. Rights(tab[s], upd[s].yes, upd[s].no, read, sure, fine)
      BY <2>6 DEF fine
    <3>3. read2 \subseteq read \cup {n}
      <4>1. ASSUME NEW m \in Nat, m < n + 1
            PROVE  m < n \/ m = n
        BY <2>4, <4>1
      <4>2. QED
        BY <2>4, <4>1
    <3> HIDE DEF yes2, no2, read, read2
    <3>4. Rights(tab[s], yes2, no2, read2, sure, fine)
      BY <1>1, <3>1, <3>2, <3>3, PlacedOne
    <3>5. QED
      BY <3>4 DEF fine, read2
  <2>8. Sure(s)' = sure
    BY <1>2, <2>1 DEF Sure
  <2> HIDE DEF n, sure, yes2, no2
  <2>9. /\ \A m \in sure : m <= upd'[s].n
        /\ {m \in sure : m < upd'[s].k} = {m \in sure : m < n + 1}
    BY <2>3, <2>5 DEF Halfway, sure
  <2>10. Halfway(s)'
    BY <1>2, <1>3, <2>3, <2>7, <2>8, <2>9 DEF Halfway
  <2>11. Settled' = Settled
    BY <1>2, <2>1 DEF Settled
  <2>12. ~ wiped' => Rights(pub, grant, deny, Settled, Settled, Fine)'
    BY <1>3, <2>1, <2>11 DEF PubInv
  <2>13. upd'[s] \in [k : Nat, n : Nat, yes : {upd'[s].yes}, no : {upd'[s].no}]
    BY <1>1, <2>3, <2>4
  <2>14. QED
    BY <1>1, <1>5, <2>2, <2>10, <2>12, <2>13
<1>8. CASE UpdClose(s)
  <2>1. /\ pc[s] = "updread" /\ pc' = [pc EXCEPT ![s] = "updunlock"] /\ upd[s].k > upd[s].n
        /\ upd' = [upd EXCEPT ![s] = NoJob] /\ owed' = owed \ covers[s].accs
        /\ grant' = upd[s].yes /\ deny' = upd[s].no /\ pub' = tab[s]
    BY <1>8 DEF UpdClose, Goto
  <2>2. Halfway(s)
    BY <2>1 DEF PubInv
  <2>3. Settled' = Sure(s) /\ Sure(s) \in SUBSET Nat
    BY <1>1, <1>2, <2>1 DEF Settled, Sure
  <2>4. {m \in Sure(s) : m < upd[s].k} = Sure(s)
    BY <1>1, <2>1, <2>2, <2>3 DEF Halfway
  <2>5. Rights(pub, grant, deny, Settled, Settled, Fine)'
    BY <1>3, <2>1, <2>2, <2>3, <2>4 DEF Halfway
  <2>6. upd'[s] = NoJob /\ pc'[s] = "updunlock"
    BY <1>1, <2>1
  <2>7. upd'[s] \in [k : Nat, n : Nat, yes : {upd'[s].yes}, no : {upd'[s].no}]
    BY <2>6 DEF NoJob
  <2>8. QED
    BY <1>1, <1>5, <2>1, <2>5, <2>6, <2>7
<1>9. QED
  BY <1>6, <1>7, <1>8

LEMMA NextPubInv ==
  ASSUME GateInv, FireInv, PubInv, [Next]_vars
  PROVE  PubInv'
<1>1. CASE UNCHANGED vars
  <2>1. UNCHANGED <<accs, pc, tab, covers, upd, owed, grant, deny, pub, wiped>>
    BY <1>1 DEF vars, update
  <2>2. Settled' = Settled /\ Fine' = Fine /\ PubShape'
    BY <2>1 DEF Settled, Fine, Allowed, PubShape, PubInv
  <2>3. \A t \in Sessions : Halfway(t) => Halfway(t)'
    BY <2>1, <2>2 DEF Halfway, Sure
  <2>4. QED
    BY <2>1, <2>2, <2>3 DEF PubInv
<1>2. ASSUME NEW s \in Sessions, Step(s) \/ Client(s) \/ Crash(s)
      PROVE  PubInv'
  BY <1>2, TableStep, AsideStep, AccountStep, UpdateStep DEF Step, Client
<1>3. QED
  BY <1>1, <1>2 DEF Next

\* For any sessions, accounts and gates: between updates the permission files say
\* of every account that was not changed since the last update that wrote them was
\* ordered what was to be decided, unless a session died with the files open.
THEOREM UpdatesPublish == Spec => []Published
<1>1. GateInv /\ FireInv /\ PubInv /\ [Next]_vars => PubInv'
  BY NextPubInv
<1>2. GateInv /\ FireInv /\ [Next]_vars => FireInv'
  BY NextFireInv
<1>3. Spec => []PubInv
  BY <1>1, <1>2, InitPubInv, InitFireInv, GatesHeld, PTL DEF Spec
<1>4. PubInv => Published
  <2> SUFFICES ASSUME PubInv, ~ wiped, NEW r \in Counted
               PROVE  /\ \A i \in DOMAIN pub :
                            pub[i].gate.res = r /\ pub[i].gate.acc \in Settled =>
                               pub[i].gate.name \in (IF Opens(pub[i], Fine) THEN grant[r]
                                                                           ELSE deny[r])
                      /\ \A name \in grant[r] : \E i \in DOMAIN pub :
                            /\ pub[i].gate.res = r /\ pub[i].gate.name = name
                            /\ pub[i].gate.acc \in Settled => Opens(pub[i], Fine)
    BY AllowedIsFine DEF Published, Settled, Opens
  <2>1. QED
    BY DEF PubInv, Rights
<1>5. QED
  BY <1>3, <1>4, PTL
===============================================================================
