----------------------------- MODULE FlowIface_proofs ---------------------------
(***************************************************************************)
(* Proofs about the interface processes, for any callers, interfaces,      *)
(* descriptors and number of commands.                                     *)
(***************************************************************************)
EXTENDS FlowIface, SequenceTheorems, TLAPS

USE IfaceAssumption

-------------------------------------------------------------------------------
(* The list.                                                               *)

Within(s) == {s[i] : i \in DOMAIN s}
Once(s) == \A i, j \in DOMAIN s : s[i] = s[j] => i = j

\* LIST_INSERT_HEAD()
LEMMA Inserted ==
  ASSUME NEW S, NEW s \in Seq(S), NEW d \in S
  PROVE  /\ <<d>> \o s \in Seq(S)
         /\ Within(<<d>> \o s) = Within(s) \cup {d}
         /\ d \notin Within(s) /\ Once(s) => Once(<<d>> \o s)
<1> DEFINE t == <<d>> \o s
<1>1. <<d>> \in Seq(S) /\ Len(<<d>>) = 1 /\ <<d>>[1] = d
  OBVIOUS
<1>2. /\ t \in Seq(S) /\ Len(t) = Len(s) + 1 /\ t[1] = d
      /\ \A i \in 2 .. Len(s) + 1 : t[i] = s[i - 1]
  BY <1>1, ConcatProperties
<1>3. DOMAIN t = 1 .. Len(s) + 1 /\ DOMAIN s = 1 .. Len(s) /\ Len(s) \in Nat
  BY <1>2, LenProperties
<1> HIDE DEF t
<1>4. \A i \in DOMAIN s : t[i + 1] = s[i]
  BY <1>2, <1>3
<1>5. Within(t) = Within(s) \cup {d}
  <2>1. ASSUME NEW x \in Within(s) PROVE x \in Within(t)
    <3>1. PICK i \in DOMAIN s : x = s[i]
      BY DEF Within
    <3>2. i + 1 \in DOMAIN t /\ t[i + 1] = x
      BY <1>3, <1>4, <3>1
    <3>3. QED
      BY <3>2 DEF Within
  <2>2. d \in Within(t)
    <3>1. 1 \in DOMAIN t
      BY <1>3
    <3>2. QED
      BY <1>2, <3>1 DEF Within
  <2>3. ASSUME NEW x \in Within(t) PROVE x \in Within(s) \cup {d}
    <3>1. PICK i \in DOMAIN t : x = t[i]
      BY DEF Within
    <3>2. CASE i = 1
      BY <1>2, <3>1, <3>2
    <3>3. CASE i # 1
      <4>1. i - 1 \in DOMAIN s /\ x = s[i - 1]
        BY <1>2, <1>3, <3>1, <3>3
      <4>2. QED
        BY <4>1 DEF Within
    <3>4. QED
      BY <3>2, <3>3
  <2>4. QED
    BY <2>1, <2>2, <2>3
<1>6. ASSUME d \notin Within(s), Once(s) PROVE Once(t)
  <2>1. \A i \in DOMAIN s : s[i] # d
    BY <1>6 DEF Within
  <2>2. SUFFICES ASSUME NEW i \in DOMAIN t, NEW j \in DOMAIN t, t[i] = t[j]
                 PROVE  i = j
    BY DEF Once
  <2> DEFINE Later(x) == x - 1 \in DOMAIN s /\ t[x] = s[x - 1]
  <2>3. \A x \in DOMAIN t : x # 1 => Later(x) /\ t[x] # d
    BY <1>2, <1>3, <2>1
  <2>4. CASE i # 1 /\ j # 1
    <3>1. Later(i) /\ Later(j)
      BY <2>3, <2>4
    <3>2. i - 1 = j - 1
      BY <1>6, <2>2, <3>1 DEF Once
    <3>3. QED
      BY <1>3, <3>2
  <2>5. CASE i = 1 \/ j = 1
    BY <1>2, <2>2, <2>3, <2>5
  <2>6. QED
    BY <2>4, <2>5
<1>7. QED
  BY <1>2, <1>5, <1>6 DEF t

\* LIST_REMOVE() of an entry that is there once.
LEMMA Taken ==
  ASSUME NEW S, NEW s \in Seq(S), NEW k \in DOMAIN s
  PROVE  LET t == SubSeq(s, 1, k - 1) \o SubSeq(s, k + 1, Len(s)) IN
         /\ t \in Seq(S)
         /\ Once(s) => Once(t) /\ Within(t) = Within(s) \ {s[k]}
<1> DEFINE a == SubSeq(s, 1, k - 1)
           b == SubSeq(s, k + 1, Len(s))
           t == a \o b
<1>1. Len(s) \in Nat /\ DOMAIN s = 1 .. Len(s) /\ k \in 1 .. Len(s)
  BY LenProperties
<1>2. a \in Seq(S) /\ Len(a) = k - 1 /\ \A i \in 1 .. k - 1 : a[i] = s[i]
  <2>1. \A i \in 1 .. k - 1 : s[i] \in S
    BY <1>1, ElementOfSeq
  <2>2. QED
    BY <1>1, <2>1, SubSeqProperties
<1>3. b \in Seq(S) /\ Len(b) = Len(s) - k /\ \A i \in 1 .. Len(s) - k : b[i] = s[k + i]
  <2>1. \A i \in k + 1 .. Len(s) : s[i] \in S
    BY <1>1, ElementOfSeq
  <2>2. QED
    BY <1>1, <2>1, SubSeqProperties
<1> HIDE DEF a, b
<1>4. /\ t \in Seq(S) /\ Len(t) = Len(s) - 1
      /\ \A i \in 1 .. k - 1 : t[i] = s[i]
      /\ \A i \in k .. Len(s) - 1 : t[i] = s[i + 1]
  <2>1. /\ t \in Seq(S) /\ Len(t) = Len(a) + Len(b)
        /\ \A i \in 1 .. Len(a) : t[i] = a[i]
        /\ \A i \in Len(a) + 1 .. Len(a) + Len(b) : t[i] = b[i - Len(a)]
    <3>1. a \in Seq(S) /\ b \in Seq(S) /\ Len(a) \in Nat /\ Len(b) \in Nat
      BY <1>1, <1>2, <1>3
    <3>2. /\ t \in Seq(S) /\ Len(t) = Len(a) + Len(b)
          /\ \A i \in 1 .. Len(a) + Len(b) :
                t[i] = IF i <= Len(a) THEN a[i] ELSE b[i - Len(a)]
      BY <3>1, ConcatProperties
    <3>3. QED
      BY <3>1, <3>2
  <2>2. ASSUME NEW i \in k .. Len(s) - 1 PROVE t[i] = s[i + 1]
    <3>1. i \in Len(a) + 1 .. Len(a) + Len(b) /\ i - Len(a) = i - (k - 1)
      BY <1>1, <1>2, <1>3
    <3>2. t[i] = b[i - (k - 1)]
      BY <2>1, <3>1
    <3>3. i - (k - 1) \in 1 .. Len(s) - k /\ k + (i - (k - 1)) = i + 1
      BY <1>1
    <3>4. QED
      BY <1>3, <3>2, <3>3
  <2>3. ASSUME NEW i \in 1 .. k - 1 PROVE t[i] = s[i]
    BY <1>2, <2>1
  <2>4. QED
    BY <1>1, <1>2, <1>3, <2>1, <2>2, <2>3
<1> HIDE DEF t
<1>5. DOMAIN t = 1 .. Len(s) - 1
  BY <1>4, LenProperties
<1>6. ASSUME Once(s) PROVE Once(t)
  <2>1. SUFFICES ASSUME NEW i \in DOMAIN t, NEW j \in DOMAIN t, t[i] = t[j]
                 PROVE  i = j
    BY DEF Once
  <2> DEFINE from(x) == IF x < k THEN x ELSE x + 1
  <2>2. \A x \in DOMAIN t : from(x) \in DOMAIN s /\ t[x] = s[from(x)]
    BY <1>1, <1>4, <1>5
  <2>3. from(i) = from(j)
    <3>1. s[from(i)] = s[from(j)] /\ from(i) \in DOMAIN s /\ from(j) \in DOMAIN s
      BY <2>1, <2>2
    <3> HIDE DEF from
    <3>2. QED
      BY <1>6, <3>1 DEF Once
  <2>4. QED
    BY <1>1, <1>5, <2>3
<1>7. ASSUME Once(s) PROVE Within(t) = Within(s) \ {s[k]}
  <2>1. ASSUME NEW x \in Within(t) PROVE x \in Within(s) /\ x # s[k]
    <3>1. PICK i \in DOMAIN t : x = t[i]
      BY DEF Within
    <3>2. PICK j \in DOMAIN s : x = s[j] /\ j # k
      <4>1. CASE i < k
        BY <1>1, <1>4, <1>5, <3>1, <4>1
      <4>2. CASE ~ i < k
        <5>1. i + 1 \in DOMAIN s /\ x = s[i + 1] /\ i + 1 # k
          BY <1>1, <1>4, <1>5, <3>1, <4>2
        <5>2. QED
          BY <5>1
      <4>3. QED
        BY <4>1, <4>2
    <3>3. QED
      BY <1>7, <3>2 DEF Once, Within
  <2>2. ASSUME NEW x \in Within(s), x # s[k] PROVE x \in Within(t)
    <3>1. PICK j \in DOMAIN s : x = s[j]
      BY DEF Within
    <3>2. PICK i \in DOMAIN t : x = t[i]
      <4>1. CASE j < k
        BY <1>1, <1>4, <1>5, <3>1, <4>1
      <4>2. CASE ~ j < k
        <5>1. j - 1 \in DOMAIN t /\ t[j - 1] = s[(j - 1) + 1] /\ (j - 1) + 1 = j
          BY <1>1, <1>4, <1>5, <2>2, <3>1, <4>2
        <5>2. QED
          BY <3>1, <5>1
      <4>3. QED
        BY <4>1, <4>2
    <3>3. QED
      BY <3>2 DEF Within
  <2>3. QED
    BY <2>1, <2>2
<1>8. QED
  BY <1>4, <1>6, <1>7 DEF a, b, t

\* The list without a descriptor.
LEMMA UnlinkedList ==
  ASSUME list \in Seq(Descs), NEW d \in Descs
  PROVE  /\ Unlinked(d) \in Seq(Descs)
         /\ Once(list) => /\ Once(Unlinked(d))
                          /\ Within(Unlinked(d)) = Within(list) \ {d}
<1>1. CASE d \notin Listed
  BY <1>1 DEF Unlinked, Listed, Within
<1>2. CASE d \in Listed
  <2> DEFINE k == CHOOSE j \in DOMAIN list : list[j] = d
  <2>1. k \in DOMAIN list /\ list[k] = d
    BY <1>2 DEF Listed
  <2>2. Unlinked(d) = SubSeq(list, 1, k - 1) \o SubSeq(list, k + 1, Len(list))
    BY <1>2 DEF Unlinked
  <2> HIDE DEF k
  <2>3. QED
    BY <2>1, <2>2, Taken
<1>3. QED
  BY <1>1, <1>2

-------------------------------------------------------------------------------
(* Types.                                                                  *)

\* A buffer is left for who is about to list.
RoomLeft == \A c \in Callers : pc[c] = "list" => room[c] > 0

TypeInv == IfaceTypeOK /\ RoomLeft

Labels == {"idle", "conf", "setf", "list", "flushed", "unloading", "unloaded",
           "gone", "new", "asleep", "awake"} \cup Asleep \cup Coming \cup Going \cup Copying

\* That they have met is remembered.
Settles == settled' \in BOOLEAN /\ (settled' => settled)

LEMMA SettledStep ==
  ASSUME settled \in BOOLEAN, [Next]_vars PROVE Settles
<1>1. ASSUME NEW c \in Callers, CallerStep(c) PROVE Settles
  <2>1. CASE Added(c) \/ Conf(c) \/ CopyIn(c) \/ Deleted(c) \/ Flushed(c) \/ Unloaded(c)
    <3>1. settled' = settled
      BY <2>1 DEF Added, Conf, CopyIn, Deleted, Flushed, Unloaded, Free
    <3>2. QED
      BY <3>1, Zenon DEF Settles
  <2>2. CASE SetF(c)
    <3>1. settled' = settled \/ \E d : Note(Meets("copyin", d))
      BY <2>2 DEF SetF
    <3>2. CASE settled' = settled
      BY <3>2 DEF Settles
    <3>3. ASSUME NEW d, Note(Meets("copyin", d)) PROVE Settles
      BY <3>3, Zenon DEF Settles, Note
    <3>4. QED
      BY <3>1, <3>2, <3>3
  <2>3. CASE List(c) \/ Walk(c)
    BY <2>3, Zenon DEF Settles, List, Walk, Note, Visit, Leave
  <2>4. QED
    BY <1>1, <2>1, <2>2, <2>3 DEF CallerStep
<1>2. ASSUME NEW c \in Callers, Command(c) PROVE Settles
  <2>1. CASE InfoCmd(c) \/ Load(c) \/ \E n \in Names : Exists(c, n) \/ SetCmd(c, n) \/ Unknown(c, n)
    BY <2>1 DEF Settles, InfoCmd, Load, Exists, SetCmd, Unknown
  <2>2. CASE Unload(c) \/ \E n \in Names : Add(c, n) \/ Del(c, n) \/ FlushIf(c, n)
    BY <2>2, Zenon DEF Settles, Unload, Add, Del, FlushIf, Destroy, Note
  <2>3. QED
    BY <1>2, <2>1, <2>2 DEF Command
<1>3. ASSUME MasterStep PROVE Settles
  <2>1. CASE MasterDestroys
    BY <2>1, Zenon DEF Settles, MasterDestroys, Destroy, Note
  <2>2. CASE MasterSleeps \/ MasterFrees \/ MasterExits
    BY <2>2 DEF Settles, MasterSleeps, MasterFrees, MasterExits, Free
  <2>3. QED
    BY <1>3, <2>1, <2>2 DEF MasterStep
<1>4. ASSUME NEW d \in Descs,
             ThreadStep(d) \/ ReadError(d) \/ \E s \in UserSigs : Signal(d, s)
      PROVE  Settles
  <2>1. CASE ThreadStep(d)
    BY <2>1 DEF Settles, ThreadStep, Start, Read, NapEnd
  <2>2. CASE ReadError(d) \/ \E s \in UserSigs : Signal(d, s)
    BY <2>2, Zenon DEF Settles, ReadError, Signal, Note
  <2>3. QED
    BY <1>4, <2>1, <2>2
<1>5. CASE \E c \in Callers : CallerStep(c) \/ Command(c)
  BY <1>1, <1>2, <1>5
<1>6. CASE \E d \in Descs : \/ ThreadStep(d) \/ ReadError(d)
                           \/ \E s \in UserSigs : Signal(d, s)
  BY <1>4, <1>6
<1>7. CASE UNCHANGED vars
  BY <1>7 DEF vars, Settles
<1>8. QED
  BY <1>3, <1>5, <1>6, <1>7 DEF Next

\* The initial state has its types.
LEMMA InitTyped == Init => TypeInv
<1> SUFFICES ASSUME Init PROVE TypeInv
  OBVIOUS
<1>1. \E n : n \in Names
  OBVIOUS
<1>2. (CHOOSE n \in Names : TRUE) \in Names
  BY <1>1
<1>3. pc \in [Procs -> Labels]
  BY DEF Init, Labels
<1>4. list \in Seq(Descs)
  BY DEF Init
<1>5. RoomLeft
  BY DEF Init, RoomLeft, Procs
<1>6. name \in [Descs -> Names] /\ arg \in [Callers -> Names]
  BY <1>2 DEF Init
<1>7. /\ err \in [Descs -> {-1, 0, 1}] /\ th \in [Descs -> {"none", "new", "run", "nap"}]
      /\ sig \in [Descs -> SUBSET {"HUP", "KILL", "TERM"}]
  BY DEF Init
<1>8. /\ on \in [Procs -> Descs \cup {Nil}] /\ room \in [Callers -> Nat]
      /\ served \in [Callers -> BOOLEAN]
  BY DEF Init
<1>9. loaded \in BOOLEAN /\ used \subseteq Descs /\ shot \subseteq Descs /\ settled \in BOOLEAN
  BY DEF Init
<1>10. cmds \in 0 .. MaxCmds /\ events \in 0 .. MaxEvents
  BY DEF Init
<1>11. QED
  BY <1>3, <1>4, <1>5, <1>6, <1>7, <1>8, <1>9, <1>10 DEF TypeInv, IfaceTypeOK, Labels

\* wakeup() leaves everybody somewhere, and nobody in a list.
LEMMA WakeTyped ==
  ASSUME pc \in [Procs -> Labels], NEW d
  PROVE  /\ Wake(d) \in [Procs -> Labels]
         /\ \A p \in Procs : Wake(d)[p] = "list" <=> pc[p] = "list"
<1>1. \A l \in Labels : Woken(l) \in Labels /\ (Woken(l) = "list" <=> l = "list")
  BY DEF Woken, Labels, Asleep, Coming, Going, Copying
<1>2. QED
  BY <1>1 DEF Wake

\* A step of a caller that returns or goes on.
LEMMA CallerTyped ==
  ASSUME TypeInv, settled' \in BOOLEAN, NEW c \in Callers, CallerStep(c) PROVE TypeInv'
<1> USE DEF Goto
<1>1. CASE Added(c)
  BY <1>1 DEF Added, TypeInv, IfaceTypeOK, RoomLeft, Procs, iface, locals, bounds
<1>2. CASE Conf(c)
  BY <1>2 DEF Conf, TypeInv, IfaceTypeOK, RoomLeft, Procs, iface, locals, bounds
<1>3. CASE SetF(c)
  <2>1. lookup(arg[c]) \subseteq Descs
    <3>1. Listed \subseteq Descs
      BY ElementOfSeq DEF Listed, TypeInv, IfaceTypeOK
    <3>2. QED
      BY <3>1 DEF lookup
  <2>2. pc' \in [Procs -> Labels] /\ \A e \in Callers : pc'[e] = "list" => pc[e] = "list"
    <3>1. pc' = [pc EXCEPT ![c] = "idle"] \/ pc' = [pc EXCEPT ![c] = "copyin"]
      BY <1>3 DEF SetF
    <3>2. {"idle", "copyin"} \subseteq Labels
      BY DEF Labels, Copying
    <3>3. pc \in [Procs -> Labels] /\ c \in Procs /\ Callers \subseteq Procs
      BY DEF TypeInv, IfaceTypeOK, Procs, Labels
    <3>4. QED
      BY <3>1, <3>2, <3>3
  <2>3. on' \in [Procs -> Descs \cup {Nil}]
    BY <1>3, <2>1 DEF SetF, TypeInv, IfaceTypeOK
  <2>4. UNCHANGED <<loaded, used, iface, locals, served, shot, bounds>>
    BY <1>3 DEF SetF
  <2>5. QED
    BY <2>2, <2>3, <2>4 DEF TypeInv, IfaceTypeOK, RoomLeft, Labels, iface, locals, bounds
<1>4. CASE CopyIn(c)
  BY <1>4 DEF CopyIn, TypeInv, IfaceTypeOK, RoomLeft, Procs, iface, locals, bounds
<1>5. CASE Deleted(c)
  BY <1>5 DEF Deleted, Free, TypeInv, IfaceTypeOK, RoomLeft, Procs, iface, locals, bounds
<1>6. CASE Flushed(c)
  BY <1>6 DEF Flushed, TypeInv, IfaceTypeOK, RoomLeft, Procs, iface, locals, bounds
<1>7. ASSUME List(c) \/ Walk(c) PROVE TypeInv'
  <2>1. \/ Leave(c)
        \/ room[c] > 0 /\ \E d \in Descs : Visit(c, d)
    <3>1. \A i \in DOMAIN list : list[i] \in Descs
      BY ElementOfSeq DEF TypeInv, IfaceTypeOK
    <3>2. CASE List(c)
      <4>1. list # << >> => 1 \in DOMAIN list
        BY DEF TypeInv, IfaceTypeOK
      <4>2. QED
        BY <3>1, <3>2, <4>1 DEF List, TypeInv, RoomLeft
    <3>3. CASE Walk(c)
      <4>1. room[c] = 0 \/ room[c] > 0
        BY DEF TypeInv, IfaceTypeOK
      <4>2. \A j \in DOMAIN list \ {Len(list)} : list[j + 1] \in Descs
        BY <3>1 DEF TypeInv, IfaceTypeOK
      <4>3. QED
        BY <3>3, <4>1, <4>2 DEF Walk, BufferFull
    <3>4. QED
      BY <1>7, <3>2, <3>3
  <2>2. UNCHANGED <<loaded, used, iface, arg, served, shot, bounds>>
    BY <1>7 DEF List, Walk
  <2>3. CASE Leave(c)
    BY <2>2, <2>3 DEF Leave, TypeInv, IfaceTypeOK, RoomLeft, Procs, iface, bounds
  <2>4. ASSUME room[c] > 0, NEW d \in Descs, Visit(c, d) PROVE TypeInv'
    BY <2>2, <2>4 DEF Visit, TypeInv, IfaceTypeOK, RoomLeft, Procs, iface, bounds, Copying
  <2>5. QED
    BY <2>1, <2>3, <2>4
<1>8. CASE Unloaded(c)
  BY <1>8 DEF Unloaded, TypeInv, IfaceTypeOK, RoomLeft, Procs, iface, locals, bounds
<1>9. QED
  BY <1>1, <1>2, <1>3, <1>4, <1>5, <1>6, <1>7, <1>8 DEF CallerStep

\* A deletion begins.
LEMMA DestroyTyped ==
  ASSUME TypeInv, NEW p \in Procs, NEW d \in Descs, Destroy(p, d)
  PROVE  /\ pc' \in [Procs -> Labels] /\ on' \in [Procs -> Descs \cup {Nil}]
         /\ sig' \in [Descs -> SUBSET {"HUP", "KILL", "TERM"}]
         /\ served' \in [Callers -> BOOLEAN]
         /\ \A c \in Callers : pc'[c] = "list" => pc[c] = "list"
<1>1. pc \in [Procs -> Labels]
  BY DEF TypeInv, IfaceTypeOK, Labels
<1>2. QED
  BY <1>1, WakeTyped DEF Destroy, Serve, TypeInv, IfaceTypeOK, Labels, Going, Procs

\* A command begins.
LEMMA CommandTyped ==
  ASSUME TypeInv, settled' \in BOOLEAN, NEW c \in Callers, Command(c) PROVE TypeInv'
<1> USE DEF Goto, Cmd
<1>1. CASE InfoCmd(c)
  BY <1>1, LenProperties DEF InfoCmd, TypeInv, IfaceTypeOK, RoomLeft, Procs, iface
<1>2. CASE Load(c)
  BY <1>2 DEF Load, TypeInv, IfaceTypeOK, RoomLeft, Procs, iface, locals, bounds
<1>3. CASE Unload(c)
  <2>1. pc' \in [Procs -> Labels]
    BY <1>3 DEF Unload, TypeInv, IfaceTypeOK, Labels
  <2>2. RoomLeft'
    BY <1>3 DEF Unload, TypeInv, IfaceTypeOK, RoomLeft, Procs, locals
  <2>3. cmds' \in 0 .. MaxCmds
    BY <1>3 DEF Unload, TypeInv, IfaceTypeOK
  <2>4. UNCHANGED <<loaded, used, iface, on, locals, served, shot, events>>
    BY <1>3 DEF Unload
  <2>5. QED
    BY <2>1, <2>2, <2>3, <2>4 DEF TypeInv, IfaceTypeOK, iface, locals, Labels
<1>4. ASSUME NEW n \in Names,
             Exists(c, n) \/ Add(c, n) \/ SetCmd(c, n) \/ Unknown(c, n)
             \/ Del(c, n) \/ FlushIf(c, n)
      PROVE  TypeInv'
  <2>1. lookup(n) \subseteq Descs
    <3>1. Listed \subseteq Descs
      BY ElementOfSeq DEF Listed, TypeInv, IfaceTypeOK
    <3>2. QED
      BY <3>1 DEF lookup
  <2>2. CASE Exists(c, n) \/ Unknown(c, n)
    BY <2>2 DEF Exists, Unknown, TypeInv, IfaceTypeOK, RoomLeft, iface, proc, locals
  <2>3. CASE Add(c, n)
    BY <2>3 DEF Add, TypeInv, IfaceTypeOK, RoomLeft, Procs, Asleep
  <2>4. CASE SetCmd(c, n)
    BY <2>4 DEF SetCmd, TypeInv, IfaceTypeOK, RoomLeft, Procs, iface
  <2>5. CASE Del(c, n)
    <3>1. PICK d \in Descs : Destroy(c, d)
      BY <2>1, <2>5 DEF Del
    <3>2. QED
      BY <2>5, <3>1, DestroyTyped
      DEF Del, TypeInv, IfaceTypeOK, RoomLeft, Procs, Labels
  <2>6. CASE FlushIf(c, n)
    BY <2>1, <2>6 DEF FlushIf, AfterHup, TypeInv, IfaceTypeOK, RoomLeft, Procs, Asleep
  <2>7. QED
    BY <1>4, <2>2, <2>3, <2>4, <2>5, <2>6
<1>5. QED
  BY <1>1, <1>2, <1>3, <1>4 DEF Command

\* Signals are handled.
LEMMA SignalsTyped ==
  ASSUME TypeInv, NEW d \in Descs, Signals(d)
  PROVE  /\ pc' \in [Procs -> Labels]
         /\ sig' \in [Descs -> SUBSET {"HUP", "KILL", "TERM"}]
         /\ th' \in [Descs -> {"none", "new", "run", "nap"}]
         /\ list' \in Seq(Descs) /\ served' \in [Callers -> BOOLEAN]
         /\ \A c \in Callers : pc'[c] = "list" => pc[c] = "list"
<1>1. pc \in [Procs -> Labels]
  BY DEF TypeInv, IfaceTypeOK, Labels
<1>2. list \in Seq(Descs)
  BY DEF TypeInv, IfaceTypeOK
<1>3. list' \in Seq(Descs)
  BY <1>2, UnlinkedList DEF Signals
<1>4. QED
  BY <1>1, <1>3, WakeTyped DEF Signals, Serve, TypeInv, IfaceTypeOK, Procs

\* A step of the process of an interface, and what happens to it.
LEMMA ThreadTyped ==
  ASSUME TypeInv, settled' \in BOOLEAN, NEW d \in Descs,
         ThreadStep(d) \/ ReadError(d) \/ \E s \in UserSigs : Signal(d, s)
  PROVE  TypeInv'
<1>1. CASE Start(d)
  <2>1. pc \in [Procs -> Labels] /\ list \in Seq(Descs)
    BY DEF TypeInv, IfaceTypeOK, Labels
  <2>2. pc' \in [Procs -> Labels] /\ \A c \in Callers : pc'[c] = "list" => pc[c] = "list"
    BY <1>1, <2>1, WakeTyped DEF Start, Procs
  <2>3. list' \in Seq(Descs)
    <3>1. <<d>> \o list \in Seq(Descs)
      BY <2>1, Inserted
    <3>2. QED
      BY <1>1, <2>1, <3>1 DEF Start
  <2>4. QED
    BY <1>1, <2>2, <2>3
    DEF Start, TypeInv, IfaceTypeOK, RoomLeft, Labels, locals, bounds
<1>2. CASE Read(d)
  BY <1>2, SignalsTyped
  DEF Read, TypeInv, IfaceTypeOK, RoomLeft, Labels, locals, bounds
<1>3. CASE NapEnd(d)
  BY <1>3, SignalsTyped
  DEF NapEnd, TypeInv, IfaceTypeOK, RoomLeft, Labels, locals, bounds
<1>4. CASE ReadError(d)
  BY <1>4 DEF ReadError, TypeInv, IfaceTypeOK, RoomLeft, proc, locals
<1>5. ASSUME NEW s \in UserSigs, Signal(d, s) PROVE TypeInv'
  <2>1. sig' \in [Descs -> SUBSET {"HUP", "KILL", "TERM"}]
    <3>1. s \in {"HUP", "KILL", "TERM"} /\ sig[d] \subseteq {"HUP", "KILL", "TERM"}
      BY DEF TypeInv, IfaceTypeOK
    <3>2. sig[d] \cup {s} \in SUBSET {"HUP", "KILL", "TERM"}
      BY <3>1
    <3>3. sig' = [sig EXCEPT ![d] = sig[d] \cup {s}]
      BY <1>5 DEF Signal
    <3>4. QED
      <4> DEFINE S == SUBSET {"HUP", "KILL", "TERM"}
      <4>1. sig \in [Descs -> S]
        BY DEF TypeInv, IfaceTypeOK
      <4>2. sig[d] \cup {s} \in S
        BY <3>2
      <4> HIDE DEF S
      <4>3. sig' \in [Descs -> S]
        BY <3>3, <4>1, <4>2
      <4>4. QED
        BY <4>3 DEF S
  <2>2. shot' \subseteq Descs
    BY <1>5 DEF Signal, TypeInv, IfaceTypeOK
  <2>3. served' \in [Callers -> BOOLEAN]
    <3>1. served' = served \/ served' = Serve(d)
      BY <1>5 DEF Signal
    <3>2. QED
      BY <3>1 DEF Serve, TypeInv, IfaceTypeOK
  <2>4. QED
    BY <1>5, <2>1, <2>2, <2>3 DEF Signal, TypeInv, IfaceTypeOK, RoomLeft, proc, locals
<1>6. QED
  BY <1>1, <1>2, <1>3, <1>4, <1>5 DEF ThreadStep

\* A step of the master process.
LEMMA MasterTyped == TypeInv /\ settled' \in BOOLEAN /\ MasterStep => TypeInv'
<1> SUFFICES ASSUME TypeInv, settled' \in BOOLEAN, MasterStep PROVE TypeInv'
  OBVIOUS
<1> USE DEF Goto
<1>1. CASE MasterSleeps
  BY <1>1 DEF MasterSleeps, TypeInv, IfaceTypeOK, RoomLeft, Procs, iface, locals, bounds
<1>2. CASE MasterDestroys
  <2>1. list[1] \in Descs
    BY <1>2, ElementOfSeq DEF MasterDestroys, TypeInv, IfaceTypeOK
  <2>2. QED
    BY <1>2, <2>1, DestroyTyped
    DEF MasterDestroys, TypeInv, IfaceTypeOK, RoomLeft, Procs, Labels, locals, bounds
<1>3. CASE MasterFrees
  BY <1>3 DEF MasterFrees, Free, TypeInv, IfaceTypeOK, RoomLeft, Procs, iface, locals, bounds
<1>4. CASE MasterExits
  <2>1. /\ pc' \in [Procs -> Labels]
        /\ \A c \in Callers : pc'[c] = "list" => pc[c] = "list"
    BY <1>4 DEF MasterExits, TypeInv, IfaceTypeOK, Procs, Labels
  <2>2. QED
    BY <1>4, <2>1
    DEF MasterExits, TypeInv, IfaceTypeOK, RoomLeft, Labels, iface, locals, bounds
<1>5. QED
  BY <1>1, <1>2, <1>3, <1>4 DEF MasterStep

\* Every step keeps the types.
LEMMA StepTyped == TypeInv /\ [Next]_vars => TypeInv'
<1> SUFFICES ASSUME TypeInv, [Next]_vars PROVE TypeInv'
  OBVIOUS
<1>1. CASE UNCHANGED vars
  BY <1>1 DEF vars, TypeInv, IfaceTypeOK, RoomLeft, iface, proc, locals, bounds
<1>2. settled' \in BOOLEAN
  BY SettledStep DEF Settles, TypeInv, IfaceTypeOK
<1>3. CASE Next
  BY <1>2, <1>3, CallerTyped, CommandTyped, ThreadTyped, MasterTyped DEF Next
<1>4. QED
  BY <1>1, <1>3

\* Every variable of the interface processes stays in its type, whether calls
\* overlap or not; in particular a list never outgrows the buffer it is copied to.
THEOREM IfaceTypeCorrect == Spec => []IfaceTypeOK
<1>1. TypeInv => IfaceTypeOK
  BY DEF TypeInv
<1>2. QED
  BY <1>1, InitTyped, StepTyped, PTL DEF Spec

-------------------------------------------------------------------------------
(* The invariant: who holds a descriptor, in which state it finds the      *)
(* process of the interface, and who may be inside the module.             *)

\* A call that waits for the process of its interface, or goes on when woken.
Claiming == Coming \cup Going

\* The list holds the running processes, each once.
ListInv ==
    /\ \A d \in Descs : d \in Listed <=> th[d] \in {"run", "nap"}
    /\ \A i, j \in DOMAIN list : list[i] = list[j] => i = j

\* A process has a descriptor, and a call waits for one that starts.
ThreadInv ==
    /\ \A d \in Descs : th[d] # "none" => d \in used
    /\ \A d \in Descs : th[d] = "new" => \E c \in Callers : pc[c] = "adding" /\ on[c] = d

\* A descriptor has one call waiting for its process.
ClaimInv ==
    /\ \A p \in Procs : pc[p] \in Claiming => on[p] \in used
    /\ \A p, q \in Procs : pc[p] \in Claiming /\ pc[q] \in Claiming /\ on[p] = on[q] => p = q

\* What the waiting call finds.
WaitInv ==
    /\ \A p \in Procs : pc[p] = "adding" => th[on[p]] = "new"
    /\ \A p \in Procs : pc[p] = "added" =>
          \/ th[on[p]] = "run" /\ err[on[p]] = 0
          \/ th[on[p]] = "none" /\ err[on[p]] # 0
    /\ \A p \in Procs : pc[p] \in Coming => sig[on[p]] = {}
    /\ \A p \in Procs : pc[p] = "deleting" =>
          th[on[p]] \in {"run", "nap"} /\ "KILL" \in sig[on[p]]
    /\ \A p \in Procs : pc[p] = "deleted" => th[on[p]] = "none"

\* A copy or a reset meets no call that frees.
CopyInv ==
    /\ \A p \in Procs : pc[p] \in Copying \cup {"flushing"} => on[p] \in used
    /\ \A p, q \in Procs : pc[p] \in Copying /\ pc[q] \in Claiming /\ on[p] = on[q] =>
          pc[q] = "added" /\ th[on[q]] = "run"
    /\ \A p \in Procs : pc[p] = "flushing" => th[on[p]] \in {"run", "nap"}

\* Who is told to stop is told by a user or by a call that waits for it.
StopInv ==
    \A d \in Descs : sig[d] \cap Ending # {} =>
        d \in shot \/ \E p \in Procs : pc[p] = "deleting" /\ on[p] = d

\* What NoLeak and ResetDone say, whether calls have met or not.
Accounted ==
    used \subseteq Listed \cup shot \cup {on[p] : p \in {q \in Procs : pc[q] \in Coming \cup Going}}
Waited == \A c \in Callers : pc[c] = "flushed" => served[c]

\* Callers and the master keep to their own code.
Masterly == {"gone", "new", "asleep", "awake"}
Leaving == {"unloading", "unloaded"}
RoleInv ==
    /\ pc[Master] \in Masterly \cup Going
    /\ \A c \in Callers : pc[c] \notin Masterly

\* One caller at a time unloads the module, and while one does so and when it is
\* gone no interface is being added.
UnloadInv ==
    /\ \A c, e \in Callers : pc[c] \in Leaving /\ pc[e] \in Leaving => c = e
    /\ Unloading => loaded
    /\ Unloading \/ ~ loaded => ~ Adding
    /\ (\E c \in Callers : pc[c] = "unloaded") \/ ~ loaded =>
          list = << >> /\ pc[Master] = "gone"

Sound == ListInv /\ ThreadInv /\ ClaimInv /\ WaitInv /\ CopyInv /\ StopInv /\ Accounted /\ Waited
Inside == RoleInv /\ UnloadInv
IfaceInv == Sound /\ Inside

\* The initial state satisfies it.
LEMMA InitIface == Init => IfaceInv
<1> SUFFICES ASSUME Init PROVE IfaceInv
  OBVIOUS
<1>1. /\ \A d \in Descs : th[d] = "none" /\ sig[d] = {}
      /\ \A c \in Callers : pc[c] = "idle"
      /\ pc[Master] = "gone"
      /\ \A p \in Procs : pc[p] \in {"idle", "gone"}
      /\ list = << >> /\ used = {} /\ ~ loaded
  BY DEF Init, Procs
<1>2. ListInv /\ Accounted /\ Waited
  BY <1>1 DEF ListInv, Listed, Accounted, Waited
<1>3. ThreadInv /\ ClaimInv /\ WaitInv /\ CopyInv /\ StopInv
  BY <1>1 DEF ThreadInv, ClaimInv, WaitInv, CopyInv, StopInv, Claiming, Coming, Going, Copying, Procs
<1>4. RoleInv /\ UnloadInv
  BY <1>1 DEF RoleInv, UnloadInv, Masterly, Leaving, Unloading, Adding, Coming
<1>5. QED
  BY <1>2, <1>3, <1>4 DEF IfaceInv, Sound, Inside

\* A name is looked up among the running processes.
LEMMA Lookup ==
  ASSUME IfaceTypeOK, ListInv, NEW n
  PROVE  \A d \in lookup(n) : d \in Descs /\ th[d] \in {"run", "nap"}
<1>1. \A i \in DOMAIN list : list[i] \in Descs /\ list[i] \in Listed
  BY ElementOfSeq DEF IfaceTypeOK, Listed
<1>2. \A d \in Listed : d \in Descs /\ th[d] \in {"run", "nap"}
  BY <1>1 DEF Listed, ListInv
<1>3. QED
  BY <1>2 DEF lookup

\* wakeup(), label by label.
LEMMA WokenLabels ==
  \A l \in Labels :
     /\ Woken(l) = "added" <=> l \in {"adding", "added"}
     /\ Woken(l) = "deleted" <=> l \in {"deleting", "deleted"}
     /\ Woken(l) = "flushed" <=> l \in {"flushing", "flushed"}
     /\ l \notin Asleep => Woken(l) = l
     /\ Woken(l) \notin Asleep
BY DEF Woken, Labels, Asleep, Coming, Going, Copying

\* Who is inside changes by loading and unloading alone: other steps lead callers
\* and the master from labels of theirs to labels of theirs, and to an addition only
\* while the module is there and nobody unloads it.
LEMMA InsideKept ==
  ASSUME IfaceInv, loaded' = loaded, list' = list \/ (list = << >> => list' = << >>) \/ Adding,
         \/ pc'[Master] = pc[Master]
         \/ pc[Master] # "gone" /\ pc'[Master] \in Masterly \cup Going,
         \A e \in Callers :
             pc'[e] = pc[e] \/ (pc[e] \notin Leaving /\ pc'[e] \notin Leaving \cup Masterly),
         \/ \A e \in Callers : pc'[e] \in Coming => pc[e] \in Coming
         \/ loaded /\ ~ Unloading
  PROVE  Inside'
<1> USE DEF IfaceInv, Inside
<1>1. RoleInv'
  BY DEF RoleInv
<1>2. \A e \in Callers : /\ pc'[e] \in Leaving <=> pc[e] \in Leaving
                         /\ pc'[e] = "unloaded" <=> pc[e] = "unloaded"
  BY DEF Leaving
<1>3. Unloading <=> Unloading'
  BY <1>2 DEF Unloading, Leaving
<1>4. Unloading \/ ~ loaded => ~ Adding'
  BY DEF Adding, UnloadInv
<1>5. UnloadInv'
  <2>1. \A c, e \in Callers : pc'[c] \in Leaving /\ pc'[e] \in Leaving => c = e
    BY <1>2 DEF UnloadInv
  <2>2. ASSUME (\E c \in Callers : pc'[c] = "unloaded") \/ ~ loaded'
        PROVE  list' = << >> /\ pc'[Master] = "gone"
    <3>1. (\E c \in Callers : pc[c] = "unloaded") \/ ~ loaded
      BY <1>2, <2>2
    <3>2. list = << >> /\ pc[Master] = "gone" /\ ~ Adding
      BY <3>1 DEF UnloadInv, Unloading
    <3>3. QED
      BY <3>2
  <2>3. QED
    BY <1>3, <1>4, <2>1, <2>2 DEF UnloadInv
<1>6. QED
  BY <1>1, <1>5

-------------------------------------------------------------------------------
(* Steps of a caller that holds no claim.                                  *)

Loose == {"idle", "conf", "setf", "list", "flushed"} \cup Copying

Moves(c) ==
    /\ pc[c] \in Loose /\ pc'[c] \in Loose \ {"flushed"}
    /\ \A p \in Procs : p # c => pc'[p] = pc[p] /\ on'[p] = on[p]
    /\ \A e \in Callers : e # c => served'[e] = served[e]
    /\ UNCHANGED <<loaded, used, iface, shot>>
    /\ pc'[c] \in Copying =>
          /\ on'[c] \in used
          /\ \A q \in Procs : pc[q] \in Claiming /\ on[q] = on'[c] =>
                pc[q] = "added" /\ th[on[q]] = "run"

\* Such a step keeps the invariant.
LEMMA MovesKeep ==
  ASSUME IfaceInv, NEW c \in Callers, Moves(c) PROVE IfaceInv'
<1> USE DEF IfaceInv, Sound, Inside
<1>1. /\ c \in Procs /\ c # Master
      /\ UNCHANGED <<loaded, used, list, name, err, th, sig, shot>>
      /\ \A p \in Procs : p # c => pc'[p] = pc[p] /\ on'[p] = on[p]
      /\ \A e \in Callers : e # c => served'[e] = served[e]
      /\ pc[c] \in Loose /\ pc'[c] \in Loose \ {"flushed"}
  BY DEF Moves, iface, Procs
<1>2. \A p \in Procs : /\ pc'[p] \in Claiming <=> pc[p] \in Claiming
                       /\ pc[p] \in Claiming => p # c
  <2>1. pc[c] \notin Claiming /\ pc'[c] \notin Claiming
    BY <1>1 DEF Claiming, Loose, Coming, Going, Copying
  <2>2. \A p \in Procs : p # c => (pc'[p] \in Claiming <=> pc[p] \in Claiming)
    BY <1>1 DEF Claiming
  <2>3. QED
    BY <2>1, <2>2
<1>3. ListInv'
  BY <1>1 DEF ListInv, Listed
<1>4. ThreadInv'
  BY <1>1 DEF ThreadInv, Loose, Copying, Procs
<1>5. ClaimInv'
  <2>1. \A p \in Procs : pc'[p] \in Claiming => pc[p] \in Claiming /\ on'[p] = on[p]
    BY <1>1, <1>2
  <2>2. QED
    BY <1>1, <2>1 DEF ClaimInv
<1>6. WaitInv'
  BY <1>1 DEF WaitInv, Loose, Coming, Copying
<1>7. CopyInv'
  <2>1. \A p \in Procs : pc'[p] \in Copying \cup {"flushing"} => on'[p] \in used'
    BY <1>1 DEF CopyInv, Moves, Loose, Copying
  <2>2. ASSUME NEW p \in Procs, NEW q \in Procs,
               pc'[p] \in Copying, pc'[q] \in Claiming, on'[p] = on'[q]
        PROVE  pc'[q] = "added" /\ th'[on'[q]] = "run"
    <3>1. pc[q] \in Claiming /\ q # c /\ on'[q] = on[q] /\ pc'[q] = pc[q]
      BY <1>1, <1>2, <2>2
    <3>2. CASE p = c
      BY <1>1, <2>2, <3>1, <3>2 DEF Moves
    <3>3. CASE p # c
      BY <1>1, <2>2, <3>1, <3>3 DEF CopyInv
    <3>4. QED
      BY <3>2, <3>3
  <2>3. \A p \in Procs : pc'[p] = "flushing" => th'[on'[p]] \in {"run", "nap"}
    BY <1>1 DEF CopyInv, Loose, Copying
  <2>4. QED
    BY <2>1, <2>2, <2>3 DEF CopyInv
<1>8. StopInv'
  BY <1>1 DEF StopInv, Loose, Copying
<1>9. Accounted'
  <2>1. \A q \in Procs : pc[q] \in Coming \cup Going =>
           pc'[q] \in Coming \cup Going /\ on'[q] = on[q]
    BY <1>1, <1>2 DEF Claiming
  <2>2. QED
    BY <1>1, <2>1 DEF Accounted, Listed
<1>10. Waited'
  <2>1. ASSUME NEW e \in Callers, pc'[e] = "flushed" PROVE served'[e]
    <3>1. e # c
      BY <1>1, <2>1
    <3>2. pc[e] = "flushed" /\ served'[e] = served[e]
      BY <1>1, <2>1, <3>1 DEF Procs
    <3>3. served[e]
      BY <3>2 DEF Waited
    <3>4. QED
      BY <3>2, <3>3
  <2>2. QED
    BY <2>1 DEF Waited
<1>11. Inside'
  <2>1. pc[c] \notin Leaving /\ pc'[c] \notin Masterly \cup Leaving \cup Coming
    BY <1>1 DEF Loose, Masterly, Leaving, Coming, Copying
  <2>2. /\ pc'[Master] = pc[Master]
        /\ \A e \in Callers : e # c => pc'[e] = pc[e]
    BY <1>1 DEF Procs
  <2>3. \A e \in Callers :
           /\ pc'[e] = pc[e] \/ (pc[e] \notin Leaving /\ pc'[e] \notin Leaving \cup Masterly)
           /\ pc'[e] \in Coming => pc[e] \in Coming
    BY <2>1, <2>2
  <2>4. loaded' = loaded /\ list' = list
    BY <1>1
  <2>5. QED
    BY <2>2, <2>3, <2>4, InsideKept
<1>12. QED
  BY <1>3, <1>4, <1>5, <1>6, <1>7, <1>8, <1>9, <1>10, <1>11

LEMMA MovesSteps ==
  ASSUME TypeInv, IfaceInv, settled', NEW c \in Callers,
         \/ Conf(c) \/ SetF(c) \/ CopyIn(c) \/ Flushed(c) \/ List(c) \/ Walk(c)
         \/ InfoCmd(c) \/ \E n \in Names : Exists(c, n) \/ SetCmd(c, n) \/ Unknown(c, n)
  PROVE  Moves(c)
<1> USE DEF Goto, Loose, Copying
<1>1. /\ pc \in [Procs -> Labels] /\ on \in [Procs -> Descs \cup {Nil}] /\ c \in Procs
      /\ arg \in [Callers -> Names] /\ served \in [Callers -> BOOLEAN]
  BY DEF TypeInv, IfaceTypeOK, Labels, Procs
<1>2. CASE Conf(c)
  BY <1>1, <1>2 DEF Conf, Moves, locals
<1>3. CASE CopyIn(c)
  BY <1>1, <1>3 DEF CopyIn, Moves, locals
<1>4. CASE Flushed(c)
  BY <1>1, <1>4 DEF Flushed, Moves, locals
<1>5. CASE InfoCmd(c)
  BY <1>1, <1>5 DEF InfoCmd, Cmd, Moves
<1>6. CASE \E n \in Names : Exists(c, n) \/ SetCmd(c, n) \/ Unknown(c, n)
  BY <1>1, <1>6 DEF Exists, SetCmd, Unknown, Cmd, Moves, locals, proc
<1>7. CASE SetF(c)
  <2>1. CASE lookup(arg[c]) = {} /\ Goto(c, "idle") /\ on' = on
    BY <1>1, <1>7, <2>1 DEF SetF, Moves, locals
  <2>2. ASSUME NEW d \in lookup(arg[c]), on' = [on EXCEPT ![c] = d], Goto(c, "copyin"),
               Note(Meets("copyin", d))
        PROVE  Moves(c)
    <3>1. d \in Descs /\ th[d] \in {"run", "nap"}
      BY Lookup DEF TypeInv, IfaceInv, Sound
    <3>2. d \in used
      BY <3>1 DEF IfaceInv, Sound, ThreadInv
    <3>3. ~ Meets("copyin", d)
      BY <2>2, Zenon DEF Note
    <3>4. \A q \in Procs : pc[q] \in Claiming /\ on[q] = d =>
             pc[q] = "added" /\ th[on[q]] = "run"
      BY <3>1, <3>3 DEF Meets, Held, Claiming, Coming, IfaceInv, Sound, WaitInv
    <3>5. QED
      BY <1>1, <1>7, <2>2, <3>1, <3>2, <3>4 DEF SetF, Moves, locals
  <2>3. QED
    BY <1>7, <2>1, <2>2 DEF SetF
<1>8. ASSUME List(c) \/ Walk(c) PROVE Moves(c)
  <2>1. \/ Leave(c)
        \/ \E i \in DOMAIN list : Visit(c, list[i])
    <3>1. DOMAIN list = 1 .. Len(list) /\ Len(list) \in Nat
      BY LenProperties DEF TypeInv, IfaceTypeOK
    <3>2. CASE List(c)
      <4>1. list # << >> => 1 \in DOMAIN list
        BY DEF TypeInv, IfaceTypeOK
      <4>2. QED
        BY <3>2, <4>1 DEF List
    <3>3. CASE Walk(c)
      <4>1. \A j \in DOMAIN list \ {Len(list)} : j + 1 \in DOMAIN list
        BY <3>1
      <4>2. QED
        BY <3>3, <4>1 DEF Walk
    <3>4. QED
      BY <1>8, <3>2, <3>3
  <2>2. /\ UNCHANGED <<loaded, used, iface, arg, served, shot, bounds>>
        /\ pc[c] \in {"list", "walk"}
    BY <1>8 DEF List, Walk
  <2>3. CASE Leave(c)
    BY <1>1, <2>2, <2>3 DEF Leave, Moves
  <2>4. ASSUME NEW i \in DOMAIN list, Visit(c, list[i]) PROVE Moves(c)
    <3> DEFINE d == list[i]
    <3>1. d \in Descs /\ th[d] \in {"run", "nap"} /\ d \in used
      <4>1. d \in Descs /\ d \in Listed
        BY ElementOfSeq DEF Listed, TypeInv, IfaceTypeOK
      <4>2. QED
        BY <4>1 DEF IfaceInv, Sound, ListInv, ThreadInv
    <3>2. ~ Meets("walk", d)
      BY <2>4, Zenon DEF Visit, Note
    <3>3. ASSUME NEW q \in Procs, pc[q] \in Claiming, on[q] = d
          PROVE  pc[q] = "added" /\ th[on[q]] = "run"
      <4>1. pc[q] # "deleting"
        BY <3>2, <3>3 DEF Meets, Ending, IfaceInv, Sound, WaitInv
      <4>2. QED
        BY <3>1, <3>3, <4>1 DEF IfaceInv, Sound, WaitInv, Claiming, Coming, Going
    <3> HIDE DEF d
    <3>4. Visit(c, d)
      BY <2>4 DEF d
    <3>5. QED
      BY <1>1, <2>2, <3>1, <3>3, <3>4 DEF Visit, Moves
  <2>5. QED
    BY <2>1, <2>3, <2>4
<1>9. QED
  BY <1>2, <1>3, <1>4, <1>5, <1>6, <1>7, <1>8

-------------------------------------------------------------------------------
(* The calls that claim a descriptor, and the steps that give it up.       *)

\* ipflow_if_create() takes a descriptor nobody knows.
LEMMA AddKeeps ==
  ASSUME TypeInv, IfaceInv, settled', NEW c \in Callers, NEW n \in Names, Add(c, n)
  PROVE  IfaceInv'
<1> USE DEF IfaceInv, Sound
<1>1. PICK d \in Descs \ used :
         /\ used' = used \cup {d}
         /\ name' = [name EXCEPT ![d] = n] /\ err' = [err EXCEPT ![d] = 0]
         /\ th' = [th EXCEPT ![d] = "new"] /\ sig' = [sig EXCEPT ![d] = {}]
         /\ on' = [on EXCEPT ![c] = d]
         /\ shot' = shot \ {d}
  BY DEF Add
<1>2. /\ pc[c] = "idle" /\ loaded
      /\ pc' = [pc EXCEPT ![c] = "adding"]
      /\ UNCHANGED <<loaded, list, room, served, events>>
  BY DEF Add, Cmd, Goto
<1>3. /\ pc \in [Procs -> Labels] /\ on \in [Procs -> Descs \cup {Nil}]
      /\ arg \in [Callers -> Names] /\ used \subseteq Descs
      /\ th \in [Descs -> {"none", "new", "run", "nap"}]
      /\ sig \in [Descs -> SUBSET {"HUP", "KILL", "TERM"}]
      /\ name \in [Descs -> Names] /\ err \in [Descs -> {-1, 0, 1}]
      /\ c \in Procs /\ c # Master
  BY DEF TypeInv, IfaceTypeOK, Labels, Procs
<1>4. th[d] = "none"
  BY DEF ThreadInv
<1>5. \A e \in Descs : e # d =>
         th'[e] = th[e] /\ sig'[e] = sig[e] /\ name'[e] = name[e] /\ err'[e] = err[e]
  BY <1>1, <1>3
<1>6. \A p \in Procs : p # c => pc'[p] = pc[p] /\ on'[p] = on[p]
  BY <1>1, <1>2, <1>3
<1>7. /\ pc'[c] = "adding" /\ on'[c] = d
      /\ th'[d] = "new" /\ sig'[d] = {} /\ name'[d] = n /\ err'[d] = 0
  BY <1>1, <1>2, <1>3
<1>8. \A p \in Procs : p # c /\ pc'[p] \in Claiming \cup Copying \cup {"flushing"} =>
         on[p] \in used /\ on[p] \in Descs /\ on[p] # d
  BY <1>1, <1>3, <1>6 DEF ClaimInv, CopyInv
<1>9. ListInv'
  <2>1. list' = list
    BY <1>2
  <2>2. d \notin Listed
    BY <1>4 DEF ListInv
  <2>3. \A e \in Descs : e \in Listed' <=> th'[e] \in {"run", "nap"}
    BY <1>5, <1>7, <2>1, <2>2 DEF ListInv, Listed
  <2>4. QED
    BY <2>1, <2>3 DEF ListInv
<1>10. ThreadInv'
  <2>1. \A e \in Descs : th'[e] # "none" => e \in used'
    BY <1>1, <1>5 DEF ThreadInv
  <2>4. ASSUME NEW e \in Descs, th'[e] = "new"
        PROVE  \E a \in Callers : pc'[a] = "adding" /\ on'[a] = e
    <3>1. CASE e = d
      BY <1>7, <3>1
    <3>2. CASE e # d
      <4>1. PICK a \in Callers : pc[a] = "adding" /\ on[a] = e
        BY <1>5, <2>4, <3>2 DEF ThreadInv
      <4>2. a # c /\ a \in Procs
        BY <1>2, <4>1 DEF Procs
      <4>3. QED
        BY <1>6, <4>1, <4>2
    <3>3. QED
      BY <3>1, <3>2
  <2>5. QED
    BY <2>1, <2>4 DEF ThreadInv
<1>11. ClaimInv'
  <2>1. \A p \in Procs : pc'[p] \in Claiming => on'[p] \in used'
    BY <1>1, <1>6, <1>7, <1>8
  <2>2. \A p, q \in Procs :
           pc'[p] \in Claiming /\ pc'[q] \in Claiming /\ on'[p] = on'[q] => p = q
    BY <1>6, <1>7, <1>8 DEF ClaimInv
  <2>3. QED
    BY <2>1, <2>2 DEF ClaimInv
<1>12. WaitInv'
  <2>1. \A p \in Procs : p # c /\ pc'[p] \in Claiming =>
           /\ th'[on'[p]] = th[on[p]] /\ sig'[on'[p]] = sig[on[p]]
           /\ err'[on'[p]] = err[on[p]] /\ pc'[p] = pc[p]
    BY <1>5, <1>6, <1>8
  <2>2. QED
    BY <1>7, <2>1 DEF WaitInv, Claiming, Coming, Going
<1>13. CopyInv'
  <2>1. \A p \in Procs : pc'[p] \in Copying \cup {"flushing"} =>
           p # c /\ pc'[p] = pc[p] /\ on'[p] = on[p] /\ on[p] # d /\ on[p] \in used
           /\ th'[on[p]] = th[on[p]]
    BY <1>5, <1>6, <1>7, <1>8 DEF Copying
  <2>3. \A p \in Procs : pc'[p] \in Copying \cup {"flushing"} => on'[p] \in used'
    BY <1>1, <2>1
  <2>4. \A p, q \in Procs : pc'[p] \in Copying /\ pc'[q] \in Claiming /\ on'[p] = on'[q] =>
           pc'[q] = "added" /\ th'[on'[q]] = "run"
    BY <1>6, <1>7, <2>1 DEF CopyInv
  <2>5. \A p \in Procs : pc'[p] = "flushing" => th'[on'[p]] \in {"run", "nap"}
    BY <2>1 DEF CopyInv
  <2>6. QED
    BY <2>3, <2>4, <2>5 DEF CopyInv
<1>14. StopInv'
  BY <1>1, <1>2, <1>5, <1>6, <1>7 DEF StopInv
<1>15. Accounted'
  <2>1. \A q \in Procs : pc[q] \in Claiming => pc'[q] \in Claiming /\ on'[q] = on[q]
    BY <1>2, <1>6 DEF Claiming, Coming, Going
  <2>2. pc'[c] \in Claiming /\ on'[c] = d
    BY <1>7 DEF Claiming, Coming
  <2>3. QED
    BY <1>1, <1>2, <1>3, <2>1, <2>2 DEF Accounted, Listed, Claiming
<1>16. Waited'
  BY <1>2, <1>3 DEF Waited, Procs
<1>17. Inside'
  <2>1. ~ Unloading
    BY Zenon DEF Add, Note
  <2>2. pc'[Master] = pc[Master]
    BY <1>3, <1>6 DEF Procs
  <2>3. \A e \in Callers :
           pc'[e] = pc[e] \/ (pc[e] \notin Leaving /\ pc'[e] \notin Leaving \cup Masterly)
    BY <1>2, <1>6, <1>7 DEF Procs, Leaving, Masterly
  <2>4. loaded' = loaded /\ list' = list /\ loaded
    BY <1>2
  <2>5. QED
    BY <2>1, <2>2, <2>3, <2>4, InsideKept
<1>18. QED
  BY <1>9, <1>10, <1>11, <1>12, <1>13, <1>14, <1>15, <1>16, <1>17

\* A claim is given up: by the caller that added, who keeps a descriptor with a
\* running process and frees one without, or by whoever deleted.
GivesUp(p) ==
    /\ pc[p] \in {"added", "deleted"} /\ pc'[p] \in {"idle", "conf", "awake"}
    /\ used' = IF pc[p] = "deleted" \/ err[on[p]] # 0 THEN used \ {on[p]} ELSE used
    /\ \A q \in Procs : q # p => pc'[q] = pc[q] /\ on'[q] = on[q]
    /\ UNCHANGED <<loaded, iface, served, shot>>

LEMMA GivesUpKeeps ==
  ASSUME TypeInv, IfaceInv, NEW p \in Procs, GivesUp(p) PROVE Sound'
<1> USE DEF IfaceInv, Sound
<1>1. /\ UNCHANGED <<loaded, list, name, err, th, sig, served, shot>>
      /\ \A q \in Procs : q # p => pc'[q] = pc[q] /\ on'[q] = on[q]
      /\ pc[p] \in Claiming
      /\ \A l \in Claiming \cup Copying \cup {"flushing", "flushed"} : pc'[p] # l
  BY DEF GivesUp, iface, Claiming, Coming, Going, Copying
<1>2. on[p] \in used /\ on[p] \in Descs
  BY <1>1 DEF ClaimInv, TypeInv, IfaceTypeOK
<1>3. used' \subseteq used /\ \A d \in used : d # on[p] => d \in used'
  BY DEF GivesUp
<1>4. CASE on[p] \in used'
  <2>1. used' = used /\ th[on[p]] = "run"
    BY <1>2, <1>4 DEF GivesUp, WaitInv
  <2>2. QED
    <3>1. ListInv'
      BY <1>1 DEF ListInv, Listed
    <3>2. ThreadInv'
      <4>1. ASSUME NEW d \in Descs, th'[d] = "new"
            PROVE  \E a \in Callers : pc'[a] = "adding" /\ on'[a] = d
        <5>1. PICK a \in Callers : pc[a] = "adding" /\ on[a] = d
          BY <1>1, <4>1 DEF ThreadInv
        <5>2. a # p
          BY <1>1, <2>1, <4>1, <5>1
        <5>3. QED
          BY <1>1, <5>1, <5>2 DEF Procs
      <4>2. QED
        BY <1>1, <2>1, <4>1 DEF ThreadInv
    <3>3. ClaimInv'
      BY <1>1, <2>1 DEF ClaimInv, Procs
    <3>4. WaitInv'
      BY <1>1 DEF WaitInv, Claiming, Coming, Going
    <3>5. CopyInv'
      BY <1>1, <2>1 DEF CopyInv, Claiming, Copying
    <3>6. StopInv'
      <4>1. pc[p] # "deleting"
        BY DEF GivesUp
      <4>2. QED
        BY <1>1, <4>1 DEF StopInv
    <3>7. Accounted'
      <4>1. on[p] \in Listed
        BY <1>2, <2>1 DEF ListInv
      <4>2. \A q \in Procs : q # p /\ pc[q] \in Coming \cup Going =>
               pc'[q] \in Coming \cup Going /\ on'[q] = on[q]
        BY <1>1
      <4>3. Listed' = Listed
        BY <1>1 DEF Listed
      <4>4. QED
        BY <1>1, <2>1, <4>1, <4>2, <4>3 DEF Accounted
    <3>8. Waited'
      BY <1>1 DEF Waited, Procs
    <3>9. QED
      BY <3>1, <3>2, <3>3, <3>4, <3>5, <3>6, <3>7, <3>8
<1>5. CASE on[p] \notin used'
  <2>1. used' = used \ {on[p]} /\ th[on[p]] = "none"
    <3>1. pc[p] = "deleted" \/ err[on[p]] # 0
      BY <1>2, <1>5 DEF GivesUp
    <3>2. QED
      BY <3>1 DEF GivesUp, WaitInv
  <2>2. ListInv'
    BY <1>1 DEF ListInv, Listed
  <2>3. ThreadInv'
    <3>1. ASSUME NEW d \in Descs, th'[d] = "new"
          PROVE  \E a \in Callers : pc'[a] = "adding" /\ on'[a] = d
      <4>1. PICK a \in Callers : pc[a] = "adding" /\ on[a] = d
        BY <1>1, <3>1 DEF ThreadInv
      <4>2. a # p
        BY <1>1, <2>1, <3>1, <4>1
      <4>3. QED
        BY <1>1, <4>1, <4>2 DEF Procs
    <3>2. QED
      BY <1>1, <2>1, <3>1 DEF ThreadInv
  <2>4. ClaimInv'
    BY <1>1, <2>1 DEF ClaimInv, Procs
  <2>5. WaitInv'
    BY <1>1 DEF WaitInv, Claiming, Coming, Going
  <2>6. CopyInv'
    <3>1. \A q \in Procs : pc'[q] \in Copying \cup {"flushing"} =>
             q # p /\ pc'[q] = pc[q] /\ on'[q] = on[q]
      BY <1>1
    <3>2. \A q \in Procs : pc[q] \in Copying => on[q] # on[p]
      BY <1>1, <2>1 DEF CopyInv
    <3>3. \A q \in Procs : pc[q] = "flushing" => on[q] # on[p]
      BY <1>1, <2>1 DEF CopyInv
    <3>4. \A q \in Procs : pc'[q] \in Copying \cup {"flushing"} => on'[q] \in used'
      BY <2>1, <3>1, <3>2, <3>3 DEF CopyInv
    <3>5. QED
      BY <1>1, <3>1, <3>4 DEF CopyInv, Claiming, Copying
  <2>7. StopInv'
    <3>1. pc[p] # "deleting"
      BY DEF GivesUp
    <3>2. QED
      BY <1>1, <3>1 DEF StopInv
  <2>8. Accounted'
    <3>1. \A q \in Procs : q # p /\ pc[q] \in Coming \cup Going =>
             pc'[q] \in Coming \cup Going /\ on'[q] = on[q]
      BY <1>1
    <3>2. Listed' = Listed
      BY <1>1 DEF Listed
    <3>3. QED
      BY <1>1, <2>1, <3>1, <3>2 DEF Accounted
  <2>9. Waited'
    BY <1>1 DEF Waited, Procs
  <2>10. QED
    BY <2>2, <2>3, <2>4, <2>5, <2>6, <2>7, <2>8, <2>9
<1>6. QED
  BY <1>4, <1>5

\* A caller returns from ipflow_if_create() or ipflow_if_destroy().
LEMMA ReturnsKeep ==
  ASSUME TypeInv, IfaceInv, NEW c \in Callers, Added(c) \/ Deleted(c) PROVE IfaceInv'
<1>1. /\ c \in Procs /\ pc \in [Procs -> Labels] /\ on \in [Procs -> Descs \cup {Nil}]
      /\ pc[c] \in {"added", "deleted"}
  BY DEF TypeInv, IfaceTypeOK, Labels, Procs, Added, Deleted, Free
<1>2. GivesUp(c) /\ pc'[c] \in {"idle", "conf"}
  BY <1>1 DEF Added, Deleted, Free, GivesUp, Goto, locals
<1>3. Inside'
  <2>1. /\ pc'[Master] = pc[Master] /\ loaded' = loaded /\ list' = list
        /\ \A e \in Callers : e # c => pc'[e] = pc[e]
    BY <1>2 DEF GivesUp, Procs, iface
  <2>2. \A e \in Callers :
           /\ pc'[e] = pc[e] \/ (pc[e] \notin Leaving /\ pc'[e] \notin Leaving \cup Masterly)
           /\ pc'[e] \in Coming => pc[e] \in Coming
    BY <1>1, <1>2, <2>1 DEF Leaving, Masterly, Coming
  <2>3. QED
    BY <2>1, <2>2, InsideKept
<1>4. QED
  BY <1>1, <1>2, <1>3, GivesUpKeeps DEF IfaceInv

\* The master returns from ipflow_if_destroy().
LEMMA MasterFreesKeeps ==
  ASSUME TypeInv, IfaceInv, MasterFrees PROVE IfaceInv'
<1>1. /\ Master \in Procs /\ pc \in [Procs -> Labels] /\ on \in [Procs -> Descs \cup {Nil}]
      /\ pc[Master] = "deleted"
  BY DEF TypeInv, IfaceTypeOK, Labels, Procs, MasterFrees, Free
<1>2. GivesUp(Master) /\ pc'[Master] = "awake"
  BY <1>1 DEF MasterFrees, Free, GivesUp, Goto, locals
<1>3. \A c \in Callers : pc'[c] = pc[c]
  BY <1>2 DEF GivesUp, Procs
<1>4. Inside'
  <2>1. /\ loaded' = loaded /\ list' = list
        /\ pc[Master] # "gone" /\ pc'[Master] \in Masterly \cup Going
    BY <1>1, <1>2 DEF GivesUp, iface, Masterly
  <2>2. QED
    BY <1>3, <2>1, InsideKept
<1>5. QED
  BY <1>1, <1>2, <1>4, GivesUpKeeps DEF IfaceInv

-------------------------------------------------------------------------------
(* Deletion and reset.                                                     *)

\* ipflow_if_destroy() of an interface nobody else has a claim on or copies to.
LEMMA DestroyKeeps ==
  ASSUME TypeInv, IfaceInv, NEW p \in Procs, NEW d \in Descs, Destroy(p, d),
         th[d] \in {"run", "nap"}, pc[p] \in {"idle", "awake"},
         settled', UNCHANGED <<loaded, used, list, name, err, th, shot>>
  PROVE  /\ Sound'
         /\ pc'[p] = "deleting"
         /\ \A q \in Procs : q # p =>
               pc'[q] = IF on[q] = d THEN Woken(pc[q]) ELSE pc[q]
         /\ \A q \in Procs : q # p => pc'[q] = pc[q] \/ (pc[q] = "flushing" /\ pc'[q] = "flushed")
<1> USE DEF IfaceInv, Sound
<1>0. \A q \in Procs : pc[q] \in Claiming \cup Copying => on[q] # d
  <2>1. ~ Meets("del", d)
    BY Zenon DEF Destroy, Note
  <2>2. QED
    BY <2>1 DEF Meets, Held, Claiming
<1>1. /\ pc \in [Procs -> Labels] /\ on \in [Procs -> Descs \cup {Nil}]
      /\ sig \in [Descs -> SUBSET {"HUP", "KILL", "TERM"}]
  BY DEF TypeInv, IfaceTypeOK, Labels
<1>2. /\ pc'[p] = "deleting" /\ on'[p] = d
      /\ \A q \in Procs : q # p =>
            /\ pc'[q] = IF on[q] = d THEN Woken(pc[q]) ELSE pc[q]
            /\ on'[q] = on[q]
  BY <1>1 DEF Destroy, Wake
<1>3. /\ sig'[d] = sig[d] \cup {"KILL"}
      /\ \A e \in Descs : e # d => sig'[e] = sig[e]
  BY <1>1 DEF Destroy
<1>4. \A q \in Procs : q # p =>
         pc'[q] = pc[q] \/ (pc[q] = "flushing" /\ on[q] = d /\ pc'[q] = "flushed")
  <2>1. ASSUME NEW q \in Procs, q # p, on[q] = d, pc[q] # "flushing" PROVE pc'[q] = pc[q]
    <3>1. pc[q] \notin Asleep
      BY <1>0, <2>1 DEF Asleep, Claiming, Coming, Going
    <3>2. QED
      BY <1>1, <1>2, <2>1, <3>1, WokenLabels
  <2>2. ASSUME NEW q \in Procs, q # p, on[q] = d, pc[q] = "flushing" PROVE pc'[q] = "flushed"
    BY <1>2, <2>2 DEF Woken
  <2>3. \A q \in Procs : q # p /\ on[q] # d => pc'[q] = pc[q]
    BY <1>2
  <2>4. QED
    BY <2>1, <2>2, <2>3
<1>5. \A q \in Procs : q # p =>
         (pc'[q] \in Claiming \cup Copying \cup {"flushing"} => pc'[q] = pc[q] /\ on'[q] = on[q])
  BY <1>2, <1>4 DEF Claiming, Coming, Going, Copying
<1>6. pc[p] \notin Claiming
  BY DEF Claiming, Coming, Going
<1>7. \A q \in Procs : pc[q] \in Claiming => q # p /\ pc'[q] = pc[q] /\ on'[q] = on[q]
  BY <1>2, <1>4, <1>6 DEF Claiming, Coming, Going
<1>8. d \in used
  BY DEF ThreadInv
<1>9. ListInv'
  BY DEF ListInv, Listed
<1>10. ThreadInv'
  <2>1. ASSUME NEW e \in Descs, th'[e] = "new"
        PROVE  \E a \in Callers : pc'[a] = "adding" /\ on'[a] = e
    <3>1. PICK a \in Callers : pc[a] = "adding" /\ on[a] = e
      BY <2>1 DEF ThreadInv
    <3>2. QED
      BY <1>7, <3>1 DEF Procs, Claiming, Coming
  <2>2. QED
    BY <2>1 DEF ThreadInv
<1>11. ClaimInv'
  <2>1. \A q \in Procs : pc'[q] \in Claiming => on'[q] \in used'
    BY <1>2, <1>5, <1>8 DEF ClaimInv
  <2>2. \A q, r \in Procs :
           pc'[q] \in Claiming /\ pc'[r] \in Claiming /\ on'[q] = on'[r] => q = r
    BY <1>0, <1>2, <1>5 DEF ClaimInv
  <2>3. QED
    BY <2>1, <2>2 DEF ClaimInv
<1>12. WaitInv'
  <2>1. \A q \in Procs : q # p /\ pc'[q] \in Claiming =>
           /\ pc'[q] = pc[q] /\ on'[q] = on[q] /\ on[q] \in Descs
           /\ sig'[on[q]] = sig[on[q]]
    BY <1>0, <1>3, <1>5 DEF ClaimInv, TypeInv, IfaceTypeOK
  <2>2. QED
    BY <1>2, <1>3, <2>1 DEF WaitInv, Claiming, Coming, Going
<1>13. CopyInv'
  <2>1. \A q \in Procs : pc'[q] \in Copying \cup {"flushing"} =>
           pc[q] = pc'[q] /\ on'[q] = on[q] /\ q # p
    BY <1>2, <1>5 DEF Copying
  <2>2. ASSUME NEW q \in Procs, NEW r \in Procs,
               pc'[q] \in Copying, pc'[r] \in Claiming, on'[q] = on'[r]
        PROVE  pc'[r] = "added" /\ th'[on'[r]] = "run"
    <3>1. r # p
      BY <1>0, <1>2, <2>1, <2>2
    <3>2. QED
      BY <1>5, <2>1, <2>2, <3>1 DEF CopyInv
  <2>3. QED
    BY <2>1, <2>2 DEF CopyInv
<1>14. StopInv'
  <2>1. ASSUME NEW e \in Descs, sig'[e] \cap Ending # {}, e # d
        PROVE  e \in shot' \/ \E q \in Procs : pc'[q] = "deleting" /\ on'[q] = e
    BY <1>3, <1>7, <2>1 DEF StopInv, Claiming, Going
  <2>2. QED
    BY <1>2, <2>1 DEF StopInv
<1>15. Accounted'
  <2>1. Listed' = Listed
    BY DEF Listed
  <2>2. QED
    BY <1>7, <2>1 DEF Accounted, Claiming
<1>16. Waited'
  <2>1. ASSUME NEW c \in Callers, pc'[c] = "flushed" PROVE served'[c]
    <3>1. c # p /\ c \in Procs
      BY <1>2, <2>1 DEF Procs
    <3>2. served[c] \/ on[c] = d
      BY <1>4, <2>1, <3>1 DEF Waited
    <3>3. QED
      BY <3>2 DEF Destroy, Serve
  <2>2. QED
    BY <2>1 DEF Waited
<1>17. QED
  BY <1>2, <1>4, <1>9, <1>10, <1>11, <1>12, <1>13, <1>14, <1>15, <1>16

\* Who begins a deletion was idle or awake; nobody else comes to leave or to add.
LEMMA DestroyInside ==
  ASSUME IfaceInv, NEW p \in Procs, pc[p] \in {"idle", "awake"}, pc'[p] = "deleting",
         \A q \in Procs : q # p => pc'[q] = pc[q] \/ (pc[q] = "flushing" /\ pc'[q] = "flushed"),
         loaded' = loaded, list' = list
  PROVE  Inside'
<1>1. \/ pc'[Master] = pc[Master]
      \/ pc[Master] # "gone" /\ pc'[Master] \in Masterly \cup Going
  BY DEF Procs, IfaceInv, Inside, RoleInv, Going, Masterly
<1>2. \A e \in Callers :
         /\ pc'[e] = pc[e] \/ (pc[e] \notin Leaving /\ pc'[e] \notin Leaving \cup Masterly)
         /\ pc'[e] \in Coming => pc[e] \in Coming
  BY DEF Procs, Leaving, Masterly, Coming
<1>3. QED
  BY <1>1, <1>2, InsideKept

\* ipflow del, and the master while it unloads
LEMMA DeletesKeep ==
  ASSUME TypeInv, IfaceInv, settled',
         MasterDestroys \/ \E c \in Callers, n \in Names : Del(c, n)
  PROVE  IfaceInv'
<1>1. PICK p \in Procs, d \in Descs :
         /\ pc[p] \in {"idle", "awake"} /\ th[d] \in {"run", "nap"} /\ Destroy(p, d)
         /\ UNCHANGED <<loaded, used, list, name, err, th, shot>>
  <2>1. CASE MasterDestroys
    <3>1. list[1] \in Descs /\ list[1] \in Listed
      BY <2>1, ElementOfSeq, LenProperties DEF MasterDestroys, TypeInv, IfaceTypeOK, Listed
    <3>2. th[list[1]] \in {"run", "nap"}
      BY <3>1 DEF IfaceInv, Sound, ListInv
    <3>3. Master \in Procs
      BY DEF Procs
    <3>4. QED
      BY <2>1, <3>1, <3>2, <3>3 DEF MasterDestroys
  <2>2. ASSUME NEW c \in Callers, NEW n \in Names, Del(c, n)
        PROVE  \E p \in Procs, d \in Descs :
                  /\ pc[p] \in {"idle", "awake"} /\ th[d] \in {"run", "nap"} /\ Destroy(p, d)
                  /\ UNCHANGED <<loaded, used, list, name, err, th, shot>>
    <3>1. PICK d \in Descs : th[d] \in {"run", "nap"} /\ Destroy(c, d)
      BY <2>2, Lookup DEF Del, TypeInv, IfaceInv, Sound
    <3>2. c \in Procs /\ pc[c] = "idle"
      BY <2>2 DEF Del, Cmd, Procs
    <3>3. QED
      BY <2>2, <3>1, <3>2 DEF Del
  <2>3. QED
    BY <2>1, <2>2
<1>2. /\ Sound' /\ pc'[p] = "deleting"
      /\ \A q \in Procs : q # p => pc'[q] = pc[q] \/ (pc[q] = "flushing" /\ pc'[q] = "flushed")
  BY <1>1, DestroyKeeps
<1>3. Inside'
  BY <1>1, <1>2, DestroyInside
<1>4. QED
  BY <1>2, <1>3 DEF IfaceInv

\* IIOCFLUSHIF
LEMMA FlushIfKeeps ==
  ASSUME TypeInv, IfaceInv, settled', NEW c \in Callers, NEW n \in Names, FlushIf(c, n)
  PROVE  IfaceInv'
<1> USE DEF IfaceInv, Sound
<1>1. PICK d \in Descs :
         /\ th[d] \in {"run", "nap"} /\ Note(Meets("reset", d))
         /\ sig' = [sig EXCEPT ![d] = @ \cup {"HUP"}]
         /\ pc' = [pc EXCEPT ![c] = "flushing"]
         /\ on' = [on EXCEPT ![c] = d]
  BY Lookup DEF FlushIf, AfterHup, TypeInv
<1>2. /\ pc[c] = "idle"
      /\ served' = [served EXCEPT ![c] = FALSE]
      /\ UNCHANGED <<loaded, used, list, name, err, th, shot>>
  BY DEF FlushIf, Cmd
<1>3. /\ pc \in [Procs -> Labels] /\ on \in [Procs -> Descs \cup {Nil}]
      /\ sig \in [Descs -> SUBSET {"HUP", "KILL", "TERM"}]
      /\ served \in [Callers -> BOOLEAN]
      /\ c \in Procs /\ c # Master
  BY DEF TypeInv, IfaceTypeOK, Labels, Procs
<1>4. /\ pc'[c] = "flushing" /\ on'[c] = d
      /\ \A q \in Procs : q # c => pc'[q] = pc[q] /\ on'[q] = on[q]
      /\ \A e \in Callers : e # c => served'[e] = served[e]
  BY <1>1, <1>2, <1>3
<1>5. /\ sig'[d] = sig[d] \cup {"HUP"}
      /\ \A e \in Descs : e # d => sig'[e] = sig[e]
  BY <1>1, <1>3
<1>6. \A q \in Procs : /\ pc'[q] \in Claiming <=> pc[q] \in Claiming
                       /\ pc[q] \in Claiming => q # c
  BY <1>2, <1>4 DEF Claiming, Coming, Going
<1>7. d \in used
  BY <1>1 DEF ThreadInv
<1>8. ListInv'
  BY <1>2 DEF ListInv, Listed
<1>9. ThreadInv'
  BY <1>2, <1>4 DEF ThreadInv, Procs
<1>10. ClaimInv'
  BY <1>2, <1>4, <1>6 DEF ClaimInv, Procs
<1>11. WaitInv'
  <2>1. \A q \in Procs : pc[q] \in Coming => on[q] # d
    <3>1. ~ Meets("reset", d)
      BY <1>1, Zenon DEF Note
    <3>2. QED
      BY <3>1 DEF Meets, Held
  <2>2. \A q \in Procs : pc[q] \in Claiming => on[q] \in Descs
    BY DEF ClaimInv, TypeInv, IfaceTypeOK
  <2>3. \A q \in Procs : pc[q] \in Coming => sig'[on[q]] = {}
    BY <1>5, <2>1, <2>2 DEF WaitInv, Claiming
  <2>4. \A q \in Procs : pc[q] = "deleting" => "KILL" \in sig'[on[q]]
    BY <1>5, <2>2 DEF WaitInv, Claiming, Going
  <2>5. QED
    BY <1>2, <1>4, <2>3, <2>4 DEF WaitInv, Coming
<1>12. CopyInv'
  <2>1. \A q \in Procs : pc'[q] \in Copying => q # c /\ pc[q] \in Copying /\ on'[q] = on[q]
    BY <1>4 DEF Copying
  <2>2. \A q \in Procs : pc'[q] \in Copying \cup {"flushing"} => on'[q] \in used'
    BY <1>2, <1>4, <1>7 DEF CopyInv
  <2>3. \A q, r \in Procs : pc'[q] \in Copying /\ pc'[r] \in Claiming /\ on'[q] = on'[r] =>
           pc'[r] = "added" /\ th'[on'[r]] = "run"
    BY <1>2, <1>4, <1>6, <2>1 DEF CopyInv
  <2>4. \A q \in Procs : pc'[q] = "flushing" => th'[on'[q]] \in {"run", "nap"}
    BY <1>1, <1>2, <1>4 DEF CopyInv
  <2>5. QED
    BY <2>2, <2>3, <2>4 DEF CopyInv
<1>13. StopInv'
  BY <1>2, <1>4, <1>5 DEF StopInv, Ending
<1>14. Accounted'
  BY <1>2, <1>4, <1>6 DEF Accounted, Listed, Claiming
<1>15. Waited'
  <2>1. ASSUME NEW e \in Callers, pc'[e] = "flushed" PROVE served'[e]
    <3>1. e # c /\ pc[e] = "flushed"
      BY <1>4, <2>1 DEF Procs
    <3>2. QED
      BY <1>4, <3>1 DEF Waited
  <2>2. QED
    BY <2>1 DEF Waited
<1>16. Inside'
  <2>1. pc'[Master] = pc[Master] /\ loaded' = loaded /\ list' = list
    BY <1>2, <1>3, <1>4 DEF Procs
  <2>2. \A e \in Callers :
           /\ pc'[e] = pc[e] \/ (pc[e] \notin Leaving /\ pc'[e] \notin Leaving \cup Masterly)
           /\ pc'[e] \in Coming => pc[e] \in Coming
    BY <1>2, <1>4 DEF Procs, Leaving, Masterly, Coming
  <2>3. QED
    BY <2>1, <2>2, InsideKept
<1>17. QED
  BY <1>8, <1>9, <1>10, <1>11, <1>12, <1>13, <1>14, <1>15, <1>16

-------------------------------------------------------------------------------
(* The process of an interface.                                            *)

\* It starts, or fails to, and wakes the caller that adds the interface and nobody
\* else.
LEMMA StartKeeps ==
  ASSUME TypeInv, IfaceInv, NEW d \in Descs, Start(d) PROVE IfaceInv'
<1> USE DEF IfaceInv, Sound
<1>1. /\ th[d] = "new" /\ pc' = Wake(d)
      /\ UNCHANGED <<loaded, used, name, sig, on, served, shot>>
      /\ \/ /\ th' = [th EXCEPT ![d] = "run"] /\ err' = [err EXCEPT ![d] = 0]
            /\ list' = <<d>> \o list
         \/ /\ th' = [th EXCEPT ![d] = "none"] /\ err' = [err EXCEPT ![d] = 1]
            /\ list' = list
  BY DEF Start, locals
<1>2. /\ pc \in [Procs -> Labels] /\ on \in [Procs -> Descs \cup {Nil}]
      /\ th \in [Descs -> {"none", "new", "run", "nap"}] /\ err \in [Descs -> {-1, 0, 1}]
      /\ list \in Seq(Descs)
  BY DEF TypeInv, IfaceTypeOK, Labels
<1>3. PICK a \in Callers : pc[a] = "adding" /\ on[a] = d
  BY <1>1 DEF ThreadInv
<1>4. a \in Procs /\ pc[a] \in Claiming
  BY <1>3 DEF Procs, Claiming, Coming
<1>5. pc'[a] = "added" /\ \A q \in Procs : q # a => pc'[q] = pc[q]
  <2>1. pc'[a] = "added"
    BY <1>1, <1>3, <1>4 DEF Wake, Woken
  <2>2. ASSUME NEW q \in Procs, q # a, on[q] = d PROVE pc'[q] = pc[q]
    <3>1. pc[q] \notin Claiming
      BY <1>3, <1>4, <2>2 DEF ClaimInv
    <3>2. pc[q] # "flushing"
      BY <1>1, <2>2 DEF CopyInv
    <3>3. pc[q] \notin Asleep
      BY <3>1, <3>2 DEF Asleep, Claiming, Coming, Going
    <3>4. Woken(pc[q]) = pc[q]
      BY <1>2, <3>3, WokenLabels
    <3>5. QED
      BY <1>1, <2>2, <3>4 DEF Wake
  <2>3. \A q \in Procs : on[q] # d => pc'[q] = pc[q]
    BY <1>1 DEF Wake
  <2>4. QED
    BY <2>1, <2>2, <2>3
<1>6. \A q \in Procs : /\ pc'[q] \in Claiming <=> pc[q] \in Claiming
                       /\ pc'[q] \in Copying <=> pc[q] \in Copying
  BY <1>3, <1>5 DEF Claiming, Coming, Going, Copying
<1>7. \A e \in Descs : e # d => th'[e] = th[e] /\ err'[e] = err[e]
  BY <1>1, <1>2
<1>8. \/ th'[d] = "run" /\ err'[d] = 0
      \/ th'[d] = "none" /\ err'[d] # 0
  BY <1>1, <1>2
<1>9. \A q \in Procs : pc[q] \in Copying => on[q] # d
  BY <1>3, <1>4 DEF CopyInv
<1>10. d \notin Within(list) /\ Once(list) /\ Listed = Within(list) /\ Listed' = Within(list')
  <2>1. Listed = Within(list) /\ Listed' = Within(list')
    BY DEF Listed, Within
  <2>2. QED
    BY <1>1, <2>1 DEF ListInv, Once
<1>11. Listed' = (IF th'[d] = "run" THEN Listed \cup {d} ELSE Listed) /\ Once(list')
  <2>1. /\ Within(<<d>> \o list) = Within(list) \cup {d}
        /\ Once(<<d>> \o list)
    BY <1>2, <1>10, Inserted
  <2>2. CASE th'[d] = "run"
    <3>1. list' = <<d>> \o list
      BY <1>1, <1>2, <2>2
    <3>2. QED
      BY <1>10, <2>1, <2>2, <3>1
  <2>3. CASE th'[d] # "run"
    <3>1. list' = list
      BY <1>1, <1>2, <2>3
    <3>2. QED
      BY <1>10, <2>3, <3>1
  <2>4. QED
    BY <2>2, <2>3
<1>12. ListInv'
  BY <1>7, <1>8, <1>10, <1>11 DEF ListInv, Once
<1>13. ThreadInv'
  <2>1. ASSUME NEW e \in Descs, th'[e] = "new"
        PROVE  \E b \in Callers : pc'[b] = "adding" /\ on'[b] = e
    <3>1. e # d /\ th[e] = "new"
      BY <1>7, <1>8, <2>1
    <3>2. PICK b \in Callers : pc[b] = "adding" /\ on[b] = e
      BY <3>1 DEF ThreadInv
    <3>3. QED
      BY <1>1, <1>3, <1>5, <3>1, <3>2 DEF Procs
  <2>2. \A e \in Descs : th'[e] # "none" => th[e] # "none"
    BY <1>1, <1>7
  <2>3. \A e \in Descs : th'[e] # "none" => e \in used'
    BY <1>1, <2>2 DEF ThreadInv
  <2>4. QED
    BY <2>1, <2>3 DEF ThreadInv
<1>14. ClaimInv'
  BY <1>1, <1>6 DEF ClaimInv, Procs
<1>15. WaitInv'
  <2>1. \A q \in Procs : q # a /\ pc[q] \in Claiming => on[q] # d /\ on[q] \in Descs
    BY <1>3, <1>4 DEF ClaimInv, TypeInv, IfaceTypeOK
  <2>2. \A q \in Procs : q # a /\ pc'[q] \in Claiming =>
           pc'[q] = pc[q] /\ th'[on[q]] = th[on[q]] /\ err'[on[q]] = err[on[q]]
    BY <1>5, <1>7, <2>1
  <2>3. sig[d] = {}
    BY <1>3, <1>4 DEF WaitInv, Coming
  <2>4. /\ pc'[a] = "added" /\ on'[a] = d /\ sig'[d] = {}
        /\ \/ th'[d] = "run" /\ err'[d] = 0
           \/ th'[d] = "none" /\ err'[d] # 0
    BY <1>1, <1>3, <1>5, <1>8, <2>3
  <2>5. \A q \in Procs : q # a /\ pc'[q] \in Claiming =>
           /\ pc'[q] = pc[q] /\ on'[q] = on[q] /\ th'[on'[q]] = th[on[q]]
           /\ err'[on'[q]] = err[on[q]] /\ sig'[on'[q]] = sig[on[q]]
    BY <1>1, <2>2
  <2>6. \A q \in Procs : pc'[q] = "adding" => th'[on'[q]] = "new"
    BY <2>4, <2>5 DEF WaitInv, Claiming, Coming
  <2>7. ASSUME NEW q \in Procs, pc'[q] = "added"
        PROVE  \/ th'[on'[q]] = "run" /\ err'[on'[q]] = 0
               \/ th'[on'[q]] = "none" /\ err'[on'[q]] # 0
    <3>1. CASE q = a
      BY <2>4, <3>1
    <3>2. CASE q # a
      BY <2>5, <2>7, <3>2 DEF WaitInv, Claiming, Coming
    <3>3. QED
      BY <3>1, <3>2
  <2>8. \A q \in Procs : pc'[q] \in Coming => sig'[on'[q]] = {}
    BY <2>4, <2>5 DEF WaitInv, Claiming, Coming
  <2>9. \A q \in Procs : pc'[q] = "deleting" =>
           th'[on'[q]] \in {"run", "nap"} /\ "KILL" \in sig'[on'[q]]
    BY <2>4, <2>5 DEF WaitInv, Claiming, Going
  <2>10. \A q \in Procs : pc'[q] = "deleted" => th'[on'[q]] = "none"
    BY <2>4, <2>5 DEF WaitInv, Claiming, Going
  <2>11. QED
    BY <2>6, <2>7, <2>8, <2>9, <2>10 DEF WaitInv
<1>16. CopyInv'
  <2>1. \A q \in Procs : pc'[q] = "flushing" => pc[q] = "flushing"
    BY <1>5
  <2>2. \A q \in Procs : pc'[q] \in Copying \cup {"flushing"} => on'[q] \in used'
    BY <1>1, <1>6, <2>1 DEF CopyInv
  <2>3. ASSUME NEW q \in Procs, NEW r \in Procs,
               pc'[q] \in Copying, pc'[r] \in Claiming, on'[q] = on'[r]
        PROVE  pc'[r] = "added" /\ th'[on'[r]] = "run"
    <3>1. on[q] # d /\ on[r] # d /\ on[r] \in Descs /\ r # a
      BY <1>1, <1>3, <1>6, <1>9, <2>3 DEF ClaimInv, TypeInv, IfaceTypeOK
    <3>2. QED
      BY <1>1, <1>5, <1>6, <1>7, <2>3, <3>1 DEF CopyInv
  <2>5. ASSUME NEW q \in Procs, pc'[q] = "flushing" PROVE th'[on'[q]] \in {"run", "nap"}
    <3>1. th[on[q]] \in {"run", "nap"} /\ on[q] \in Descs
      BY <2>1, <2>5 DEF CopyInv, TypeInv, IfaceTypeOK
    <3>2. QED
      BY <1>1, <1>7, <3>1
  <2>6. QED
    BY <2>2, <2>3, <2>5 DEF CopyInv
<1>17. StopInv'
  BY <1>1, <1>3, <1>5 DEF StopInv
<1>18. Accounted'
  BY <1>1, <1>6, <1>11 DEF Accounted, Claiming
<1>19. Waited'
  BY <1>1, <1>5 DEF Waited, Procs
<1>20. Inside'
  <2>1. Adding
    BY <1>3 DEF Adding, Coming
  <2>2. pc'[Master] = pc[Master]
    BY <1>3, <1>5 DEF Procs
  <2>3. \A e \in Callers :
           /\ pc'[e] = pc[e] \/ (pc[e] \notin Leaving /\ pc'[e] \notin Leaving \cup Masterly)
           /\ pc'[e] \in Coming => pc[e] \in Coming
    BY <1>3, <1>5 DEF Procs, Leaving, Masterly, Coming
  <2>4. loaded' = loaded
    BY <1>1
  <2>5. QED
    BY <2>1, <2>2, <2>3, <2>4, InsideKept
<1>21. QED
  BY <1>12, <1>13, <1>14, <1>15, <1>16, <1>17, <1>18, <1>19, <1>20

\* Without a signal the process reads on.
LEMMA ReadsOnKeeps ==
  ASSUME TypeInv, IfaceInv, NEW d \in Descs, th[d] \in {"run", "nap"},
         th' = [th EXCEPT ![d] = "run"],
         \A e \in Descs : e # d => err'[e] = err[e],
         th[d] = "run" => err'[d] = 0,
         \A c \in Callers : served'[c] = served[c],
         UNCHANGED <<loaded, used, list, name, sig, proc, shot>>
  PROVE  IfaceInv'
<1> USE DEF IfaceInv, Sound, proc
<1>1. /\ th'[d] = "run" /\ \A e \in Descs : e # d => th'[e] = th[e]
      /\ \A e \in Descs : th'[e] \in {"run", "nap"} <=> th[e] \in {"run", "nap"}
      /\ \A e \in Descs : (th'[e] = "new" <=> th[e] = "new") /\ (th'[e] = "none" <=> th[e] = "none")
      /\ \A e \in Descs : th[e] = "run" => th'[e] = "run"
  BY DEF TypeInv, IfaceTypeOK
<1>2. \A q \in Procs : pc[q] \in Claiming \cup Copying \cup {"flushing"} => on[q] \in Descs
  BY DEF ClaimInv, CopyInv, TypeInv, IfaceTypeOK
<1>3. ListInv'
  BY <1>1 DEF ListInv, Listed
<1>4. ThreadInv'
  BY <1>1 DEF ThreadInv
<1>5. ClaimInv'
  BY DEF ClaimInv
<1>6. WaitInv'
  <2>1. ASSUME NEW q \in Procs, pc[q] = "added"
        PROVE  \/ th'[on[q]] = "run" /\ err'[on[q]] = 0
               \/ th'[on[q]] = "none" /\ err'[on[q]] # 0
    <3>1. on[q] \in Descs
      BY <1>2, <2>1 DEF Claiming, Coming
    <3>2. CASE on[q] = d
      <4>1. th[d] = "run"
        BY <2>1, <3>2 DEF WaitInv
      <4>2. QED
        BY <1>1, <3>2, <4>1
    <3>3. CASE on[q] # d
      BY <1>1, <2>1, <3>1, <3>3 DEF WaitInv
    <3>4. QED
      BY <3>2, <3>3
  <2>2. \A q \in Procs : pc[q] = "adding" => th'[on[q]] = "new"
    BY <1>1, <1>2 DEF WaitInv, Claiming, Coming
  <2>3. \A q \in Procs : pc[q] = "deleting" => th'[on[q]] \in {"run", "nap"}
    BY <1>1, <1>2 DEF WaitInv, Claiming, Going
  <2>4. \A q \in Procs : pc[q] = "deleted" => th'[on[q]] = "none"
    BY <1>1, <1>2 DEF WaitInv, Claiming, Going
  <2>5. QED
    BY <2>1, <2>2, <2>3, <2>4 DEF WaitInv
<1>7. CopyInv'
  <2>1. \A q \in Procs : pc[q] = "flushing" => th'[on[q]] \in {"run", "nap"}
    BY <1>1, <1>2 DEF CopyInv
  <2>2. \A q, r \in Procs : pc[q] \in Copying /\ pc[r] \in Claiming /\ on[q] = on[r] =>
           pc[r] = "added" /\ th'[on[r]] = "run"
    BY <1>1, <1>2 DEF CopyInv
  <2>3. QED
    BY <2>1, <2>2 DEF CopyInv
<1>8. StopInv' /\ Accounted'
  BY DEF StopInv, Accounted, Listed
<1>9. Waited'
  BY DEF Waited
<1>10. Inside'
  BY DEF Inside, RoleInv, UnloadInv, Unloading, Adding
<1>11. QED
  BY <1>3, <1>4, <1>5, <1>6, <1>7, <1>8, <1>9, <1>10

\* With signals it wakes everybody on its descriptor, and ends if one tells it to:
\* nobody who adds the interface is there, and who deletes it has told it to.
LEMMA WokenKeeps ==
  ASSUME TypeInv, IfaceInv, NEW d \in Descs, th[d] \in {"run", "nap"}, Signals(d),
         sig[d] # {},
         \A e \in Descs : e # d => err'[e] = err[e],
         UNCHANGED <<loaded, used, name, on, shot>>
  PROVE  IfaceInv'
<1> USE DEF IfaceInv, Sound
<1> DEFINE die == sig[d] \cap {"KILL", "TERM"} # {}
<1>1. /\ sig' = [sig EXCEPT ![d] = {}] /\ served' = Serve(d) /\ pc' = Wake(d)
      /\ th' = [th EXCEPT ![d] = IF die THEN "none" ELSE "run"]
      /\ list' = IF die THEN Unlinked(d) ELSE list
  BY DEF Signals
<1>2. /\ pc \in [Procs -> Labels] /\ on \in [Procs -> Descs \cup {Nil}]
      /\ th \in [Descs -> {"none", "new", "run", "nap"}]
      /\ sig \in [Descs -> SUBSET {"HUP", "KILL", "TERM"}]
      /\ list \in Seq(Descs)
  BY DEF TypeInv, IfaceTypeOK, Labels
<1>3. /\ th'[d] = (IF die THEN "none" ELSE "run") /\ sig'[d] = {}
      /\ \A e \in Descs : e # d => th'[e] = th[e] /\ sig'[e] = sig[e]
  BY <1>1, <1>2
<1>4. \A q \in Procs : pc[q] \in Coming => on[q] # d
  BY DEF WaitInv
<1>5. \A q \in Procs : pc[q] = "deleting" /\ on[q] = d => die
  BY DEF WaitInv
<1>6. \A q \in Procs : pc[q] = "deleted" => on[q] # d
  BY DEF WaitInv
<1>7. /\ Within(list') = (IF die THEN Within(list) \ {d} ELSE Within(list))
      /\ Once(list') /\ Listed = Within(list) /\ Listed' = Within(list')
  <2>1. Listed = Within(list) /\ Listed' = Within(list') /\ Once(list)
    BY DEF Listed, Within, ListInv, Once
  <2>2. Once(Unlinked(d)) /\ Within(Unlinked(d)) = Within(list) \ {d}
    BY <1>2, <2>1, UnlinkedList
  <2>3. CASE die
    BY <1>1, <2>1, <2>2, <2>3
  <2>4. CASE ~ die
    BY <1>1, <2>1, <2>4
  <2>5. QED
    BY <2>3, <2>4
<1> HIDE DEF die
\* What becomes of everybody's label.
<1>8. \A q \in Procs : on[q] # d => pc'[q] = pc[q]
  BY <1>1 DEF Wake
<1>9. ASSUME NEW q \in Procs, on[q] = d
      PROVE  /\ pc[q] = "deleting" => pc'[q] = "deleted"
             /\ pc[q] = "flushing" => pc'[q] = "flushed"
             /\ pc[q] \notin {"deleting", "flushing"} => pc'[q] = pc[q]
  <2>1. pc'[q] = Woken(pc[q]) /\ pc[q] \in Labels
    BY <1>1, <1>2, <1>9 DEF Wake
  <2>2. pc[q] # "adding"
    BY <1>4, <1>9 DEF Coming
  <2>3. pc[q] \notin {"deleting", "flushing"} => pc[q] \notin Asleep
    BY <2>2 DEF Asleep
  <2>4. QED
    BY <2>1, <2>3, WokenLabels DEF Woken
<1>10. \A q \in Procs :
          /\ pc'[q] \in Claiming <=> pc[q] \in Claiming
          /\ pc'[q] \in Copying <=> pc[q] \in Copying
          /\ pc'[q] \in Going <=> pc[q] \in Going
          /\ pc'[q] \in {"deleting", "flushing"} => on[q] # d /\ pc'[q] = pc[q]
  BY <1>8, <1>9 DEF Claiming, Coming, Going, Copying
<1>11. \A q \in Procs : on[q] # d /\ pc[q] \in Claiming \cup Copying \cup {"flushing"} =>
          /\ th'[on[q]] = th[on[q]] /\ sig'[on[q]] = sig[on[q]]
          /\ err'[on[q]] = err[on[q]] /\ pc'[q] = pc[q]
  <2>1. \A q \in Procs : pc[q] \in Claiming \cup Copying \cup {"flushing"} => on[q] \in Descs
    BY DEF ClaimInv, CopyInv, TypeInv, IfaceTypeOK
  <2>2. QED
    BY <1>3, <1>8, <2>1
<1>12. ListInv'
  <2>1. \A e \in Descs : e \in Listed' <=> th'[e] \in {"run", "nap"}
    BY <1>3, <1>7 DEF ListInv
  <2>2. QED
    BY <1>7, <2>1 DEF ListInv, Once
<1>13. ThreadInv'
  <2>1. \A e \in Descs : /\ th'[e] # "none" => th[e] # "none"
                         /\ th'[e] = "new" => th[e] = "new" /\ e # d
    BY <1>3
  <2>2. ASSUME NEW e \in Descs, th'[e] = "new"
        PROVE  \E b \in Callers : pc'[b] = "adding" /\ on'[b] = e
    <3>1. PICK b \in Callers : pc[b] = "adding" /\ on[b] = e
      BY <2>1, <2>2 DEF ThreadInv
    <3>2. QED
      BY <1>8, <2>1, <2>2, <3>1 DEF Procs
  <2>3. \A e \in Descs : th'[e] # "none" => e \in used'
    BY <2>1 DEF ThreadInv
  <2>4. QED
    BY <2>2, <2>3 DEF ThreadInv
<1>14. ClaimInv'
  BY <1>10 DEF ClaimInv, Procs
<1>15. WaitInv'
  <2>1. \A q \in Procs : pc'[q] \in Coming => pc'[q] = pc[q] /\ on[q] # d
    BY <1>4, <1>8, <1>9 DEF Coming
  <2>2. \A q \in Procs : pc'[q] \in Coming => sig'[on'[q]] = {}
    BY <1>11, <2>1 DEF WaitInv, Claiming, Coming
  <2>3. \A q \in Procs : pc'[q] = "adding" => th'[on'[q]] = "new"
    BY <1>11, <2>1 DEF WaitInv, Claiming, Coming
  <2>4. \A q \in Procs : pc'[q] = "added" =>
           \/ th'[on'[q]] = "run" /\ err'[on'[q]] = 0
           \/ th'[on'[q]] = "none" /\ err'[on'[q]] # 0
    BY <1>11, <2>1 DEF WaitInv, Claiming, Coming
  <2>5. \A q \in Procs : pc'[q] = "deleting" =>
           th'[on'[q]] \in {"run", "nap"} /\ "KILL" \in sig'[on'[q]]
    BY <1>10, <1>11 DEF WaitInv, Claiming, Going
  <2>6. ASSUME NEW q \in Procs, pc'[q] = "deleted" PROVE th'[on'[q]] = "none"
    <3>1. CASE on[q] = d
      <4>1. pc[q] = "deleting"
        BY <1>6, <1>9, <2>6, <3>1
      <4>2. QED
        BY <1>3, <1>5, <3>1, <4>1
    <3>2. CASE on[q] # d
      BY <1>8, <1>11, <2>6, <3>2 DEF WaitInv, Claiming, Going
    <3>3. QED
      BY <3>1, <3>2
  <2>7. QED
    BY <2>2, <2>3, <2>4, <2>5, <2>6 DEF WaitInv
<1>16. CopyInv'
  <2>1. \A q \in Procs : pc'[q] \in Copying \cup {"flushing"} => on'[q] \in used'
    BY <1>10 DEF CopyInv
  <2>2. ASSUME NEW q \in Procs, NEW r \in Procs,
               pc'[q] \in Copying, pc'[r] \in Claiming, on'[q] = on'[r]
        PROVE  pc'[r] = "added" /\ th'[on'[r]] = "run"
    <3>1. pc[r] = "added" /\ th[on[r]] = "run"
      BY <1>10, <2>2 DEF CopyInv
    <3>2. on[r] # d
      BY <1>4, <3>1 DEF Coming
    <3>3. QED
      BY <1>11, <3>1, <3>2 DEF Claiming, Coming
  <2>4. \A q \in Procs : pc'[q] = "flushing" => th'[on'[q]] \in {"run", "nap"}
    BY <1>10, <1>11 DEF CopyInv
  <2>5. QED
    BY <2>1, <2>2, <2>4 DEF CopyInv
<1>17. StopInv'
  <2>1. ASSUME NEW e \in Descs, sig'[e] \cap Ending # {}
        PROVE  e \in shot' \/ \E q \in Procs : pc'[q] = "deleting" /\ on'[q] = e
    <3>1. e # d /\ sig'[e] = sig[e]
      BY <1>3, <2>1
    <3>2. QED
      BY <1>8, <2>1, <3>1 DEF StopInv
  <2>2. QED
    BY <2>1 DEF StopInv
<1>18. Accounted'
  <2>1. \A q \in Procs : pc[q] \in Coming \cup Going => pc'[q] \in Coming \cup Going
    BY <1>10 DEF Claiming
  <2>2. die => d \in shot \/ \E q \in Procs : pc[q] \in Coming \cup Going /\ on[q] = d
    BY DEF die, StopInv, Going, Ending
  <2>3. \A e \in Listed : (e = d /\ die) \/ e \in Listed'
    BY <1>7
  <2>4. QED
    BY <2>1, <2>2, <2>3 DEF Accounted
<1>19. Waited'
  <2>1. ASSUME NEW c \in Callers, pc'[c] = "flushed" PROVE served'[c]
    <3>1. pc[c] = "flushed" \/ on[c] = d
      BY <1>8, <2>1 DEF Procs
    <3>2. served[c] \/ on[c] = d
      BY <3>1 DEF Waited
    <3>3. QED
      BY <1>1, <3>2 DEF Serve
  <2>2. QED
    BY <2>1 DEF Waited
<1>20. Inside'
  <2>1. \A q \in Procs : /\ pc'[q] = pc[q] \/ pc[q] \in {"deleting", "flushing"}
                         /\ pc'[q] = pc[q] \/ pc'[q] \in {"deleted", "flushed"}
                         /\ pc[q] = "deleting" /\ pc'[q] # pc[q] => pc'[q] = "deleted"
    BY <1>8, <1>9
  <2>2. Master \in Procs /\ Callers \subseteq Procs
    BY DEF Procs
  <2>3. \/ pc'[Master] = pc[Master]
        \/ pc[Master] # "gone" /\ pc'[Master] \in Masterly \cup Going
    BY <2>1, <2>2 DEF Inside, RoleInv, Going, Masterly
  <2>4. \A e \in Callers :
           /\ pc'[e] = pc[e] \/ (pc[e] \notin Leaving /\ pc'[e] \notin Leaving \cup Masterly)
           /\ pc'[e] \in Coming => pc[e] \in Coming
    BY <2>1, <2>2 DEF Leaving, Masterly, Coming
  <2>5. list # << >>
    <3>1. d \in Listed
      BY DEF ListInv
    <3>2. QED
      BY <3>1 DEF Listed
  <2>6. QED
    BY <2>3, <2>4, <2>5, InsideKept
<1>21. QED
  BY <1>12, <1>13, <1>14, <1>15, <1>16, <1>17, <1>18, <1>19, <1>20

\* A read or the end of a sleep.
LEMMA LoopKeeps ==
  ASSUME TypeInv, IfaceInv, NEW d \in Descs, Read(d) \/ NapEnd(d) PROVE IfaceInv'
<1>1. /\ Signals(d)
      /\ UNCHANGED <<loaded, used, name, on, shot>>
      /\ th[d] \in {"run", "nap"}
  BY DEF Read, NapEnd, locals
<1>2. \A e \in Descs : e # d => err'[e] = err[e]
  BY DEF Read, NapEnd, TypeInv, IfaceTypeOK
<1>3. CASE sig[d] # {}
  BY <1>1, <1>2, <1>3, WokenKeeps
<1>4. CASE sig[d] = {}
  <2>1. /\ th' = [th EXCEPT ![d] = "run"]
        /\ UNCHANGED <<list, pc>> /\ served' = served
    BY <1>1, <1>4 DEF Signals
  <2>2. sig' = sig
    BY <1>1, <1>4 DEF Signals, TypeInv, IfaceTypeOK
  <2>3. th[d] = "run" => err'[d] = 0
    BY <1>4 DEF Read, NapEnd, TypeInv, IfaceTypeOK
  <2>4. UNCHANGED <<loaded, used, list, name, sig, proc, shot>>
    BY <1>1, <2>1, <2>2 DEF proc
  <2>5. \A c \in Callers : served'[c] = served[c]
    BY <2>1
  <2>6. QED
    BY <1>1, <1>2, <2>1, <2>3, <2>4, <2>5, ReadsOnKeeps
<1>5. QED
  BY <1>3, <1>4

\* A read fails: not while the interface is being added.
LEMMA ReadErrorKeeps ==
  ASSUME TypeInv, IfaceInv, settled', NEW d \in Descs, ReadError(d) PROVE IfaceInv'
<1> USE DEF IfaceInv, Sound
<1>1. /\ th[d] = "run" /\ th' = [th EXCEPT ![d] = "nap"] /\ err' = [err EXCEPT ![d] = 1]
      /\ UNCHANGED <<loaded, used, list, name, sig, pc, on, served, shot>>
  BY DEF ReadError, proc
<1>2. /\ th'[d] = "nap" /\ \A e \in Descs : e # d => th'[e] = th[e] /\ err'[e] = err[e]
      /\ \A e \in Descs : th'[e] \in {"run", "nap"} <=> th[e] \in {"run", "nap"}
      /\ \A e \in Descs : (th'[e] = "new" <=> th[e] = "new") /\ (th'[e] = "none" <=> th[e] = "none")
  BY <1>1 DEF TypeInv, IfaceTypeOK
<1>3. \A q \in Procs : pc[q] \in Claiming \cup Copying \cup {"flushing"} => on[q] \in Descs
  BY DEF ClaimInv, CopyInv, TypeInv, IfaceTypeOK
<1>4. \A q \in Procs : pc[q] \in Coming => on[q] # d
  <2>1. ~ Meets("error", d)
    BY Zenon DEF ReadError, Note
  <2>2. QED
    BY <2>1 DEF Meets, Held
<1>5. ListInv'
  BY <1>1, <1>2 DEF ListInv, Listed
<1>6. ThreadInv'
  BY <1>1, <1>2 DEF ThreadInv
<1>7. ClaimInv'
  BY <1>1 DEF ClaimInv
<1>8. WaitInv'
  <2>1. \A q \in Procs : pc[q] \in Coming => th'[on[q]] = th[on[q]] /\ err'[on[q]] = err[on[q]]
    BY <1>2, <1>3, <1>4 DEF Claiming
  <2>2. \A q \in Procs : pc[q] = "deleting" => th'[on[q]] \in {"run", "nap"}
    BY <1>2, <1>3 DEF WaitInv, Claiming, Going
  <2>3. \A q \in Procs : pc[q] = "deleted" => th'[on[q]] = "none"
    BY <1>2, <1>3 DEF WaitInv, Claiming, Going
  <2>4. QED
    BY <1>1, <2>1, <2>2, <2>3 DEF WaitInv, Coming
<1>9. CopyInv'
  <2>1. \A q \in Procs : pc[q] = "flushing" => th'[on[q]] \in {"run", "nap"}
    BY <1>2, <1>3 DEF CopyInv
  <2>2. ASSUME NEW q \in Procs, NEW r \in Procs,
               pc[q] \in Copying, pc[r] \in Claiming, on[q] = on[r]
        PROVE  pc[r] = "added" /\ th'[on[r]] = "run"
    <3>1. pc[r] = "added" /\ th[on[r]] = "run" /\ on[r] \in Descs
      BY <1>3, <2>2 DEF CopyInv
    <3>2. on[r] # d
      BY <1>4, <3>1 DEF Coming
    <3>3. QED
      BY <1>2, <3>1, <3>2
  <2>3. QED
    BY <1>1, <2>1, <2>2 DEF CopyInv
<1>10. StopInv' /\ Accounted' /\ Waited'
  BY <1>1 DEF StopInv, Accounted, Waited, Listed
<1>11. Inside'
  BY <1>1 DEF Inside, RoleInv, UnloadInv, Unloading, Adding
<1>12. QED
  BY <1>5, <1>6, <1>7, <1>8, <1>9, <1>10, <1>11

\* A user sends a signal: not while the interface is being added.
LEMMA SignalKeeps ==
  ASSUME TypeInv, IfaceInv, settled', NEW d \in Descs, NEW s \in UserSigs, Signal(d, s)
  PROVE  IfaceInv'
<1> USE DEF IfaceInv, Sound
<1>1. /\ sig' = [sig EXCEPT ![d] = sig[d] \cup {s}]
      /\ UNCHANGED <<loaded, used, list, name, err, th, pc, on>>
      /\ s # "HUP" => d \in shot'
      /\ shot \subseteq shot'
      /\ \A c \in Callers : served[c] => served'[c]
  BY DEF Signal, proc, Serve, TypeInv, IfaceTypeOK
<1>2. /\ sig'[d] = sig[d] \cup {s}
      /\ \A e \in Descs : e # d => sig'[e] = sig[e]
  BY <1>1 DEF TypeInv, IfaceTypeOK
<1>3. \A q \in Procs : pc[q] \in Claiming => on[q] \in Descs
  BY DEF ClaimInv, TypeInv, IfaceTypeOK
<1>4. \A q \in Procs : pc[q] \in Coming => on[q] # d
  <2>1. ~ Meets(IF s = "HUP" THEN "reset" ELSE "stop", d)
    BY Zenon DEF Signal, Note
  <2>2. QED
    BY <2>1 DEF Meets, Held
<1>5. ListInv' /\ ThreadInv' /\ ClaimInv' /\ CopyInv'
  BY <1>1 DEF ListInv, Listed, ThreadInv, ClaimInv, CopyInv
<1>6. WaitInv'
  <2>1. \A q \in Procs : pc[q] \in Coming => sig'[on[q]] = {}
    BY <1>2, <1>3, <1>4 DEF WaitInv, Claiming
  <2>2. \A q \in Procs : pc[q] = "deleting" => "KILL" \in sig'[on[q]]
    BY <1>2, <1>3 DEF WaitInv, Claiming, Going
  <2>3. QED
    BY <1>1, <2>1, <2>2 DEF WaitInv
<1>7. StopInv'
  <2>1. ASSUME NEW e \in Descs, sig'[e] \cap Ending # {}
        PROVE  e \in shot' \/ \E q \in Procs : pc'[q] = "deleting" /\ on'[q] = e
    <3>1. CASE sig[e] \cap Ending # {}
      BY <1>1, <3>1 DEF StopInv
    <3>2. CASE sig[e] \cap Ending = {}
      <4>1. e = d
        BY <1>2, <2>1, <3>2
      <4>2. s # "HUP"
        BY <1>2, <2>1, <3>2, <4>1 DEF Ending
      <4>3. QED
        BY <1>1, <4>1, <4>2
    <3>3. QED
      BY <3>1, <3>2
  <2>2. QED
    BY <2>1 DEF StopInv
<1>8. Accounted'
  BY <1>1 DEF Accounted, Listed
<1>9. Waited'
  BY <1>1 DEF Waited
<1>10. Inside'
  BY <1>1 DEF Inside, RoleInv, UnloadInv, Unloading, Adding
<1>11. QED
  BY <1>5, <1>6, <1>7, <1>8, <1>9, <1>10

-------------------------------------------------------------------------------
(* The module.                                                             *)

\* Steps of loading and unloading change labels that hold nothing.
LEMMA PlainKeeps ==
  ASSUME TypeInv, IfaceInv,
         \A q \in Procs : pc'[q] = pc[q] \/ (pc[q] \notin Asleep \cup Coming \cup Going \cup Copying
                                           /\ pc'[q] \notin Asleep \cup Coming \cup Going
                                                          \cup Copying \cup {"flushed"}),
         UNCHANGED <<used, iface, on, served, shot>>
  PROVE  Sound'
<1> USE DEF IfaceInv, Sound
<1> DEFINE Busys == Asleep \cup Coming \cup Going \cup Copying
<1>1. UNCHANGED <<used, list, name, err, th, sig, on, served, shot>>
  BY DEF iface
<1>2. \A q \in Procs : /\ pc'[q] \in Busys => pc'[q] = pc[q]
                       /\ pc[q] \in Busys => pc'[q] = pc[q]
                       /\ pc'[q] = "flushed" => pc[q] = "flushed"
  OBVIOUS
<1>3. ListInv'
  BY <1>1 DEF ListInv, Listed
<1>4. ThreadInv'
  BY <1>1, <1>2 DEF ThreadInv, Asleep, Procs
<1>5. ClaimInv'
  BY <1>1, <1>2 DEF ClaimInv, Claiming, Procs
<1>6. WaitInv'
  BY <1>1, <1>2 DEF WaitInv, Asleep, Coming, Going
<1>7. CopyInv'
  BY <1>1, <1>2 DEF CopyInv, Claiming, Copying, Asleep
<1>8. StopInv'
  BY <1>1, <1>2 DEF StopInv, Asleep
<1>9. Accounted'
  BY <1>1, <1>2 DEF Accounted, Listed
<1>10. Waited'
  BY <1>1, <1>2 DEF Waited, Procs
<1>11. QED
  BY <1>3, <1>4, <1>5, <1>6, <1>7, <1>8, <1>9, <1>10

LEMMA ModuleKeeps ==
  ASSUME TypeInv, IfaceInv, settled',
         \/ \E c \in Callers : Load(c) \/ Unload(c) \/ Unloaded(c)
         \/ MasterSleeps \/ MasterExits
  PROVE  IfaceInv'
<1> USE DEF Goto
<1>1. /\ pc \in [Procs -> Labels] /\ Master \in Procs /\ Master \notin Callers
      /\ Callers \subseteq Procs
  BY DEF TypeInv, IfaceTypeOK, Labels, Procs
<1>2. UNCHANGED <<used, name, err, th, sig, on, served, shot>>
  BY DEF Load, Unload, Unloaded, MasterSleeps, MasterExits, iface
<1>3. list' = list
  BY DEF Load, Unload, Unloaded, MasterSleeps, MasterExits, iface, IfaceInv, Inside, UnloadInv
<1>4. \A q \in Procs : pc'[q] = pc[q] \/ (pc[q] \notin Asleep \cup Coming \cup Going \cup Copying
                                         /\ pc'[q] \notin Asleep \cup Coming \cup Going
                                                        \cup Copying \cup {"flushed"})
  <2> USE DEF Asleep, Coming, Going, Copying
  <2>1. ASSUME NEW c \in Callers, Load(c)
        PROVE  pc[Master] = "gone" /\ pc' = [pc EXCEPT ![Master] = "new"]
    BY <2>1 DEF Load, IfaceInv, Inside, UnloadInv
  <2>2. ASSUME NEW c \in Callers, Unload(c)
        PROVE  /\ pc[c] = "idle" /\ pc'[c] = "unloading"
               /\ \A q \in Procs : q # c => pc'[q] = pc[q] \/ (pc[q] = "asleep" /\ pc'[q] = "awake")
    BY <1>1, <2>2 DEF Unload, Cmd
  <2>3. ASSUME NEW c \in Callers, Unloaded(c) PROVE pc[c] = "unloaded" /\ pc' = [pc EXCEPT ![c] = "idle"]
    BY <2>3 DEF Unloaded
  <2>4. CASE MasterSleeps
    BY <1>1, <2>4 DEF MasterSleeps
  <2>5. CASE MasterExits
    BY <1>1, <2>5 DEF MasterExits
  <2>6. CASE \E c \in Callers : Unload(c)
    BY <2>2, <2>6
  <2>7. CASE \E c \in Callers : Load(c) \/ Unloaded(c)
    BY <1>1, <2>1, <2>3, <2>7
  <2>8. QED
    BY <2>4, <2>5, <2>6, <2>7
<1>5. Sound'
  BY <1>2, <1>3, <1>4, PlainKeeps DEF iface
<1>6. Inside'
  <2> USE DEF IfaceInv, Inside, RoleInv, UnloadInv, Masterly, Leaving
  <2>1. \A e \in Callers : pc'[e] \in Coming <=> pc[e] \in Coming
    BY <1>1, <1>4
  <2>2. Adding' <=> Adding
    BY <2>1 DEF Adding
  <2>3. ASSUME NEW c \in Callers, Load(c) PROVE Inside'
    <3>1. /\ ~ loaded /\ loaded' /\ pc'[Master] = "new"
          /\ \A e \in Callers : pc'[e] = pc[e]
      BY <1>1, <2>3 DEF Load
    <3>2. ~ Unloading'
      BY <3>1 DEF Unloading
    <3>3. QED
      BY <3>1, <3>2 DEF Unloading
  <2>4. ASSUME NEW c \in Callers, Unload(c) PROVE Inside'
    <3>1. ~ Adding
      BY <2>4, Zenon DEF Unload, Note
    <3>2. /\ loaded /\ loaded' = loaded /\ pc'[c] = "unloading"
          /\ pc'[Master] = pc[Master] \/ (pc[Master] = "asleep" /\ pc'[Master] = "awake")
          /\ \A e \in Callers : pc[e] \notin Leaving /\ (e # c => pc'[e] = pc[e])
      BY <1>1, <2>4 DEF Unload, Cmd, Unloading
    <3>3. RoleInv'
      BY <3>2
    <3>4. UnloadInv'
      BY <2>2, <3>1, <3>2
    <3>5. QED
      BY <3>3, <3>4
  <2>5. ASSUME NEW c \in Callers, Unloaded(c) PROVE Inside'
    <3>1. /\ list = << >> /\ pc[Master] = "gone" /\ ~ Adding
          /\ \A e \in Callers : e # c => pc[e] \notin Leaving
      BY <2>5 DEF Unloaded, Unloading
    <3>2. /\ ~ loaded' /\ pc'[Master] = "gone"
          /\ pc'[c] = "idle" /\ \A e \in Callers : e # c => pc'[e] = pc[e]
      BY <1>1, <2>5, <3>1 DEF Unloaded
    <3>3. ~ Unloading'
      BY <3>1, <3>2 DEF Unloading
    <3>4. QED
      BY <1>3, <2>2, <3>1, <3>2, <3>3
  <2>6. CASE MasterSleeps
    <3>1. /\ loaded' = loaded /\ pc[Master] = "new" /\ pc'[Master] = "asleep"
          /\ \A e \in Callers : pc'[e] = pc[e]
      BY <1>1, <2>6 DEF MasterSleeps
    <3>2. QED
      BY <1>3, <3>1, InsideKept
  <2>7. CASE MasterExits
    <3>1. /\ loaded' = loaded /\ pc[Master] = "awake" /\ pc'[Master] = "gone" /\ list = << >>
          /\ \A e \in Callers : pc'[e] = IF pc[e] = "unloading" THEN "unloaded" ELSE pc[e]
      BY <1>1, <2>7 DEF MasterExits, NoIface
    <3>2. \A e \in Callers : pc'[e] \in Leaving <=> pc[e] \in Leaving
      BY <3>1
    <3>3. Unloading' <=> Unloading
      BY <3>2 DEF Unloading
    <3>4. QED
      BY <1>3, <2>2, <3>1, <3>2, <3>3
  <2>8. QED
    BY <2>3, <2>4, <2>5, <2>6, <2>7
<1>7. QED
  BY <1>5, <1>6 DEF IfaceInv

-------------------------------------------------------------------------------
(* The theorems.                                                           *)

\* Every step keeps the invariant unless calls meet.
LEMMA StepIface ==
  ASSUME TypeInv, IfaceInv, settled', [Next]_vars PROVE IfaceInv'
<1>1. CASE UNCHANGED vars
  BY <1>1 DEF vars, iface, proc, IfaceInv, Sound, Inside, ListInv, Listed, ThreadInv, ClaimInv,
              WaitInv, CopyInv, StopInv, Accounted, Waited, RoleInv, UnloadInv, Unloading, Adding
<1>2. ASSUME NEW c \in Callers, CallerStep(c) PROVE IfaceInv'
  <2>1. CASE Added(c) \/ Deleted(c)
    BY <2>1, ReturnsKeep
  <2>2. CASE Unloaded(c)
    BY <2>2, ModuleKeeps
  <2>3. CASE Conf(c) \/ SetF(c) \/ CopyIn(c) \/ Flushed(c) \/ List(c) \/ Walk(c)
    BY <2>3, MovesSteps, MovesKeep
  <2>4. QED
    BY <1>2, <2>1, <2>2, <2>3 DEF CallerStep
<1>3. ASSUME NEW c \in Callers, Command(c) PROVE IfaceInv'
  <2>1. CASE Load(c) \/ Unload(c)
    BY <2>1, ModuleKeeps
  <2>2. CASE InfoCmd(c) \/ \E n \in Names : Exists(c, n) \/ SetCmd(c, n) \/ Unknown(c, n)
    BY <2>2, MovesSteps, MovesKeep
  <2>3. ASSUME NEW n \in Names, Add(c, n) \/ Del(c, n) \/ FlushIf(c, n) PROVE IfaceInv'
    BY <2>3, AddKeeps, DeletesKeep, FlushIfKeeps
  <2>4. QED
    BY <1>3, <2>1, <2>2, <2>3 DEF Command
<1>4. CASE MasterStep
  BY <1>4, ModuleKeeps, DeletesKeep, MasterFreesKeeps DEF MasterStep
<1>5. ASSUME NEW d \in Descs,
             ThreadStep(d) \/ ReadError(d) \/ \E s \in UserSigs : Signal(d, s)
      PROVE  IfaceInv'
  BY <1>5, StartKeeps, LoopKeeps, ReadErrorKeeps, SignalKeeps DEF ThreadStep
<1>6. QED
  BY <1>1, <1>2, <1>3, <1>4, <1>5 DEF Next

\* What the invariant says to a reader.
LEMMA IfaceProperties ==
  TypeInv /\ (settled => IfaceInv) => NoUseAfterFree /\ NoLeak /\ ResetDone /\ CleanUnload
<1> SUFFICES ASSUME TypeInv, settled, IfaceInv
             PROVE  NoUseAfterFree /\ NoLeak /\ ResetDone /\ CleanUnload
  BY Zenon DEF NoUseAfterFree, NoLeak, ResetDone, CleanUnload
<1> USE DEF IfaceInv, Sound
<1>1. Listed = {d \in Descs : th[d] \in {"run", "nap"}}
  <2>1. Listed \subseteq Descs
    BY ElementOfSeq DEF Listed, TypeInv, IfaceTypeOK
  <2>2. QED
    BY <2>1 DEF ListInv
<1>2. NoUseAfterFree
  <2>1. Listed \subseteq used
    BY <1>1 DEF ThreadInv
  <2>2. QED
    BY <2>1 DEF NoUseAfterFree, ThreadInv, ClaimInv, CopyInv, Claiming
<1>3. NoLeak /\ ResetDone
  BY DEF NoLeak, ResetDone, Accounted, Waited
<1>4. CleanUnload
  <2>1. ASSUME ~ loaded, NEW d \in Descs PROVE th[d] = "none"
    <3>1. list = << >> /\ ~ Adding
      BY <2>1 DEF Inside, UnloadInv
    <3>2. th[d] \notin {"run", "nap"}
      BY <1>1, <3>1 DEF Listed
    <3>3. th[d] # "new"
      BY <3>1 DEF ThreadInv, Adding, Coming
    <3>4. QED
      BY <3>2, <3>3 DEF TypeInv, IfaceTypeOK
  <2>2. QED
    BY <2>1 DEF CleanUnload, Inside, UnloadInv
<1>5. QED
  BY <1>2, <1>3, <1>4

\* The invariant holds until calls meet in a way Meets, Unload or Add names.
SettledInv == TypeInv /\ (settled => IfaceInv)

LEMMA SettledIface == Spec => []SettledInv
<1>1. Init => SettledInv
  BY InitTyped, InitIface DEF SettledInv
<1>2. SettledInv /\ [Next]_vars => SettledInv'
  <2> SUFFICES ASSUME SettledInv, [Next]_vars PROVE SettledInv'
    OBVIOUS
  <2>1. TypeInv' /\ Settles
    BY StepTyped, SettledStep DEF SettledInv, TypeInv, IfaceTypeOK
  <2>2. ASSUME settled' PROVE IfaceInv'
    <3>1. settled
      BY <2>1, <2>2, Zenon DEF Settles
    <3>2. TypeInv /\ IfaceInv
      BY <3>1, Zenon DEF SettledInv
    <3>3. QED
      BY <2>2, <3>2, StepIface
  <2>3. QED
    BY <2>1, <2>2 DEF SettledInv
<1>3. QED
  BY <1>1, <1>2, PTL DEF Spec

\* Until calls meet, however many callers, interfaces, signals and read errors there
\* are and whatever else overlaps - two calls that add one interface, commands while
\* the module is unloaded, a master that has not slept yet - no descriptor is freed
\* that the list, a process or a caller still uses.
THEOREM DescriptorsKept == Spec => []NoUseAfterFree
<1>1. SettledInv => NoUseAfterFree
  BY IfaceProperties DEF SettledInv
<1>2. QED
  BY <1>1, SettledIface, PTL

\* Until then a descriptor is listed or somebody will free it, unless a user has
\* stopped its process.
THEOREM DescriptorsFreed == Spec => []NoLeak
<1>1. SettledInv => NoLeak
  BY IfaceProperties DEF SettledInv
<1>2. QED
  BY <1>1, SettledIface, PTL

\* Until then IIOCFLUSHIF never returns because of a wakeup() for somebody else.
THEOREM ResetsWaited == Spec => []ResetDone
<1>1. SettledInv => ResetDone
  BY IfaceProperties DEF SettledInv
<1>2. QED
  BY <1>1, SettledIface, PTL

\* Until then the module is gone only when its last process is, whoever was inside
\* when the unloading began.
THEOREM UnloadsClean == Spec => []CleanUnload
<1>1. SettledInv => CleanUnload
  BY IfaceProperties DEF SettledInv
<1>2. QED
  BY <1>1, SettledIface, PTL

===============================================================================
