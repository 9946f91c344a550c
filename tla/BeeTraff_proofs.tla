---------------------------- MODULE BeeTraff_proofs ----------------------------
(***************************************************************************)
(* Proofs about BeeTraff, for any flows, gates, exclusions and word size:  *)
(* an account is charged its own traffic modulo 2^32, and never more than  *)
(* that, whatever becomes of the session, if no line is inet6.             *)
(***************************************************************************)
EXTENDS BeeTraff, SumLemmas, SequenceTheorems

USE TraffAssumption

-------------------------------------------------------------------------------
(* Sums in 32 bits: a is b, but for some times 2^32.                       *)

Wraps(a, b) == \E k \in Nat : a = b + k * UInt

LEMMA WrapsRemainder == \A a \in Nat : a % UInt \in UInts /\ Wraps(a, a % UInt)
<1> SUFFICES ASSUME NEW a \in Nat PROVE a % UInt \in UInts /\ Wraps(a, a % UInt)
  OBVIOUS
<1> DEFINE k == a \div UInt
           r == a % UInt
<1>1. a = r + k * UInt /\ k \in Nat /\ r \in 0 .. UInt - 1
  OBVIOUS
<1> HIDE DEF k, r
<1>2. Wraps(a, r) /\ r \in UInts
  BY <1>1 DEF Wraps, UInts
<1> QED
  BY <1>2 DEF r

LEMMA WrapsSelf == \A a \in Nat : Wraps(a, a)
<1> SUFFICES ASSUME NEW a \in Nat PROVE a = a + 0 * UInt
  BY DEF Wraps
<1> QED
  OBVIOUS

LEMMA WrapsSum ==
  ASSUME NEW a \in Nat, NEW b \in Nat, NEW c \in Nat, NEW d \in Nat, Wraps(a, b), Wraps(c, d)
  PROVE  Wraps(a + c, b + d)
<1>1. PICK k \in Nat : a = b + k * UInt
  BY DEF Wraps
<1>2. PICK l \in Nat : c = d + l * UInt
  BY DEF Wraps
<1> DEFINE m == k + l
<1>3. m * UInt = k * UInt + l * UInt /\ k * UInt \in Nat /\ l * UInt \in Nat /\ m \in Nat
  OBVIOUS
<1> HIDE DEF m
<1>4. a + c = (b + d) + m * UInt
  BY <1>1, <1>2, <1>3
<1> QED
  BY <1>3, <1>4 DEF Wraps

LEMMA WrapsMore ==
  ASSUME NEW a \in Nat, NEW b \in Nat, NEW x \in Nat, Wraps(a, b)
  PROVE  Wraps(a + x, b + x)
BY WrapsSelf, WrapsSum

LEMMA WrapsTwice ==
  ASSUME NEW a \in Nat, NEW b \in Nat, NEW c \in Nat, Wraps(a, b), Wraps(b, c)
  PROVE  Wraps(a, c)
<1>1. PICK k \in Nat : a = b + k * UInt
  BY DEF Wraps
<1>2. PICK l \in Nat : b = c + l * UInt
  BY DEF Wraps
<1> DEFINE m == k + l
<1>3. m * UInt = k * UInt + l * UInt /\ k * UInt \in Nat /\ l * UInt \in Nat /\ m \in Nat
  OBVIOUS
<1> HIDE DEF m
<1>4. a = c + m * UInt
  BY <1>1, <1>2, <1>3
<1> QED
  BY <1>3, <1>4 DEF Wraps

\* What is the same but for some times 2^32 has the same remainder.
LEMMA WrapsEqual ==
  ASSUME NEW a \in Nat, NEW b \in Nat, Wraps(a, b)
  PROVE  a % UInt = b % UInt /\ b <= a
<1>1. PICK k \in Nat : a = b + k * UInt
  BY DEF Wraps
<1>2. k * UInt \in Nat
  OBVIOUS
<1>3. b <= a
  BY <1>1, <1>2
<1> DEFINE q == a \div UInt
           r == a % UInt
           p == b \div UInt
           s == b % UInt
<1>4. /\ a = q * UInt + r /\ q \in Int /\ r \in 0 .. UInt - 1
      /\ b = p * UInt + s /\ p \in Int /\ s \in 0 .. UInt - 1
  OBVIOUS
<1> HIDE DEF q, r, p, s
<1>5. (q - p - k) * UInt = q * UInt - p * UInt - k * UInt /\ q * UInt \in Int /\ p * UInt \in Int
  BY <1>4
<1>6. (q - p - k) * UInt = s - r
  BY <1>1, <1>2, <1>4, <1>5
<1>7. q - p - k = 0
  <2> DEFINE d == q - p - k
  <2>1. d \in Int /\ d * UInt = s - r
    BY <1>4, <1>6
  <2> HIDE DEF d
  <2>2. \A x \in Int : (x >= 1 => x * UInt >= UInt) /\ (x <= -1 => x * UInt <= -UInt)
    OBVIOUS
  <2>3. ~ (d >= 1) /\ ~ (d <= -1)
    BY <1>4, <2>1, <2>2
  <2> QED
    BY <2>1, <2>3 DEF d
<1>8. r = s
  BY <1>4, <1>6, <1>7
<1> QED
  BY <1>3, <1>8 DEF r, s

-------------------------------------------------------------------------------
(* Whose a line is.                                                        *)

\* The blocks of gates do not meet, so an address has one gate at most, and an item
\* one account.
LEMMA OneGate == \A a : \A g, h \in GatesOf(a) : g = h
BY DEF GatesOf

LEMMA OnePayer ==
  ASSUME NEW item, NEW acc, NEW other, Pays(acc, item), Pays(other, item)
  PROVE  acc = other
BY OneGate DEF Pays

\* The last exclusion that covers an address.
LEMMA LastCover ==
  ASSUME NEW S \in SUBSET (DOMAIN Exclusions), S # {}
  PROVE  Max(S) \in S /\ \A i \in S : i <= Max(S)
<1> DEFINE Above(i) == {j \in S : j > i}
           C == {Above(i) : i \in S}
<1>1. DOMAIN Exclusions = 1 .. Len(Exclusions) /\ Len(Exclusions) \in Nat
  OBVIOUS
<1>2. IsFiniteSet(S) /\ S \subseteq Nat
  <2>1. IsFiniteSet(1 .. Len(Exclusions))
    <3>1. 1 \in Int /\ Len(Exclusions) \in Int
      BY <1>1
    <3> QED
      BY <3>1, FS_Interval
  <2> QED
    BY <1>1, <2>1, FS_Subset
<1>3. \A s \in C : IsFiniteSet(s)
  BY <1>2, FS_Subset
<1>4. C # {}
  <2>1. PICK i \in S : TRUE
    OBVIOUS
  <2>2. Above(i) \in C
    BY <2>1
  <2> QED
    BY <2>2
<1>5. PICK s \in C : \A t \in C : t \subseteq s => t = s
  <2> HIDE DEF C
  <2> QED
    BY <1>3, <1>4, Smallest
<1>6. PICK i \in S : s = Above(i)
  BY <1>5
<1>7. \A j \in S : j <= i
  <2> SUFFICES ASSUME NEW j \in S, j > i PROVE FALSE
    BY <1>2
  <2>1. Above(j) \subseteq Above(i) /\ j \in Above(i) /\ j \notin Above(j)
    BY <1>2
  <2>2. Above(j) \in C
    OBVIOUS
  <2>3. Above(j) = Above(i)
    BY <1>5, <1>6, <2>1, <2>2
  <2> QED
    BY <2>1, <2>3
<1>8. \E x \in S : \A y \in S : x >= y
  BY <1>2, <1>7
<1>9. Max(S) \in S /\ \A y \in S : Max(S) >= y
  <2> DEFINE P(x) == x \in S /\ \A y \in S : x >= y
  <2>1. \E x : P(x)
    BY <1>8
  <2>2. P(CHOOSE x : P(x))
    BY <2>1, Zenon
  <2>3. Max(S) = CHOOSE x \in S : \A y \in S : x >= y
    BY DEF Max
  <2> QED
    BY <1>8, <2>3
<1> QED
  BY <1>2, <1>9

\* The exclusions decide as the code's loop over them does.
LEMMA LocalIsNotGlobal == \A a : Local(a) <=> ~ Global(a)
<1> SUFFICES ASSUME NEW a PROVE Local(a) <=> ~ Global(a)
  OBVIOUS
<1> DEFINE S == {i \in DOMAIN Exclusions : a \in Exclusions[i].block}
           m == Max(S)
<1>1. DOMAIN Exclusions = 1 .. Len(Exclusions) /\ Len(Exclusions) \in Nat
  OBVIOUS
<1>2. Global(a) <=> S = {} \/ Exclusions[m].count
  BY DEF Global
<1>3. S # {} => m \in S /\ \A i \in S : i <= m
  BY LastCover
<1> HIDE DEF m
<1>4. ASSUME ~ Global(a) PROVE Local(a)
  <2>1. m \in DOMAIN Exclusions /\ a \in Exclusions[m].block /\ ~ Exclusions[m].count
    BY <1>2, <1>3, <1>4
  <2>2. \A j \in m + 1 .. Len(Exclusions) : a \notin Exclusions[j].block
    BY <1>1, <1>2, <1>3, <1>4
  <2> QED
    BY <2>1, <2>2 DEF Local
<1>5. ASSUME Local(a) PROVE ~ Global(a)
  <2>1. PICK i \in DOMAIN Exclusions :
          /\ a \in Exclusions[i].block /\ ~ Exclusions[i].count
          /\ \A j \in i + 1 .. Len(Exclusions) : a \notin Exclusions[j].block
    BY <1>5 DEF Local
  <2>2. i \in S /\ m \in S /\ i <= m
    BY <1>3, <2>1
  <2>3. m = i
    BY <1>1, <2>1, <2>2
  <2> QED
    BY <1>2, <2>1, <2>2, <2>3
<1> QED
  BY <1>4, <1>5

-------------------------------------------------------------------------------
(* What the items of a list add to an account, in one direction.           *)

Ways == {"in", "out"}
ItemRec == [addr : Addrs, acc : Accounts, in : UInts, out : UInts]
Part(acc, item, way) == IF Pays(acc, item) THEN item[way] ELSE 0
Parts(acc, list, way) == [i \in DOMAIN list |-> Part(acc, list[i], way)]
Paid(acc, list, way) == SumFunction(Parts(acc, list, way))

LEMMA PartType ==
  ASSUME NEW item \in ItemRec, NEW acc, NEW way \in Ways
  PROVE  item[way] \in UInts /\ item[way] \in Nat /\ Part(acc, item, way) \in Nat
<1>1. item[way] \in UInts
  BY DEF ItemRec, Ways
<1>2. UInts \subseteq Nat
  BY DEF UInts
<1> QED
  BY <1>1, <1>2 DEF Part

LEMMA PartsType ==
  ASSUME NEW list \in Seq(ItemRec), NEW acc, NEW way \in Ways
  PROVE  /\ IsFiniteSet(1 .. Len(list)) /\ Len(list) \in Nat
         /\ Parts(acc, list, way) \in [1 .. Len(list) -> Int]
         /\ \A i \in 1 .. Len(list) : Parts(acc, list, way)[i] = Part(acc, list[i], way)
         /\ Paid(acc, list, way) \in Nat
<1> DEFINE n == Len(list)
           h == Parts(acc, list, way)
<1>1. n \in Nat /\ DOMAIN list = 1 .. n /\ \A i \in 1 .. n : list[i] \in ItemRec
  OBVIOUS
<1>2. IsFiniteSet(1 .. n)
  <2>1. 1 \in Int /\ n \in Int
    BY <1>1
  <2> QED
    BY <2>1, FS_Interval
<1>3. \A i \in 1 .. n : Part(acc, list[i], way) \in Nat
  BY <1>1, PartType
<1>4. \A i \in 1 .. n : h[i] = Part(acc, list[i], way) /\ h[i] \in Nat
  BY <1>1, <1>3 DEF Parts
<1>5. h \in [1 .. n -> Int]
  BY <1>1, <1>3 DEF Parts
<1>6. Paid(acc, list, way) = SumFunction(h)
  BY DEF Paid
<1> DEFINE I == 1 .. n
<1>7. IsFiniteSet(I) /\ h \in [I -> Int] /\ \A i \in I : h[i] \in Nat
  BY <1>2, <1>4, <1>5
<1> HIDE DEF n, h, I
<1>8. SumFunction(h) \in Nat
  BY <1>7, SumFunctionType
<1> QED
  BY <1>1, <1>2, <1>4, <1>5, <1>6, <1>8 DEF n, h, I

\* Nothing for no items.
LEMMA PaidNothing ==
  ASSUME NEW acc, NEW way \in Ways
  PROVE  << >> \in Seq(ItemRec) /\ Paid(acc, << >>, way) = 0
<1> DEFINE h == Parts(acc, << >>, way)
<1>1. h \in [{} -> Int]
  BY DEF Parts
<1>2. Paid(acc, << >>, way) = SumFunction(h)
  BY DEF Paid
<1> HIDE DEF h
<1>3. SumFunction(h) = 0
  BY <1>1, FS_EmptySet, SumFunctionOfZeros
<1> QED
  BY <1>2, <1>3

\* An item at the end.
LEMMA PaidAppend ==
  ASSUME NEW list \in Seq(ItemRec), NEW new \in ItemRec, NEW acc, NEW way \in Ways
  PROVE  Paid(acc, Append(list, new), way) = Paid(acc, list, way) + Part(acc, new, way)
<1> DEFINE n == Len(list)
           more == Append(list, new)
           h == Parts(acc, list, way)
           g == Parts(acc, more, way)
<1>1. /\ more \in Seq(ItemRec) /\ Len(more) = n + 1 /\ more[n + 1] = new
      /\ \A i \in 1 .. n : more[i] = list[i]
  BY AppendProperties
<1>2. /\ IsFiniteSet(1 .. n) /\ n \in Nat /\ h \in [1 .. n -> Int]
      /\ \A i \in 1 .. n : h[i] = Part(acc, list[i], way)
  BY PartsType
<1>3. /\ g \in [1 .. n + 1 -> Int]
      /\ \A i \in 1 .. n + 1 : g[i] = Part(acc, more[i], way)
  <2> HIDE DEF more
  <2>1. /\ g \in [1 .. Len(more) -> Int]
        /\ \A i \in 1 .. Len(more) : g[i] = Part(acc, more[i], way)
    BY <1>1, PartsType
  <2> HIDE DEF g
  <2> QED
    BY <1>1, <2>1
<1>4. 1 .. n + 1 = (1 .. n) \cup {n + 1} /\ n + 1 \notin 1 .. n
  BY <1>2
<1>5. \A i \in 1 .. n : g[i] = h[i]
  BY <1>1, <1>2, <1>3, <1>4
<1>6. g[n + 1] = Part(acc, new, way)
  BY <1>1, <1>3, <1>4
<1>7. Paid(acc, list, way) = SumFunction(h) /\ Paid(acc, more, way) = SumFunction(g)
  BY DEF Paid
<1> DEFINE I == 1 .. n
           x == n + 1
<1>8. Widens(g, h, I, x) /\ IsFiniteSet(I) /\ g[x] = Part(acc, new, way)
  BY <1>2, <1>3, <1>4, <1>5, <1>6 DEF Widens
<1> HIDE DEF n, h, g, I, x, more
<1>9. SumFunction(g) = SumFunction(h) + g[x]
  BY <1>8, SumFunctionAdded
<1> QED
  BY <1>7, <1>8, <1>9 DEF more

\* The first item, and the others.
LEMMA PaidFirst ==
  ASSUME NEW list \in Seq(ItemRec), list # << >>, NEW acc, NEW way \in Ways
  PROVE  /\ Tail(list) \in Seq(ItemRec) /\ Head(list) \in ItemRec
         /\ Paid(acc, list, way) = Part(acc, Head(list), way) + Paid(acc, Tail(list), way)
<1> DEFINE rest == Tail(list)
           n == Len(rest)
           h == Parts(acc, list, way)
           t == Parts(acc, rest, way)
<1>1. /\ rest \in Seq(ItemRec) /\ n = Len(list) - 1 /\ Head(list) \in ItemRec
      /\ \A i \in 1 .. n : rest[i] = list[i + 1]
  BY HeadTailProperties
<1>2. /\ Len(list) \in Nat /\ h \in [1 .. Len(list) -> Int]
      /\ \A i \in 1 .. Len(list) : h[i] = Part(acc, list[i], way)
  BY PartsType
<1>3. /\ n \in Nat /\ t \in [1 .. n -> Int]
      /\ \A i \in 1 .. n : t[i] = Part(acc, rest[i], way)
  <2> HIDE DEF rest
  <2> QED
    BY <1>1, PartsType
<1>4. Len(list) = n + 1
  BY <1>1, <1>2, <1>3
<1>5. \A i \in 1 .. n : t[i] = h[i + 1]
  <2> SUFFICES ASSUME NEW i \in 1 .. n PROVE t[i] = h[i + 1]
    OBVIOUS
  <2>1. i + 1 \in 1 .. Len(list)
    BY <1>3, <1>4
  <2> QED
    BY <1>1, <1>2, <1>3, <2>1
<1>6. h[1] = Part(acc, Head(list), way)
  <2>1. 1 \in 1 .. Len(list)
    BY <1>3, <1>4
  <2>2. Head(list) = list[1]
    OBVIOUS
  <2> QED
    BY <1>2, <2>1, <2>2
<1>7. Paid(acc, list, way) = SumFunction(h) /\ Paid(acc, rest, way) = SumFunction(t)
  BY DEF Paid
<1>8. h \in [1 .. n + 1 -> Int]
  BY <1>2, <1>4
<1> HIDE DEF n, h, t, rest
<1>9. SumFunction(h) = h[1] + SumFunction(t)
  <2>1. n \in Nat /\ h \in [1 .. n + 1 -> Int] /\ t \in [1 .. n -> Int]
    BY <1>3, <1>8
  <2> QED
    BY ONLY <1>5, <2>1, SumOfSequence
<1>10. Paid(acc, list, way) = Part(acc, Head(list), way) + Paid(acc, rest, way)
  BY <1>6, <1>7, <1>9
<1> QED
  BY <1>1, <1>10 DEF rest

\* One item is another.
LEMMA PaidReplaced ==
  ASSUME NEW list \in Seq(ItemRec), NEW next \in Seq(ItemRec), Len(next) = Len(list),
         NEW x \in 1 .. Len(list), \A i \in 1 .. Len(list) : i # x => next[i] = list[i],
         NEW acc, NEW way \in Ways
  PROVE  Paid(acc, next, way)
           = Paid(acc, list, way) - Part(acc, list[x], way) + Part(acc, next[x], way)
<1> DEFINE I == 1 .. Len(list)
           h == Parts(acc, list, way)
           g == Parts(acc, next, way)
<1>1. /\ IsFiniteSet(I) /\ h \in [I -> Int] /\ \A i \in I : h[i] = Part(acc, list[i], way)
  <2> HIDE DEF g
  <2>1. /\ IsFiniteSet(1 .. Len(list)) /\ h \in [1 .. Len(list) -> Int]
        /\ \A i \in 1 .. Len(list) : h[i] = Part(acc, list[i], way)
    BY PartsType
  <2> QED
    BY <2>1
<1>2. /\ g \in [I -> Int] /\ \A i \in I : g[i] = Part(acc, next[i], way)
  <2>1. /\ g \in [1 .. Len(next) -> Int]
        /\ \A i \in 1 .. Len(next) : g[i] = Part(acc, next[i], way)
    BY PartsType
  <2> HIDE DEF g
  <2> QED
    BY <2>1
<1>3. Differs(g, h, I, x) /\ h[x] = Part(acc, list[x], way) /\ g[x] = Part(acc, next[x], way)
  BY <1>1, <1>2 DEF Differs
<1>4. Paid(acc, list, way) = SumFunction(h) /\ Paid(acc, next, way) = SumFunction(g)
  BY DEF Paid
<1> HIDE DEF I, h, g
<1>5. SumFunction(g) = SumFunction(h) - h[x] + g[x]
  BY <1>1, <1>3, SumFunctionChanged
<1> QED
  BY <1>3, <1>4, <1>5

-------------------------------------------------------------------------------
(* An item is added to the list, or to the one item like it.               *)

\* Each item is of the account that pays for its address.
Owned(list) == \A i \in DOMAIN list : Pays(list[i].acc, list[i])
\* No two items are alike.
Distinct(list) == \A i, j \in DOMAIN list : Same(list[i], list[j]) => i = j

\* Items that are alike are of one account.
LEMMA SamePayer ==
  ASSUME NEW item, NEW new, Same(item, new), Pays(item.acc, item), Pays(new.acc, new), NEW acc
  PROVE  Pays(acc, item) <=> Pays(acc, new)
<1>1. CASE detail \in {"acc", "accaddr"}
  <2>1. item.acc = new.acc
    BY <1>1 DEF Same
  <2>2. (Pays(acc, item) <=> acc = item.acc) /\ (Pays(acc, new) <=> acc = new.acc)
    BY OnePayer
  <2> QED
    BY <2>1, <2>2
<1>2. CASE detail \notin {"acc", "accaddr"}
  BY <1>2 DEF Same, Pays
<1> QED
  BY <1>1, <1>2

\* A sum of two items has the account and the address of the first, and their bytes
\* modulo 2^32.
LEMMA SumOfItems ==
  ASSUME NEW item \in ItemRec, NEW new \in ItemRec
  PROVE  /\ Sum(item, new) \in ItemRec
         /\ Sum(item, new).addr = item.addr /\ Sum(item, new).acc = item.acc
         /\ \A way \in Ways : Sum(item, new)[way] = (item[way] + new[way]) % UInt
<1> DEFINE a == item.in + new.in
           b == item.out + new.out
<1>1. item.in \in Nat /\ new.in \in Nat /\ item.out \in Nat /\ new.out \in Nat
  BY DEF ItemRec, UInts
<1>2. a \in Nat /\ b \in Nat
  BY <1>1
<1>3. a % UInt \in UInts /\ b % UInt \in UInts
  BY <1>2, WrapsRemainder
<1>4. Sum(item, new) = [item EXCEPT !.in = a % UInt, !.out = b % UInt]
  BY DEF Sum
<1>5. item["in"] = item.in /\ new["in"] = new.in /\ item["out"] = item.out /\ new["out"] = new.out
  OBVIOUS
<1> DEFINE x == a % UInt
           y == b % UInt
<1>6. x \in UInts /\ y \in UInts /\ Sum(item, new) = [item EXCEPT !.in = x, !.out = y]
  BY <1>3, <1>4
<1>7. /\ Sum(item, new) \in ItemRec
      /\ Sum(item, new).addr = item.addr /\ Sum(item, new).acc = item.acc
      /\ Sum(item, new)["in"] = x /\ Sum(item, new)["out"] = y
  <2> HIDE DEF x, y
  <2> QED
    BY <1>6 DEF ItemRec
<1>8. \A way \in Ways : Sum(item, new)[way] = (item[way] + new[way]) % UInt
  BY <1>5, <1>7 DEF Ways
<1> QED
  BY <1>7, <1>8

\* The accounts pay for the new item, but for some times 2^32.
LEMMA ItemAdded ==
  ASSUME NEW list \in Seq(ItemRec), NEW new \in ItemRec, Owned(list), Distinct(list),
         Pays(new.acc, new)
  PROVE  /\ AddItem(list, new) \in Seq(ItemRec)
         /\ Owned(AddItem(list, new)) /\ Distinct(AddItem(list, new))
         /\ \A acc : \A way \in Ways :
               Wraps(Paid(acc, list, way) + Part(acc, new, way), Paid(acc, AddItem(list, new), way))
<1> DEFINE next == AddItem(list, new)
           n == Len(list)
<1>1. n \in Nat /\ DOMAIN list = 1 .. n /\ \A i \in 1 .. n : list[i] \in ItemRec
  OBVIOUS
<1>2. CASE \A i \in DOMAIN list : ~ Same(list[i], new)
  <2>1. next = Append(list, new)
    BY <1>2 DEF AddItem
  <2>2. /\ next \in Seq(ItemRec) /\ Len(next) = n + 1 /\ next[n + 1] = new
        /\ \A i \in 1 .. n : next[i] = list[i]
    BY <2>1, AppendProperties
  <2>3. DOMAIN next = (1 .. n) \cup {n + 1}
    BY <1>1, <2>2
  <2>4. Owned(next)
    BY <1>1, <2>2, <2>3 DEF Owned
  <2>5. Distinct(next)
    <3>1. \A i \in 1 .. n : ~ Same(next[i], new) /\ ~ Same(new, next[i])
      BY <1>1, <1>2, <2>2 DEF Same
    <3>2. \A i, j \in 1 .. n : Same(next[i], next[j]) => i = j
      BY <1>1, <2>2 DEF Distinct
    <3> HIDE DEF next, n
    <3> QED
      BY <2>2, <2>3, <3>1, <3>2 DEF Distinct
  <2>6. \A acc : \A way \in Ways :
           Wraps(Paid(acc, list, way) + Part(acc, new, way), Paid(acc, next, way))
    <3> SUFFICES ASSUME NEW acc, NEW way \in Ways
                 PROVE  Wraps(Paid(acc, list, way) + Part(acc, new, way), Paid(acc, next, way))
      OBVIOUS
    <3>1. Paid(acc, next, way) = Paid(acc, list, way) + Part(acc, new, way)
      BY <2>1, PaidAppend
    <3>2. Paid(acc, next, way) \in Nat
      BY <2>2, PartsType
    <3> QED
      BY <3>1, <3>2, WrapsSelf
  <2> QED
    BY <2>2, <2>4, <2>5, <2>6
<1>3. CASE \E i \in DOMAIN list : Same(list[i], new)
  <2>1. PICK x \in 1 .. n : Same(list[x], new)
    BY <1>1, <1>3
  <2>2. \A i \in 1 .. n : Same(list[i], new) => i = x
    BY <1>1, <2>1 DEF Same, Distinct
  <2>3. next = [i \in 1 .. n |-> IF Same(list[i], new) THEN Sum(list[i], new) ELSE list[i]]
    BY <1>1, <1>3 DEF AddItem
  <2>4. next = [i \in 1 .. n |-> IF i = x THEN Sum(list[x], new) ELSE list[i]]
    BY <2>1, <2>2, <2>3
  <2>5. /\ next[x] = Sum(list[x], new) /\ \A i \in 1 .. n : i # x => next[i] = list[i]
        /\ DOMAIN next = 1 .. n
    BY <2>4
  <2>6. /\ Sum(list[x], new) \in ItemRec
        /\ Sum(list[x], new).addr = list[x].addr /\ Sum(list[x], new).acc = list[x].acc
        /\ \A way \in Ways : Sum(list[x], new)[way] = (list[x][way] + new[way]) % UInt
    BY <1>1, SumOfItems
  <2>7. next \in Seq(ItemRec) /\ Len(next) = n
    BY <1>1, <2>4, <2>6
  <2>8. \A i \in 1 .. n : next[i].addr = list[i].addr /\ next[i].acc = list[i].acc
    BY <2>5, <2>6
  <2>9. Owned(next) /\ Distinct(next)
    <3>1. /\ \A i \in 1 .. n : Pays(next[i].acc, next[i]) <=> Pays(list[i].acc, list[i])
          /\ \A i, j \in 1 .. n : Same(next[i], next[j]) <=> Same(list[i], list[j])
      BY ONLY <2>8 DEF Same, Pays
    <3> HIDE DEF next, n
    <3> QED
      BY <1>1, <2>5, <3>1 DEF Owned, Distinct
  <2>10. \A acc : \A way \in Ways :
            Wraps(Paid(acc, list, way) + Part(acc, new, way), Paid(acc, next, way))
    <3> SUFFICES ASSUME NEW acc, NEW way \in Ways
                 PROVE  Wraps(Paid(acc, list, way) + Part(acc, new, way), Paid(acc, next, way))
      OBVIOUS
    <3> DEFINE old == Part(acc, list[x], way)
               add == Part(acc, new, way)
               sum == Part(acc, next[x], way)
               all == Paid(acc, list, way)
    <3>1. Paid(acc, next, way) = all - old + sum
      <4>1. /\ next \in Seq(ItemRec) /\ Len(next) = Len(list) /\ x \in 1 .. Len(list)
            /\ \A i \in 1 .. Len(list) : i # x => next[i] = list[i]
        BY <2>5, <2>7
      <4> HIDE DEF next, n
      <4> QED
        BY <4>1, PaidReplaced
    <3>2. old \in Nat /\ add \in Nat /\ sum \in Nat /\ all \in Nat /\ Paid(acc, next, way) \in Nat
      <4>1. next[x] \in ItemRec
        BY <2>5, <2>6
      <4> HIDE DEF next
      <4> QED
        BY <1>1, <2>7, <4>1, PartType, PartsType
    <3>3. Pays(acc, list[x]) <=> Pays(acc, new)
      BY <1>1, <2>1, SamePayer DEF Owned
    <3>4. Pays(acc, next[x]) <=> Pays(acc, new)
      BY <2>8, <3>3 DEF Pays
    <3>5. Wraps(old + add, sum)
      <4>1. CASE Pays(acc, new)
        <5>1. old = list[x][way] /\ add = new[way] /\ sum = (list[x][way] + new[way]) % UInt
          BY <2>5, <2>6, <3>3, <3>4, <4>1 DEF Part
        <5>2. old + add \in Nat /\ sum = (old + add) % UInt
          BY <3>2, <5>1
        <5> QED
          BY <5>2, WrapsRemainder
      <4>2. CASE ~ Pays(acc, new)
        <5>1. old = 0 /\ add = 0 /\ sum = 0
          BY <3>3, <3>4, <4>2 DEF Part
        <5> QED
          BY <5>1, WrapsSelf
      <4> QED
        BY <4>1, <4>2
    <3> HIDE DEF old, add, sum, all
    <3>6. PICK k \in Nat : old + add = sum + k * UInt
      BY <3>5 DEF Wraps
    <3>7. k * UInt \in Nat
      OBVIOUS
    <3>8. all + add = Paid(acc, next, way) + k * UInt
      BY <3>1, <3>2, <3>6, <3>7
    <3> QED
      BY <3>8 DEF Wraps, all, add
  <2> QED
    BY <2>7, <2>9, <2>10
<1> QED
  BY <1>2, <1>3

-------------------------------------------------------------------------------
(* Items are added to the accounts, one or all of a list.                  *)

Bytes == [in : UInts, out : UInts]

LEMMA SumOfBytes ==
  ASSUME NEW sum \in Bytes, NEW item, item.in \in Nat, item.out \in Nat
  PROVE  /\ Sum(sum, item) \in Bytes
         /\ Sum(sum, item).in = (sum.in + item.in) % UInt
         /\ Sum(sum, item).out = (sum.out + item.out) % UInt
<1> DEFINE a == sum.in + item.in
           b == sum.out + item.out
           x == a % UInt
           y == b % UInt
<1>1. sum.in \in Nat /\ sum.out \in Nat
  BY DEF Bytes, UInts
<1>2. a \in Nat /\ b \in Nat
  BY <1>1
<1>3. x \in UInts /\ y \in UInts
  BY <1>2, WrapsRemainder
<1>4. Sum(sum, item) = [sum EXCEPT !.in = x, !.out = y]
  BY DEF Sum
<1>5. Sum(sum, item) \in Bytes /\ Sum(sum, item).in = x /\ Sum(sum, item).out = y
  <2> HIDE DEF x, y
  <2> QED
    BY <1>3, <1>4 DEF Bytes
<1> QED
  BY <1>5

LEMMA BytesType ==
  ASSUME NEW sum \in Bytes, NEW way \in Ways
  PROVE  sum[way] \in UInts /\ sum[way] \in Nat
BY DEF Bytes, Ways, UInts

\* One item.
LEMMA ItemCharged ==
  ASSUME NEW sums \in [Accounts -> Bytes], NEW item \in ItemRec
  PROVE  /\ Add(sums, item) \in [Accounts -> Bytes]
         /\ \A acc \in Accounts : \A way \in Ways :
               Wraps(sums[acc][way] + Part(acc, item, way), Add(sums, item)[acc][way])
<1>1. item.in \in Nat /\ item.out \in Nat
  BY DEF ItemRec, UInts
<1>2. \A acc \in Accounts : Sum(sums[acc], item) \in Bytes
  BY <1>1, SumOfBytes
<1>3. Add(sums, item) \in [Accounts -> Bytes]
  BY <1>2 DEF Add
<1>4. SUFFICES ASSUME NEW acc \in Accounts, NEW way \in Ways
               PROVE  Wraps(sums[acc][way] + Part(acc, item, way), Add(sums, item)[acc][way])
  BY <1>3
<1> DEFINE old == sums[acc][way]
           new == Add(sums, item)[acc]
<1>5. sums[acc] \in Bytes /\ old \in Nat
  BY BytesType
<1>6. CASE Pays(acc, item)
  <2>1. new = Sum(sums[acc], item) /\ Part(acc, item, way) = item[way]
    BY <1>6 DEF Add, Part
  <2>2. Sum(sums[acc], item)[way] = (sums[acc][way] + item[way]) % UInt
    <3>1. /\ Sum(sums[acc], item).in = (sums[acc].in + item.in) % UInt
          /\ Sum(sums[acc], item).out = (sums[acc].out + item.out) % UInt
      BY <1>1, <1>5, SumOfBytes
    <3>2. way = "in" \/ way = "out"
      BY DEF Ways
    <3> QED
      BY <3>1, <3>2
  <2>3. item[way] \in Nat /\ old + item[way] \in Nat
    <3>1. item[way] \in Nat
      BY PartType
    <3> HIDE DEF old
    <3> QED
      BY <1>5, <3>1
  <2>4. new[way] = (old + item[way]) % UInt
    BY <2>1, <2>2
  <2> QED
    BY <2>1, <2>3, <2>4, WrapsRemainder
<1>7. CASE ~ Pays(acc, item)
  <2>1. new = sums[acc] /\ Part(acc, item, way) = 0
    BY <1>7 DEF Add, Part
  <2> QED
    BY <1>5, <2>1, WrapsSelf
<1> QED
  BY <1>6, <1>7

\* All the items of a list.
LEMMA OwedIsPaid ==
  ASSUME NEW acc, NEW items
  PROVE  Owed(acc, items).in = Paid(acc, items, "in") /\ Owed(acc, items).out = Paid(acc, items, "out")
<1>1. Parts(acc, items, "in") = [i \in DOMAIN items |-> IF Pays(acc, items[i]) THEN items[i].in ELSE 0]
  BY DEF Parts, Part
<1>2. Parts(acc, items, "out") = [i \in DOMAIN items |-> IF Pays(acc, items[i]) THEN items[i].out ELSE 0]
  BY DEF Parts, Part
<1> QED
  BY <1>1, <1>2 DEF Owed, Paid

LEMMA ItemsCharged ==
  ASSUME NEW sums \in [Accounts -> Bytes], NEW items \in Seq(ItemRec)
  PROVE  /\ AddAll(sums, items) \in [Accounts -> Bytes]
         /\ \A acc \in Accounts : \A way \in Ways :
               Wraps(sums[acc][way] + Paid(acc, items, way), AddAll(sums, items)[acc][way])
<1>1. \A acc : Owed(acc, items).in \in Nat /\ Owed(acc, items).out \in Nat
  <2> SUFFICES ASSUME NEW acc PROVE Owed(acc, items).in \in Nat /\ Owed(acc, items).out \in Nat
    OBVIOUS
  <2>1. Paid(acc, items, "in") \in Nat /\ Paid(acc, items, "out") \in Nat
    BY PartsType DEF Ways
  <2> QED
    BY <2>1, OwedIsPaid
<1>2. \A acc \in Accounts : Sum(sums[acc], Owed(acc, items)) \in Bytes
  BY <1>1, SumOfBytes
<1>3. AddAll(sums, items) \in [Accounts -> Bytes]
  BY <1>2 DEF AddAll
<1>4. SUFFICES ASSUME NEW acc \in Accounts, NEW way \in Ways
               PROVE  Wraps(sums[acc][way] + Paid(acc, items, way), AddAll(sums, items)[acc][way])
  BY <1>3
<1> DEFINE old == sums[acc][way]
           more == Paid(acc, items, way)
<1>5. sums[acc] \in Bytes /\ old \in Nat /\ more \in Nat /\ old + more \in Nat
  BY BytesType, PartsType
<1>6. AddAll(sums, items)[acc] = Sum(sums[acc], Owed(acc, items))
  BY DEF AddAll
<1>7. Sum(sums[acc], Owed(acc, items))[way] = (sums[acc][way] + Paid(acc, items, way)) % UInt
  <2>1. CASE way = "in"
    BY <1>1, <1>5, <2>1, SumOfBytes, OwedIsPaid
  <2>2. CASE way = "out"
    BY <1>1, <1>5, <2>2, SumOfBytes, OwedIsPaid
  <2> QED
    BY <2>1, <2>2 DEF Ways
<1> HIDE DEF old, more
<1>8. AddAll(sums, items)[acc][way] = (old + more) % UInt
  BY <1>6, <1>7 DEF old, more
<1>9. Wraps(old + more, (old + more) % UInt)
  BY <1>5, WrapsRemainder
<1>10. Wraps(old + more, AddAll(sums, items)[acc][way])
  BY <1>8, <1>9
<1> QED
  BY <1>10 DEF old, more

-------------------------------------------------------------------------------
(* A line makes the item its account pays for.                             *)

Mine(way) == IF way = "in" THEN To ELSE From
Theirs(way) == IF way = "in" THEN From ELSE To
CountedFor(f, acc, way) == Counted(f, acc, Mine(way), Theirs(way))

LEMMA OfGates == \A acc, a : /\ Of(acc, a) <=> \E g \in GatesOf(a) : g.acc = acc
                             /\ World(a) <=> GatesOf(a) = {}
BY DEF Of, World, GatesOf

\* An item of a gate is paid for by the account of the gate.
LEMMA ItemOfGate ==
  ASSUME NEW a \in Addrs, NEW g \in GatesOf(a), NEW x \in UInts, NEW y \in UInts
  PROVE  /\ Item(a, g, x, y) \in ItemRec
         /\ \A acc : Pays(acc, Item(a, g, x, y)) <=> acc = g.acc
         /\ Pays(Item(a, g, x, y).acc, Item(a, g, x, y))
         /\ Item(a, g, x, y)["in"] = x /\ Item(a, g, x, y)["out"] = y
<1> DEFINE b == IF detail \in {"addr", "accaddr"} THEN a ELSE g.addr
           item == Item(a, g, x, y)
<1>1. g \in Gates /\ a \in g.block
  BY DEF GatesOf
<1>2. b \in g.block /\ b \in Addrs /\ g.acc \in Accounts
  BY <1>1 DEF Accounts
<1>3. g \in GatesOf(b)
  BY <1>1, <1>2 DEF GatesOf
<1>4. item = [addr |-> b, acc |-> g.acc, in |-> x, out |-> y]
  BY DEF Item
<1> HIDE DEF b, item
<1>5. item \in ItemRec
  BY <1>2, <1>4 DEF ItemRec
<1>6. item.addr = b /\ item.acc = g.acc /\ item["in"] = x /\ item["out"] = y
  BY <1>4
<1>7. \A acc : Pays(acc, item) <=> acc = g.acc
  BY <1>3, <1>6, OneGate DEF Pays
<1> QED
  BY <1>5, <1>6, <1>7 DEF item

LEMMA ItemsOfLine ==
  ASSUME NEW f \in Flows \ V6, NEW n \in Nat
  PROVE  /\ Items(From[f], To[f], n) = {} =>
               \A acc : \A way \in Ways : CountedFor(f, acc, way) => n % UInt = 0
         /\ \A new \in Items(From[f], To[f], n) :
               /\ new \in ItemRec /\ Pays(new.acc, new)
               /\ \A acc : \A way \in Ways :
                     Part(acc, new, way) = IF CountedFor(f, acc, way) THEN n % UInt ELSE 0
<1> DEFINE src == From[f]
           dst == To[f]
           m == n % UInt
           S == GatesOf(src)
           D == GatesOf(dst)
<1>1. src \in Addrs /\ dst \in Addrs /\ m \in UInts /\ 0 \in UInts
  <2>1. m \in UInts
    BY WrapsRemainder
  <2> HIDE DEF m
  <2> QED
    BY <2>1 DEF UInts
<1>2. \A acc : /\ CountedFor(f, acc, "in") <=>
                     (\E g \in D : g.acc = acc) /\ S = {} /\ (Global(src) \/ Global(dst))
               /\ CountedFor(f, acc, "out") <=>
                     (\E g \in S : g.acc = acc) /\ D = {} /\ (Global(src) \/ Global(dst))
  BY OfGates, LocalIsNotGlobal DEF CountedFor, Counted, Mine, Theirs
<1>3. Skips(src, dst) <=> (~ Global(src) /\ ~ Global(dst)) \/ (S = {} <=> D = {})
  BY DEF Skips
<1>4. Items(src, dst, n) = IF m = 0 \/ Skips(src, dst) THEN {}
                           ELSE {Item(src, g, 0, m) : g \in S} \cup {Item(dst, g, m, 0) : g \in D}
  BY DEF Items
<1> HIDE DEF m, S, D
<1>5. ASSUME Items(src, dst, n) = {}, NEW acc, NEW way \in Ways, CountedFor(f, acc, way)
      PROVE  m = 0
  <2>1. (S # {} /\ D = {}) \/ (S = {} /\ D # {})
    BY <1>2, <1>5 DEF Ways
  <2>2. ~ Skips(src, dst)
    BY <1>2, <1>3, <1>5, <2>1 DEF Ways
  <2> SUFFICES ASSUME m # 0 PROVE FALSE
    OBVIOUS
  <2>3. {Item(src, g, 0, m) : g \in S} \cup {Item(dst, g, m, 0) : g \in D} = {}
    BY <1>4, <1>5, <2>2
  <2>4. (\A g \in S : FALSE) /\ (\A g \in D : FALSE)
    <3> DEFINE A == {Item(src, g, 0, m) : g \in S}
               B == {Item(dst, g, m, 0) : g \in D}
    <3>1. (\A g \in S : Item(src, g, 0, m) \in A) /\ (\A g \in D : Item(dst, g, m, 0) \in B)
      OBVIOUS
    <3>2. A \cup B = {}
      BY <2>3
    <3> HIDE DEF A, B
    <3> QED
      BY <3>1, <3>2
  <2> QED
    BY <2>1, <2>4
<1>6. ASSUME NEW new \in Items(src, dst, n)
      PROVE  /\ new \in ItemRec /\ Pays(new.acc, new)
             /\ \A acc : \A way \in Ways :
                   Part(acc, new, way) = IF CountedFor(f, acc, way) THEN m ELSE 0
  <2>1. /\ ~ Skips(src, dst)
        /\ new \in {Item(src, g, 0, m) : g \in S} \cup {Item(dst, g, m, 0) : g \in D}
    BY <1>4, <1>6
  <2>2. Global(src) \/ Global(dst)
    BY <1>3, <2>1
  <2>3. CASE S # {}
    <3>1. D = {}
      BY <1>3, <2>1, <2>3
    <3>2. PICK g \in S : new = Item(src, g, 0, m)
      BY <2>1, <3>1
    <3>3. /\ new \in ItemRec /\ Pays(new.acc, new) /\ new["in"] = 0 /\ new["out"] = m
          /\ \A acc : Pays(acc, new) <=> acc = g.acc
      BY <1>1, <3>2, ItemOfGate DEF S
    <3>4. \A acc : (\E h \in S : h.acc = acc) <=> acc = g.acc
      BY OneGate DEF S
    <3>5. \A acc : ~ CountedFor(f, acc, "in") /\ (CountedFor(f, acc, "out") <=> acc = g.acc)
      BY <1>2, <2>2, <2>3, <3>1, <3>4
    <3> QED
      BY <3>3, <3>5 DEF Part, Ways
  <2>4. CASE S = {}
    <3>1. PICK g \in D : new = Item(dst, g, m, 0)
      BY <2>1, <2>4
    <3>2. /\ new \in ItemRec /\ Pays(new.acc, new) /\ new["in"] = m /\ new["out"] = 0
          /\ \A acc : Pays(acc, new) <=> acc = g.acc
      BY <1>1, <3>1, ItemOfGate DEF D
    <3>3. \A acc : (\E h \in D : h.acc = acc) <=> acc = g.acc
      BY OneGate DEF D
    <3>4. \A acc : ~ CountedFor(f, acc, "out") /\ (CountedFor(f, acc, "in") <=> acc = g.acc)
      BY <1>2, <2>2, <2>4, <3>1, <3>3
    <3> QED
      BY <3>2, <3>4 DEF Part, Ways
  <2> QED
    BY <2>3, <2>4
<1> QED
  BY <1>5, <1>6 DEF m

-------------------------------------------------------------------------------
(* The types.                                                              *)

LEMMA ItemAddedType ==
  ASSUME NEW list \in Seq(ItemRec), NEW new \in ItemRec
  PROVE  AddItem(list, new) \in Seq(ItemRec)
<1> DEFINE next == [i \in DOMAIN list |-> IF Same(list[i], new) THEN Sum(list[i], new) ELSE list[i]]
<1>1. Append(list, new) \in Seq(ItemRec)
  BY AppendProperties
<1>2. DOMAIN list = 1 .. Len(list) /\ Len(list) \in Nat /\ \A i \in DOMAIN list : list[i] \in ItemRec
  OBVIOUS
<1>3. \A i \in DOMAIN list : Sum(list[i], new) \in ItemRec
  BY <1>2, SumOfItems
<1>4. next \in Seq(ItemRec)
  BY <1>2, <1>3
<1> HIDE DEF next
<1>5. AddItem(list, new) = Append(list, new) \/ AddItem(list, new) = next
  BY DEF AddItem, next
<1> QED
  BY <1>1, <1>4, <1>5

LEMMA ItemsType ==
  ASSUME NEW src \in Addrs, NEW dst \in Addrs, NEW n \in Nat
  PROVE  Items(src, dst, n) \subseteq ItemRec
<1> DEFINE m == n % UInt
           A == {Item(src, g, 0, m) : g \in GatesOf(src)}
           B == {Item(dst, g, m, 0) : g \in GatesOf(dst)}
<1>1. m \in UInts /\ 0 \in UInts
  <2>1. m \in UInts
    BY WrapsRemainder
  <2> HIDE DEF m
  <2> QED
    BY <2>1 DEF UInts
<1>2. Items(src, dst, n) \subseteq A \cup B
  BY DEF Items
<1> HIDE DEF m
<1>3. A \subseteq ItemRec /\ B \subseteq ItemRec
  <2>1. \A g \in GatesOf(src) : Item(src, g, 0, m) \in ItemRec
    BY <1>1, ItemOfGate
  <2>2. \A g \in GatesOf(dst) : Item(dst, g, m, 0) \in ItemRec
    BY <1>1, ItemOfGate
  <2> QED
    BY <2>1, <2>2
<1> HIDE DEF A, B
<1> QED
  BY <1>2, <1>3

\* The state has its types: sums of bytes stay in 32 bits, and every item is of an
\* inet address and of an account that has a gate.
THEOREM TraffTypes == Spec => []TraffTypeOK
<1>1. Init => TraffTypeOK
  <2> SUFFICES ASSUME Init PROVE TraffTypeOK
    OBVIOUS
  <2>1. text \in Seq(Line)
    <3>1. PICK n \in 0 .. MaxLines : text \in [1 .. n -> Line]
      BY DEF Init
    <3>2. n \in Nat
      OBVIOUS
    <3> QED
      BY <3>1, <3>2
  <2>2. NoBytes \in [Accounts -> [in : UInts, out : UInts]]
    BY DEF NoBytes, UInts
  <2>3. [f \in Flows |-> 0] \in [Flows -> Nat]
    OBVIOUS
  <2> QED
    BY <2>1, <2>2, <2>3 DEF Init, TraffTypeOK
<1>2. TraffTypeOK /\ [Next]_vars => TraffTypeOK'
  <2> SUFFICES ASSUME TraffTypeOK, [Next]_vars PROVE TraffTypeOK'
    OBVIOUS
  <2>1. /\ stat \in Seq(ItemRec) /\ text \in Seq(Line)
        /\ charged \in [Accounts -> Bytes] /\ failed \in [Accounts -> Bytes]
    BY DEF TraffTypeOK, ItemRec, Bytes
  <2>2. << >> \in Seq(ItemRec)
    OBVIOUS
  <2>3. ASSUME NEW items, Leave(items), items \in Seq(ItemRec)
        PROVE  /\ pc' \in {"parse", "send", "exit"} /\ stat' \in Seq(ItemRec)
               /\ failed' \in [Accounts -> Bytes]
    BY <2>1, <2>2, <2>3, ItemsCharged DEF Leave
  <2>4. ASSUME stat # << >>
        PROVE  Head(stat) \in ItemRec /\ Tail(stat) \in Seq(ItemRec)
    BY <2>1, <2>4, HeadTailProperties
  <2>5. SUFFICES /\ detail' \in Details /\ pc' \in {"parse", "send", "exit"} /\ text' \in Seq(Line)
                 /\ (from' \in Addrs /\ to' \in Addrs) \/ (from' = Junk /\ to' = Junk)
                 /\ stat' \in Seq(ItemRec)
                 /\ charged' \in [Accounts -> Bytes] /\ failed' \in [Accounts -> Bytes]
                 /\ parsed' \in [Flows -> Nat]
    BY DEF TraffTypeOK, ItemRec, Bytes
  <2>6. CASE ParseLine
    <3> DEFINE line == Head(text)
    <3>1. text # << >> /\ line \in Line /\ Tail(text) \in Seq(Line)
      BY <2>1, <2>6, HeadTailProperties DEF ParseLine
    <3>2. line.flow \in Flows /\ line.bytes \in Nat
      BY <3>1 DEF Line
    <3>3. parsed' = [parsed EXCEPT ![line.flow] = @ + line.bytes] /\ text' = Tail(text)
      BY <2>6 DEF ParseLine
    <3>4. from' \in Addrs /\ to' \in Addrs
      BY <2>6, <3>2 DEF ParseLine, TraffTypeOK
    <3>5. parsed' \in [Flows -> Nat]
      <4> HIDE DEF line
      <4>1. parsed \in [Flows -> Nat] /\ parsed[line.flow] + line.bytes \in Nat
        BY <3>2 DEF TraffTypeOK
      <4> QED
        BY <3>2, <3>3, <4>1
    <3>6. ASSUME NEW new \in Items(from', to', line.bytes), stat' = AddItem(stat, new)
          PROVE  stat' \in Seq(ItemRec)
      <4> HIDE DEF line
      <4>1. new \in ItemRec
        BY <3>2, <3>4, <3>6, ItemsType
      <4> QED
        BY <2>1, <3>6, <4>1, ItemAddedType
    <3>7. stat' = stat \/ \E new \in Items(from', to', line.bytes) : stat' = AddItem(stat, new)
      BY <2>6 DEF ParseLine
    <3>8. stat' \in Seq(ItemRec)
      BY <2>1, <3>6, <3>7
    <3> QED
      BY <2>1, <2>6, <3>1, <3>3, <3>4, <3>5, <3>8 DEF ParseLine, TraffTypeOK
  <2>7. CASE Connect
    BY <2>1, <2>3, <2>7 DEF Connect, TraffTypeOK
  <2>8. CASE Send
    <3>1. stat # << >> /\ Head(stat) \in ItemRec /\ Tail(stat) \in Seq(ItemRec)
      BY <2>4, <2>8 DEF Send
    <3>2. Add(charged, Head(stat)) \in [Accounts -> Bytes] /\ Add(failed, Head(stat)) \in [Accounts -> Bytes]
      BY <2>1, <3>1, ItemCharged
    <3> QED
      BY <2>1, <2>3, <2>8, <3>1, <3>2 DEF Send, AfterError, TraffTypeOK
  <2>9. CASE Finish
    BY <2>1, <2>3, <2>9 DEF Finish, TraffTypeOK
  <2>10. CASE UNCHANGED vars
    BY <2>1, <2>10 DEF vars, TraffTypeOK
  <2> QED
    BY <2>6, <2>7, <2>8, <2>9, <2>10 DEF Next
<1> QED
  BY <1>1, <1>2, PTL DEF Spec

-------------------------------------------------------------------------------
(* The books: what an account is due is what it was charged, what could not *)
(* be charged, and what the items not sent yet will add, but for some times *)
(* 2^32.                                                                    *)

\* No line of inet6 was parsed: such a line is charged by the addresses of another.
NoInet6 == \A f \in V6 : parsed[f] = 0

CountedFlows(acc, way) == {f \in Flows : CountedFor(f, acc, way)}
DueBy(bytes, acc, way) == SumFunctionOnSet(bytes, CountedFlows(acc, way))
Due(acc, way) == DueBy(parsed, acc, way)

Balanced(acc, way) ==
    Wraps(Due(acc, way), charged[acc][way] + failed[acc][way] + Paid(acc, stat, way))
Books == /\ Owned(stat) /\ Distinct(stat)
         /\ \A acc \in Accounts : \A way \in Ways : Balanced(acc, way)

LEMMA DueIsExpected ==
  \A acc : Due(acc, "in") = Expected(acc).in /\ Due(acc, "out") = Expected(acc).out
BY DEF Due, DueBy, CountedFlows, CountedFor, Mine, Theirs, Expected, Traffic

LEMMA DueType ==
  ASSUME NEW bytes \in [Flows -> Nat], NEW acc, NEW way
  PROVE  DueBy(bytes, acc, way) \in Nat
<1> DEFINE S == CountedFlows(acc, way)
<1>1. S \subseteq Flows
  BY DEF CountedFlows
<1>2. IsFiniteSet(S)
  BY <1>1, FS_Subset
<1>3. \A f \in S : bytes[f] \in Nat
  BY <1>1
<1> HIDE DEF S
<1>4. SumFunctionOnSet(bytes, S) \in Nat
  BY <1>2, <1>3, SumNat
<1> QED
  BY <1>4 DEF DueBy, S

\* n bytes of a flow more.
Grows(next, bytes, f, n) == /\ next[f] = bytes[f] + n
                            /\ \A g \in Flows : g # f => next[g] = bytes[g]

\* A line is due from the account it counts for, and from no other.
LEMMA DueGrows ==
  ASSUME NEW bytes \in [Flows -> Nat], NEW f \in Flows, NEW n \in Nat, NEW acc, NEW way,
         NEW next, Grows(next, bytes, f, n)
  PROVE  DueBy(next, acc, way)
           = DueBy(bytes, acc, way) + (IF CountedFor(f, acc, way) THEN n ELSE 0)
<1> DEFINE S == CountedFlows(acc, way)
<1>1. S \subseteq Flows /\ (f \in S <=> CountedFor(f, acc, way))
  BY DEF CountedFlows
<1>2. IsFiniteSet(S)
  BY <1>1, FS_Subset
<1>3. next[f] = bytes[f] + n /\ bytes[f] \in Nat /\ \A g \in Flows : g # f => next[g] = bytes[g]
  BY DEF Grows
<1>4. \A g \in S : bytes[g] \in Nat
  BY <1>1
<1>5. DueBy(bytes, acc, way) = SumFunctionOnSet(bytes, S) /\ DueBy(next, acc, way) = SumFunctionOnSet(next, S)
  BY DEF DueBy
<1>6. SumFunctionOnSet(bytes, S) \in Nat
  BY <1>5, DueType
<1> HIDE DEF S
<1>7. CASE f \in S
  <2>1. (\A g \in S : bytes[g] \in Int) /\ next[f] \in Int /\ \A g \in S \ {f} : next[g] = bytes[g]
    BY <1>1, <1>3, <1>4
  <2>2. SumFunctionOnSet(next, S) = SumFunctionOnSet(bytes, S) - bytes[f] + next[f]
    BY ONLY <1>2, <1>7, <2>1, SumChanged
  <2> QED
    BY <1>1, <1>3, <1>5, <1>6, <1>7, <2>2
<1>8. CASE f \notin S
  <2>1. \A g \in S : next[g] = bytes[g]
    BY <1>1, <1>3, <1>8
  <2>2. SumFunctionOnSet(next, S) = SumFunctionOnSet(bytes, S)
    BY ONLY <1>2, <2>1, SumSame
  <2> QED
    BY <1>1, <1>5, <1>6, <1>8, <2>2
<1> QED
  BY <1>7, <1>8

\* The numbers of the books.
LEMMA BooksType ==
  ASSUME TraffTypeOK
  PROVE  /\ stat \in Seq(ItemRec) /\ text \in Seq(Line) /\ parsed \in [Flows -> Nat]
         /\ charged \in [Accounts -> Bytes] /\ failed \in [Accounts -> Bytes]
         /\ \A acc \in Accounts : \A way \in Ways :
               /\ charged[acc][way] \in Nat /\ failed[acc][way] \in Nat
               /\ Paid(acc, stat, way) \in Nat /\ Due(acc, way) \in Nat
<1>1. /\ stat \in Seq(ItemRec) /\ text \in Seq(Line) /\ parsed \in [Flows -> Nat]
      /\ charged \in [Accounts -> Bytes] /\ failed \in [Accounts -> Bytes]
  BY DEF TraffTypeOK, ItemRec, Bytes
<1>2. \A acc \in Accounts : charged[acc] \in Bytes /\ failed[acc] \in Bytes
  BY <1>1
<1>3. \A acc \in Accounts : \A way \in Ways :
         charged[acc][way] \in Nat /\ failed[acc][way] \in Nat
  BY <1>2, BytesType
<1>4. \A acc \in Accounts : \A way \in Ways : Paid(acc, stat, way) \in Nat
  BY <1>1, PartsType
<1>5. \A acc \in Accounts : \A way \in Ways : Due(acc, way) \in Nat
  BY <1>1, DueType DEF Due
<1> QED
  BY <1>1, <1>3, <1>4, <1>5

LEMMA BooksInit == Init => Books
<1> SUFFICES ASSUME Init PROVE Books
  OBVIOUS
<1>1. stat = << >> /\ charged = NoBytes /\ failed = NoBytes /\ parsed = [f \in Flows |-> 0]
  BY DEF Init
<1>2. Owned(stat) /\ Distinct(stat)
  BY <1>1 DEF Owned, Distinct
<1>3. ASSUME NEW acc \in Accounts, NEW way \in Ways PROVE Balanced(acc, way)
  <2>1. charged[acc][way] = 0 /\ failed[acc][way] = 0
    BY <1>1 DEF NoBytes, Ways
  <2>2. Paid(acc, stat, way) = 0
    BY <1>1, PaidNothing
  <2>3. Due(acc, way) = 0
    <3> DEFINE S == CountedFlows(acc, way)
    <3>1. S \subseteq Flows
      BY DEF CountedFlows
    <3>2. IsFiniteSet(S) /\ \A f \in S : parsed[f] = 0
      BY <1>1, <3>1, FS_Subset
    <3> HIDE DEF S
    <3>3. SumFunctionOnSet(parsed, S) = 0
      BY <3>2, SumOfZeros
    <3> QED
      BY <3>3 DEF Due, DueBy, S
  <2>4. Wraps(0, 0)
    BY WrapsSelf
  <2> QED
    BY <2>1, <2>2, <2>3, <2>4 DEF Balanced
<1> QED
  BY <1>2, <1>3 DEF Books

\* What is left of the list after its first item.
LEMMA RestOfList ==
  ASSUME NEW list \in Seq(ItemRec), list # << >>, Owned(list), Distinct(list)
  PROVE  Owned(Tail(list)) /\ Distinct(Tail(list))
<1> DEFINE rest == Tail(list)
           n == Len(rest)
<1>1. /\ rest \in Seq(ItemRec) /\ n = Len(list) - 1 /\ \A i \in 1 .. n : rest[i] = list[i + 1]
  BY HeadTailProperties
<1>2. n \in Nat /\ DOMAIN rest = 1 .. n /\ DOMAIN list = 1 .. Len(list) /\ Len(list) = n + 1
  BY <1>1
<1>3. \A i \in 1 .. n : i + 1 \in DOMAIN list
  BY <1>2
<1> HIDE DEF rest, n
<1>4. Owned(rest)
  BY <1>1, <1>2, <1>3 DEF Owned
<1>5. Distinct(rest)
  <2> SUFFICES ASSUME NEW i \in 1 .. n, NEW j \in 1 .. n, Same(rest[i], rest[j]) PROVE i = j
    BY <1>2 DEF Distinct
  <2>1. Same(list[i + 1], list[j + 1])
    BY <1>1
  <2>2. i + 1 = j + 1
    BY <1>3, <2>1 DEF Distinct
  <2> QED
    BY <1>2, <2>2
<1> QED
  BY <1>4, <1>5 DEF rest

\* Bytes go from one place in the books to another.
LEMMA BooksMoved ==
  ASSUME TraffTypeOK, TraffTypeOK', Books, parsed' = parsed, detail' = detail,
         Owned(stat'), Distinct(stat'),
         \A acc \in Accounts : \A way \in Ways :
            Wraps(charged[acc][way] + failed[acc][way] + Paid(acc, stat, way),
                  charged'[acc][way] + failed'[acc][way] + Paid(acc, stat', way))
  PROVE  Books'
<1>1. Owned(stat)' /\ Distinct(stat)'
  BY DEF Owned, Distinct, Same
<1>2. ASSUME NEW acc \in Accounts, NEW way \in Ways PROVE Balanced(acc, way)'
  <2> DEFINE due == Due(acc, way)
             all == charged[acc][way] + failed[acc][way] + Paid(acc, stat, way)
             now == charged'[acc][way] + failed'[acc][way] + Paid(acc, stat', way)
  <2>1. Due(acc, way)' = due
    BY DEF Due, DueBy, CountedFlows, CountedFor, Counted, Mine, Theirs
  <2>2. due \in Nat /\ all \in Nat
    BY BooksType
  <2>3. now \in Nat
    <3>1. /\ stat' \in Seq(ItemRec)
          /\ charged' \in [Accounts -> Bytes] /\ failed' \in [Accounts -> Bytes]
      BY DEF TraffTypeOK, ItemRec, Bytes
    <3>2. charged'[acc][way] \in Nat /\ failed'[acc][way] \in Nat
      BY <3>1, BytesType
    <3>3. Paid(acc, stat', way) \in Nat
      BY <3>1, PartsType
    <3> QED
      BY <3>2, <3>3
  <2>4. Wraps(due, all) /\ Wraps(all, now)
    BY DEF Books, Balanced
  <2> HIDE DEF due, all, now
  <2>5. Wraps(due, now)
    BY <2>2, <2>3, <2>4, WrapsTwice
  <2> QED
    BY <2>1, <2>5 DEF Balanced, now
<1> QED
  BY <1>1, <1>2 DEF Books

\* The program ends: what it did not send is in "failed".
LEMMA LeaveMoves ==
  ASSUME TraffTypeOK, NEW items \in Seq(ItemRec), Leave(items)
  PROVE  /\ stat' = << >> /\ Owned(stat') /\ Distinct(stat')
         /\ \A acc \in Accounts : \A way \in Ways :
               /\ Wraps(failed[acc][way] + Paid(acc, items, way), failed'[acc][way])
               /\ failed'[acc][way] \in Nat /\ Paid(acc, items, way) \in Nat
               /\ Paid(acc, stat', way) = 0
<1>1. stat' = << >> /\ failed' = AddAll(failed, items)
  BY DEF Leave
<1>2. Owned(stat') /\ Distinct(stat')
  BY <1>1 DEF Owned, Distinct
<1>3. failed \in [Accounts -> Bytes]
  BY BooksType
<1>4. /\ failed' \in [Accounts -> Bytes]
      /\ \A acc \in Accounts : \A way \in Ways :
            Wraps(failed[acc][way] + Paid(acc, items, way), failed'[acc][way])
  BY <1>1, <1>3, ItemsCharged
<1>5. \A acc \in Accounts : failed'[acc] \in Bytes
  BY <1>4
<1>6. \A acc \in Accounts : \A way \in Ways : failed'[acc][way] \in Nat
  BY <1>5, BytesType
<1>7. \A acc \in Accounts : \A way \in Ways : Paid(acc, items, way) \in Nat
  BY PartsType
<1>8. \A acc \in Accounts : \A way \in Ways : Paid(acc, stat', way) = 0
  BY <1>1, PaidNothing
<1> QED
  BY <1>1, <1>2, <1>4, <1>6, <1>7, <1>8

LEMMA BooksLeave ==
  ASSUME TraffTypeOK, TraffTypeOK', Books, Leave(stat), UNCHANGED <<charged, parsed, detail>>
  PROVE  Books'
<1>1. stat \in Seq(ItemRec)
  BY BooksType
<1>2. Owned(stat') /\ Distinct(stat')
  BY <1>1, LeaveMoves
<1>3. ASSUME NEW acc \in Accounts, NEW way \in Ways
      PROVE  Wraps(charged[acc][way] + failed[acc][way] + Paid(acc, stat, way),
                   charged'[acc][way] + failed'[acc][way] + Paid(acc, stat', way))
  <2> DEFINE c == charged[acc][way]
             f == failed[acc][way]
             p == Paid(acc, stat, way)
             g == failed'[acc][way]
  <2>1. c \in Nat /\ f \in Nat
    BY BooksType
  <2>2. Wraps(f + p, g) /\ g \in Nat /\ p \in Nat /\ Paid(acc, stat', way) = 0 /\ charged' = charged
    BY <1>1, LeaveMoves
  <2> HIDE DEF c, f, p, g
  <2>3. Wraps((f + p) + c, g + c)
    <3>1. f + p \in Nat
      BY <2>1, <2>2
    <3> QED
      BY <2>1, <2>2, <3>1, WrapsMore
  <2>4. (f + p) + c = c + f + p /\ g + c = c + g + 0
    BY <2>1, <2>2
  <2> QED
    BY <2>2, <2>3, <2>4 DEF c, f, p, g
<1> QED
  BY <1>2, <1>3, BooksMoved

LEMMA BooksSend ==
  ASSUME TraffTypeOK, TraffTypeOK', Books, Send
  PROVE  Books'
<1> DEFINE head == Head(stat)
           rest == Tail(stat)
<1>1. stat # << >> /\ parsed' = parsed /\ detail' = detail
  BY DEF Send
<1>2. /\ stat \in Seq(ItemRec) /\ charged \in [Accounts -> Bytes] /\ failed \in [Accounts -> Bytes]
  BY BooksType
<1>3. /\ head \in ItemRec /\ rest \in Seq(ItemRec)
      /\ \A acc \in Accounts : \A way \in Ways :
            Paid(acc, stat, way) = Part(acc, head, way) + Paid(acc, rest, way)
  BY <1>1, <1>2, PaidFirst
<1>4. Owned(rest) /\ Distinct(rest)
  BY <1>1, <1>2, RestOfList DEF Books
<1> HIDE DEF head, rest
<1>5. \A acc \in Accounts : \A way \in Ways :
         /\ charged[acc][way] \in Nat /\ failed[acc][way] \in Nat
         /\ Part(acc, head, way) \in Nat /\ Paid(acc, rest, way) \in Nat
  BY <1>3, BooksType, PartType, PartsType
<1>6. /\ Add(charged, head) \in [Accounts -> Bytes] /\ Add(failed, head) \in [Accounts -> Bytes]
      /\ \A acc \in Accounts : \A way \in Ways :
            /\ Wraps(charged[acc][way] + Part(acc, head, way), Add(charged, head)[acc][way])
            /\ Wraps(failed[acc][way] + Part(acc, head, way), Add(failed, head)[acc][way])
  BY <1>2, <1>3, ItemCharged
<1>7. \A acc \in Accounts : Add(charged, head)[acc] \in Bytes /\ Add(failed, head)[acc] \in Bytes
  BY <1>6
<1>8. \A acc \in Accounts : \A way \in Ways :
         Add(charged, head)[acc][way] \in Nat /\ Add(failed, head)[acc][way] \in Nat
  BY <1>7, BytesType
<1>9. CASE charged' = Add(charged, head) /\ stat' = rest /\ UNCHANGED failed
  <2>1. ASSUME NEW acc \in Accounts, NEW way \in Ways
        PROVE  Wraps(charged[acc][way] + failed[acc][way] + Paid(acc, stat, way),
                     charged'[acc][way] + failed'[acc][way] + Paid(acc, stat', way))
    <3> DEFINE c == charged[acc][way]
               f == failed[acc][way]
               p == Part(acc, head, way)
               q == Paid(acc, rest, way)
               d == Add(charged, head)[acc][way]
    <3>1. c \in Nat /\ f \in Nat /\ p \in Nat /\ q \in Nat /\ d \in Nat /\ Wraps(c + p, d)
      BY <1>5, <1>6, <1>8
    <3>2. Paid(acc, stat, way) = p + q
      BY <1>3
    <3> HIDE DEF c, f, p, q, d
    <3>3. Wraps((c + p) + (f + q), d + (f + q))
      <4>1. c + p \in Nat /\ f + q \in Nat
        BY <3>1
      <4> QED
        BY <3>1, <4>1, WrapsMore
    <3>4. (c + p) + (f + q) = c + f + (p + q) /\ d + (f + q) = d + f + q
      BY <3>1
    <3> QED
      BY <1>9, <3>2, <3>3, <3>4 DEF c, f, p, q, d
  <2> QED
    BY <1>1, <1>4, <1>9, <2>1, BooksMoved
<1>10. CASE failed' = Add(failed, head) /\ stat' = rest /\ UNCHANGED charged
  <2>1. ASSUME NEW acc \in Accounts, NEW way \in Ways
        PROVE  Wraps(charged[acc][way] + failed[acc][way] + Paid(acc, stat, way),
                     charged'[acc][way] + failed'[acc][way] + Paid(acc, stat', way))
    <3> DEFINE c == charged[acc][way]
               f == failed[acc][way]
               p == Part(acc, head, way)
               q == Paid(acc, rest, way)
               g == Add(failed, head)[acc][way]
    <3>1. c \in Nat /\ f \in Nat /\ p \in Nat /\ q \in Nat /\ g \in Nat /\ Wraps(f + p, g)
      BY <1>5, <1>6, <1>8
    <3>2. Paid(acc, stat, way) = p + q
      BY <1>3
    <3> HIDE DEF c, f, p, q, g
    <3>3. Wraps((f + p) + (c + q), g + (c + q))
      <4>1. f + p \in Nat /\ c + q \in Nat
        BY <3>1
      <4> QED
        BY <3>1, <4>1, WrapsMore
    <3>4. (f + p) + (c + q) = c + f + (p + q) /\ g + (c + q) = c + g + q
      BY <3>1
    <3> QED
      BY <1>10, <3>2, <3>3, <3>4 DEF c, f, p, q, g
  <2> QED
    BY <1>1, <1>4, <1>10, <2>1, BooksMoved
<1>11. CASE charged' = Add(charged, head) /\ Leave(rest)
  <2>1. ASSUME NEW acc \in Accounts, NEW way \in Ways
        PROVE  Wraps(charged[acc][way] + failed[acc][way] + Paid(acc, stat, way),
                     charged'[acc][way] + failed'[acc][way] + Paid(acc, stat', way))
    <3> DEFINE c == charged[acc][way]
               f == failed[acc][way]
               p == Part(acc, head, way)
               q == Paid(acc, rest, way)
               d == Add(charged, head)[acc][way]
               g == failed'[acc][way]
    <3>1. c \in Nat /\ f \in Nat /\ p \in Nat /\ q \in Nat /\ d \in Nat /\ Wraps(c + p, d)
      BY <1>5, <1>6, <1>8
    <3>2. Paid(acc, stat, way) = p + q
      BY <1>3
    <3>3. Wraps(f + q, g) /\ g \in Nat /\ Paid(acc, stat', way) = 0
      BY <1>3, <1>11, LeaveMoves
    <3> HIDE DEF c, f, p, q, d, g
    <3>4. Wraps((c + p) + (f + q), d + g)
      <4>1. c + p \in Nat /\ f + q \in Nat
        BY <3>1
      <4> QED
        BY <3>1, <3>3, <4>1, WrapsSum
    <3>5. (c + p) + (f + q) = c + f + (p + q) /\ d + g = d + g + 0
      BY <3>1, <3>3
    <3> QED
      BY <1>11, <3>2, <3>3, <3>4, <3>5 DEF c, f, p, q, d, g
  <2>2. Owned(stat') /\ Distinct(stat')
    BY <1>3, <1>11, LeaveMoves
  <2> QED
    BY <1>1, <2>1, <2>2, BooksMoved
<1>12. CASE Leave(stat) /\ UNCHANGED charged
  BY <1>1, <1>12, BooksLeave
<1> QED
  BY <1>9, <1>10, <1>11, <1>12 DEF Send, AfterError, head, rest

\* A line of inet4 is due from one account at most, in one direction, and the item it
\* makes is of that account: what is due and what the items add grow alike.
LEMMA BooksParseLine ==
  ASSUME TraffTypeOK, TraffTypeOK', NoInet6', NoInet6 => Books, ParseLine
  PROVE  Books'
<1> DEFINE line == Head(text)
           f == line.flow
           n == line.bytes
           items == Items(From[f], To[f], n)
<1>1. /\ stat \in Seq(ItemRec) /\ text \in Seq(Line) /\ parsed \in [Flows -> Nat]
      /\ charged \in [Accounts -> Bytes] /\ failed \in [Accounts -> Bytes]
  BY BooksType
<1>2. /\ text # << >>
      /\ parsed' = [parsed EXCEPT ![f] = @ + n]
      /\ charged' = charged /\ failed' = failed /\ detail' = detail
  BY DEF ParseLine
<1>3. line \in Line
  BY <1>1, <1>2, HeadTailProperties
<1>4. f \in Flows /\ n \in Nat /\ n > 0
  BY <1>3 DEF Line
<1>5. f \notin V6 /\ NoInet6
  <2> HIDE DEF f, n
  <2>1. parsed'[f] = parsed[f] + n /\ parsed[f] \in Nat
    BY <1>1, <1>2, <1>4
  <2>2. parsed'[f] # 0
    BY <1>4, <2>1
  <2>3. \A v \in V6 : v # f /\ parsed'[v] = 0
    BY <2>2 DEF NoInet6
  <2>4. \A v \in V6 : parsed[v] = 0
    BY <1>1, <1>2, <1>4, <2>3
  <2> QED
    BY <2>3, <2>4 DEF NoInet6
<1>6. Books
  BY <1>5
<1>7. from' = From[f] /\ to' = To[f]
  BY <1>5 DEF ParseLine
<1>8. \/ items = {} /\ stat' = stat
      \/ \E new \in items : stat' = AddItem(stat, new)
  BY <1>7 DEF ParseLine
<1>9. /\ items = {} => \A acc : \A way \in Ways : CountedFor(f, acc, way) => n % UInt = 0
      /\ \A new \in items :
            /\ new \in ItemRec /\ Pays(new.acc, new)
            /\ \A acc : \A way \in Ways :
                  Part(acc, new, way) = IF CountedFor(f, acc, way) THEN n % UInt ELSE 0
  <2>1. f \in Flows \ V6 /\ n \in Nat
    BY <1>4, <1>5
  <2> HIDE DEF f, n
  <2> QED
    BY <2>1, ItemsOfLine
<1> HIDE DEF line, f, n, items
<1> DEFINE X(acc, way) == IF CountedFor(f, acc, way) THEN n ELSE 0
<1>10. ASSUME NEW acc \in Accounts, NEW way \in Ways
       PROVE  Due(acc, way)' = Due(acc, way) + X(acc, way)
  <2>1. DueBy(parsed', acc, way) = DueBy(parsed, acc, way) + X(acc, way)
    <3>1. parsed \in [Flows -> Nat] /\ f \in Flows /\ n \in Nat /\ Grows(parsed', parsed, f, n)
      BY <1>1, <1>2, <1>4 DEF Grows
    <3>2. DueBy(parsed', acc, way)
            = DueBy(parsed, acc, way) + (IF CountedFor(f, acc, way) THEN n ELSE 0)
      BY ONLY <3>1, DueGrows
    <3> QED
      BY <3>2
  <2>2. Due(acc, way)' = DueBy(parsed', acc, way)
    BY DEF Due, DueBy, CountedFlows, CountedFor, Counted, Mine, Theirs
  <2> QED
    BY <2>1, <2>2 DEF Due
<1>11. \A acc \in Accounts : \A way \in Ways :
          /\ charged[acc][way] \in Nat /\ failed[acc][way] \in Nat
          /\ Paid(acc, stat, way) \in Nat /\ Due(acc, way) \in Nat /\ X(acc, way) \in Nat
  BY <1>4, BooksType
<1>12. CASE items = {} /\ stat' = stat
  <2>1. Owned(stat)' /\ Distinct(stat)'
    BY <1>2, <1>6, <1>12 DEF Books, Owned, Distinct, Same
  <2>2. ASSUME NEW acc \in Accounts, NEW way \in Ways PROVE Balanced(acc, way)'
    <3> DEFINE due == Due(acc, way)
               x == X(acc, way)
               all == charged[acc][way] + failed[acc][way] + Paid(acc, stat, way)
    <3>1. due \in Nat /\ all \in Nat /\ x \in Nat /\ Wraps(due, all)
      BY <1>6, <1>11 DEF Books, Balanced
    <3>2. Wraps(x, 0)
      <4>1. x % UInt = 0
        <5>1. 0 % UInt = 0
          OBVIOUS
        <5> QED
          BY <1>9, <1>12, <5>1
      <4>2. Wraps(x, x % UInt)
        BY <3>1, WrapsRemainder
      <4> QED
        BY <4>1, <4>2
    <3>3. Due(acc, way)' = due + x
      BY <1>10
    <3>4. Paid(acc, stat, way)' = Paid(acc, stat, way)
      BY <1>12
    <3> HIDE DEF due, x, all
    <3>5. Wraps(due + x, all + 0)
      BY <3>1, <3>2, WrapsSum
    <3>6. all + 0 = all
      BY <3>1
    <3> QED
      BY <1>2, <3>3, <3>4, <3>5, <3>6 DEF Balanced, all
  <2> QED
    BY <2>1, <2>2 DEF Books
<1>13. ASSUME NEW new \in items, stat' = AddItem(stat, new)
       PROVE  Books'
  <2>1. new \in ItemRec /\ Pays(new.acc, new) /\ Owned(stat) /\ Distinct(stat)
    BY <1>6, <1>9, <1>13 DEF Books
  <2>2. /\ stat' \in Seq(ItemRec) /\ Owned(stat') /\ Distinct(stat')
        /\ \A acc : \A way \in Ways :
              Wraps(Paid(acc, stat, way) + Part(acc, new, way), Paid(acc, stat', way))
    BY <1>1, <1>13, <2>1, ItemAdded
  <2>3. Owned(stat)' /\ Distinct(stat)'
    BY <1>2, <2>2 DEF Owned, Distinct, Same
  <2>4. ASSUME NEW acc \in Accounts, NEW way \in Ways PROVE Balanced(acc, way)'
    <3> DEFINE due == Due(acc, way)
               x == X(acc, way)
               y == Part(acc, new, way)
               c == charged[acc][way]
               l == failed[acc][way]
               p == Paid(acc, stat, way)
               q == Paid(acc, stat', way)
    <3>1. due \in Nat /\ x \in Nat /\ c \in Nat /\ l \in Nat /\ p \in Nat /\ Wraps(due, c + l + p)
      BY <1>6, <1>11 DEF Books, Balanced
    <3>2. y \in Nat /\ q \in Nat
      BY <2>1, <2>2, PartType, PartsType
    <3>3. Wraps(x, y)
      <4>1. CASE CountedFor(f, acc, way)
        <5>1. x = n /\ y = n % UInt
          BY <1>9, <4>1
        <5>2. Wraps(n, n % UInt)
          BY <1>4, WrapsRemainder
        <5> QED
          BY <5>1, <5>2
      <4>2. CASE ~ CountedFor(f, acc, way)
        <5>1. x = 0 /\ y = 0
          BY <1>9, <4>2
        <5> QED
          BY <5>1, WrapsSelf
      <4> QED
        BY <4>1, <4>2
    <3>4. Wraps(p + y, q)
      BY <2>2
    <3>5. Due(acc, way)' = due + x
      BY <1>10
    <3> HIDE DEF due, x, y, c, l, p, q
    <3>6. c + l + p \in Nat /\ p + y \in Nat /\ c + l \in Nat
      BY <3>1, <3>2
    <3>7. Wraps(due + x, (c + l + p) + y)
      BY <3>1, <3>2, <3>3, <3>6, WrapsSum
    <3>8. Wraps((p + y) + (c + l), q + (c + l))
      BY <3>2, <3>4, <3>6, WrapsMore
    <3>9. (p + y) + (c + l) = (c + l + p) + y /\ q + (c + l) = c + l + q
      BY <3>1, <3>2
    <3>10. due + x \in Nat /\ (c + l + p) + y \in Nat /\ c + l + q \in Nat
      BY <3>1, <3>2
    <3>11. Wraps(due + x, c + l + q)
      BY <3>7, <3>8, <3>9, <3>10, WrapsTwice
    <3> QED
      BY <1>2, <3>5, <3>11 DEF Balanced, c, l, q
  <2> QED
    BY <2>3, <2>4 DEF Books
<1> QED
  BY <1>8, <1>12, <1>13

-------------------------------------------------------------------------------
(* The theorems.                                                           *)

LEMMA BooksKept == TraffTypeOK /\ TraffTypeOK' /\ (NoInet6 => Books) /\ [Next]_vars
                      => (NoInet6 => Books)'
<1> SUFFICES ASSUME TraffTypeOK, TraffTypeOK', NoInet6 => Books, [Next]_vars, NoInet6' PROVE Books'
  OBVIOUS
<1>1. ASSUME parsed' = parsed PROVE Books
  BY <1>1 DEF NoInet6
<1>2. CASE ParseLine
  BY <1>2, BooksParseLine
<1>3. CASE Connect
  <2>1. Books /\ UNCHANGED <<charged, parsed, detail>>
    BY <1>1, <1>3 DEF Connect
  <2>2. CASE Leave(stat)
    BY <2>1, <2>2, BooksLeave
  <2>3. CASE UNCHANGED <<stat, failed>>
    BY <2>1, <2>3 DEF Books, Balanced, Owned, Distinct, Same, Due, DueBy, CountedFlows,
                      CountedFor, Counted, Mine, Theirs
  <2> QED
    BY <1>3, <2>2, <2>3 DEF Connect
<1>4. CASE Send
  <2>1. Books
    BY <1>1, <1>4 DEF Send
  <2> QED
    BY <1>4, <2>1, BooksSend
<1>5. CASE Finish
  BY <1>1, <1>5, BooksLeave DEF Finish
<1>6. CASE UNCHANGED vars
  <2>1. Books
    BY <1>1, <1>6 DEF vars
  <2> QED
    BY <1>6, <2>1 DEF vars, Books, Balanced, Owned, Distinct, Same, Due, DueBy, CountedFlows,
                      CountedFor, Counted, Mine, Theirs
<1> QED
  BY <1>2, <1>3, <1>4, <1>5, <1>6 DEF Next

\* The books balance as long as no line of inet6 was parsed.
LEMMA BooksBalance == Spec => [](TraffTypeOK /\ (NoInet6 => Books))
<1>1. Init => (NoInet6 => Books)
  BY BooksInit
<1>2. TraffTypeOK /\ TraffTypeOK' /\ (NoInet6 => Books) /\ [Next]_vars => (NoInet6 => Books)'
  BY BooksKept
<1> QED
  BY <1>1, <1>2, TraffTypes, PTL DEF Spec

\* What the books say of the accounts.
LEMMA BooksSay ==
  ASSUME TraffTypeOK, Books
  PROVE  ChargedToAccount /\ UnknownSkipped
<1> DEFINE both == [acc \in Accounts |-> Sum(charged[acc], failed[acc])]
           sums == AddAll(both, stat)
<1>1. /\ stat \in Seq(ItemRec)
      /\ charged \in [Accounts -> Bytes] /\ failed \in [Accounts -> Bytes]
  BY BooksType
<1>2. ASSUME NEW acc \in Accounts
      PROVE  /\ both[acc] \in Bytes
             /\ \A way \in Ways : both[acc][way] = (charged[acc][way] + failed[acc][way]) % UInt
  <2>1. charged[acc] \in Bytes /\ failed[acc] \in Bytes
    BY <1>1
  <2>2. failed[acc].in \in Nat /\ failed[acc].out \in Nat
    BY <2>1 DEF Bytes, UInts
  <2>3. /\ Sum(charged[acc], failed[acc]) \in Bytes
        /\ Sum(charged[acc], failed[acc]).in = (charged[acc].in + failed[acc].in) % UInt
        /\ Sum(charged[acc], failed[acc]).out = (charged[acc].out + failed[acc].out) % UInt
    BY <2>1, <2>2, SumOfBytes
  <2> QED
    BY <2>3 DEF Ways
<1>3. both \in [Accounts -> Bytes]
  BY <1>2
<1> HIDE DEF both
<1>4. /\ sums \in [Accounts -> Bytes]
      /\ \A acc \in Accounts : \A way \in Ways :
            Wraps(both[acc][way] + Paid(acc, stat, way), sums[acc][way])
  BY <1>1, <1>3, ItemsCharged
<1>5. \A acc \in Accounts : sums[acc] \in Bytes
  BY <1>4
<1> HIDE DEF sums
<1>6. ASSUME NEW acc \in Accounts, NEW way \in Ways
      PROVE  sums[acc][way] = Due(acc, way) % UInt /\ charged[acc][way] <= Due(acc, way)
  <2> DEFINE due == Due(acc, way)
             c == charged[acc][way]
             f == failed[acc][way]
             p == Paid(acc, stat, way)
             b == both[acc][way]
             s == sums[acc][way]
  <2>1. due \in Nat /\ c \in Nat /\ f \in Nat /\ p \in Nat /\ Wraps(due, c + f + p)
    BY BooksType DEF Books, Balanced
  <2>2. b \in Nat /\ s \in Nat /\ s \in UInts
    BY <1>2, <1>5, BytesType
  <2>3. b = (c + f) % UInt /\ Wraps(b + p, s)
    BY <1>2, <1>4
  <2> HIDE DEF due, c, f, p, b, s
  <2>4. c + f \in Nat /\ c + f + p \in Nat /\ b + p \in Nat
    BY <2>1, <2>2
  <2>5. Wraps(c + f, b)
    BY <2>3, <2>4, WrapsRemainder
  <2>6. Wraps((c + f) + p, b + p)
    BY <2>1, <2>2, <2>4, <2>5, WrapsMore
  <2>7. Wraps(due, b + p)
    BY <2>1, <2>4, <2>6, WrapsTwice
  <2>8. Wraps(due, s)
    BY <2>1, <2>2, <2>3, <2>4, <2>7, WrapsTwice
  <2>9. due % UInt = s % UInt
    BY <2>1, <2>2, <2>8, WrapsEqual
  <2>10. s % UInt = s
    BY <2>2 DEF UInts
  <2>11. c + f + p <= due
    BY <2>1, <2>4, WrapsEqual
  <2>12. c <= due
    BY <2>1, <2>11
  <2> QED
    BY <2>9, <2>10, <2>12 DEF due, c, s
<1>7. ChargedToAccount
  <2>1. \A acc \in Accounts : /\ sums[acc].in = Expected(acc).in % UInt
                              /\ sums[acc].out = Expected(acc).out % UInt
    BY <1>6, DueIsExpected DEF Ways
  <2> QED
    BY <2>1 DEF ChargedToAccount, sums, both
<1>8. UnknownSkipped
  BY <1>6, DueIsExpected DEF UnknownSkipped, Ways
<1> QED
  BY <1>7, <1>8

\* Until a line of inet6 is parsed, every account is charged its own traffic modulo
\* 2^32, but for what the core refused or did not get, and never more than it had.
THEOREM TrafficCharged == Spec => [](NoInet6 => ChargedToAccount /\ UnknownSkipped)
<1>1. TraffTypeOK /\ (NoInet6 => Books) => (NoInet6 => ChargedToAccount /\ UnknownSkipped)
  BY BooksSay
<1> QED
  BY <1>1, BooksBalance, PTL

\* Where cnupmstat prints no line of inet6, that is so for ever.
THEOREM Inet4Charged ==
  ASSUME V6 = {}
  PROVE  Spec => [](ChargedToAccount /\ UnknownSkipped)
<1>1. NoInet6
  BY DEF NoInet6
<1> QED
  BY <1>1, TrafficCharged, PTL

-------------------------------------------------------------------------------
(* The end.  That the program takes its steps is fairness, and stays with  *)
(* Ends; that it cannot take steps for ever is proved here.                *)

\* A line makes one item at most, and an item is sent once.
StepsLeft == 2 * Len(text) + Len(stat) + (CASE pc = "parse" -> 2 [] pc = "send" -> 1 [] OTHER -> 0)

Nearer == StepsLeft \in Nat /\ StepsLeft' < StepsLeft

\* Every step, whatever the core answers, leaves fewer steps to take: an item that
\* was refused is not sent again, and no item is made after the session was opened.
THEOREM EndIsNearer == Spec => [][Nearer]_vars
<1>1. TraffTypeOK /\ TraffTypeOK' /\ [Next]_vars => [Nearer]_vars
  <2> SUFFICES ASSUME TraffTypeOK, TraffTypeOK', Next
               PROVE  StepsLeft \in Nat /\ StepsLeft' < StepsLeft
    BY DEF Nearer
  <2>1. stat \in Seq(ItemRec) /\ text \in Seq(Line) /\ pc \in {"parse", "send", "exit"}
    BY BooksType DEF TraffTypeOK
  <2>2. Len(stat) \in Nat /\ Len(text) \in Nat
    BY <2>1
  <2>3. StepsLeft \in Nat
    BY <2>1, <2>2 DEF StepsLeft
  <2>4. Len(<< >>) = 0
    OBVIOUS
  <2>5. ASSUME NEW items, Leave(items) PROVE pc' = "exit" /\ Len(stat') = 0
    BY <2>4, <2>5 DEF Leave
  <2>6. stat # << >> => Len(Tail(stat)) = Len(stat) - 1 /\ Len(stat) > 0
    BY <2>1, <2>2, HeadTailProperties
  <2>7. CASE ParseLine
    <3>1. /\ Len(text') = Len(text) - 1 /\ Len(text) > 0 /\ pc = "parse" /\ pc' = "parse"
      BY <2>1, <2>2, <2>7, HeadTailProperties DEF ParseLine
    <3>2. Len(stat') = Len(stat) \/ Len(stat') = Len(stat) + 1
      <4>1. stat' = stat \/ \E new : stat' = AddItem(stat, new)
        BY <2>7 DEF ParseLine
      <4>2. ASSUME NEW new, stat' = AddItem(stat, new)
            PROVE  Len(stat') = Len(stat) \/ Len(stat') = Len(stat) + 1
        <5>1. CASE \A i \in DOMAIN stat : ~ Same(stat[i], new)
          <6>1. stat' = Append(stat, new)
            BY <4>2, <5>1 DEF AddItem
          <6> QED
            BY <2>1, <6>1
        <5>2. CASE ~ \A i \in DOMAIN stat : ~ Same(stat[i], new)
          <6> DEFINE E(i) == IF Same(stat[i], new) THEN Sum(stat[i], new) ELSE stat[i]
          <6>1. stat' = [i \in DOMAIN stat |-> E(i)]
            BY <4>2, <5>2 DEF AddItem
          <6>2. DOMAIN stat = 1 .. Len(stat)
            BY <2>1
          <6> HIDE DEF E
          <6>3. DOMAIN stat' = 1 .. Len(stat) /\ stat' \in Seq(ItemRec)
            BY <6>1, <6>2 DEF TraffTypeOK, ItemRec
          <6> QED
            BY <2>2, <6>3
        <5> QED
          BY <5>1, <5>2
      <4> QED
        BY <4>1, <4>2
    <3> QED
      BY <2>2, <2>3, <3>1, <3>2 DEF StepsLeft
  <2>8. CASE Connect
    <3>1. pc = "parse" /\ text' = text
      BY <2>8 DEF Connect
    <3>2. (pc' = "send" /\ stat' = stat) \/ (pc' = "exit" /\ Len(stat') = 0)
      BY <2>5, <2>8 DEF Connect
    <3> QED
      BY <2>2, <2>3, <3>1, <3>2 DEF StepsLeft
  <2>9. CASE Send
    <3>1. pc = "send" /\ stat # << >> /\ text' = text
      BY <2>9 DEF Send
    <3>2. (pc' = pc /\ stat' = Tail(stat)) \/ (pc' = "exit" /\ Len(stat') = 0)
      BY <2>5, <2>9 DEF Send, AfterError
    <3> QED
      BY <2>2, <2>3, <2>6, <3>1, <3>2 DEF StepsLeft
  <2>10. CASE Finish
    <3>1. pc = "send" /\ text' = text /\ pc' = "exit" /\ Len(stat') = 0
      BY <2>5, <2>10 DEF Finish
    <3> QED
      BY <2>2, <2>3, <3>1 DEF StepsLeft
  <2> QED
    BY <2>3, <2>7, <2>8, <2>9, <2>10 DEF Next
<1> QED
  BY <1>1, TraffTypes, PTL DEF Spec
===============================================================================
