------------------------------- MODULE SumLemmas -------------------------------
(***************************************************************************)
(* Sums of integers over finite sets, as the community module Functions    *)
(* defines them (a fold, with CHOOSE for the order).  The library's        *)
(* induction theorems take an operator and cannot be cited; here an        *)
(* induction looks at a smallest set for which the claim fails.            *)
(***************************************************************************)
EXTENDS Integers, Functions, FiniteSetTheorems, TLAPS

\* Among finite sets there is one that contains no other of them.
LEMMA Smallest ==
  ASSUME NEW C, \A s \in C : IsFiniteSet(s), C # {}
  PROVE  \E s \in C : \A t \in C : t \subseteq s => t = s
<1> DEFINE U == UNION C
           R == StrictSubsetOrdering(U)
<1>1. IsWellFoundedOn(R, FiniteSubsetsOf(U))
  BY FS_StrictSubsetOrderingWellFounded
<1>2. C \subseteq FiniteSubsetsOf(U)
  BY DEF FiniteSubsetsOf
<1>3. PICK s \in C : \A t \in C : ~ (<<t, s>> \in R)
  <2> HIDE DEF R
  <2>1. QED
    BY <1>1, <1>2, WFMin
<1>4. \A t \in C : t \in SUBSET U
  OBVIOUS
<1>5. QED
  BY <1>3, <1>4 DEF StrictSubsetOrdering

\* The element that the fold takes first, and those it leaves.
Pick(s) == CHOOSE x \in s : TRUE
Rest(s) == s \ {Pick(s)}
\* g gives the sum of h over each subset of S.
Adds(g, h, S) == g = [s \in SUBSET S |-> IF s = {} THEN 0 ELSE h[Pick(s)] + g[Rest(s)]]

\* Two such functions agree where both are defined.
LEMMA AddsUnique ==
  ASSUME NEW h, NEW S, NEW T, IsFiniteSet(S), IsFiniteSet(T), NEW f, NEW g, Adds(f, h, S), Adds(g, h, T)
  PROVE  \A s \in SUBSET (S \cap T) : f[s] = g[s]
<1> DEFINE C == {s \in SUBSET (S \cap T) : f[s] # g[s]}
<1>1. SUFFICES ASSUME C # {} PROVE FALSE
  OBVIOUS
<1>2. \A s \in C : IsFiniteSet(s)
  BY FS_Subset
<1>3. PICK s \in C : \A t \in C : t \subseteq s => t = s
  <2> HIDE DEF C
  <2>1. QED
    BY <1>1, <1>2, Smallest
<1>4. s \in SUBSET S /\ s \in SUBSET T
  OBVIOUS
<1>5. /\ f[s] = IF s = {} THEN 0 ELSE h[Pick(s)] + f[Rest(s)]
      /\ g[s] = IF s = {} THEN 0 ELSE h[Pick(s)] + g[Rest(s)]
  BY <1>4 DEF Adds
<1>6. s # {} /\ f[s] # g[s]
  BY <1>3, <1>5
<1>7. Rest(s) \subseteq s /\ Rest(s) # s
  BY <1>6 DEF Rest, Pick
<1>8. Rest(s) \notin C /\ Rest(s) \in SUBSET (S \cap T)
  BY <1>3, <1>7
<1>9. QED
  BY <1>5, <1>6, <1>8

\* There is one, for any h and any finite set.
LEMMA AddsExists ==
  ASSUME NEW h, NEW S, IsFiniteSet(S)
  PROVE  \E g : Adds(g, h, S)
<1> DEFINE C == {s \in SUBSET S : ~ \E g : Adds(g, h, s)}
<1>1. SUFFICES ASSUME C # {} PROVE FALSE
  OBVIOUS
<1>2. \A s \in C : IsFiniteSet(s)
  BY FS_Subset
<1>3. PICK s \in C : \A t \in C : t \subseteq s => t = s
  <2> HIDE DEF C
  <2>1. QED
    BY <1>1, <1>2, Smallest
<1> DEFINE G(t) == CHOOSE g : Adds(g, h, t)
           V(t) == IF t = {} THEN 0 ELSE h[Pick(t)] + G(Rest(t))[Rest(t)]
           g == [t \in SUBSET s |-> V(t)]
<1>4. \A t \in SUBSET s : t # s => Adds(G(t), h, t)
  <2> TAKE t \in SUBSET s
  <2> HAVE t # s
  <2>1. t \notin C /\ t \in SUBSET S
    BY <1>3
  <2>2. PICK f : Adds(f, h, t)
    BY <2>1
  <2>3. QED
    BY <2>2
<1>5. ASSUME NEW t \in SUBSET s
      PROVE  g[t] = IF t = {} THEN 0 ELSE h[Pick(t)] + g[Rest(t)]
  <2>1. CASE t = {}
    BY <2>1
  <2>2. CASE t # {}
    <3> DEFINE r == Rest(t)
    <3>1. r \subseteq t /\ r # t /\ r \in SUBSET s /\ r # s
      BY <2>2 DEF Rest, Pick
    <3>2. Adds(G(r), h, r)
      BY <1>4, <3>1
    <3>3. G(r)[r] = V(r)
      <4>1. CASE r = {}
        BY <3>2, <4>1 DEF Adds
      <4>2. CASE r # {}
        <5>1. Rest(r) \in SUBSET r /\ Rest(r) # r /\ Rest(r) \in SUBSET s /\ Rest(r) # s
          BY <3>1, <4>2 DEF Rest, Pick
        <5>2. Adds(G(Rest(r)), h, Rest(r))
          BY <1>4, <5>1
        <5>3. IsFiniteSet(r) /\ IsFiniteSet(Rest(r))
          BY <1>2, <3>1, <5>1, FS_Subset
        <5> HIDE DEF G
        <5>4. Rest(r) \in SUBSET (r \cap Rest(r))
          BY <5>1
        <5>5. G(r)[Rest(r)] = G(Rest(r))[Rest(r)]
          BY <3>2, <5>2, <5>3, <5>4, AddsUnique
        <5>6. G(r)[r] = IF r = {} THEN 0 ELSE h[Pick(r)] + G(r)[Rest(r)]
          <6>1. r \in SUBSET r
            OBVIOUS
          <6> HIDE DEF r
          <6>2. QED
            BY <3>2, <6>1 DEF Adds
        <5>7. QED
          BY <4>2, <5>5, <5>6
      <4>3. QED
        BY <4>1, <4>2
    <3>4. g[r] = V(r)
      BY <3>1
    <3>5. g[t] = V(t)
      OBVIOUS
    <3> HIDE DEF g, G
    <3>6. QED
      BY <2>2, <3>3, <3>4, <3>5
  <2>3. QED
    BY <2>1, <2>2
<1>6. g = [t \in SUBSET s |-> IF t = {} THEN 0 ELSE h[Pick(t)] + g[Rest(t)]]
  <2>1. g = [t \in SUBSET s |-> g[t]]
    OBVIOUS
  <2> HIDE DEF g
  <2>2. QED
    BY <1>5, <2>1
<1>7. Adds(g, h, s)
  <2> HIDE DEF g
  <2>1. QED
    BY <1>6 DEF Adds
<1>8. QED
  BY <1>7

\* The sum of the community module is its value at S.
LEMMA SumAdds ==
  ASSUME NEW h, NEW S, IsFiniteSet(S)
  PROVE  \E g : Adds(g, h, S) /\ SumFunctionOnSet(h, S) = g[S]
<1> DEFINE g == CHOOSE g : Adds(g, h, S)
<1>1. Adds(g, h, S)
  BY AddsExists
<1>2. SumFunctionOnSet(h, S) = g[S]
  BY DEF SumFunctionOnSet, FoldFunctionOnSet, MapThenFoldSet, Adds, Pick, Rest
<1>3. QED
  BY <1>1, <1>2

\* The sum over a finite set: nothing, or one element and the sum of the rest.
LEMMA SumUnfolds ==
  ASSUME NEW h, NEW S, IsFiniteSet(S)
  PROVE  SumFunctionOnSet(h, S) = IF S = {} THEN 0
                                  ELSE h[Pick(S)] + SumFunctionOnSet(h, Rest(S))
<1>1. PICK g : Adds(g, h, S) /\ SumFunctionOnSet(h, S) = g[S]
  BY SumAdds
<1>2. IsFiniteSet(Rest(S))
  BY FS_Subset DEF Rest
<1>3. PICK f : Adds(f, h, Rest(S)) /\ SumFunctionOnSet(h, Rest(S)) = f[Rest(S)]
  BY <1>2, SumAdds
<1>4. Rest(S) \in SUBSET (S \cap Rest(S))
  BY DEF Rest
<1>5. g[Rest(S)] = f[Rest(S)]
  BY <1>1, <1>2, <1>3, <1>4, AddsUnique
<1>6. g[S] = IF S = {} THEN 0 ELSE h[Pick(S)] + g[Rest(S)]
  BY <1>1 DEF Adds
<1>7. QED
  BY <1>1, <1>3, <1>5, <1>6

\* Nothing to add.
LEMMA SumEmpty == \A h : SumFunctionOnSet(h, {}) = 0
BY FS_EmptySet, SumUnfolds

\* Sums of integers are integers.
LEMMA SumType ==
  ASSUME NEW h, NEW S, IsFiniteSet(S), \A x \in S : h[x] \in Int
  PROVE  SumFunctionOnSet(h, S) \in Int
<1> DEFINE C == {s \in SUBSET S : SumFunctionOnSet(h, s) \notin Int}
<1>1. SUFFICES ASSUME C # {} PROVE FALSE
  OBVIOUS
<1>2. \A s \in C : IsFiniteSet(s)
  BY FS_Subset
<1>3. PICK s \in C : \A t \in C : t \subseteq s => t = s
  <2> HIDE DEF C
  <2>1. QED
    BY <1>1, <1>2, Smallest
<1>4. s # {}
  <2>1. SumFunctionOnSet(h, {}) \in Int
    BY SumEmpty
  <2>2. SumFunctionOnSet(h, s) \notin Int
    BY <1>3
  <2>3. QED
    BY <2>1, <2>2
<1>5. Pick(s) \in s /\ Rest(s) \subseteq s /\ Rest(s) # s
  BY <1>4 DEF Pick, Rest
<1>6. SumFunctionOnSet(h, Rest(s)) \in Int /\ h[Pick(s)] \in Int
  BY <1>3, <1>5
<1>7. SumFunctionOnSet(h, s) = h[Pick(s)] + SumFunctionOnSet(h, Rest(s))
  BY <1>2, <1>4, SumUnfolds
<1>8. QED
  BY <1>6, <1>7

\* Sums of natural numbers are natural numbers.
LEMMA SumNat ==
  ASSUME NEW h, NEW S, IsFiniteSet(S), \A x \in S : h[x] \in Nat
  PROVE  SumFunctionOnSet(h, S) \in Nat
<1> DEFINE C == {s \in SUBSET S : SumFunctionOnSet(h, s) \notin Nat}
<1>1. SUFFICES ASSUME C # {} PROVE FALSE
  OBVIOUS
<1>2. \A s \in C : IsFiniteSet(s)
  BY FS_Subset
<1>3. PICK s \in C : \A t \in C : t \subseteq s => t = s
  <2> HIDE DEF C
  <2>1. QED
    BY <1>1, <1>2, Smallest
<1>4. s # {}
  <2>1. SumFunctionOnSet(h, {}) \in Nat
    BY SumEmpty
  <2>2. SumFunctionOnSet(h, s) \notin Nat
    BY <1>3
  <2>3. QED
    BY <2>1, <2>2
<1>5. Pick(s) \in s /\ Rest(s) \subseteq s /\ Rest(s) # s
  BY <1>4 DEF Pick, Rest
<1>6. SumFunctionOnSet(h, Rest(s)) \in Nat /\ h[Pick(s)] \in Nat
  BY <1>3, <1>5
<1>7. SumFunctionOnSet(h, s) = h[Pick(s)] + SumFunctionOnSet(h, Rest(s))
  BY <1>2, <1>4, SumUnfolds
<1>8. QED
  BY <1>6, <1>7

\* Any element may be taken out first.
LEMMA SumElement ==
  ASSUME NEW h, NEW S, IsFiniteSet(S), \A y \in S : h[y] \in Int, NEW x \in S
  PROVE  SumFunctionOnSet(h, S) = h[x] + SumFunctionOnSet(h, S \ {x})
<1> DEFINE C == {s \in SUBSET S :
                   \E y \in s : SumFunctionOnSet(h, s) # h[y] + SumFunctionOnSet(h, s \ {y})}
<1>1. SUFFICES ASSUME C # {} PROVE FALSE
  OBVIOUS
<1>2. \A s \in C : IsFiniteSet(s)
  BY FS_Subset
<1>3. PICK s \in C : \A t \in C : t \subseteq s => t = s
  <2> HIDE DEF C
  <2>1. QED
    BY <1>1, <1>2, Smallest
<1>4. PICK y \in s : SumFunctionOnSet(h, s) # h[y] + SumFunctionOnSet(h, s \ {y})
  OBVIOUS
<1> DEFINE p == Pick(s)
<1>5. /\ p \in s /\ Rest(s) = s \ {p} /\ s # {}
      /\ SumFunctionOnSet(h, s) = h[p] + SumFunctionOnSet(h, s \ {p})
  BY <1>2, <1>4, SumUnfolds DEF Pick, Rest
<1>6. p # y
  BY <1>4, <1>5
<1> DEFINE r == s \ {p, y}
<1>7. s \ {p} \notin C /\ s \ {y} \notin C
  BY <1>3, <1>4, <1>5
<1>8. /\ SumFunctionOnSet(h, s \ {p}) = h[y] + SumFunctionOnSet(h, (s \ {p}) \ {y})
      /\ SumFunctionOnSet(h, s \ {y}) = h[p] + SumFunctionOnSet(h, (s \ {y}) \ {p})
  BY <1>4, <1>5, <1>6, <1>7
<1>9. (s \ {p}) \ {y} = r /\ (s \ {y}) \ {p} = r
  OBVIOUS
<1>10. h[p] \in Int /\ h[y] \in Int /\ SumFunctionOnSet(h, r) \in Int
  <2>1. r \in SUBSET S /\ s \in SUBSET S
    OBVIOUS
  <2>2. IsFiniteSet(r)
    BY <2>1, FS_Subset
  <2>3. QED
    BY <1>4, <1>5, <2>1, <2>2, SumType
<1> DEFINE all == SumFunctionOnSet(h, s)
           noP == SumFunctionOnSet(h, s \ {p})
           noY == SumFunctionOnSet(h, s \ {y})
           few == SumFunctionOnSet(h, r)
<1>11. noP = h[y] + few /\ noY = h[p] + few
  BY <1>8, <1>9
<1>12. all = h[p] + noP /\ all # h[y] + noY /\ few \in Int
  BY <1>4, <1>5, <1>10
<1> HIDE DEF p, all, noP, noY, few
<1>13. QED
  BY <1>10, <1>11, <1>12

\* Equal summands, equal sums.
LEMMA SumSame ==
  ASSUME NEW h, NEW g, NEW S, IsFiniteSet(S), \A x \in S : h[x] = g[x]
  PROVE  SumFunctionOnSet(h, S) = SumFunctionOnSet(g, S)
<1> DEFINE C == {s \in SUBSET S : SumFunctionOnSet(h, s) # SumFunctionOnSet(g, s)}
<1>1. SUFFICES ASSUME C # {} PROVE FALSE
  OBVIOUS
<1>2. \A s \in C : IsFiniteSet(s)
  BY FS_Subset
<1>3. PICK s \in C : \A t \in C : t \subseteq s => t = s
  <2> HIDE DEF C
  <2>1. QED
    BY <1>1, <1>2, Smallest
<1>4. s # {}
  BY <1>3, SumEmpty
<1>5. Pick(s) \in s /\ Rest(s) \subseteq s /\ Rest(s) # s
  BY <1>4 DEF Pick, Rest
<1>6. SumFunctionOnSet(h, Rest(s)) = SumFunctionOnSet(g, Rest(s)) /\ h[Pick(s)] = g[Pick(s)]
  BY <1>3, <1>5
<1>7. /\ SumFunctionOnSet(h, s) = h[Pick(s)] + SumFunctionOnSet(h, Rest(s))
      /\ SumFunctionOnSet(g, s) = g[Pick(s)] + SumFunctionOnSet(g, Rest(s))
  BY <1>2, <1>4, SumUnfolds
<1>8. QED
  BY <1>3, <1>6, <1>7

\* One summand changes.
LEMMA SumChanged ==
  ASSUME NEW h, NEW g, NEW S, IsFiniteSet(S), \A y \in S : h[y] \in Int, NEW x \in S,
         g[x] \in Int, \A y \in S \ {x} : g[y] = h[y]
  PROVE  SumFunctionOnSet(g, S) = SumFunctionOnSet(h, S) - h[x] + g[x]
<1>1. IsFiniteSet(S \ {x})
  BY FS_Subset
<1>2. SumFunctionOnSet(g, S \ {x}) = SumFunctionOnSet(h, S \ {x})
  BY <1>1, SumSame
<1>3. SumFunctionOnSet(h, S) = h[x] + SumFunctionOnSet(h, S \ {x})
  BY SumElement
<1>4. \A y \in S : g[y] \in Int
  OBVIOUS
<1>5. SumFunctionOnSet(g, S) = g[x] + SumFunctionOnSet(g, S \ {x})
  BY <1>4, SumElement
<1>6. h[x] \in Int /\ SumFunctionOnSet(h, S \ {x}) \in Int
  BY <1>1, SumType
<1>7. QED
  BY <1>2, <1>3, <1>5, <1>6

\* One summand more.
LEMMA SumAdded ==
  ASSUME NEW h, NEW S, IsFiniteSet(S), NEW x, x \notin S, \A y \in S \cup {x} : h[y] \in Int
  PROVE  SumFunctionOnSet(h, S \cup {x}) = SumFunctionOnSet(h, S) + h[x]
<1>1. (S \cup {x}) \ {x} = S /\ IsFiniteSet(S \cup {x})
  BY FS_AddElement
<1>2. SumFunctionOnSet(h, S \cup {x}) = h[x] + SumFunctionOnSet(h, S)
  BY <1>1, SumElement
<1>3. h[x] \in Int /\ SumFunctionOnSet(h, S) \in Int
  BY SumType
<1>4. QED
  BY <1>2, <1>3

\* Zeros.
LEMMA SumOfZeros ==
  ASSUME NEW h, NEW S, IsFiniteSet(S), \A x \in S : h[x] = 0
  PROVE  SumFunctionOnSet(h, S) = 0
<1> DEFINE C == {s \in SUBSET S : SumFunctionOnSet(h, s) # 0}
<1>1. SUFFICES ASSUME C # {} PROVE FALSE
  OBVIOUS
<1>2. \A s \in C : IsFiniteSet(s)
  BY FS_Subset
<1>3. PICK s \in C : \A t \in C : t \subseteq s => t = s
  <2> HIDE DEF C
  <2>1. QED
    BY <1>1, <1>2, Smallest
<1>4. s # {}
  BY <1>3, SumEmpty
<1>5. Pick(s) \in s /\ Rest(s) \subseteq s /\ Rest(s) # s
  BY <1>4 DEF Pick, Rest
<1>6. SumFunctionOnSet(h, Rest(s)) = 0 /\ h[Pick(s)] = 0
  BY <1>3, <1>5
<1>7. SumFunctionOnSet(h, s) = h[Pick(s)] + SumFunctionOnSet(h, Rest(s))
  BY <1>2, <1>4, SumUnfolds
<1>8. QED
  BY <1>3, <1>6, <1>7

-------------------------------------------------------------------------------
(* The same about the sum of all the values of a function.                 *)

\* It is a number, and a natural one if the values are.
LEMMA SumFunctionType ==
  ASSUME NEW S, IsFiniteSet(S), NEW h \in [S -> Int]
  PROVE  /\ SumFunction(h) \in Int
         /\ (\A x \in S : h[x] \in Nat) => SumFunction(h) \in Nat
BY SumType, SumNat DEF SumFunction

\* Nothing but zeros.
LEMMA SumFunctionOfZeros ==
  ASSUME NEW S, IsFiniteSet(S), NEW h \in [S -> Int], \A x \in S : h[x] = 0
  PROVE  SumFunction(h) = 0
BY SumOfZeros DEF SumFunction

\* One value changes.
Differs(g, h, S, x) == /\ h \in [S -> Int] /\ g \in [S -> Int] /\ x \in S
                       /\ \A y \in S \ {x} : g[y] = h[y]

LEMMA SumFunctionChanged ==
  ASSUME NEW S, IsFiniteSet(S), NEW h, NEW g, NEW x, Differs(g, h, S, x)
  PROVE  /\ SumFunction(g) = SumFunction(h) - h[x] + g[x]
         /\ SumFunction(g) \in Int /\ SumFunction(h) \in Int
BY SumChanged, SumType DEF SumFunction, Differs

\* One value more.
Widens(g, h, S, x) == /\ h \in [S -> Int] /\ g \in [S \cup {x} -> Int] /\ x \notin S
                       /\ \A y \in S : g[y] = h[y]

LEMMA SumFunctionAdded ==
  ASSUME NEW S, IsFiniteSet(S), NEW h, NEW g, NEW x, Widens(g, h, S, x)
  PROVE  SumFunction(g) = SumFunction(h) + g[x]
<1>1. SumFunctionOnSet(g, S) = SumFunctionOnSet(h, S)
  BY SumSame DEF Widens
<1>2. SumFunctionOnSet(g, S \cup {x}) = SumFunctionOnSet(g, S) + g[x]
  BY SumAdded DEF Widens
<1>3. DOMAIN g = S \cup {x} /\ DOMAIN h = S
  BY DEF Widens
<1>4. QED
  BY <1>1, <1>2, <1>3 DEF SumFunction

-------------------------------------------------------------------------------
(* Summands under other indices.                                           *)

\* b gives every index of g another one in h, with the same summand.
Renamed(g, h, b, S) == /\ \A x, y \in S : b[x] = b[y] => x = y
                     /\ \A x \in S : h[b[x]] \in Int /\ g[x] = h[b[x]]

LEMMA SumMoved ==
  ASSUME NEW h, NEW g, NEW b, NEW S, IsFiniteSet(S), Renamed(g, h, b, S)
  PROVE  SumFunctionOnSet(g, S) = SumFunctionOnSet(h, {b[x] : x \in S})
<1> DEFINE Image(s) == {b[x] : x \in s}
           C == {s \in SUBSET S : SumFunctionOnSet(g, s) # SumFunctionOnSet(h, Image(s))}
<1>1. SUFFICES ASSUME C # {} PROVE FALSE
  OBVIOUS
<1>2. \A s \in C : IsFiniteSet(s)
  BY FS_Subset
<1>3. PICK s \in C : \A t \in C : t \subseteq s => t = s
  <2> HIDE DEF C
  <2>1. QED
    BY <1>1, <1>2, Smallest
<1>4. s # {}
  <2>1. Image({}) = {}
    OBVIOUS
  <2>2. QED
    BY <1>3, <2>1, SumEmpty
<1>5. Pick(s) \in s /\ Rest(s) = s \ {Pick(s)}
  BY <1>4 DEF Pick, Rest
<1> DEFINE x == Pick(s)
           r == Rest(s)
<1>6. x \in s /\ x \in S /\ r = s \ {x} /\ r \in SUBSET S
  BY <1>3, <1>5
<1>7. SumFunctionOnSet(g, s) = g[x] + SumFunctionOnSet(g, r)
  BY <1>2, <1>3, <1>4, SumUnfolds
<1>8. SumFunctionOnSet(g, r) = SumFunctionOnSet(h, Image(r))
  BY <1>3, <1>6
<1> HIDE DEF x, r
<1>9. Image(s) = Image(r) \cup {b[x]} /\ b[x] \notin Image(r)
  BY <1>3, <1>6 DEF Renamed
<1>10. IsFiniteSet(Image(r))
  <2>1. IsFiniteSet(r)
    BY <1>6, FS_Subset
  <2>2. [y \in r |-> b[y]] \in Surjection(r, Image(r))
    BY DEF Surjection
  <2> HIDE DEF Image
  <2>3. QED
    BY <2>1, <2>2, FS_Surjection
<1>11. \A y \in Image(r) \cup {b[x]} : h[y] \in Int
  BY <1>6 DEF Renamed
<1>12. SumFunctionOnSet(h, Image(s)) = SumFunctionOnSet(h, Image(r)) + h[b[x]]
  <2> HIDE DEF Image
  <2>1. QED
    BY <1>9, <1>10, <1>11, SumAdded
<1>13. SumFunctionOnSet(h, Image(r)) \in Int /\ h[b[x]] \in Int /\ g[x] = h[b[x]]
  <2>1. h[b[x]] \in Int /\ g[x] = h[b[x]] /\ \A y \in Image(r) : h[y] \in Int
    BY <1>6, <1>11 DEF Renamed
  <2> HIDE DEF Image
  <2>2. QED
    BY <1>10, <2>1, SumType
<1>14. SumFunctionOnSet(g, s) = SumFunctionOnSet(h, Image(s))
  <2> HIDE DEF Image, C
  <2>1. QED
    BY <1>7, <1>8, <1>12, <1>13
<1>15. QED
  BY <1>3, <1>14

\* The first summand of a sequence, and the others.
LEMMA SumOfSequence ==
  ASSUME NEW n \in Nat, NEW h \in [1 .. n + 1 -> Int], NEW t \in [1 .. n -> Int],
         \A i \in 1 .. n : t[i] = h[i + 1]
  PROVE  SumFunction(h) = h[1] + SumFunction(t)
<1> DEFINE b == [i \in 1 .. n |-> i + 1]
<1>1. IsFiniteSet(1 .. n) /\ IsFiniteSet(1 .. n + 1)
  <2>1. n + 1 \in Int /\ n \in Int /\ 1 \in Int
    OBVIOUS
  <2>2. QED
    BY <2>1, FS_Interval
<1>2. Renamed(t, h, b, 1 .. n)
  BY DEF Renamed
<1>3. {b[i] : i \in 1 .. n} = (1 .. n + 1) \ {1}
  <2>1. \A j \in (1 .. n + 1) \ {1} : j - 1 \in 1 .. n /\ b[j - 1] = j
    OBVIOUS
  <2>2. \A i \in 1 .. n : b[i] \in (1 .. n + 1) \ {1}
    OBVIOUS
  <2> HIDE DEF b
  <2>3. {b[i] : i \in 1 .. n} \subseteq (1 .. n + 1) \ {1}
    BY <2>2
  <2>4. \A j \in (1 .. n + 1) \ {1} : j \in {b[i] : i \in 1 .. n}
    <3> SUFFICES ASSUME NEW j \in (1 .. n + 1) \ {1}
                 PROVE  \E i \in 1 .. n : b[i] = j
      OBVIOUS
    <3>1. QED
      BY <2>1
  <2>5. QED
    BY <2>3, <2>4, Zenon
<1> DEFINE I == 1 .. n
           J == 1 .. n + 1
<1>4. 1 \in J /\ (\A i \in J : h[i] \in Int) /\ DOMAIN h = J /\ DOMAIN t = I
  OBVIOUS
<1> HIDE DEF b, I, J
<1>5. SumFunctionOnSet(t, I) = SumFunctionOnSet(h, {b[x] : x \in I})
  BY <1>1, <1>2, SumMoved DEF I
<1>6. SumFunctionOnSet(t, I) = SumFunctionOnSet(h, J \ {1})
  BY <1>3, <1>5 DEF I, J
<1>7. SumFunctionOnSet(h, J) = h[1] + SumFunctionOnSet(h, J \ {1})
  <2>1. IsFiniteSet(J)
    BY <1>1 DEF J
  <2>2. QED
    BY <1>4, <2>1, SumElement
<1>8. QED
  BY <1>4, <1>6, <1>7 DEF SumFunction
===============================================================================
