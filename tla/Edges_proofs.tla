---------------------------- MODULE Edges_proofs ----------------------------
(***************************************************************************)
(* Proofs about Edges.                                                     *)
(***************************************************************************)
EXTENDS Edges, ProbeReporter_proofs, FiniteSetTheorems, WellFoundedInduction, Functions

-----------------------------------------------------------------------------
\* A set of numbers has a least one.
LEMMA LeastNumber ==
    ASSUME NEW S \in SUBSET Nat, S # {}
    PROVE  \E x \in S : \A y \in S : x <= y
<1>1. PICK x \in S : \A y \in S : ~ (<<y, x>> \in OpToRel(<, Nat))
    BY NatLessThanWellFounded, WFMin, Zenon
<1>2. \A y \in S : ~ (y < x)
    BY <1>1 DEF OpToRel
<1> QED
    BY <1>2

\* How a sum over a set is computed, one element after the other.
Chosen(s) == CHOOSE x \in s : TRUE
Summing(f, S, sum) ==
    sum = [s \in SUBSET S |-> IF s = {} THEN 0 ELSE f[Chosen(s)] + sum[s \ {Chosen(s)}]]

LEMMA SumIs ==
    ASSUME NEW f, NEW S
    PROVE  SumFunctionOnSet(f, S) = (CHOOSE sum : Summing(f, S, sum))[S]
    BY DEF SumFunctionOnSet, FoldFunctionOnSet, MapThenFoldSet, Summing, Chosen

\* Two such functions agree, and one for a subset is part of the other.
LEMMA SumUnique ==
    ASSUME NEW f, NEW S, IsFiniteSet(S), NEW T \in SUBSET S,
           NEW g, Summing(f, S, g), NEW h, Summing(f, T, h)
    PROVE  g[T] = h[T]
<1> DEFINE wrong == {n \in Nat : \E s \in SUBSET T : Cardinality(s) = n /\ g[s] # h[s]}
<1>1. SUFFICES ASSUME wrong # {}
               PROVE  FALSE
  <2>1. IsFiniteSet(T)
    BY FS_Subset
  <2>2. Cardinality(T) \in Nat
    BY <2>1, FS_CardinalityType
  <2> QED
    BY <2>2
<1>2. PICK n \in wrong : \A k \in wrong : n <= k
  <2> HIDE DEF wrong
  <2>1. wrong \in SUBSET Nat
    BY DEF wrong
  <2> QED
    BY <1>1, <2>1, LeastNumber
<1>3. PICK s \in SUBSET T : Cardinality(s) = n /\ g[s] # h[s]
    BY <1>2
<1>4. s # {}
    BY <1>3 DEF Summing
<1> DEFINE r == s \ {Chosen(s)}
<1>5. Chosen(s) \in s /\ IsFiniteSet(s) /\ r \in SUBSET T
    BY <1>4, FS_Subset DEF Chosen
<1>6. Cardinality(r) \in Nat /\ Cardinality(r) < n
  <2>1. IsFiniteSet(r) /\ Cardinality(r) = Cardinality(s) - 1
    BY <1>5, FS_RemoveElement
  <2>2. Cardinality(r) \in Nat /\ Cardinality(s) \in Nat
    BY <1>5, <2>1, FS_CardinalityType
  <2> QED
    BY <1>3, <2>1, <2>2
<1>7. g[r] # h[r]
  <2>1. g[s] = f[Chosen(s)] + g[r] /\ h[s] = f[Chosen(s)] + h[r]
    BY <1>4 DEF Summing
  <2> QED
    BY <1>3, <2>1
<1> QED
    BY <1>2, <1>5, <1>6, <1>7

LEMMA SumPart ==
    ASSUME NEW f, NEW S, NEW T \in SUBSET S, NEW g, Summing(f, S, g)
    PROVE  Summing(f, T, [s \in SUBSET T |-> g[s]])
<1> DEFINE h == [s \in SUBSET T |-> g[s]]
<1>1. ASSUME NEW s \in SUBSET T
      PROVE  h[s] = IF s = {} THEN 0 ELSE f[Chosen(s)] + h[s \ {Chosen(s)}]
    BY DEF Summing
<1> HIDE DEF h
<1>2. h = [s \in SUBSET T |-> h[s]]
    BY DEF h
<1>3. h = [s \in SUBSET T |-> IF s = {} THEN 0 ELSE f[Chosen(s)] + h[s \ {Chosen(s)}]]
    BY <1>1, <1>2, Zenon
<1> QED
    BY <1>3 DEF Summing, h

LEMMA SumExists ==
    ASSUME NEW f, NEW S, IsFiniteSet(S)
    PROVE  \E g : Summing(f, S, g)
<1> DEFINE missing == {n \in Nat : \E s \in SUBSET S :
                            Cardinality(s) = n /\ ~ \E g : Summing(f, s, g)}
<1>1. SUFFICES ASSUME missing # {}
               PROVE  FALSE
    BY FS_CardinalityType
<1>2. PICK n \in missing : \A k \in missing : n <= k
  <2> HIDE DEF missing
  <2>1. missing \in SUBSET Nat
    BY DEF missing
  <2> QED
    BY <1>1, <2>1, LeastNumber
<1>3. PICK s \in SUBSET S : Cardinality(s) = n /\ ~ \E g : Summing(f, s, g)
    BY <1>2
<1>4. IsFiniteSet(s)
    BY FS_Subset
<1> DEFINE F(t) == CHOOSE g : Summing(f, t, g)
           v(t) == IF t = {} THEN 0 ELSE f[Chosen(t)] + F(t \ {Chosen(t)})[t \ {Chosen(t)}]
           whole == [t \in SUBSET s |-> v(t)]
<1>5. ASSUME NEW t \in SUBSET s, t # s
      PROVE  Summing(f, t, F(t))
  <2>1. IsFiniteSet(t) /\ Cardinality(t) \in Nat /\ Cardinality(t) <= n /\ Cardinality(t) # n
    BY <1>3, <1>4, <1>5, FS_Subset, FS_CardinalityType
  <2>2. Cardinality(t) \notin missing
    BY <1>2, <2>1
  <2>3. \E g : Summing(f, t, g)
    BY <2>1, <2>2
  <2> QED
    BY <2>3
<1>6. ASSUME NEW t \in SUBSET s, t # s
      PROVE  F(t)[t] = v(t)
  <2> DEFINE u == t \ {Chosen(t)}
  <2>1. CASE t = {}
    <3>1. Summing(f, t, F(t))
      BY <1>5, <1>6
    <3> HIDE DEF F
    <3>2. F(t)[t] = 0
      BY <2>1, <3>1 DEF Summing
    <3> QED
      BY <2>1, <3>2
  <2>2. CASE t # {}
    <3>1. u \in SUBSET t /\ u \in SUBSET s /\ u # s
      BY <1>6
    <3>2. Summing(f, t, F(t)) /\ Summing(f, u, F(u))
      BY <1>5, <1>6, <3>1
    <3>3. IsFiniteSet(t)
      BY <1>4, FS_Subset
    <3> HIDE DEF F
    <3>4. F(t)[u] = F(u)[u]
      BY <3>1, <3>2, <3>3, SumUnique
    <3>5. F(t)[t] = f[Chosen(t)] + F(t)[u]
      BY <2>2, <3>2 DEF Summing
    <3> QED
      BY <2>2, <3>4, <3>5
  <2> QED
    BY <2>1, <2>2
<1>7. ASSUME NEW t \in SUBSET s
      PROVE  whole[t] = IF t = {} THEN 0 ELSE f[Chosen(t)] + whole[t \ {Chosen(t)}]
  <2> DEFINE u == t \ {Chosen(t)}
  <2>1. CASE t # {}
    <3>1. Chosen(t) \in t
      BY <2>1 DEF Chosen
    <3>2. u \in SUBSET s /\ u # s
      BY <3>1
    <3>3. F(u)[u] = v(u)
      BY <1>6, <3>2
    <3>4. whole[u] = v(u) /\ whole[t] = v(t)
      <4> HIDE DEF v
      <4> QED
        BY <3>2
    <3> HIDE DEF F
    <3> QED
      BY <2>1, <3>3, <3>4
  <2>2. CASE t = {}
    BY <2>2
  <2> QED
    BY <2>1, <2>2
<1>8. Summing(f, s, whole)
  <2>1. whole = [t \in SUBSET s |-> whole[t]]
    OBVIOUS
  <2> HIDE DEF whole
  <2>2. whole = [t \in SUBSET s |-> IF t = {} THEN 0 ELSE f[Chosen(t)] + whole[t \ {Chosen(t)}]]
    BY <1>7, <2>1, Zenon
  <2> QED
    BY <2>2 DEF Summing
<1> QED
    BY <1>3, <1>8

\* The sum over a set: that of the rest and the element chosen first.
LEMMA SumComputed ==
    ASSUME NEW f, NEW S, IsFiniteSet(S)
    PROVE  SumFunctionOnSet(f, S) =
               IF S = {} THEN 0
               ELSE f[Chosen(S)] + SumFunctionOnSet(f, S \ {Chosen(S)})
<1> DEFINE F(t) == CHOOSE g : Summing(f, t, g)
           T == S \ {Chosen(S)}
<1>1. Summing(f, S, F(S)) /\ Summing(f, T, F(T)) /\ T \in SUBSET S
  <2>1. IsFiniteSet(T)
    BY FS_Subset
  <2> QED
    BY <2>1, SumExists
<1>2. SumFunctionOnSet(f, S) = F(S)[S] /\ SumFunctionOnSet(f, T) = F(T)[T]
    BY SumIs
<1> HIDE DEF F
<1>3. F(S)[T] = F(T)[T]
    BY <1>1, SumUnique
<1>4. F(S)[S] = IF S = {} THEN 0 ELSE f[Chosen(S)] + F(S)[T]
    BY <1>1 DEF Summing
<1> QED
    BY <1>2, <1>3, <1>4

\* It is a number, and another number where the function takes other values.
LEMMA SumNat ==
    ASSUME NEW Q, NEW f \in [Q -> Nat], NEW S \in SUBSET Q, IsFiniteSet(S)
    PROVE  SumFunctionOnSet(f, S) \in Nat
<1> DEFINE odd == {n \in Nat : \E s \in SUBSET S :
                            Cardinality(s) = n /\ SumFunctionOnSet(f, s) \notin Nat}
<1>1. SUFFICES ASSUME odd # {}
               PROVE  FALSE
    BY FS_CardinalityType
<1>2. PICK n \in odd : \A k \in odd : n <= k
  <2> HIDE DEF odd
  <2>1. odd \in SUBSET Nat
    BY DEF odd
  <2> QED
    BY <1>1, <2>1, LeastNumber
<1>3. PICK s \in SUBSET S : Cardinality(s) = n /\ SumFunctionOnSet(f, s) \notin Nat
    BY <1>2
<1>4. IsFiniteSet(s)
    BY FS_Subset
<1> DEFINE r == s \ {Chosen(s)}
<1>5. s # {} /\ SumFunctionOnSet(f, s) = f[Chosen(s)] + SumFunctionOnSet(f, r)
    BY <1>3, <1>4, SumComputed
<1>6. Chosen(s) \in s
    BY <1>5 DEF Chosen
<1>7. Cardinality(r) \in Nat /\ Cardinality(r) < n
  <2>1. IsFiniteSet(r) /\ Cardinality(r) = Cardinality(s) - 1
    BY <1>4, <1>6, FS_RemoveElement, Zenon
  <2>2. Cardinality(r) \in Nat /\ Cardinality(s) \in Nat
    BY <1>4, <2>1, FS_CardinalityType, Zenon
  <2> QED
    BY <1>3, <2>1, <2>2
<1>8. SumFunctionOnSet(f, r) \in Nat
    BY <1>2, <1>7
<1> QED
    BY <1>3, <1>5, <1>6, <1>8

LEMMA SumSame ==
    ASSUME NEW f, NEW g, NEW S, IsFiniteSet(S), \A x \in S : f[x] = g[x]
    PROVE  SumFunctionOnSet(f, S) = SumFunctionOnSet(g, S)
<1> DEFINE odd == {n \in Nat : \E s \in SUBSET S :
                            /\ Cardinality(s) = n
                            /\ SumFunctionOnSet(f, s) # SumFunctionOnSet(g, s)}
<1>1. SUFFICES ASSUME odd # {}
               PROVE  FALSE
    BY FS_CardinalityType
<1>2. PICK n \in odd : \A k \in odd : n <= k
  <2> HIDE DEF odd
  <2>1. odd \in SUBSET Nat
    BY DEF odd
  <2> QED
    BY <1>1, <2>1, LeastNumber
<1>3. PICK s \in SUBSET S : /\ Cardinality(s) = n
                            /\ SumFunctionOnSet(f, s) # SumFunctionOnSet(g, s)
    BY <1>2
<1>4. IsFiniteSet(s)
    BY FS_Subset
<1> DEFINE r == s \ {Chosen(s)}
<1>5. /\ s # {}
      /\ SumFunctionOnSet(f, s) = f[Chosen(s)] + SumFunctionOnSet(f, r)
      /\ SumFunctionOnSet(g, s) = g[Chosen(s)] + SumFunctionOnSet(g, r)
    BY <1>3, <1>4, SumComputed
<1>6. Chosen(s) \in s
    BY <1>5 DEF Chosen
<1>7. Cardinality(r) \in Nat /\ Cardinality(r) < n
  <2>1. IsFiniteSet(r) /\ Cardinality(r) = Cardinality(s) - 1
    BY <1>4, <1>6, FS_RemoveElement, Zenon
  <2>2. Cardinality(r) \in Nat /\ Cardinality(s) \in Nat
    BY <1>4, <2>1, FS_CardinalityType, Zenon
  <2> QED
    BY <1>3, <2>1, <2>2
<1>8. SumFunctionOnSet(f, r) = SumFunctionOnSet(g, r)
    BY <1>2, <1>7
<1> QED
    BY <1>3, <1>5, <1>6, <1>8

LEMMA SumMonotone ==
    ASSUME NEW Q, NEW f \in [Q -> Nat], NEW g \in [Q -> Nat], NEW S \in SUBSET Q,
           IsFiniteSet(S), \A x \in S : f[x] <= g[x]
    PROVE  SumFunctionOnSet(f, S) <= SumFunctionOnSet(g, S)
<1> DEFINE odd == {n \in Nat : \E s \in SUBSET S :
                            /\ Cardinality(s) = n
                            /\ ~ SumFunctionOnSet(f, s) <= SumFunctionOnSet(g, s)}
<1>1. SUFFICES ASSUME odd # {}
               PROVE  FALSE
    BY FS_CardinalityType
<1>2. PICK n \in odd : \A k \in odd : n <= k
  <2> HIDE DEF odd
  <2>1. odd \in SUBSET Nat
    BY DEF odd
  <2> QED
    BY <1>1, <2>1, LeastNumber
<1>3. PICK s \in SUBSET S : /\ Cardinality(s) = n
                            /\ ~ SumFunctionOnSet(f, s) <= SumFunctionOnSet(g, s)
    BY <1>2
<1>4. IsFiniteSet(s)
    BY FS_Subset
<1> DEFINE r == s \ {Chosen(s)}
<1>5. /\ s # {}
      /\ SumFunctionOnSet(f, s) = f[Chosen(s)] + SumFunctionOnSet(f, r)
      /\ SumFunctionOnSet(g, s) = g[Chosen(s)] + SumFunctionOnSet(g, r)
    BY <1>3, <1>4, SumComputed
<1>6. Chosen(s) \in s
    BY <1>5 DEF Chosen
<1>7. Cardinality(r) \in Nat /\ Cardinality(r) < n
  <2>1. IsFiniteSet(r) /\ Cardinality(r) = Cardinality(s) - 1
    BY <1>4, <1>6, FS_RemoveElement, Zenon
  <2>2. Cardinality(r) \in Nat /\ Cardinality(s) \in Nat
    BY <1>4, <2>1, FS_CardinalityType, Zenon
  <2> QED
    BY <1>3, <2>1, <2>2
<1>8. SumFunctionOnSet(f, r) <= SumFunctionOnSet(g, r)
    BY <1>2, <1>7
<1>9. /\ SumFunctionOnSet(f, r) \in Nat /\ SumFunctionOnSet(g, r) \in Nat
      /\ f[Chosen(s)] \in Nat /\ g[Chosen(s)] \in Nat /\ f[Chosen(s)] <= g[Chosen(s)]
  <2>1. r \in SUBSET Q /\ IsFiniteSet(r) /\ Chosen(s) \in Q
    BY <1>4, <1>6, FS_Subset
  <2> QED
    BY <1>6, <2>1, SumNat
<1> QED
    BY <1>3, <1>5, <1>8, <1>9

LEMMA SumZero ==
    ASSUME NEW Q, IsFiniteSet(Q)
    PROVE  SumFunction([q \in Q |-> 0]) = 0
<1> DEFINE f == [q \in Q |-> 0]
           odd == {n \in Nat : \E s \in SUBSET Q :
                            Cardinality(s) = n /\ SumFunctionOnSet(f, s) # 0}
<1>1. SUFFICES ASSUME odd # {}
               PROVE  FALSE
  <2>1. Cardinality(Q) \in Nat /\ Q \in SUBSET Q /\ DOMAIN f = Q
    BY FS_CardinalityType
  <2>2. Cardinality(Q) \in odd \/ SumFunctionOnSet(f, Q) = 0
    BY <2>1
  <2> QED
    BY <2>1, <2>2 DEF SumFunction
<1>2. PICK n \in odd : \A k \in odd : n <= k
  <2> HIDE DEF odd
  <2>1. odd \in SUBSET Nat
    BY DEF odd
  <2> QED
    BY <1>1, <2>1, LeastNumber
<1>3. PICK s \in SUBSET Q : Cardinality(s) = n /\ SumFunctionOnSet(f, s) # 0
    BY <1>2
<1>4. IsFiniteSet(s)
    BY FS_Subset
<1> DEFINE r == s \ {Chosen(s)}
<1>5. s # {} /\ SumFunctionOnSet(f, s) = f[Chosen(s)] + SumFunctionOnSet(f, r)
    BY <1>3, <1>4, SumComputed
<1>6. Chosen(s) \in s
    BY <1>5 DEF Chosen
<1>7. Cardinality(r) \in Nat /\ Cardinality(r) < n
  <2>1. IsFiniteSet(r) /\ Cardinality(r) = Cardinality(s) - 1
    BY <1>4, <1>6, FS_RemoveElement, Zenon
  <2>2. Cardinality(r) \in Nat /\ Cardinality(s) \in Nat
    BY <1>4, <2>1, FS_CardinalityType, Zenon
  <2> QED
    BY <1>3, <2>1, <2>2
<1>8. SumFunctionOnSet(f, r) = 0
    BY <1>2, <1>7
<1> QED
    BY <1>3, <1>5, <1>6, <1>8

\* Any element may be the one that is taken out.
LEMMA SumWithout ==
    ASSUME NEW Q, NEW f \in [Q -> Nat], NEW S \in SUBSET Q, IsFiniteSet(S), NEW x \in S
    PROVE  SumFunctionOnSet(f, S) = f[x] + SumFunctionOnSet(f, S \ {x})
<1> DEFINE odd == {n \in Nat : \E s \in SUBSET S : \E y \in s :
                            /\ Cardinality(s) = n
                            /\ SumFunctionOnSet(f, s) # f[y] + SumFunctionOnSet(f, s \ {y})}
<1>1. SUFFICES ASSUME odd # {}
               PROVE  FALSE
    BY FS_CardinalityType
<1>2. PICK n \in odd : \A k \in odd : n <= k
  <2> HIDE DEF odd
  <2>1. odd \in SUBSET Nat
    BY DEF odd
  <2> QED
    BY <1>1, <2>1, LeastNumber
<1>3. PICK s \in SUBSET S : \E y \in s :
            /\ Cardinality(s) = n
            /\ SumFunctionOnSet(f, s) # f[y] + SumFunctionOnSet(f, s \ {y})
    BY <1>2
<1>4. PICK y \in s : /\ Cardinality(s) = n
                     /\ SumFunctionOnSet(f, s) # f[y] + SumFunctionOnSet(f, s \ {y})
    BY <1>3
<1> DEFINE c == Chosen(s)
           r == s \ {c}
           u == s \ {y}
           both == s \ {c, y}
<1>5. c \in s
    BY DEF Chosen
<1>6. IsFiniteSet(s) /\ IsFiniteSet(r) /\ IsFiniteSet(u) /\ IsFiniteSet(both)
  <2>1. /\ s \in SUBSET S /\ r \in SUBSET S
        /\ u \in SUBSET S /\ both \in SUBSET S
    OBVIOUS
  <2> QED
    BY <2>1, FS_Subset
<1>7. SumFunctionOnSet(f, s) = f[c] + SumFunctionOnSet(f, r)
    BY <1>5, <1>6, SumComputed
<1>8. c # y
    BY <1>4, <1>7
<1>9. /\ Cardinality(r) \in Nat /\ Cardinality(r) < n
      /\ Cardinality(u) \in Nat /\ Cardinality(u) < n
  <2>1. Cardinality(r) = Cardinality(s) - 1 /\ Cardinality(u) = Cardinality(s) - 1
    BY <1>5, <1>6, FS_RemoveElement, Zenon
  <2>2. Cardinality(r) \in Nat /\ Cardinality(u) \in Nat /\ Cardinality(s) \in Nat
    BY <1>6, FS_CardinalityType, Zenon
  <2> QED
    BY <1>4, <2>1, <2>2
<1>10. SumFunctionOnSet(f, r) = f[y] + SumFunctionOnSet(f, both)
  <2>1. r \ {y} = both /\ y \in r /\ r \in SUBSET S
    BY <1>8
  <2>2. Cardinality(r) \notin odd
    <3>1. n \in Nat
      OBVIOUS
    <3> HIDE DEF odd
    <3> QED
      BY <1>2, <1>9, <3>1
  <2>3. SumFunctionOnSet(f, r) = f[y] + SumFunctionOnSet(f, r \ {y})
    BY <1>9, <2>1, <2>2
  <2> QED
    BY <2>1, <2>3
<1>11. SumFunctionOnSet(f, u) = f[c] + SumFunctionOnSet(f, both)
  <2>1. u \ {c} = both /\ c \in u /\ u \in SUBSET S
    BY <1>5, <1>8
  <2>2. Cardinality(u) \notin odd
    <3>1. n \in Nat
      OBVIOUS
    <3> HIDE DEF odd
    <3> QED
      BY <1>2, <1>9, <3>1
  <2>3. SumFunctionOnSet(f, u) = f[c] + SumFunctionOnSet(f, u \ {c})
    BY <1>9, <2>1, <2>2
  <2> QED
    BY <2>1, <2>3
<1>12. f[c] \in Nat /\ f[y] \in Nat /\ SumFunctionOnSet(f, both) \in Nat
  <2>1. both \in SUBSET Q /\ c \in Q /\ y \in Q
    BY <1>5
  <2> QED
    BY <1>6, <2>1, SumNat
<1> QED
    BY <1>4, <1>7, <1>10, <1>11, <1>12

\* The sum changes by what one value changes.
LEMMA SumUpdated ==
    ASSUME NEW Q, IsFiniteSet(Q), NEW f \in [Q -> Nat], NEW g \in [Q -> Nat], NEW q \in Q,
           \A x \in Q \ {q} : g[x] = f[x]
    PROVE  /\ SumFunction(f) \in Nat /\ SumFunction(g) \in Nat
           /\ SumFunction(g) + f[q] = SumFunction(f) + g[q]
           /\ f[q] \in Nat /\ f[q] <= SumFunction(f)
<1> DEFINE R == Q \ {q}
<1>1. IsFiniteSet(R) /\ R \in SUBSET Q
    BY FS_RemoveElement
<1>2. SumFunctionOnSet(f, R) = SumFunctionOnSet(g, R) /\ SumFunctionOnSet(f, R) \in Nat
    BY <1>1, SumSame, SumNat
<1>3. /\ SumFunctionOnSet(f, Q) = f[q] + SumFunctionOnSet(f, R)
      /\ SumFunctionOnSet(g, Q) = g[q] + SumFunctionOnSet(g, R)
    BY SumWithout
<1> QED
    BY <1>2, <1>3 DEF SumFunction

-----------------------------------------------------------------------------
(* ProbeSync. *)

\* Only a heartbeat under way has something to answer, and the probe that sent
\* it runs until it is answered.
AnswerUnderWay ==
    \A p \in Probes :
        /\ request[p] = "none" => answer[p].now = {}
        /\ request[p] # "none" => p \in up

SyncInv == Heartbeats!TypeOK /\ AnswerUnderWay /\ Heartbeats!RequestKept

LEMMA ElectedProbe ==
    ASSUME Heartbeats!SyncConstants, Heartbeats!TypeOK
    PROVE  Heartbeats!Elected \in Probes \cup {Nobody}
<1>1. fresh \subseteq Nat /\ fresh \subseteq Probes
    BY DEF Heartbeats!SyncConstants, Heartbeats!TypeOK
<1>2. CASE elected \in fresh
    BY <1>1, <1>2 DEF Heartbeats!Elected
<1>3. CASE elected \notin fresh /\ fresh = {}
    BY <1>3 DEF Heartbeats!Elected
<1>4. CASE elected \notin fresh /\ fresh # {}
  <2>1. \E p \in fresh : \A q \in fresh : p <= q
    BY <1>1, <1>4, LeastNumber
  <2> QED
    BY <1>1, <1>4, <2>1 DEF Heartbeats!Elected
<1> QED
    BY <1>2, <1>3, <1>4

LEMMA SyncInit ==
    ASSUME Heartbeats!SyncConstants, Heartbeats!Init
    PROVE  SyncInv
    BY DEF Heartbeats!SyncConstants, Heartbeats!Init, SyncInv, AnswerUnderWay,
           Heartbeats!TypeOK, Heartbeats!RequestKept, Heartbeats!Off, Heartbeats!NoAnswer

\* A probe that forgets its answer asks for nothing and holds nothing.
LEMMA ForgetTyped ==
    ASSUME NEW p \in Probes, Heartbeats!SyncConstants, Heartbeats!TypeOK, Heartbeats!Forget(p)
    PROVE  /\ request' \in [Probes -> {"none", "read", "answered"}]
           /\ answer' \in [Probes -> [jobs : [Monitors -> Versions \cup {0}],
                                     now : SUBSET Monitors, scan : BOOLEAN]]
<1> DEFINE Answers == [jobs : [Monitors -> Versions \cup {0}],
                       now : SUBSET Monitors, scan : BOOLEAN]
<1>1. request \in [Probes -> {"none", "read", "answered"}] /\ answer \in [Probes -> Answers]
  BY Zenon DEF Heartbeats!TypeOK
<1>2. Heartbeats!NoAnswer \in Answers
  BY DEF Heartbeats!NoAnswer, Heartbeats!Off
<1>3. /\ request' = [request EXCEPT ![p] = "none"]
      /\ answer' = [answer EXCEPT ![p] = Heartbeats!NoAnswer]
  BY Zenon DEF Heartbeats!Forget
<1> HIDE DEF Answers
<1>4. /\ request' \in [Probes -> {"none", "read", "answered"}]
      /\ answer' \in [Probes -> Answers]
  BY <1>1, <1>2, <1>3
<1> QED
  BY <1>4 DEF Answers

LEMMA SyncStep ==
    ASSUME Heartbeats!SyncConstants, SyncInv, [Heartbeats!Next]_Heartbeats!vars
    PROVE  SyncInv'
<1> USE DEF SyncInv, AnswerUnderWay, Heartbeats!TypeOK, Heartbeats!RequestKept,
            Heartbeats!SyncConstants, Heartbeats!bounds
<1>1. ASSUME NEW m \in Monitors, Heartbeats!Edit(m)
      PROVE  SyncInv'
    BY <1>1 DEF Heartbeats!Edit
<1>2. ASSUME NEW m \in Monitors, Heartbeats!Trigger(m)
      PROVE  SyncInv'
    BY <1>2 DEF Heartbeats!Trigger
<1>3. ASSUME NEW m \in Monitors, Heartbeats!KeyExpires(m)
      PROVE  SyncInv'
    BY <1>3 DEF Heartbeats!KeyExpires
<1>4. ASSUME NEW p \in Probes, Heartbeats!Read(p)
      PROVE  SyncInv'
    BY <1>4 DEF Heartbeats!Read
<1>5. ASSUME NEW p \in Probes, Heartbeats!Respond(p)
      PROVE  SyncInv'
  <2>1. Heartbeats!TypeOK'
    <3>1. key' \in [Monitors -> BOOLEAN]
      BY <1>5, Zenon DEF Heartbeats!Respond
    <3>2. answer' \in [Probes -> [jobs : [Monitors -> Versions \cup {0}],
                                  now : SUBSET Monitors, scan : BOOLEAN]]
      <4> DEFINE Answers == [jobs : [Monitors -> Versions \cup {0}],
                             now : SUBSET Monitors, scan : BOOLEAN]
      <4>1. ASSUME NEW a \in Answers, NEW b \in BOOLEAN
            PROVE  [a EXCEPT !.scan = b] \in Answers
        OBVIOUS
      <4>2. answer \in [Probes -> Answers] /\ (elected = p) \in BOOLEAN
        BY Zenon
      <4>3. answer' = [answer EXCEPT ![p] = [answer[p] EXCEPT !.scan = (elected = p)]]
        BY <1>5, Zenon DEF Heartbeats!Respond
      <4>4. [answer[p] EXCEPT !.scan = (elected = p)] \in Answers
        BY <4>1, <4>2, Zenon
      <4> HIDE DEF Answers
      <4>5. answer' \in [Probes -> Answers]
        BY <4>2, <4>3, <4>4, Zenon
      <4> QED
        BY <4>5 DEF Answers
    <3> QED
      BY <1>5, <3>1, <3>2 DEF Heartbeats!Respond
  <2>2. AnswerUnderWay'
    BY <1>5 DEF Heartbeats!Respond
  <2>3. Heartbeats!RequestKept'
    BY <1>5 DEF Heartbeats!Respond
  <2> QED
    BY <2>1, <2>2, <2>3
<1>6. ASSUME NEW p \in Probes, Heartbeats!SyncMonitors(p)
      PROVE  SyncInv'
    BY <1>6 DEF Heartbeats!SyncMonitors, Heartbeats!Forget, Heartbeats!NoAnswer, Heartbeats!Off
<1>7. ASSUME NEW p \in Probes, Heartbeats!AnswerLost(p)
      PROVE  SyncInv'
  <2>1. Heartbeats!TypeOK'
    <3>1. Heartbeats!Forget(p) /\ answer[p].now \subseteq Monitors
      BY <1>7 DEF Heartbeats!AnswerLost
    <3>2. /\ request' \in [Probes -> {"none", "read", "answered"}]
          /\ answer' \in [Probes -> [jobs : [Monitors -> Versions \cup {0}],
                                    now : SUBSET Monitors, scan : BOOLEAN]]
      BY <3>1, ForgetTyped
    <3> QED
      BY <1>7, <3>1, <3>2 DEF Heartbeats!AnswerLost
  <2>2. AnswerUnderWay'
    BY <1>7 DEF Heartbeats!AnswerLost, Heartbeats!Forget, Heartbeats!NoAnswer, Heartbeats!Off
  <2>3. Heartbeats!RequestKept'
    BY <1>7 DEF Heartbeats!AnswerLost, Heartbeats!Forget, Heartbeats!NoAnswer, Heartbeats!Off
  <2> QED
    BY <2>1, <2>2, <2>3
<1>8. ASSUME NEW p \in Probes, Heartbeats!Crash(p)
      PROVE  SyncInv'
    BY <1>8 DEF Heartbeats!Crash, Heartbeats!Forget, Heartbeats!NoAnswer, Heartbeats!Off
<1>9. ASSUME NEW p \in Probes, Heartbeats!Start(p)
      PROVE  SyncInv'
    BY <1>9 DEF Heartbeats!Start
<1>10. ASSUME NEW p \in Probes, Heartbeats!Lapse(p)
      PROVE  SyncInv'
    BY <1>10 DEF Heartbeats!Lapse
<1>11. CASE Heartbeats!Elect
    BY <1>11, ElectedProbe DEF Heartbeats!Elect
<1>12. CASE UNCHANGED Heartbeats!vars
    BY <1>12 DEF Heartbeats!vars
<1> QED
    BY <1>1, <1>2, <1>3, <1>4, <1>5, <1>6, <1>7, <1>8, <1>9, <1>10, <1>11, <1>12
       DEF Heartbeats!Next, Heartbeats!Heartbeat
-----------------------------------------------------------------------------
(* MetricIngest. *)

Claims(w) == [q \in Requests |-> Metrics!Claim(q, w)]

\* What is under way and was let in; the rest of the claims is over the limit.
Accepted(q) == ingests[q].at \in {"reserved", "resolved", "counted"}
AcceptedClaims(w) == [q \in Requests |-> IF Accepted(q) THEN Claims(w)[q] ELSE 0]

\* Only what was let in is ever stored.
BudgetKept ==
    \A w \in Metrics!Minutes : stored[w] + SumFunction(AcceptedClaims(w)) <= MaxPoints

\* Points go away before their series does.
PointsFresh == \A s \in points : registry[s] = "fresh"

IngestInv == Metrics!TypeOK /\ Metrics!CounterTrue /\ BudgetKept /\ PointsFresh

LEMMA SumAlike == \A f : Metrics!SumFunction(f) = SumFunction(f)
    BY DEF Metrics!SumFunction, Metrics!SumFunctionOnSet, Metrics!FoldFunctionOnSet,
           Metrics!MapThenFoldSet, SumFunction, SumFunctionOnSet, FoldFunctionOnSet,
           MapThenFoldSet

LEMMA IngestFinite ==
    /\ \A S : Metrics!IsFiniteSet(S) <=> IsFiniteSet(S)
    /\ \A S : Metrics!Cardinality(S) = Cardinality(S)
    BY DEF Metrics!IsFiniteSet, IsFiniteSet, Metrics!Cardinality, Cardinality

\* One request changes: what the sums of its minutes change by.
LEMMA ClaimTypes ==
    ASSUME Metrics!IngestConstants, Metrics!TypeOK, NEW w \in Metrics!Minutes
    PROVE  /\ Claims(w) \in [Requests -> Nat] /\ AcceptedClaims(w) \in [Requests -> Nat]
           /\ \A q \in Requests : ingests[q].batch.points \in Nat
<1>1. \A q \in Requests : ingests[q].batch.points \in Nat
    BY DEF Metrics!IngestConstants, Metrics!TypeOK, Metrics!Idle
<1>2. Claims(w) \in [Requests -> Nat]
    BY <1>1 DEF Claims, Metrics!Claim
<1> QED
    BY <1>1, <1>2 DEF AcceptedClaims

LEMMA ClaimsOf ==
    ASSUME Metrics!IngestConstants, Metrics!TypeOK, NEW w \in Metrics!Minutes, NEW q \in Requests
    PROVE  SumFunction(Claims(w)) \in Nat /\ Claims(w)[q] <= SumFunction(Claims(w))
<1>1. IsFiniteSet(Requests)
    BY IngestFinite DEF Metrics!IngestConstants
<1> QED
    BY <1>1, ClaimTypes, SumUpdated

LEMMA SumsUpdated ==
    ASSUME Metrics!IngestConstants, Metrics!TypeOK, NEW w \in Metrics!Minutes,
           NEW q \in Requests, NEW r, ingests' = [ingests EXCEPT ![q] = r],
           Claims(w)'[q] \in Nat
    PROVE  /\ SumFunction(Claims(w)) \in Nat /\ SumFunction(Claims(w)') \in Nat
           /\ SumFunction(Claims(w)') + Claims(w)[q] = SumFunction(Claims(w)) + Claims(w)'[q]
           /\ Claims(w)[q] \in Nat /\ Claims(w)[q] <= SumFunction(Claims(w))
           /\ SumFunction(AcceptedClaims(w)) \in Nat /\ SumFunction(AcceptedClaims(w)') \in Nat
           /\ SumFunction(AcceptedClaims(w)') + AcceptedClaims(w)[q]
                = SumFunction(AcceptedClaims(w)) + AcceptedClaims(w)'[q]
           /\ SumFunction(AcceptedClaims(w)) <= SumFunction(Claims(w))
<1>1. IsFiniteSet(Requests)
    BY IngestFinite DEF Metrics!IngestConstants
<1>2. \A x \in Requests \ {q} : ingests'[x] = ingests[x]
    BY DEF Metrics!TypeOK
<1>3. \A x \in Requests \ {q} : /\ Claims(w)'[x] = Claims(w)[x]
                               /\ AcceptedClaims(w)'[x] = AcceptedClaims(w)[x]
    BY <1>2 DEF Claims, AcceptedClaims, Accepted, Metrics!Claim
<1>4. Claims(w) \in [Requests -> Nat] /\ AcceptedClaims(w) \in [Requests -> Nat]
    BY ClaimTypes
<1>5. Claims(w)' \in [Requests -> Nat]
  <2>1. \A x \in Requests : Claims(w)'[x] \in Nat
    BY <1>3, <1>4
  <2>2. Claims(w)' = [x \in Requests |-> Claims(w)'[x]]
    BY DEF Claims
  <2> QED
    BY <2>1, <2>2
<1>6. AcceptedClaims(w)' \in [Requests -> Nat]
    BY <1>5 DEF AcceptedClaims
<1>7. SumFunction(AcceptedClaims(w)) <= SumFunction(Claims(w))
  <2>1. \A x \in Requests : AcceptedClaims(w)[x] <= Claims(w)[x]
    BY <1>4 DEF AcceptedClaims
  <2>2. DOMAIN Claims(w) = Requests /\ DOMAIN AcceptedClaims(w) = Requests
    BY DEF Claims, AcceptedClaims
  <2> QED
    BY <1>1, <1>4, <2>1, <2>2, SumMonotone DEF SumFunction
<1> HIDE DEF Claims, AcceptedClaims
<1>8. /\ SumFunction(Claims(w)) \in Nat /\ SumFunction(Claims(w)') \in Nat
      /\ SumFunction(Claims(w)') + Claims(w)[q] = SumFunction(Claims(w)) + Claims(w)'[q]
      /\ Claims(w)[q] \in Nat /\ Claims(w)[q] <= SumFunction(Claims(w))
    BY <1>1, <1>3, <1>4, <1>5, SumUpdated
<1>9. /\ SumFunction(AcceptedClaims(w)) \in Nat /\ SumFunction(AcceptedClaims(w)') \in Nat
      /\ SumFunction(AcceptedClaims(w)') + AcceptedClaims(w)[q]
           = SumFunction(AcceptedClaims(w)) + AcceptedClaims(w)'[q]
    BY <1>1, <1>3, <1>4, <1>6, SumUpdated
<1> QED
    BY <1>7, <1>8, <1>9

LEMMA IngestInit ==
    ASSUME Metrics!IngestConstants, Metrics!Init
    PROVE  IngestInv
<1> USE DEF Metrics!IngestConstants, Metrics!Init, Metrics!Idle, Metrics!Minutes
<1>1. Metrics!TypeOK
    BY DEF Metrics!TypeOK
<1>2. PointsFresh
    BY DEF PointsFresh
<1>3. ASSUME NEW w \in Metrics!Minutes
      PROVE  SumFunction(Claims(w)) = 0 /\ SumFunction(AcceptedClaims(w)) = 0
  <2>1. IsFiniteSet(Requests)
    BY IngestFinite
  <2>2. Claims(w) = [q \in Requests |-> 0] /\ AcceptedClaims(w) = [q \in Requests |-> 0]
    BY DEF Claims, AcceptedClaims, Metrics!Claim
  <2>3. SumFunction([q \in Requests |-> 0]) = 0
    BY <2>1, SumZero
  <2> QED
    BY <2>2, <2>3
<1>4. Metrics!CounterTrue
    BY <1>3, SumAlike DEF Metrics!CounterTrue, Claims
<1>5. BudgetKept
    BY <1>3 DEF BudgetKept
<1> QED
    BY <1>1, <1>2, <1>4, <1>5 DEF IngestInv

\* What a request can be.
Claimable == [at : {"idle", "over", "reserved", "resolved", "counted"},
              batch : Batches \cup {Metrics!Idle.batch},
              minute : Metrics!Minutes, known : SUBSET Series]

LEMMA ClaimableFacts ==
    ASSUME Metrics!IngestConstants, Metrics!TypeOK
    PROVE  /\ ingests \in [Requests -> Claimable]
           /\ Metrics!Idle \in Claimable
           /\ \A q \in Requests : /\ ingests[q].batch.points \in Nat
                                 /\ ingests[q].batch.series \subseteq Series
                                 /\ ingests[q].minute \in Metrics!Minutes
           /\ \A b \in Batches : b.points \in Nat /\ b.series \subseteq Series
<1>1. \A q \in Requests : /\ ingests[q].batch \in Batches \cup {Metrics!Idle.batch}
                         /\ ingests[q].minute \in Metrics!Minutes
    BY DEF Metrics!TypeOK
<1>2. \A b \in Batches \cup {Metrics!Idle.batch} : b.points \in Nat /\ b.series \subseteq Series
    BY DEF Metrics!Idle, Metrics!IngestConstants
<1>3. ingests \in [Requests -> Claimable]
    BY DEF Metrics!TypeOK, Claimable
<1>4. Metrics!Idle \in Claimable
    BY DEF Metrics!Idle, Metrics!IngestConstants, Claimable, Metrics!Minutes
<1> QED
    BY <1>1, <1>2, <1>3, <1>4

LEMMA RequestTyped ==
    ASSUME Metrics!IngestConstants, Metrics!TypeOK, NEW q \in Requests, NEW r \in Claimable,
           ingests' = [ingests EXCEPT ![q] = r]
    PROVE  ingests' \in [Requests -> Claimable]
    BY ClaimableFacts, Zenon

LEMMA BudgetTyped ==
    ASSUME NEW S, NEW f \in [S -> Nat], NEW w \in S, NEW n \in Nat
    PROVE  [f EXCEPT ![w] = @ + n] \in [S -> Nat]
    OBVIOUS

LEMMA IngestTypeStep ==
    ASSUME Metrics!IngestConstants, IngestInv, [Metrics!Next]_Metrics!vars
    PROVE  Metrics!TypeOK'
<1> DEFINE Numbers == /\ minute \in Metrics!Minutes
                      /\ used \in [Metrics!Minutes -> Nat] /\ stored \in [Metrics!Minutes -> Nat]
                      /\ spent \in [Metrics!Minutes -> Nat]
                      /\ pushes \in 0 .. MaxPushes /\ broken \in 0 .. MaxFaults
           Tables == /\ registry \in [Series -> {"none", "fresh", "stale"}]
                     /\ points \subseteq Series
<1>a. Numbers /\ Tables /\ ingests \in [Requests -> Claimable]
    BY ClaimableFacts DEF Metrics!TypeOK, IngestInv
<1>b. SUFFICES Numbers' /\ Tables' /\ ingests' \in [Requests -> Claimable]
    BY DEF Metrics!TypeOK, Claimable
<1>c. Metrics!TypeOK /\ MaxPushes \in Nat /\ MaxFaults \in Nat /\ LastMinute \in Nat
    BY DEF IngestInv, Metrics!IngestConstants
<1>d. \A q \in Requests : Metrics!End(q) => ingests' \in [Requests -> Claimable]
    BY <1>c, ClaimableFacts, RequestTyped DEF Metrics!End
<1>e. \A q \in Requests : Metrics!Spend(q) => spent' \in [Metrics!Minutes -> Nat]
    BY <1>a, <1>c, ClaimableFacts, BudgetTyped DEF Metrics!Spend
<1>1. ASSUME NEW q \in Requests, NEW b \in Batches, Metrics!Reserve(q, b)
      PROVE  Numbers' /\ Tables' /\ ingests' \in [Requests -> Claimable]
  <2>1. PICK at \in {"over", "reserved"} :
            ingests' = [ingests EXCEPT ![q] =
                            [at |-> at, batch |-> b, minute |-> minute, known |-> {}]]
    BY <1>1 DEF Metrics!Reserve
  <2>2. [at |-> at, batch |-> b, minute |-> minute, known |-> {}] \in Claimable
    BY <1>a DEF Claimable
  <2>3. ingests' \in [Requests -> Claimable]
    BY <1>c, <2>1, <2>2, RequestTyped
  <2>4. used' \in [Metrics!Minutes -> Nat]
    BY <1>1, <1>a, <1>c, ClaimableFacts, BudgetTyped DEF Metrics!Reserve
  <2> QED
    BY <1>1, <1>a, <1>c, <2>3, <2>4 DEF Metrics!Reserve, Metrics!tables
<1>2. ASSUME NEW q \in Requests, NEW b \in Batches, Metrics!ReserveFails(q, b)
      PROVE  Numbers' /\ Tables' /\ ingests' \in [Requests -> Claimable]
  <2>1. used' \in [Metrics!Minutes -> Nat] /\ spent' \in [Metrics!Minutes -> Nat]
    <3>1. [used EXCEPT ![minute] = @ + b.points] \in [Metrics!Minutes -> Nat]
      BY <1>a, <1>c, ClaimableFacts, BudgetTyped
    <3>2. [spent EXCEPT ![minute] = @ + b.points] \in [Metrics!Minutes -> Nat]
      BY <1>a, <1>c, ClaimableFacts, BudgetTyped
    <3> QED
      BY <1>2, <1>a, <3>1, <3>2 DEF Metrics!ReserveFails
  <2> QED
    BY <1>2, <1>a, <1>c, <2>1 DEF Metrics!ReserveFails, Metrics!tables
<1>3. ASSUME NEW q \in Requests, Metrics!GiveBack(q)
      PROVE  Numbers' /\ Tables' /\ ingests' \in [Requests -> Claimable]
  <2> DEFINE w == ingests[q].minute
             n == ingests[q].batch.points
  <2>1. w \in Metrics!Minutes /\ n \in Nat
    BY <1>c, ClaimableFacts
  <2>2. Claims(w)[q] = n
    BY <1>3 DEF Metrics!GiveBack, Claims, Metrics!Claim
  <2>3. used[w] = stored[w] + spent[w] + SumFunction(Claims(w))
    BY <2>1, SumAlike DEF Metrics!CounterTrue, Claims, IngestInv
  <2>4. Claims(w)[q] <= SumFunction(Claims(w)) /\ SumFunction(Claims(w)) \in Nat
    BY <1>c, <2>1, ClaimsOf
  <2> HIDE DEF w, n
  <2>5. used[w] - n \in Nat
    BY <1>a, <2>1, <2>2, <2>3, <2>4
  <2>6. used' = [used EXCEPT ![w] = used[w] - n]
    BY <1>3 DEF Metrics!GiveBack, w, n
  <2>7. used' \in [Metrics!Minutes -> Nat]
    BY <1>a, <2>1, <2>5, <2>6
  <2> QED
    BY <1>3, <1>a, <1>d, <2>7 DEF Metrics!GiveBack, Metrics!tables, Metrics!bounds
<1>4. ASSUME NEW q \in Requests, Metrics!BreakOff(q)
      PROVE  Numbers' /\ Tables' /\ ingests' \in [Requests -> Claimable]
    BY <1>4, <1>a, <1>c, <1>d, <1>e DEF Metrics!BreakOff, Metrics!tables
<1>5. ASSUME NEW q \in Requests, Metrics!Resolve(q)
      PROVE  Numbers' /\ Tables' /\ ingests' \in [Requests -> Claimable]
  <2> DEFINE r == [ingests[q] EXCEPT !.at = "resolved",
                       !.known = @ \cup (Metrics!Registered \cap ingests[q].batch.series)]
  <2>1. r \in Claimable
    BY <1>a DEF Metrics!Registered, Claimable
  <2>2. ingests' = [ingests EXCEPT ![q] = r]
    BY <1>5 DEF Metrics!Resolve
  <2> HIDE DEF r
  <2>3. ingests' \in [Requests -> Claimable]
    BY <1>c, <2>1, <2>2, RequestTyped
  <2> QED
    BY <1>5, <1>a, <2>3 DEF Metrics!Resolve, Metrics!tables, Metrics!bounds
<1>6. ASSUME NEW q \in Requests, Metrics!Count(q)
      PROVE  Numbers' /\ Tables' /\ ingests' \in [Requests -> Claimable]
  <2> DEFINE r == [ingests[q] EXCEPT !.at = "counted"]
  <2>1. CASE ingests' = [ingests EXCEPT ![q] = r] /\ UNCHANGED spent
    <3>1. r \in Claimable
      BY <1>a DEF Claimable
    <3> HIDE DEF r
    <3>2. ingests' \in [Requests -> Claimable]
      BY <1>c, <2>1, <3>1, RequestTyped
    <3> QED
      BY <1>6, <1>a, <2>1, <3>2 DEF Metrics!Count, Metrics!tables, Metrics!bounds
  <2>2. CASE Metrics!Spend(q) /\ Metrics!End(q)
    BY <1>6, <1>a, <1>d, <1>e, <2>2 DEF Metrics!Count, Metrics!tables, Metrics!bounds
  <2> QED
    BY <1>6, <2>1, <2>2 DEF Metrics!Count
<1>7. ASSUME NEW q \in Requests, Metrics!Store(q)
      PROVE  Numbers' /\ Tables' /\ ingests' \in [Requests -> Claimable]
  <2>1. ingests' \in [Requests -> Claimable]
    BY <1>7, <1>d DEF Metrics!Store
  <2>2. CASE Metrics!Outdated(q) /\ Metrics!Spend(q) /\ UNCHANGED Metrics!tables
    BY <1>7, <1>a, <1>e, <2>1, <2>2 DEF Metrics!Store, Metrics!tables, Metrics!bounds
  <2>3. CASE ~ (Metrics!Outdated(q) /\ Metrics!Spend(q) /\ UNCHANGED Metrics!tables)
    <3>1. stored' \in [Metrics!Minutes -> Nat]
      BY <1>7, <1>a, <1>c, <2>3, ClaimableFacts, BudgetTyped DEF Metrics!Store
    <3>2. registry' \in [Series -> {"none", "fresh", "stale"}] /\ points' \subseteq Series
      BY <1>7, <1>a, <1>c, <2>3, ClaimableFacts DEF Metrics!Store
    <3> QED
      BY <1>7, <1>a, <2>1, <2>3, <3>1, <3>2 DEF Metrics!Store, Metrics!bounds
  <2> QED
    BY <2>2, <2>3
<1>8. ASSUME NEW s \in Series, Metrics!Age(s)
      PROVE  Numbers' /\ Tables' /\ ingests' \in [Requests -> Claimable]
    BY <1>8, <1>a DEF Metrics!Age, Metrics!bounds
<1>9. CASE Metrics!NextMinute
  <2>1. minute' \in Metrics!Minutes
    BY <1>9, <1>a, <1>c DEF Metrics!NextMinute, Metrics!Minutes
  <2> QED
    BY <1>9, <1>a, <2>1 DEF Metrics!NextMinute, Metrics!tables, Metrics!bounds
<1>10. CASE Metrics!PurgeStaleSeries
    BY <1>10, <1>a DEF Metrics!PurgeStaleSeries, Metrics!bounds
<1>11. CASE UNCHANGED Metrics!vars
    BY <1>11, <1>a DEF Metrics!vars
<1> QED
    BY <1>1, <1>2, <1>3, <1>4, <1>5, <1>6, <1>7, <1>8, <1>9, <1>10, <1>11 DEF Metrics!Next

\* The counter of a minute, with the sum as a function of the requests.
Counted(w) == used[w] = stored[w] + spent[w] + SumFunction(Claims(w))
Within(w) == stored[w] + SumFunction(AcceptedClaims(w)) <= MaxPoints

LEMMA CounterAlike ==
    /\ Metrics!CounterTrue <=> \A w \in Metrics!Minutes : Counted(w)
    /\ Metrics!CounterTrue' <=> \A w \in Metrics!Minutes : Counted(w)'
    BY SumAlike DEF Metrics!CounterTrue, Counted, Claims

\* Request q becomes r: how the sums of minute w change.
Account(w, q, r) ==
    LET before == IF ingests[q].at # "idle" /\ ingests[q].minute = w
                  THEN ingests[q].batch.points ELSE 0
        after == IF r.at # "idle" /\ r.minute = w THEN r.batch.points ELSE 0
        letInBefore == IF Accepted(q) THEN before ELSE 0
        letInAfter == IF r.at \in {"reserved", "resolved", "counted"} THEN after ELSE 0
    IN  \E all, allNow, letIn, letInNow \in Nat :
            /\ allNow + before = all + after
            /\ letInNow + letInBefore = letIn + letInAfter
            /\ letIn <= all
            /\ used[w] = stored[w] + spent[w] + all /\ stored[w] + letIn <= MaxPoints
            /\ Counted(w)' <=> used'[w] = stored'[w] + spent'[w] + allNow
            /\ Within(w)' <=> stored'[w] + letInNow <= MaxPoints

LEMMA AccountStep ==
    ASSUME Metrics!IngestConstants, IngestInv, Metrics!TypeOK', NEW w \in Metrics!Minutes,
           NEW q \in Requests, NEW r \in Claimable, ingests' = [ingests EXCEPT ![q] = r]
    PROVE  Account(w, q, r)
<1>1. ingests'[q] = r
    BY DEF IngestInv, Metrics!TypeOK
<1>2. /\ Claims(w)'[q] = IF r.at # "idle" /\ r.minute = w THEN r.batch.points ELSE 0
      /\ AcceptedClaims(w)'[q] = IF r.at \in {"reserved", "resolved", "counted"}
                                 THEN Claims(w)'[q] ELSE 0
    BY <1>1 DEF Claims, Metrics!Claim, AcceptedClaims, Accepted
<1>3. r.batch.points \in Nat
  <2>1. r.batch \in Batches \cup {Metrics!Idle.batch}
    BY DEF Claimable
  <2> QED
    BY <2>1 DEF Metrics!Idle, Metrics!IngestConstants
<1>4. Claims(w)'[q] \in Nat
    BY <1>2, <1>3
<1>5. Metrics!TypeOK /\ Counted(w) /\ Within(w)
    BY CounterAlike DEF IngestInv, BudgetKept, Within
<1>6. /\ SumFunction(Claims(w))' + Claims(w)[q] = SumFunction(Claims(w)) + Claims(w)'[q]
      /\ SumFunction(AcceptedClaims(w))' + AcceptedClaims(w)[q]
            = SumFunction(AcceptedClaims(w)) + AcceptedClaims(w)'[q]
      /\ SumFunction(Claims(w)) \in Nat /\ SumFunction(Claims(w))' \in Nat
      /\ SumFunction(AcceptedClaims(w)) \in Nat /\ SumFunction(AcceptedClaims(w))' \in Nat
      /\ SumFunction(AcceptedClaims(w)) <= SumFunction(Claims(w))
      /\ Claims(w)[q] \in Nat
    BY <1>4, <1>5, SumsUpdated
<1>7. /\ Claims(w)[q] = IF ingests[q].at # "idle" /\ ingests[q].minute = w
                        THEN ingests[q].batch.points ELSE 0
      /\ AcceptedClaims(w)[q] = IF Accepted(q) THEN Claims(w)[q] ELSE 0
    BY DEF Claims, Metrics!Claim, AcceptedClaims
<1> DEFINE all == SumFunction(Claims(w))
           letIn == SumFunction(AcceptedClaims(w))
<1>8. /\ all' + Claims(w)[q] = all + Claims(w)'[q]
      /\ letIn' + AcceptedClaims(w)[q] = letIn + AcceptedClaims(w)'[q]
      /\ all \in Nat /\ all' \in Nat /\ letIn \in Nat /\ letIn' \in Nat /\ letIn <= all
      /\ used[w] = stored[w] + spent[w] + all /\ stored[w] + letIn <= MaxPoints
      /\ Counted(w)' <=> used'[w] = stored'[w] + spent'[w] + all'
      /\ Within(w)' <=> stored'[w] + letIn' <= MaxPoints
    BY <1>5, <1>6 DEF Counted, Within
<1> HIDE DEF all, letIn
<1> QED
    BY <1>2, <1>7, <1>8 DEF Account

LEMMA AccountsKept ==
    ASSUME Metrics!IngestConstants, IngestInv, [Metrics!Next]_Metrics!vars
    PROVE  Metrics!CounterTrue' /\ BudgetKept'
<1>a. Metrics!TypeOK' /\ Metrics!TypeOK
    BY IngestTypeStep DEF IngestInv
<1>b. SUFFICES ASSUME NEW w \in Metrics!Minutes
               PROVE  Counted(w)' /\ Within(w)'
    BY CounterAlike DEF BudgetKept, Within, Metrics!Minutes
<1>c. /\ Metrics!Idle \in Claimable /\ Metrics!Idle.at = "idle"
      /\ \A q \in Requests : ingests[q].batch.points \in Nat /\ ingests[q] \in Claimable
      /\ \A b \in Batches : b.points \in Nat
      /\ MaxPoints \in Nat /\ minute \in Metrics!Minutes
    BY <1>a, ClaimableFacts DEF Metrics!Idle, Metrics!IngestConstants, Metrics!TypeOK
<1>d. /\ used \in [Metrics!Minutes -> Nat] /\ spent \in [Metrics!Minutes -> Nat]
      /\ stored \in [Metrics!Minutes -> Nat]
    BY <1>a DEF Metrics!TypeOK
<1>e. ASSUME UNCHANGED <<used, stored, spent, ingests>>
      PROVE  Counted(w)' /\ Within(w)'
  <2>1. Counted(w) /\ Within(w)
    BY CounterAlike DEF IngestInv, BudgetKept, Within
  <2>2. Claims(w)' = Claims(w) /\ AcceptedClaims(w)' = AcceptedClaims(w)
    BY <1>e DEF Claims, AcceptedClaims, Accepted, Metrics!Claim
  <2> QED
    BY <1>e, <2>1, <2>2 DEF Counted, Within
<1>1. ASSUME NEW q \in Requests, NEW b \in Batches, Metrics!Reserve(q, b)
      PROVE  Counted(w)' /\ Within(w)'
  <2> DEFINE r == [at |-> IF used[minute] + b.points > MaxPoints THEN "over" ELSE "reserved",
                   batch |-> b, minute |-> minute, known |-> {}]
  <2>1. r \in Claimable
    BY <1>c DEF Claimable
  <2>2. ingests' = [ingests EXCEPT ![q] = r] /\ ingests[q].at = "idle"
    BY <1>1 DEF Metrics!Reserve
  <2>3. r.batch = b /\ r.minute = minute
        /\ r.at = IF used[minute] + b.points > MaxPoints THEN "over" ELSE "reserved"
    OBVIOUS
  <2> HIDE DEF r
  <2>4. /\ stored' = stored /\ spent' = spent
        /\ used'[w] = IF w = minute THEN used[w] + b.points ELSE used[w]
    BY <1>1, <1>d DEF Metrics!Reserve, Metrics!tables
  <2>5. Account(w, q, r)
    BY <1>a, <2>1, <2>2, AccountStep
  <2> QED
    BY <1>c, <1>d, <2>2, <2>3, <2>4, <2>5 DEF Account, Accepted
<1>2. ASSUME NEW q \in Requests, NEW b \in Batches, Metrics!ReserveFails(q, b)
      PROVE  Counted(w)' /\ Within(w)'
  <2>1. CASE UNCHANGED <<used, spent>>
    BY <1>2, <1>e, <2>1 DEF Metrics!ReserveFails, Metrics!tables
  <2>2. CASE /\ used' = [used EXCEPT ![minute] = @ + b.points]
             /\ spent' = [spent EXCEPT ![minute] = @ + b.points]
    <3>1. Counted(w) /\ Within(w)
      BY CounterAlike DEF IngestInv, BudgetKept, Within
    <3>2. Claims(w)' = Claims(w) /\ AcceptedClaims(w)' = AcceptedClaims(w)
      BY <1>2 DEF Metrics!ReserveFails, Claims, AcceptedClaims, Accepted, Metrics!Claim
    <3>3. /\ used'[w] = IF w = minute THEN used[w] + b.points ELSE used[w]
          /\ spent'[w] = IF w = minute THEN spent[w] + b.points ELSE spent[w]
          /\ stored' = stored
      BY <1>2, <1>d, <2>2 DEF Metrics!ReserveFails, Metrics!tables
    <3>4. SumFunction(Claims(w)) \in Nat
      BY <1>2, <1>a, ClaimsOf
    <3> HIDE DEF Claims
    <3> QED
      BY <1>c, <1>d, <3>1, <3>2, <3>3, <3>4 DEF Counted, Within
  <2> QED
    BY <1>2, <2>1, <2>2 DEF Metrics!ReserveFails
<1>3. ASSUME NEW q \in Requests, Metrics!GiveBack(q)
      PROVE  Counted(w)' /\ Within(w)'
  <2>1. ingests' = [ingests EXCEPT ![q] = Metrics!Idle] /\ ingests[q].at = "over"
    BY <1>3 DEF Metrics!GiveBack, Metrics!End
  <2>2. /\ stored' = stored /\ spent' = spent
        /\ used'[w] = IF w = ingests[q].minute THEN used[w] - ingests[q].batch.points ELSE used[w]
    BY <1>3, <1>d DEF Metrics!GiveBack, Metrics!tables
  <2>3. Account(w, q, Metrics!Idle)
    BY <1>a, <1>c, <2>1, AccountStep
  <2> QED
    BY <1>c, <1>d, <2>1, <2>2, <2>3 DEF Account, Accepted
\* The request ends and its budget is spent.
<1>f. ASSUME NEW q \in Requests, Metrics!End(q), Metrics!Spend(q),
             UNCHANGED <<used, stored>>, ingests[q].at # "idle"
      PROVE  Counted(w)' /\ Within(w)'
  <2>1. ingests' = [ingests EXCEPT ![q] = Metrics!Idle]
    BY <1>f DEF Metrics!End
  <2>2. spent'[w] = IF w = ingests[q].minute THEN spent[w] + ingests[q].batch.points ELSE spent[w]
    BY <1>d, <1>f DEF Metrics!Spend
  <2>3. Account(w, q, Metrics!Idle)
    BY <1>a, <1>c, <2>1, AccountStep
  <2> QED
    BY <1>c, <1>d, <1>f, <2>2, <2>3 DEF Account, Accepted
<1>4. ASSUME NEW q \in Requests, Metrics!BreakOff(q)
      PROVE  Counted(w)' /\ Within(w)'
    BY <1>4, <1>f DEF Metrics!BreakOff, Metrics!tables
\* The request goes on, with what it has claimed.
<1>g. ASSUME NEW q \in Requests, NEW r \in Claimable, ingests' = [ingests EXCEPT ![q] = r],
             Accepted(q), r.at \in {"resolved", "counted"}, r.batch = ingests[q].batch,
             r.minute = ingests[q].minute, UNCHANGED <<used, stored, spent>>
      PROVE  Counted(w)' /\ Within(w)'
  <2>1. Account(w, q, r)
    BY <1>a, <1>g, AccountStep
  <2> QED
    BY <1>c, <1>d, <1>g, <2>1 DEF Account, Accepted
<1>5. ASSUME NEW q \in Requests, Metrics!Resolve(q)
      PROVE  Counted(w)' /\ Within(w)'
  <2> DEFINE r == [ingests[q] EXCEPT !.at = "resolved",
                       !.known = @ \cup (Metrics!Registered \cap ingests[q].batch.series)]
  <2>1. r \in Claimable /\ r.at = "resolved" /\ r.batch = ingests[q].batch
        /\ r.minute = ingests[q].minute
    BY <1>c DEF Metrics!Registered, Claimable
  <2>2. ingests' = [ingests EXCEPT ![q] = r] /\ Accepted(q)
    BY <1>5 DEF Metrics!Resolve, Accepted
  <2> HIDE DEF r
  <2>3. UNCHANGED <<used, stored, spent>>
    BY <1>5 DEF Metrics!Resolve, Metrics!tables
  <2> QED
    BY <1>g, <2>1, <2>2, <2>3
<1>6. ASSUME NEW q \in Requests, Metrics!Count(q)
      PROVE  Counted(w)' /\ Within(w)'
  <2> DEFINE r == [ingests[q] EXCEPT !.at = "counted"]
  <2>1. CASE ingests' = [ingests EXCEPT ![q] = r] /\ UNCHANGED spent
    <3>1. r \in Claimable /\ r.at = "counted" /\ r.batch = ingests[q].batch
          /\ r.minute = ingests[q].minute
      BY <1>c DEF Claimable
    <3> HIDE DEF r
    <3>2. UNCHANGED <<used, stored, spent>> /\ Accepted(q)
      BY <1>6, <2>1 DEF Metrics!Count, Metrics!tables, Accepted
    <3> QED
      BY <1>g, <2>1, <3>1, <3>2
  <2>2. CASE Metrics!Spend(q) /\ Metrics!End(q)
    BY <1>6, <1>f, <2>2 DEF Metrics!Count, Metrics!tables
  <2> QED
    BY <1>6, <2>1, <2>2 DEF Metrics!Count
<1>7. ASSUME NEW q \in Requests, Metrics!Store(q)
      PROVE  Counted(w)' /\ Within(w)'
  <2>1. CASE Metrics!Spend(q) /\ UNCHANGED Metrics!tables
    BY <1>7, <1>f, <2>1 DEF Metrics!Store, Metrics!tables
  <2>2. CASE /\ stored' = [stored EXCEPT ![ingests[q].minute] = @ + ingests[q].batch.points]
             /\ UNCHANGED spent
    <3>1. ingests' = [ingests EXCEPT ![q] = Metrics!Idle] /\ ingests[q].at = "counted"
      BY <1>7 DEF Metrics!Store, Metrics!End
    <3>2. /\ stored'[w] = IF w = ingests[q].minute THEN stored[w] + ingests[q].batch.points
                                                   ELSE stored[w]
          /\ used' = used /\ spent' = spent
      BY <1>7, <1>d, <2>2 DEF Metrics!Store
    <3>3. Account(w, q, Metrics!Idle)
      BY <1>a, <1>c, <3>1, AccountStep
    <3> QED
      BY <1>c, <1>d, <3>1, <3>2, <3>3 DEF Account, Accepted
  <2> QED
    BY <1>7, <2>1, <2>2 DEF Metrics!Store
<1>8. ASSUME NEW s \in Series, Metrics!Age(s)
      PROVE  Counted(w)' /\ Within(w)'
    BY <1>8, <1>e DEF Metrics!Age
<1>9. CASE Metrics!NextMinute \/ Metrics!PurgeStaleSeries
    BY <1>9, <1>e DEF Metrics!NextMinute, Metrics!PurgeStaleSeries, Metrics!tables
<1>10. CASE UNCHANGED Metrics!vars
    BY <1>10, <1>e DEF Metrics!vars
<1> QED
    BY <1>1, <1>2, <1>3, <1>4, <1>5, <1>6, <1>7, <1>8, <1>9, <1>10 DEF Metrics!Next

LEMMA PointsStayFresh ==
    ASSUME Metrics!IngestConstants, IngestInv, [Metrics!Next]_Metrics!vars
    PROVE  PointsFresh'
<1> USE DEF PointsFresh, Metrics!tables
<1>1. Metrics!TypeOK /\ PointsFresh
    BY DEF IngestInv
<1>2. ASSUME NEW q \in Requests, Metrics!Store(q)
      PROVE  PointsFresh'
  <2>1. CASE UNCHANGED <<registry, points>>
    BY <1>1, <2>1
  <2>2. CASE ~ Metrics!Outdated(q) /\ points' = points \cup ingests[q].batch.series
    <3>1. ingests[q].batch.series \subseteq Series /\ points \subseteq Series
      BY <1>1, ClaimableFacts DEF Metrics!TypeOK
    <3>2. ingests[q].known \subseteq Metrics!Registered
      BY <2>2 DEF Metrics!Outdated
    <3>3. \A s \in ingests[q].batch.series :
              s \in Metrics!Fresh(q) \cup (ingests[q].batch.series \cap Metrics!Registered)
      BY <3>2 DEF Metrics!Fresh
    <3>4. \/ UNCHANGED registry
          \/ registry' = [s \in Series |->
                 IF s \in Metrics!Fresh(q) \cup (ingests[q].batch.series \cap Metrics!Registered)
                 THEN "fresh" ELSE registry[s]]
      BY <1>2 DEF Metrics!Store
    <3> QED
      BY <1>1, <1>2, <2>2, <3>1, <3>3, <3>4 DEF Metrics!Store
  <2> QED
    BY <1>2, <2>1, <2>2 DEF Metrics!Store
<1>3. ASSUME NEW s \in Series, Metrics!Age(s)
      PROVE  PointsFresh'
    BY <1>1, <1>3 DEF Metrics!Age, Metrics!TypeOK
<1>4. CASE Metrics!PurgeStaleSeries
    BY <1>1, <1>4 DEF Metrics!PurgeStaleSeries, Metrics!TypeOK
<1>5. CASE UNCHANGED <<registry, points>>
    BY <1>1, <1>5
<1> QED
    BY <1>2, <1>3, <1>4, <1>5
       DEF Metrics!Next, Metrics!vars, Metrics!Reserve, Metrics!ReserveFails, Metrics!GiveBack,
           Metrics!BreakOff, Metrics!Resolve, Metrics!Count, Metrics!NextMinute

LEMMA IngestStep ==
    ASSUME Metrics!IngestConstants, IngestInv, [Metrics!Next]_Metrics!vars
    PROVE  IngestInv'
    BY IngestTypeStep, AccountsKept, PointsStayFresh DEF IngestInv

\* The two promises of a push that follow from its invariant.
LEMMA IngestPromises ==
    ASSUME Metrics!IngestConstants, IngestInv
    PROVE  Metrics!QuotaHeld /\ Metrics!NoOrphanPoints
<1>1. ASSUME NEW w \in Metrics!Minutes
      PROVE  stored[w] <= MaxPoints
  <2>1. IsFiniteSet(Requests) /\ stored[w] \in Nat /\ MaxPoints \in Nat
    BY IngestFinite DEF Metrics!IngestConstants, IngestInv, Metrics!TypeOK
  <2>2. AcceptedClaims(w) \in [Requests -> Nat] /\ DOMAIN AcceptedClaims(w) = Requests
    BY ClaimTypes DEF IngestInv
  <2>3. SumFunction(AcceptedClaims(w)) \in Nat
    BY <2>1, <2>2, SumNat DEF SumFunction
  <2>4. stored[w] + SumFunction(AcceptedClaims(w)) <= MaxPoints
    BY DEF IngestInv, BudgetKept
  <2> QED
    BY <2>1, <2>3, <2>4
<1>2. Metrics!NoOrphanPoints
    BY DEF IngestInv, PointsFresh, Metrics!NoOrphanPoints, Metrics!Registered, Metrics!TypeOK
<1> QED
    BY <1>1, <1>2 DEF Metrics!QuotaHeld

\* The largest batch, and requests that may each add one.
Largest == Metrics!Max({Metrics!Cardinality(b.series) : b \in Batches})
Ceiling == MaxSeries + (Cardinality(Requests) - 1) * Largest
Racing == {q \in Requests : ingests[q].at = "counted" /\ Metrics!Fresh(q) # {}}
Adds(q) == Cardinality(Metrics!Fresh(q))

\* Of the requests past their count, all but one may bring as much as the
\* largest batch, on top of that one and of what is registered.
RoomFor(racing, adds, n) ==
    /\ n <= Ceiling
    /\ racing # {} => \E p \in racing :
           n + adds[p] + (Cardinality(racing) - 1) * Largest <= Ceiling
RoomLeft ==
    RoomFor(Racing, [q \in Requests |-> Adds(q)], Cardinality(Metrics!Registered))

LEMMA LargestBatch ==
    ASSUME Metrics!IngestConstants
    PROVE  /\ Largest \in Nat
           /\ \A b \in Batches : Cardinality(b.series) <= Largest
<1> DEFINE sizes == {Metrics!Cardinality(b.series) : b \in Batches}
           bounds == {n \in Nat : \A x \in sizes : x <= n}
<1>1. \A b \in Batches : /\ Cardinality(b.series) \in Nat
                        /\ Cardinality(b.series) <= Cardinality(Series)
                        /\ Cardinality(Series) \in Nat
  <2>1. IsFiniteSet(Series) /\ \A b \in Batches : b.series \in SUBSET Series
    BY IngestFinite DEF Metrics!IngestConstants
  <2>2. \A b \in Batches : IsFiniteSet(b.series) /\ Cardinality(b.series) <= Cardinality(Series)
    BY <2>1, FS_Subset
  <2> QED
    BY <2>1, <2>2, FS_CardinalityType
<1>2. sizes \in SUBSET Nat /\ sizes # {} /\ Cardinality(Series) \in bounds
    BY <1>1, IngestFinite DEF Metrics!IngestConstants
<1>3. PICK n \in bounds : \A k \in bounds : n <= k
  <2> HIDE DEF bounds
  <2>1. bounds \in SUBSET Nat
    BY DEF bounds
  <2> QED
    BY <1>2, <2>1, LeastNumber
<1>4. n \in sizes
  <2>1. SUFFICES ASSUME n \notin sizes
                 PROVE  FALSE
    OBVIOUS
  <2>5. n \in Nat /\ \A x \in sizes : x <= n
    BY <1>3
  <2> HIDE DEF sizes, bounds
  <2>2. \A x \in sizes : x < n
    BY <1>2, <2>1, <2>5
  <2>3. n # 0
    <3>1. PICK y \in sizes : y \in Nat
      BY <1>2, Zenon
    <3> QED BY <2>2, <2>5, <3>1
  <2>4. n - 1 \in bounds
    BY <1>2, <2>2, <2>3, <2>5 DEF bounds
  <2> QED
    BY <1>3, <2>4, <2>5
<1>5. Largest \in sizes /\ \A x \in sizes : Largest >= x
  <2>1. \E x \in sizes : \A y \in sizes : x >= y
    BY <1>2, <1>4
  <2> QED
    BY <2>1 DEF Largest, Metrics!Max
<1> QED
    BY <1>2, <1>5, IngestFinite

LEMMA Ceilings ==
    ASSUME Metrics!IngestConstants
    PROVE  /\ Cardinality(Requests) \in Nat /\ Cardinality(Requests) >= 1
           /\ Largest \in Nat /\ MaxSeries \in Nat /\ Ceiling \in Nat /\ Ceiling >= MaxSeries
           /\ \A k \in 0 .. Cardinality(Requests) :
                 k >= 1 => MaxSeries + (k - 1) * Largest <= Ceiling
<1>1. Cardinality(Requests) \in Nat /\ Cardinality(Requests) >= 1
  <2>1. IsFiniteSet(Requests) /\ Requests # {}
    BY IngestFinite DEF Metrics!IngestConstants
  <2> QED
    BY <2>1, FS_CardinalityType, FS_EmptySet
<1>2. Largest \in Nat /\ MaxSeries \in Nat
    BY LargestBatch DEF Metrics!IngestConstants
<1>3. \A i, j, l \in Nat : i <= j => i * l <= j * l /\ i * l \in Nat
    OBVIOUS
<1>4. (Cardinality(Requests) - 1) * Largest \in Nat
    BY <1>1, <1>2, <1>3
<1>5. ASSUME NEW k \in 0 .. Cardinality(Requests), k >= 1
      PROVE  MaxSeries + (k - 1) * Largest <= Ceiling
  <2>1. (k - 1) * Largest <= (Cardinality(Requests) - 1) * Largest /\ (k - 1) * Largest \in Nat
    BY <1>1, <1>2, <1>3, <1>5
  <2> QED
    BY <1>2, <1>4, <2>1 DEF Ceiling
<1> QED
    BY <1>1, <1>2, <1>4, <1>5 DEF Ceiling

\* A racing request comes to its end, and adds what it has to.
LEMMA RoomKept ==
    ASSUME Metrics!IngestConstants, NEW A \in SUBSET Requests, NEW adds, NEW n \in Nat,
           \A x \in A : adds[x] \in Nat /\ adds[x] <= Largest,
           RoomFor(A, adds, n), NEW q \in A, NEW m \in Nat, m <= n + adds[q]
    PROVE  RoomFor(A \ {q}, adds, m)
<1> DEFINE k == Cardinality(A)
           L == Largest
<1>1. IsFiniteSet(A) /\ k \in Nat /\ Cardinality(A \ {q}) = k - 1 /\ k >= 1
  <2>1. IsFiniteSet(A)
    BY IngestFinite, FS_Subset DEF Metrics!IngestConstants
  <2> QED
    BY <2>1, FS_CardinalityType, FS_RemoveElement, FS_EmptySet
<1>2. L \in Nat /\ Ceiling \in Nat
    BY Ceilings
<1>3. PICK p \in A : n + adds[p] + (k - 1) * L <= Ceiling
    BY DEF RoomFor
<1>4. (k - 1) * L \in Nat /\ (k >= 2 => (k - 1) * L = L + (k - 2) * L /\ (k - 2) * L \in Nat)
  <2>1. \A i \in Nat : i * L \in Nat /\ (i + 1) * L = L + i * L
    BY <1>2
  <2> HIDE DEF k, L
  <2>2. (k - 1) * L \in Nat
    BY <1>1, <2>1
  <2>3. ASSUME k >= 2
        PROVE  (k - 1) * L = L + (k - 2) * L /\ (k - 2) * L \in Nat
    <3>1. k - 2 \in Nat /\ (k - 2) + 1 = k - 1
      BY <1>1, <2>3
    <3> QED
      BY <2>1, <3>1
  <2> QED
    BY <2>2, <2>3
<1> HIDE DEF k, L
<1>5. \A x \in A : adds[x] \in Nat /\ adds[x] <= L
    BY DEF L
<1>6. k >= 2 => n + adds[p] + L + (k - 2) * L <= Ceiling
    BY <1>1, <1>2, <1>3, <1>4, <1>5
<1>7. m <= Ceiling
  <2>1. CASE p = q
    BY <1>2, <1>3, <1>4, <1>5, <2>1
  <2>2. CASE p # q
    <3>1. k >= 2
      <4>1. A \ {q} # {}
        BY <2>2
      <4>2. IsFiniteSet(A \ {q})
        BY <1>1, FS_RemoveElement
      <4>3. Cardinality(A \ {q}) # 0
        BY <4>1, <4>2, FS_EmptySet
      <4> QED
        BY <1>1, <4>3
    <3> QED
      BY <1>2, <1>4, <1>5, <1>6, <3>1
  <2> QED
    BY <2>1, <2>2
<1>8. ASSUME A \ {q} # {}
      PROVE  \E r \in A \ {q} : m + adds[r] + (Cardinality(A \ {q}) - 1) * L <= Ceiling
  <2>1. k >= 2
    <3>1. IsFiniteSet(A \ {q})
      BY <1>1, FS_RemoveElement
    <3>2. Cardinality(A \ {q}) # 0
      BY <1>8, <3>1, FS_EmptySet
    <3> QED
      BY <1>1, <3>2
  <2>2. (Cardinality(A \ {q}) - 1) * L = (k - 2) * L
    <3>1. Cardinality(A \ {q}) - 1 = k - 2
      BY <1>1
    <3> QED
      BY <3>1
  <2>3. PICK r \in A \ {q} : p # q => r = p
    BY <1>8
  <2>4. CASE p = q
    <3>1. m + adds[r] <= n + adds[p] + L
      BY <1>2, <1>5, <2>4
    <3> QED
      BY <1>2, <1>4, <1>5, <1>6, <2>1, <2>2, <3>1
  <2>5. CASE p # q
    <3>1. m + adds[r] <= n + L + adds[p]
      BY <1>2, <1>5, <2>3, <2>5
    <3> QED
      BY <1>2, <1>4, <1>5, <1>6, <2>1, <2>2, <3>1
  <2> QED
    BY <2>4, <2>5
<1> QED
    BY <1>7, <1>8 DEF RoomFor, L

\* Fewer series, or other requests' doing, take no room.
LEMMA RoomMore ==
    ASSUME Metrics!IngestConstants, NEW A \in SUBSET Requests, NEW adds, NEW others,
           NEW n \in Nat, NEW m \in Nat, m <= n, RoomFor(A, adds, n),
           \A x \in A : adds[x] \in Nat /\ others[x] = adds[x]
    PROVE  RoomFor(A, others, m)
<1>1. Ceiling \in Nat /\ Largest \in Nat
    BY Ceilings
<1>2. IsFiniteSet(A)
    BY IngestFinite, FS_Subset DEF Metrics!IngestConstants
<1>3. Cardinality(A) \in Nat
    BY <1>2, FS_CardinalityType
<1>4. (Cardinality(A) - 1) * Largest \in Int
    BY <1>1, <1>3
<1> QED
    BY <1>1, <1>4 DEF RoomFor

LEMMA RacingFacts ==
    ASSUME Metrics!IngestConstants, Metrics!TypeOK
    PROVE  /\ Racing \in SUBSET Requests
           /\ \A q \in Requests : /\ Metrics!Fresh(q) \in SUBSET Series
                                 /\ Adds(q) \in Nat /\ Adds(q) <= Largest
           /\ Metrics!Registered \in SUBSET Series
           /\ IsFiniteSet(Series)
           /\ Cardinality(Metrics!Registered) \in Nat
<1>1. Racing \in SUBSET Requests /\ Metrics!Registered \in SUBSET Series
    BY DEF Racing, Metrics!Registered
<1>2. IsFiniteSet(Series)
    BY IngestFinite DEF Metrics!IngestConstants
<1>3. ASSUME NEW q \in Requests
      PROVE  /\ Metrics!Fresh(q) \in SUBSET Series
             /\ Adds(q) \in Nat /\ Adds(q) <= Largest
  <2> DEFINE b == ingests[q].batch
  <2>1. b.series \in SUBSET Series /\ b \in Batches \cup {Metrics!Idle.batch}
    BY ClaimableFacts DEF Metrics!TypeOK
  <2>2. IsFiniteSet(b.series) /\ Cardinality(b.series) <= Largest
    <3>1. CASE b \in Batches
      BY <1>2, <2>1, <3>1, LargestBatch, FS_Subset
    <3>2. CASE b = Metrics!Idle.batch
      <4>1. b.series = {}
        BY <3>2 DEF Metrics!Idle
      <4>2. Largest \in Nat
        BY LargestBatch
      <4> QED
        BY <4>1, <4>2, FS_EmptySet
    <3> QED
      BY <2>1, <3>1, <3>2
  <2>3. Metrics!Fresh(q) \in SUBSET b.series
    BY DEF Metrics!Fresh
  <2>4. IsFiniteSet(Metrics!Fresh(q)) /\ Cardinality(Metrics!Fresh(q)) <= Cardinality(b.series)
    BY <2>2, <2>3, FS_Subset
  <2>5. /\ Cardinality(Metrics!Fresh(q)) \in Nat /\ Cardinality(b.series) \in Nat
        /\ Largest \in Nat
    BY <2>2, <2>4, FS_CardinalityType, LargestBatch
  <2> QED
    BY <2>1, <2>2, <2>3, <2>4, <2>5 DEF Adds
<1>4. Cardinality(Metrics!Registered) \in Nat
    BY <1>1, <1>2, FS_Subset, FS_CardinalityType
<1> QED
    BY <1>1, <1>2, <1>3, <1>4

\* Nobody enters or leaves the race, and no series is added.
LEMMA RaceGoesOn ==
    ASSUME Metrics!IngestConstants, Metrics!TypeOK, Metrics!TypeOK', RoomLeft,
           Racing' = Racing, \A q \in Racing : ingests'[q] = ingests[q],
           Metrics!Registered' \subseteq Metrics!Registered
    PROVE  RoomLeft'
<1> DEFINE n == Cardinality(Metrics!Registered)
           adds == [q \in Requests |-> Adds(q)]
<1>1. n \in Nat /\ n' \in Nat /\ n' <= n
  <2>1. IsFiniteSet(Metrics!Registered) /\ IsFiniteSet(Metrics!Registered')
    BY RacingFacts, FS_Subset
  <2>2. n' <= n
    BY <2>1, FS_Subset
  <2> QED
    BY <2>1, <2>2, FS_CardinalityType
<1>2. \A q \in Racing : adds[q] \in Nat /\ adds'[q] = adds[q]
    BY RacingFacts DEF Adds, Metrics!Fresh
<1>3. RoomFor(Racing, adds, n) /\ Racing \in SUBSET Requests
    BY RacingFacts DEF RoomLeft
<1> HIDE DEF adds, n
<1>4. RoomFor(Racing, adds', n')
    BY <1>1, <1>2, <1>3, RoomMore
<1>5. RoomFor(Racing', adds', n')
    BY <1>4
<1> QED
    BY <1>5 DEF RoomLeft, RoomFor, adds, n

\* A request ends, and has registered at most what it was to register.
LEMMA RaceEnds ==
    ASSUME Metrics!IngestConstants, Metrics!TypeOK, Metrics!TypeOK', RoomLeft,
           NEW q \in Requests, Metrics!End(q),
           Metrics!Registered' \subseteq Metrics!Registered
                \cup (IF q \in Racing THEN Metrics!Fresh(q) ELSE {})
    PROVE  RoomLeft'
<1> DEFINE n == Cardinality(Metrics!Registered)
           adds == [x \in Requests |-> Adds(x)]
<1>1. ingests'[q].at = "idle" /\ \A x \in Requests \ {q} : ingests'[x] = ingests[x]
    BY DEF Metrics!End, Metrics!TypeOK, Metrics!Idle
<1>2. Racing' = Racing \ {q}
  <2>1. q \notin Racing'
    BY <1>1 DEF Racing
  <2>2. \A x \in Requests \ {q} : x \in Racing' <=> x \in Racing
    BY <1>1 DEF Racing, Metrics!Fresh
  <2> QED
    BY <2>1, <2>2, RacingFacts DEF Racing
<1>3. CASE q \notin Racing
    BY <1>1, <1>2, <1>3, RaceGoesOn, RacingFacts
<1>4. CASE q \in Racing
  <2>1. n \in Nat /\ n' \in Nat /\ n' <= n + adds[q]
    <3>1. /\ IsFiniteSet(Metrics!Registered) /\ IsFiniteSet(Metrics!Registered')
          /\ IsFiniteSet(Metrics!Fresh(q))
      BY RacingFacts, FS_Subset
    <3>2. /\ IsFiniteSet(Metrics!Registered \cup Metrics!Fresh(q))
          /\ Cardinality(Metrics!Registered \cup Metrics!Fresh(q)) =
                n + Adds(q) - Cardinality(Metrics!Registered \cap Metrics!Fresh(q))
      BY <3>1, FS_Union DEF Adds
    <3>3. n' <= Cardinality(Metrics!Registered \cup Metrics!Fresh(q))
      BY <1>4, <3>2, FS_Subset
    <3>4. Cardinality(Metrics!Registered \cap Metrics!Fresh(q)) \in Nat
      BY <3>1, FS_Intersection, FS_CardinalityType
    <3>5. n \in Nat /\ n' \in Nat /\ adds[q] = Adds(q) /\ Adds(q) \in Nat
      BY <3>1, FS_CardinalityType, RacingFacts
    <3> HIDE DEF adds, n
    <3> QED
      BY <3>2, <3>3, <3>4, <3>5
  <2>2. \A x \in Racing : adds[x] \in Nat /\ adds[x] <= Largest
    BY RacingFacts
  <2>3. RoomFor(Racing, adds, n) /\ Racing \in SUBSET Requests
    BY RacingFacts DEF RoomLeft
  <2>4. \A x \in Racing \ {q} : adds'[x] = adds[x] /\ adds[x] \in Nat
    BY <1>1, <2>2, <2>3 DEF Adds, Metrics!Fresh
  <2> HIDE DEF adds, n
  <2>5. RoomFor(Racing \ {q}, adds, n')
    BY <1>4, <2>1, <2>2, <2>3, RoomKept
  <2>6. RoomFor(Racing \ {q}, adds', n')
    <3>1. Racing \ {q} \in SUBSET Requests
      BY <2>3
    <3> QED
      BY <2>1, <2>4, <2>5, <3>1, RoomMore
  <2> QED
    BY <1>2, <2>6 DEF RoomLeft, RoomFor, adds, n
<1> QED
    BY <1>3, <1>4

LEMMA RoomStep ==
    ASSUME Metrics!IngestConstants, IngestInv, RoomLeft, [Metrics!Next]_Metrics!vars
    PROVE  RoomLeft'
<1>a. Metrics!TypeOK /\ Metrics!TypeOK'
    BY IngestTypeStep DEF IngestInv
<1>b. ASSUME UNCHANGED <<registry, ingests>>
      PROVE  RoomLeft'
  <2>1. Racing' = Racing /\ Metrics!Registered' = Metrics!Registered
    BY <1>b DEF Racing, Metrics!Fresh, Metrics!Registered
  <2> QED
    BY <1>a, <1>b, <2>1, RaceGoesOn
\* A request that was not past its count goes on without coming past it.
<1>c. ASSUME NEW q \in Requests, NEW r, ingests' = [ingests EXCEPT ![q] = r],
             r.at # "counted", ingests[q].at # "counted", UNCHANGED registry
      PROVE  RoomLeft'
  <2>1. /\ ingests'[q].at # "counted"
        /\ \A x \in Requests \ {q} : ingests'[x] = ingests[x]
    BY <1>a, <1>c DEF Metrics!TypeOK
  <2>2. Racing' = Racing /\ q \notin Racing
    BY <1>c, <2>1 DEF Racing, Metrics!Fresh
  <2>3. Metrics!Registered' = Metrics!Registered
    BY <1>c DEF Metrics!Registered
  <2> QED
    BY <1>a, <2>1, <2>2, <2>3, RaceGoesOn, RacingFacts
<1>1. ASSUME NEW q \in Requests, NEW b \in Batches, Metrics!Reserve(q, b)
      PROVE  RoomLeft'
  <2> DEFINE r == [at |-> IF used[minute] + b.points > MaxPoints THEN "over" ELSE "reserved",
                   batch |-> b, minute |-> minute, known |-> {}]
  <2>1. r.at # "counted"
    OBVIOUS
  <2>2. ingests' = [ingests EXCEPT ![q] = r] /\ ingests[q].at = "idle" /\ UNCHANGED registry
    BY <1>1 DEF Metrics!Reserve, Metrics!tables
  <2> HIDE DEF r
  <2> QED
    BY <1>c, <2>1, <2>2
<1>2. ASSUME NEW q \in Requests, NEW b \in Batches, Metrics!ReserveFails(q, b)
      PROVE  RoomLeft'
    BY <1>2, <1>b DEF Metrics!ReserveFails, Metrics!tables
<1>d. ASSUME NEW q \in Requests, Metrics!End(q), UNCHANGED registry
      PROVE  RoomLeft'
  <2>1. Metrics!Registered' = Metrics!Registered
    BY <1>d DEF Metrics!Registered
  <2> QED
    BY <1>a, <1>d, <2>1, RaceEnds
<1>3. ASSUME NEW q \in Requests, Metrics!GiveBack(q) \/ Metrics!BreakOff(q)
      PROVE  RoomLeft'
    BY <1>3, <1>d DEF Metrics!GiveBack, Metrics!BreakOff, Metrics!tables
<1>4. ASSUME NEW q \in Requests, Metrics!Resolve(q)
      PROVE  RoomLeft'
  <2> DEFINE r == [ingests[q] EXCEPT !.at = "resolved",
                       !.known = @ \cup (Metrics!Registered \cap ingests[q].batch.series)]
  <2>1. r.at # "counted"
    BY <1>a, ClaimableFacts DEF Claimable
  <2>2. ingests' = [ingests EXCEPT ![q] = r] /\ ingests[q].at = "reserved" /\ UNCHANGED registry
    BY <1>4 DEF Metrics!Resolve, Metrics!tables
  <2> HIDE DEF r
  <2> QED
    BY <1>c, <2>1, <2>2
<1>5. ASSUME NEW q \in Requests, Metrics!Count(q)
      PROVE  RoomLeft'
  <2> DEFINE r == [ingests[q] EXCEPT !.at = "counted"]
  <2>1. CASE Metrics!End(q)
    BY <1>5, <1>d, <2>1 DEF Metrics!Count, Metrics!tables
  <2>2. CASE ingests' = [ingests EXCEPT ![q] = r] /\
             (Metrics!Fresh(q) = {} \/ Cardinality(Metrics!Registered) + Adds(q) <= MaxSeries)
    <3>1. ingests'[q] = r /\ \A x \in Requests \ {q} : ingests'[x] = ingests[x]
      BY <1>a, <2>2 DEF Metrics!TypeOK
    <3>2. r.at = "counted" /\ r.batch = ingests[q].batch /\ r.known = ingests[q].known
      BY <1>a, ClaimableFacts DEF Claimable
    <3>3. ingests[q].at = "resolved" /\ UNCHANGED registry
      BY <1>5 DEF Metrics!Count, Metrics!tables
    <3> HIDE DEF r
    <3>4. \A x \in Requests : Metrics!Fresh(x)' = Metrics!Fresh(x)
      BY <3>1, <3>2 DEF Metrics!Fresh
    <3>5. CASE Metrics!Fresh(q) = {}
      <4>1. Racing' = Racing /\ q \notin Racing
        BY <3>1, <3>3, <3>4, <3>5 DEF Racing
      <4>2. Metrics!Registered' = Metrics!Registered
        BY <3>3 DEF Metrics!Registered
      <4> QED
        BY <1>a, <3>1, <4>1, <4>2, RaceGoesOn, RacingFacts
    <3>6. CASE Metrics!Fresh(q) # {} /\ Cardinality(Metrics!Registered) + Adds(q) <= MaxSeries
      <4> DEFINE n == Cardinality(Metrics!Registered)
                 k == Cardinality(Racing')
      <4>1. Metrics!Registered' = Metrics!Registered
        BY <3>3 DEF Metrics!Registered
      <4>2. q \in Racing' /\ Racing' \in SUBSET Requests
        BY <3>1, <3>2, <3>4, <3>6 DEF Racing
      <4>3. k \in 0 .. Cardinality(Requests) /\ k >= 1
        <5>1. IsFiniteSet(Requests)
          BY IngestFinite DEF Metrics!IngestConstants
        <5>2. IsFiniteSet(Racing') /\ k <= Cardinality(Requests)
          BY <4>2, <5>1, FS_Subset
        <5>3. k # 0
          BY <4>2, <5>2, FS_EmptySet
        <5> QED
          BY <5>1, <5>2, <5>3, FS_CardinalityType
      <4>4. MaxSeries + (k - 1) * Largest <= Ceiling
        BY <4>3, Ceilings
      <4>5. n \in Nat /\ Adds(q) \in Nat /\ n' = n /\ Adds(q)' = Adds(q)
        BY <1>a, <3>4, <4>1, RacingFacts DEF Adds
      <4>6. (k - 1) * Largest \in Int /\ Ceiling \in Nat /\ Ceiling >= MaxSeries /\ MaxSeries \in Nat
        BY <4>3, Ceilings
      <4> HIDE DEF n, k
      <4>7. n + Adds(q) + (k - 1) * Largest <= Ceiling /\ n <= Ceiling
        BY <3>6, <4>4, <4>5, <4>6 DEF n
      <4>8. RoomFor(Racing', [x \in Requests |-> Adds(x)]', n')
        BY <4>2, <4>5, <4>7 DEF RoomFor, k
      <4> QED
        BY <4>8 DEF RoomLeft, RoomFor, n
    <3> QED
      BY <2>2, <3>5, <3>6
  <2> QED
    BY <1>5, <2>1, <2>2, IngestFinite DEF Metrics!Count, Adds
<1>6. ASSUME NEW q \in Requests, Metrics!Store(q)
      PROVE  RoomLeft'
  <2>1. CASE UNCHANGED registry
    BY <1>6, <1>d, <2>1 DEF Metrics!Store
  <2>2. CASE registry' = [s \in Series |->
                 IF s \in Metrics!Fresh(q) \cup (ingests[q].batch.series \cap Metrics!Registered)
                 THEN "fresh" ELSE registry[s]]
    <3>1. Metrics!Registered' \subseteq Metrics!Registered \cup Metrics!Fresh(q)
      BY <2>2 DEF Metrics!Registered
    <3>2. q \notin Racing => Metrics!Fresh(q) = {}
      BY <1>6 DEF Racing, Metrics!Store
    <3> QED
      BY <1>6, <1>a, <3>1, <3>2, RaceEnds DEF Metrics!Store
  <2> QED
    BY <1>6, <2>1, <2>2 DEF Metrics!Store, Metrics!tables
<1>7. ASSUME \E s \in Series : Metrics!Age(s) \/ Metrics!PurgeStaleSeries
      PROVE  RoomLeft'
  <2>1. Metrics!Registered' \subseteq Metrics!Registered /\ UNCHANGED ingests
    BY <1>7, <1>a DEF Metrics!Registered, Metrics!Age, Metrics!PurgeStaleSeries, Metrics!TypeOK
  <2>2. Racing' = Racing
    BY <2>1 DEF Racing, Metrics!Fresh
  <2> QED
    BY <1>a, <2>1, <2>2, RaceGoesOn
<1>8. CASE Metrics!NextMinute
    BY <1>8, <1>b DEF Metrics!NextMinute, Metrics!tables
<1>9. CASE UNCHANGED Metrics!vars
    BY <1>9, <1>b DEF Metrics!vars
<1>10. CASE Metrics!PurgeStaleSeries
    BY <1>7, <1>10 DEF Metrics!PurgeStaleSeries
<1> QED
    BY <1>1, <1>2, <1>3, <1>4, <1>5, <1>6, <1>7, <1>8, <1>9, <1>10 DEF Metrics!Next

LEMMA RoomInit ==
    ASSUME Metrics!IngestConstants, Metrics!Init
    PROVE  RoomLeft
<1>1. Metrics!Registered = {} /\ Racing = {}
    BY DEF Metrics!Init, Metrics!Registered, Racing, Metrics!Idle
<1>2. Cardinality(Metrics!Registered) = 0
    BY <1>1, FS_EmptySet
<1> QED
    BY <1>1, <1>2, Ceilings DEF RoomLeft, RoomFor

LEMMA SeriesBounded ==
    ASSUME Metrics!IngestConstants, RoomLeft
    PROVE  Metrics!CardinalityBounded
    BY IngestFinite DEF RoomLeft, RoomFor, Metrics!CardinalityBounded, Ceiling, Largest
-----------------------------------------------------------------------------
(* OnCall. *)

\* Of a division, what the provers need to know.
LEMMA Division ==
    ASSUME NEW a \in Int, NEW d \in Nat \ {0}
    PROVE  /\ a \div d \in Int /\ a % d \in 0 .. d - 1
           /\ a = d * (a \div d) + (a % d)
<1>1. a \div d \in Int
    OBVIOUS
<1>2. a % d \in 0 .. d - 1
    OBVIOUS
<1>3. a = d * (a \div d) + (a % d)
    OBVIOUS
<1> QED
    BY <1>1, <1>2, <1>3

LEMMA Multiples ==
    ASSUME NEW d \in Nat \ {0}, NEW i \in Int, NEW j \in Int
    PROVE  /\ d * i \in Int /\ d * (i + 1) = d * i + d
           /\ d * i < d * j => i < j
           /\ i <= j => d * i <= d * j
    OBVIOUS

LEMMA Quotient ==
    ASSUME NEW d \in Nat \ {0}, NEW q \in Int, NEW r \in 0 .. d - 1
    PROVE  (d * q + r) \div d = q /\ (d * q + r) % d = r
<1> DEFINE a == d * q + r
           p == a \div d
           s == a % d
<1>1. a \in Int /\ d * q \in Int
    BY Multiples
<1>2. p \in Int /\ s \in 0 .. d - 1 /\ a = d * p + s
    BY <1>1, Division
<1>3. d * q < d * (p + 1) /\ d * p < d * (q + 1)
  <2>1. d * (p + 1) = d * p + d /\ d * (q + 1) = d * q + d /\ d * p \in Int
    BY <1>2, Multiples
  <2>2. d * q + r = d * p + s
    BY <1>2
  <2> HIDE DEF p, s
  <2> QED
    BY <1>1, <1>2, <2>1, <2>2
<1> HIDE DEF p, s
<1>4. q < p + 1 /\ p < q + 1
    BY <1>2, <1>3, Multiples
<1>5. p = q
    BY <1>2, <1>4
<1> QED
    BY <1>1, <1>2, <1>5 DEF p, s

\* The day of a shift: the handoffs of this day and the next one enclose the moment.
LEMMA ShiftOf ==
    ASSUME Duty!DutyConstants, Duty!TypeOK, NEW moment \in Int
    PROVE  /\ Duty!Local(moment) \in Int /\ Duty!ShiftDay(moment) \in Int
           /\ handoff + DayLength * Duty!ShiftDay(moment) <= Duty!Local(moment)
           /\ Duty!Local(moment) < handoff + DayLength * (Duty!ShiftDay(moment) + 1)
<1> DEFINE l == Duty!Local(moment)
           d == l \div DayLength
           h == l % DayLength
<1>1. DayLength \in Nat \ {0} /\ Saving \in Nat /\ handoff \in 0 .. DayLength - 1
    BY DEF Duty!DutyConstants, Duty!TypeOK
<1>2. l \in Int
    BY <1>1 DEF Duty!Local
<1> HIDE DEF l
<1>3. d \in Int /\ h \in 0 .. DayLength - 1 /\ l = DayLength * d + h
    BY <1>1, <1>2, Division
<1>4. Duty!ShiftDay(moment) = IF h < handoff THEN d - 1 ELSE d
    BY DEF Duty!ShiftDay, Duty!LocalDate, Duty!LocalTime, l
<1> HIDE DEF d, h
<1>5. /\ DayLength * d \in Int /\ DayLength * (d + 1) = DayLength * d + DayLength
      /\ DayLength * (d - 1) \in Int
      /\ DayLength * ((d - 1) + 1) = DayLength * (d - 1) + DayLength
    BY <1>1, <1>3, Multiples
<1>6. (d - 1) + 1 = d
    BY <1>3
<1>7. CASE h < handoff
    BY <1>1, <1>3, <1>4, <1>5, <1>6, <1>7 DEF l
<1>8. CASE ~ h < handoff
    BY <1>1, <1>3, <1>4, <1>5, <1>8 DEF l
<1> QED
    BY <1>2, <1>7, <1>8, <1>3, <1>4 DEF l

\* In less than a day the shift changes once if the handoff hour comes, else not.
LEMMA Crossing ==
    ASSUME NEW d \in Nat \ {0}, NEW h \in 0 .. d - 1, NEW l \in Int, NEW m \in l .. l + d,
           NEW s \in Int, h + d * s <= l, l < h + d * (s + 1),
           NEW t \in Int, h + d * t <= m, m < h + d * (t + 1)
    PROVE  t = s + IF \E x \in l + 1 .. m : x % d = h THEN 1 ELSE 0
<1>1. /\ d * s \in Int /\ d * t \in Int
      /\ d * (s + 1) = d * s + d /\ d * (t + 1) = d * t + d
    BY Multiples
<1>2. d * (s + 2) = d * s + d + d
  <2>1. d * ((s + 1) + 1) = d * (s + 1) + d /\ (s + 1) + 1 = s + 2
    BY Multiples
  <2> QED
    BY <1>1, <2>1
<1>3. s < t + 1 /\ t < s + 2
  <2>1. d * s < d * (t + 1)
    BY <1>1
  <2>2. d * t < d * (s + 2)
    BY <1>1, <1>2
  <2> QED
    BY <2>1, <2>2, Multiples
<1>4. ASSUME t = s + 1
      PROVE  \E x \in l + 1 .. m : x % d = h
  <2> DEFINE x == d * t + h
  <2>1. x \in l + 1 .. m
    BY <1>1, <1>4
  <2>2. x % d = h
    BY Quotient
  <2> QED
    BY <2>1, <2>2
<1>5. ASSUME t = s, NEW x \in l + 1 .. m, x % d = h
      PROVE  FALSE
  <2> DEFINE j == x \div d
  <2>1. j \in Int /\ x = d * j + h
    BY <1>5, Division
  <2> HIDE DEF j
  <2>2. d * j \in Int
    BY <2>1, Multiples
  <2>3. d * s < d * j /\ d * j < d * (s + 1)
    BY <1>1, <1>5, <2>1, <2>2
  <2>4. s < j /\ j < s + 1
    BY <2>1, <2>3, Multiples
  <2> QED
    BY <2>1, <2>4
<1> QED
  <2>1. t = s \/ t = s + 1
    BY <1>3
  <2> DEFINE comes == \E x \in l + 1 .. m : x % d = h
  <2>2. CASE t = s
    <3>1. ~ comes
      BY <1>5, <2>2
    <3> HIDE DEF comes
    <3>2. t = s + IF comes THEN 1 ELSE 0
      BY <2>2, <3>1
    <3> QED
      BY <3>2 DEF comes
  <2>3. CASE t = s + 1
    <3>1. comes
      BY <1>4, <2>3
    <3> HIDE DEF comes
    <3>2. t = s + IF comes THEN 1 ELSE 0
      BY <2>3, <3>1
    <3> QED
      BY <3>2 DEF comes
  <2> QED
    BY <2>1, <2>2, <2>3

\* On paper and by the calendar the same number of days have gone by, unless the
\* handoff comes twice.
DaysAgree ==
    ~ Duty!HandoffRepeated =>
        Duty!ShiftDay(slot) - Duty!ShiftDay(startAt) = period * turn + (period - daysLeft)

DutyInv ==
    /\ Duty!TypeOK /\ spring < autumn /\ daysLeft \in 1 .. period
    /\ DaysAgree

LEMMA DutyNumbers ==
    ASSUME Duty!DutyConstants, Duty!TypeOK
    PROVE  /\ slot \in Int /\ spring \in Int /\ autumn \in Int /\ startAt \in Int
           /\ period \in 1 .. 365 /\ handoff \in 0 .. DayLength - 1
           /\ DayLength \in Nat \ {0} /\ Saving \in 0 .. DayLength - 1
           /\ turn \in Int /\ daysLeft \in Int
    BY DEF Duty!DutyConstants, Duty!TypeOK, Duty!Slots, Duty!Max

\* A slot goes by: the calendar ticks a day off when the wall clock does.
LEMMA DayTicks ==
    ASSUME Duty!DutyConstants, Duty!TypeOK, spring < autumn, ~ Duty!HandoffRepeated
    PROVE  Duty!ShiftDay(slot + 1) = Duty!ShiftDay(slot) + IF Duty!HandsOff THEN 1 ELSE 0
<1> DEFINE l == Duty!Local(slot)
           m == Duty!Local(slot + 1)
           s == Duty!ShiftDay(slot)
           t == Duty!ShiftDay(slot + 1)
<1>1. /\ l \in Int /\ s \in Int
      /\ handoff + DayLength * s <= l /\ l < handoff + DayLength * (s + 1)
      /\ m \in Int /\ t \in Int
      /\ handoff + DayLength * t <= m /\ m < handoff + DayLength * (t + 1)
    BY DutyNumbers, ShiftOf
<1>2. Duty!HandsOff <=> \E x \in l + 1 .. m : x % DayLength = handoff
    BY DEF Duty!HandsOff
<1>3. CASE slot + 1 # autumn \/ Saving = 0
  <2>1. m \in l .. l + DayLength
    BY <1>3, DutyNumbers DEF Duty!Local
  <2> HIDE DEF l, m, s, t
  <2>2. t = s + IF \E x \in l + 1 .. m : x % DayLength = handoff THEN 1 ELSE 0
    BY <1>1, <2>1, DutyNumbers, Crossing
  <2> QED
    BY <1>2, <2>2 DEF s, t
<1>4. CASE slot + 1 = autumn /\ Saving # 0
  <2>1. m = autumn /\ l = autumn - 1 + Saving
    BY <1>4, DutyNumbers DEF Duty!Local
  <2>2. ~ Duty!HandsOff
    BY <1>2, <1>4, <2>1, DutyNumbers
  <2>3. ~ \E x \in m + 1 .. l : x % DayLength = handoff
    <3>1. Duty!Local(autumn) = m /\ Duty!Local(autumn - 1) = l
      BY <1>4, DutyNumbers
    <3> QED
      BY <3>1 DEF Duty!HandoffRepeated
  <2>4. l \in m .. m + DayLength
    BY <1>4, <2>1, DutyNumbers
  <2> HIDE DEF l, m, s, t
  <2>5. s = t + IF \E x \in m + 1 .. l : x % DayLength = handoff THEN 1 ELSE 0
    BY <1>1, <2>4, DutyNumbers, Crossing
  <2> QED
    BY <1>1, <2>2, <2>3, <2>5 DEF s, t
<1> QED
    BY <1>3, <1>4

LEMMA LongestPeriod ==
    ASSUME Duty!DutyConstants, NEW p \in Periods
    PROVE  p \in Nat \ {0} /\ Duty!Max(Periods) \in Nat /\ p <= Duty!Max(Periods)
<1> DEFINE gaps == {365 - x : x \in Periods}
<1>1. Periods \subseteq 1 .. 365
    BY DEF Duty!DutyConstants
<1>2. gaps \in SUBSET Nat /\ gaps # {}
    BY <1>1
<1>3. PICK g \in gaps : \A k \in gaps : g <= k
  <2> HIDE DEF gaps
  <2> QED
    BY <1>2, LeastNumber
<1>4. \E x \in Periods : \A y \in Periods : x >= y
  <2>1. PICK x \in Periods : g = 365 - x
    BY <1>3
  <2>2. \A y \in Periods : 365 - y \in gaps
    OBVIOUS
  <2>3. \A y \in Periods : 365 - x <= 365 - y
    BY <1>3, <2>1, <2>2
  <2> QED
    BY <1>1, <2>3
<1>5. Duty!Max(Periods) \in Periods /\ \A y \in Periods : Duty!Max(Periods) >= y
    BY <1>4 DEF Duty!Max
<1> DEFINE longest == Duty!Max(Periods)
<1> HIDE DEF longest
<1>6. longest \in Periods /\ longest >= p
    BY <1>5 DEF longest
<1>7. longest \in Nat /\ p \in Nat \ {0} /\ p <= longest
    BY <1>1, <1>6
<1> QED
    BY <1>7 DEF longest

LEMMA DutyInit ==
    ASSUME Duty!DutyConstants, Duty!Init
    PROVE  DutyInv
<1> DEFINE a == Duty!ShiftDay(0) - Duty!ShiftDay(startAt)
           r == a % period
<1>1. /\ spring \in Int /\ autumn \in Int /\ startAt \in Int /\ period \in 1 .. 365
      /\ handoff \in 0 .. DayLength - 1 /\ DayLength \in Nat \ {0} /\ Saving \in Nat
    BY DEF Duty!Init, Duty!DutyConstants
<1>2. a \in Int
  <2>1. \A moment \in Int : Duty!ShiftDay(moment) \in Int
    <3>1. \A moment \in Int : Duty!Local(moment) \in Int
      BY <1>1 DEF Duty!Local
    <3>2. \A moment \in Int : Duty!Local(moment) \div DayLength \in Int
      BY <1>1, <3>1, Division
    <3> QED
      BY <3>2 DEF Duty!ShiftDay, Duty!LocalDate
  <2> QED
    BY <1>1, <2>1
<1>3. turn = a \div period /\ daysLeft = period - r
    BY DEF Duty!Init, Duty!ShiftIndex
<1> HIDE DEF a
<1>4. turn \in Int /\ r \in 0 .. period - 1 /\ a = period * turn + r
    BY <1>1, <1>2, <1>3, Division
<1> HIDE DEF r
<1>5. daysLeft \in 1 .. period /\ r = period - daysLeft
    BY <1>1, <1>3, <1>4
<1>6. daysLeft \in 1 .. Duty!Max(Periods)
    BY <1>5, LongestPeriod DEF Duty!Init
<1>7. Duty!TypeOK
    BY <1>4, <1>6 DEF Duty!Init, Duty!TypeOK, Duty!DutyConstants, Duty!Slots
<1>8. DaysAgree
    BY <1>4, <1>5 DEF DaysAgree, a, Duty!Init
<1> QED
    BY <1>5, <1>7, <1>8 DEF DutyInv, Duty!Init

LEMMA OverrideRemoved ==
    ASSUME NEW S, NEW s \in Seq(S), NEW k \in DOMAIN s
    PROVE  Duty!RemoveAt(s, k) \in Seq(S)
    BY DEF Duty!RemoveAt

LEMMA DutyStep ==
    ASSUME Duty!DutyConstants, DutyInv, [Duty!Next]_Duty!vars
    PROVE  DutyInv'
<1>a. Duty!TypeOK /\ spring < autumn /\ daysLeft \in 1 .. period
    BY DEF DutyInv
<1>b. /\ MaxPeople \in Nat /\ LastSlot \in Nat /\ MaxOverrides \in Nat
      /\ period \in Periods /\ daysLeft \in 1 .. Duty!Max(Periods)
    BY <1>a DEF Duty!DutyConstants, Duty!TypeOK
<1>c. ASSUME UNCHANGED <<slot, spring, autumn, handoff, startAt, period, turn, daysLeft>>,
             Duty!TypeOK'
      PROVE  DutyInv'
    BY <1>c DEF DutyInv, DaysAgree, Duty!HandoffRepeated, Duty!ShiftDay, Duty!LocalDate,
                Duty!LocalTime, Duty!Local
<1> USE DEF Duty!zone, Duty!shape
<1>1. CASE Duty!Advance
  <2>1. /\ UNCHANGED <<spring, autumn, handoff, startAt, period>>
        /\ slot' = slot + 1 /\ slot' \in Duty!Slots
    BY <1>1, <1>a, <1>b DEF Duty!Advance, Duty!TypeOK, Duty!Slots
  <2>2. /\ daysLeft' = IF Duty!HandsOff THEN IF daysLeft = 1 THEN period ELSE daysLeft - 1
                       ELSE daysLeft
        /\ turn' = IF Duty!HandsOff /\ daysLeft = 1 THEN turn + 1 ELSE turn
    BY <1>1 DEF Duty!Advance
  <2>3. daysLeft' \in 1 .. period /\ turn' \in Int /\ period' = period
    BY <1>a, <2>1, <2>2, DutyNumbers
  <2>4. Duty!TypeOK'
    <3>1. daysLeft' \in 1 .. Duty!Max(Periods)
      BY <1>b, <2>3, LongestPeriod
    <3> QED
      BY <1>1, <1>a, <2>1, <2>3, <3>1 DEF Duty!Advance, Duty!TypeOK
  <2>5. DaysAgree'
    <3>1. SUFFICES ASSUME ~ Duty!HandoffRepeated
                   PROVE  Duty!ShiftDay(slot') - Duty!ShiftDay(startAt)
                                = period * turn' + (period - daysLeft')
      BY <2>1 DEF DaysAgree, Duty!HandoffRepeated, Duty!ShiftDay, Duty!LocalDate,
                  Duty!LocalTime, Duty!Local
    <3>2. Duty!ShiftDay(slot') = Duty!ShiftDay(slot) + IF Duty!HandsOff THEN 1 ELSE 0
      BY <1>a, <2>1, <3>1, DayTicks
    <3>3. Duty!ShiftDay(slot) - Duty!ShiftDay(startAt) = period * turn + (period - daysLeft)
      BY <3>1 DEF DutyInv, DaysAgree
    <3>4. Duty!ShiftDay(slot) \in Int /\ Duty!ShiftDay(startAt) \in Int
      BY <1>a, DutyNumbers, ShiftOf
    <3>5. period \in Nat \ {0} /\ turn \in Int /\ daysLeft \in Int
      BY <1>a, DutyNumbers
    <3>6. period * turn \in Int /\ period * (turn + 1) = period * turn + period
      BY <3>5, Multiples
    <3> QED
      BY <2>2, <3>2, <3>3, <3>4, <3>5, <3>6
  <2> QED
    BY <1>a, <2>1, <2>3, <2>4, <2>5 DEF DutyInv
<1>2. CASE Duty!CreateOverride
  <2>1. overrides' \in Seq([user : 0 .. MaxPeople, from : Stations, to : Stations])
    BY <1>2, <1>a DEF Duty!CreateOverride, Duty!TypeOK
  <2> QED
    BY <1>2, <1>a, <1>b, <1>c, <2>1 DEF Duty!CreateOverride, Duty!TypeOK
<1>3. CASE Duty!DeleteOverride
  <2>1. overrides' \in Seq([user : 0 .. MaxPeople, from : Stations, to : Stations])
    BY <1>3, <1>a, OverrideRemoved DEF Duty!DeleteOverride, Duty!TypeOK
  <2> QED
    BY <1>3, <1>a, <1>c, <2>1 DEF Duty!DeleteOverride, Duty!TypeOK
<1>4. CASE Duty!ReplaceParticipants
    BY <1>4, <1>a, <1>b, <1>c DEF Duty!ReplaceParticipants, Duty!TypeOK
<1>5. CASE Duty!Toggle
    BY <1>5, <1>a, <1>c DEF Duty!Toggle, Duty!TypeOK
<1>6. CASE UNCHANGED Duty!vars
    BY <1>6, <1>a, <1>c DEF Duty!vars, Duty!TypeOK
<1> QED
    BY <1>1, <1>2, <1>3, <1>4, <1>5, <1>6 DEF Duty!Next

\* Who is on call is whose turn it is on paper.
LEMMA TurnTaken ==
    ASSUME Duty!DutyConstants, DutyInv
    PROVE  Duty!RotationAgrees
<1>1. SUFFICES ASSUME ~ Duty!HandoffRepeated
               PROVE  Duty!ShiftIndex(slot) = turn
    BY DEF Duty!RotationAgrees, Duty!OnCallUser
<1>2. Duty!ShiftDay(slot) - Duty!ShiftDay(startAt) = period * turn + (period - daysLeft)
    BY <1>1 DEF DutyInv, DaysAgree
<1>3. period \in Nat \ {0} /\ turn \in Int /\ period - daysLeft \in 0 .. period - 1
    BY DutyNumbers DEF DutyInv
<1> QED
    BY <1>2, <1>3, Quotient DEF Duty!ShiftIndex
-----------------------------------------------------------------------------
(* Discovery. *)

\* A monitor is linked by the row of its target, if there is one.
RowsLinked ==
    \A t \in Targets :
        /\ row[t] # Inventory!Absent => (row[t].linked <=> monitors[t] > 0)
        /\ row[t].status \in {"accepted", "orphaned"} => row[t].linked

\* What a push has loaded as accepted, or a review as linked, has a monitor, and
\* still has it when they write.
LoadedWatched ==
    \A t \in Targets :
        /\ \A p \in Runners : known[p][t].status = "accepted" => monitors[t] > 0
        /\ \A u \in Reviewers :
              review[u].target = t /\ review[u].loaded.linked => monitors[t] > 0

\* No two flushed pushes hold a row, and what one is going to write fits the
\* monitors and the row it holds.
PlanOf(p, t) ==
    /\ plan[p][t].linked <=> monitors[t] > 0
    /\ plan[p][t].status \in {"accepted", "orphaned"} => plan[p][t].linked
    /\ plan[p][t].status = "dismissed" => row[t].status = "dismissed"
    /\ /\ row[t].status = "dismissed" /\ plan[p][t].status # "dismissed"
       /\ known[p][t].status = "dismissed" /\ known[p][t].refused = row[t].refused
       => plan[p][t].nature \notin {Inventory!None, row[t].refused}
PlansFit ==
    \A p \in Runners, t \in Targets :
        push[p] = "flushed" /\ t \in Inventory!SeenBy(p) =>
            /\ PlanOf(p, t)
            /\ \A q \in Runners \ {p} :
                  push[q] = "flushed" => t \notin Inventory!SeenBy(q)

\* A single reviewer decides on what he has loaded.
ReviewsCurrent ==
    Cardinality(Reviewers) = 1 =>
        \A t \in Targets :
            /\ monitors[t] <= 1
            /\ \A u \in Reviewers : review[u].target = t =>
                  /\ ~ review[u].loaded.linked => monitors[t] = 0
                  /\ row[t].status # "dismissed"

InventoryInv ==
    Inventory!TypeOK /\ RowsLinked /\ LoadedWatched /\ PlansFit /\ ReviewsCurrent

LEMMA InventoryBasics ==
    ASSUME Inventory!InventoryConstants
    PROVE  /\ \A u, v \in Reviewers : Cardinality(Reviewers) = 1 => u = v
           /\ Cardinality(Reviewers) = Inventory!Cardinality(Reviewers)
           /\ Inventory!Absent \in Inventory!Rows /\ Inventory!Absent.status = "absent"
           /\ ~ Inventory!Absent.linked
           /\ Inventory!Nothing \in [Targets -> Inventory!NatureOrNone]
           /\ Inventory!NoRows \in [Targets -> Inventory!Rows]
<1>1. /\ \A S : Inventory!IsFiniteSet(S) <=> IsFiniteSet(S)
      /\ \A S : Inventory!Cardinality(S) = Cardinality(S)
    BY DEF Inventory!IsFiniteSet, IsFiniteSet, Inventory!Cardinality, Cardinality
<1>2. IsFiniteSet(Reviewers)
    BY <1>1 DEF Inventory!InventoryConstants
<1>3. \A u, v \in Reviewers : Cardinality(Reviewers) = 1 => u = v
  <2>1. Cardinality(Reviewers) = 1 => \E x : Reviewers = {x}
    BY <1>2, FS_Singleton
  <2> QED
    BY <2>1
<1>4. /\ Inventory!Absent \in Inventory!Rows /\ Inventory!Absent.status = "absent"
      /\ ~ Inventory!Absent.linked
    BY DEF Inventory!Absent, Inventory!Rows, Inventory!Statuses, Inventory!NatureOrNone
<1> QED
    BY <1>1, <1>3, <1>4 DEF Inventory!Nothing, Inventory!NoRows, Inventory!NatureOrNone

LEMMA InventoryInit ==
    ASSUME Inventory!InventoryConstants, Inventory!Init
    PROVE  InventoryInv
<1> USE DEF Inventory!Init
<1>1. Inventory!TypeOK
  <2>1. review \in [Reviewers -> [target : Targets \cup {Inventory!None}, loaded : Inventory!Rows]]
    BY InventoryBasics DEF Inventory!Idle
  <2>2. service \in [Targets -> Inventory!NatureOrNone] /\ monitors \in [Targets -> Nat]
    BY InventoryBasics
  <2> QED
    BY <2>1, <2>2, InventoryBasics DEF Inventory!TypeOK, Inventory!InventoryConstants
<1>2. RowsLinked /\ LoadedWatched
    BY InventoryBasics DEF RowsLinked, LoadedWatched, Inventory!NoRows, Inventory!Idle,
                           Inventory!InventoryConstants
<1>3. PlansFit
    BY DEF PlansFit
<1>4. ReviewsCurrent
    BY DEF ReviewsCurrent, Inventory!Idle, Inventory!InventoryConstants
<1> QED
    BY <1>1, <1>2, <1>3, <1>4 DEF InventoryInv

\* What the reconciliation of a seen target comes to.
LEMMA ReconciledFits ==
    ASSUME Inventory!InventoryConstants, InventoryInv, NEW p \in Runners, NEW t \in Targets,
           t \in Inventory!SeenBy(p), ~ Inventory!Outdated(p)
    PROVE  LET r == Inventory!Reconciled(p, t) IN
           /\ r \in Inventory!Rows
           /\ r.linked <=> monitors[t] > 0
           /\ r.status \in {"accepted", "orphaned"} => r.linked
           /\ r.status = "dismissed" => row[t].status = "dismissed"
           /\ /\ row[t].status = "dismissed" /\ r.status # "dismissed"
              /\ known[p][t].status = "dismissed" /\ known[p][t].refused = row[t].refused
              => r.nature \notin {Inventory!None, row[t].refused}
<1> DEFINE new == known[p][t] = Inventory!Absent
           proposed == [Inventory!Absent EXCEPT !.status = "proposed"]
           old == IF new THEN proposed ELSE row[t]
           loaded == IF new THEN proposed ELSE known[p][t]
           drifted == old.status = "dismissed" /\ loaded.refused # seen[p][t]
           again == drifted /\ loaded.status # "proposed"
           matched == monitors[t] > 0 /\ (old.status = "proposed" \/ again)
           accepted == /\ matched \/ old.status = "orphaned"
                       /\ again \/ loaded.status # "accepted"
           status == IF accepted THEN "accepted" ELSE IF again THEN "proposed" ELSE old.status
           refused == IF drifted /\ loaded.refused # Inventory!None THEN Inventory!None
                      ELSE old.refused
           linked == old.linked \/ matched
<1>1. Inventory!Reconciled(p, t) =
         [status |-> status, nature |-> seen[p][t], refused |-> refused, linked |-> linked]
    BY Zenon DEF Inventory!Reconciled
<1>2. /\ row[t] \in Inventory!Rows /\ known[p][t] \in Inventory!Rows
      /\ seen[p][t] \in Inventory!NatureOrNone /\ seen[p][t] # Inventory!None
    BY DEF InventoryInv, Inventory!TypeOK, Inventory!SeenBy
<1>3. new <=> row[t] = Inventory!Absent
    BY DEF Inventory!Outdated
<1>4. /\ proposed \in Inventory!Rows /\ proposed.status = "proposed" /\ ~ proposed.linked
      /\ proposed.refused = Inventory!None
    BY DEF Inventory!Absent, Inventory!Rows, Inventory!Statuses, Inventory!NatureOrNone
<1>5. old \in Inventory!Rows /\ loaded \in Inventory!Rows
    BY <1>2, <1>4
<1>6. /\ old.status \in Inventory!Statuses /\ old.refused \in Inventory!NatureOrNone
      /\ old.linked \in BOOLEAN
    BY <1>5 DEF Inventory!Rows
<1>7. /\ ~ new => (old.linked <=> monitors[t] > 0)
      /\ ~ new => (old.status \in {"accepted", "orphaned"} => old.linked)
      /\ ~ new => old = row[t] /\ loaded = known[p][t]
      /\ new => old = proposed
    BY <1>3 DEF InventoryInv, RowsLinked
<1>8. new => known[p][t].status # "dismissed"
    BY InventoryBasics
<1> HIDE DEF new, proposed, old, loaded
<1>9. linked <=> monitors[t] > 0
    BY <1>4, <1>6, <1>7
<1>10. status \in {"accepted", "orphaned"} => linked
    BY <1>4, <1>6, <1>7
<1>11. status = "dismissed" => row[t].status = "dismissed"
    BY <1>4, <1>7
<1>12. /\ row[t].status = "dismissed" /\ status # "dismissed"
       /\ known[p][t].status = "dismissed" /\ known[p][t].refused = row[t].refused
       => seen[p][t] \notin {Inventory!None, row[t].refused}
    BY <1>2, <1>7, <1>8
<1>13. status \in Inventory!Statuses /\ refused \in Inventory!NatureOrNone
    BY <1>6 DEF Inventory!Statuses, Inventory!NatureOrNone
<1>14. linked \in BOOLEAN
    BY <1>6
<1> HIDE DEF status, refused, linked
<1>15. [status |-> status, nature |-> seen[p][t], refused |-> refused, linked |-> linked]
            \in Inventory!Rows
    BY <1>2, <1>13, <1>14 DEF Inventory!Rows
<1> QED
    BY <1>1, <1>9, <1>10, <1>11, <1>12, <1>15

\* A push that ends forgets what it saw and loaded.
LEMMA FinishFacts ==
    ASSUME Inventory!InventoryConstants, Inventory!TypeOK, NEW p \in Runners, Inventory!Finish(p)
    PROVE  /\ push' \in [Runners -> {"idle", "scanned", "read", "flushed"}]
           /\ seen' \in [Runners -> [Targets -> Inventory!NatureOrNone]]
           /\ known' \in [Runners -> [Targets -> Inventory!Rows]]
           /\ plan' \in [Runners -> [Targets -> Inventory!Rows]]
           /\ push'[p] = "idle" /\ \A t \in Targets : known'[p][t].status = "absent"
           /\ \A q \in Runners \ {p} : /\ push'[q] = push[q] /\ seen'[q] = seen[q]
                                      /\ known'[q] = known[q] /\ plan'[q] = plan[q]
    BY InventoryBasics DEF Inventory!Finish, Inventory!TypeOK, Inventory!NoRows

\* The plans of the pushes that stay flushed still fit if their rows and monitors stay.
LEMMA PlansStay ==
    ASSUME PlansFit,
           \A q \in Runners : push'[q] = "flushed" =>
               /\ push[q] = "flushed" /\ seen'[q] = seen[q]
               /\ known'[q] = known[q] /\ plan'[q] = plan[q],
           \A q \in Runners, t \in Targets : push'[q] = "flushed" /\ t \in Inventory!SeenBy(q) =>
               row'[t] = row[t] /\ monitors'[t] = monitors[t]
    PROVE  PlansFit'
<1>1. \A q \in Runners : push'[q] = "flushed" => Inventory!SeenBy(q)' = Inventory!SeenBy(q)
    BY DEF Inventory!SeenBy
<1>2. ASSUME NEW q \in Runners, NEW t \in Targets, push'[q] = "flushed", t \in Inventory!SeenBy(q)
      PROVE  PlanOf(q, t)'
  <2>1. PlanOf(q, t) /\ plan'[q] = plan[q] /\ known'[q] = known[q]
    BY <1>2 DEF PlansFit
  <2>2. row'[t] = row[t] /\ monitors'[t] = monitors[t]
    BY <1>2
  <2> QED
    BY <2>1, <2>2 DEF PlanOf
<1>3. ASSUME NEW q \in Runners, NEW r \in Runners \ {q}, NEW t \in Targets, push'[q] = "flushed",
             push'[r] = "flushed", t \in Inventory!SeenBy(q)
      PROVE  t \notin Inventory!SeenBy(r)
    BY <1>3 DEF PlansFit
<1> QED
    BY <1>1, <1>2, <1>3 DEF PlansFit

\* Who reads rows and writes none: the rows, the monitors and the reviews stay.
LEMMA PushReads ==
    ASSUME Inventory!InventoryConstants, InventoryInv, NEW p \in Runners,
           Inventory!Scan(p) \/ Inventory!ReadExisting(p) \/ Inventory!PushFails(p)
    PROVE  InventoryInv'
<1>a. Inventory!TypeOK /\ RowsLinked /\ LoadedWatched /\ PlansFit
    BY DEF InventoryInv
<1>1. /\ UNCHANGED <<row, monitors, review, reviews, service, view, changes>>
      /\ push' \in [Runners -> {"idle", "scanned", "read", "flushed"}]
      /\ seen' \in [Runners -> [Targets -> Inventory!NatureOrNone]]
      /\ known' \in [Runners -> [Targets -> Inventory!Rows]]
      /\ plan' \in [Runners -> [Targets -> Inventory!Rows]]
      /\ push'[p] # "flushed"
      /\ \A t \in Targets : known'[p][t].status = "accepted" => monitors[t] > 0
      /\ \A q \in Runners \ {p} : /\ push'[q] = push[q] /\ seen'[q] = seen[q]
                                 /\ known'[q] = known[q] /\ plan'[q] = plan[q]
  <2> USE DEF Inventory!world, Inventory!reviewing
  <2>1. CASE Inventory!Scan(p)
    <3>1. [t \in Targets |-> IF t \in view[p] THEN service[t] ELSE Inventory!None]
                \in [Targets -> Inventory!NatureOrNone]
      BY <1>a DEF Inventory!TypeOK, Inventory!NatureOrNone
    <3> QED
      BY <1>a, <2>1, <3>1 DEF Inventory!Scan, Inventory!TypeOK, LoadedWatched
  <2>2. CASE Inventory!ReadExisting(p)
    <3> DEFINE r == [t \in Targets |-> IF t \in Inventory!SeenBy(p) THEN row[t]
                                       ELSE Inventory!Absent]
    <3>1. r \in [Targets -> Inventory!Rows]
      BY <1>a, InventoryBasics DEF Inventory!TypeOK
    <3>2. \A t \in Targets : r[t].status = "accepted" => monitors[t] > 0
      BY <1>a, InventoryBasics DEF RowsLinked
    <3>3. known' = [known EXCEPT ![p] = r]
      BY <2>2 DEF Inventory!ReadExisting
    <3> HIDE DEF r
    <3> QED
      BY <1>a, <2>2, <3>1, <3>2, <3>3 DEF Inventory!ReadExisting, Inventory!TypeOK
  <2>3. CASE Inventory!PushFails(p)
    BY <1>a, <2>3, FinishFacts DEF Inventory!PushFails
  <2> QED
    BY <2>1, <2>2, <2>3
<1>2. Inventory!TypeOK'
    BY <1>1, <1>a DEF Inventory!TypeOK
<1>3. RowsLinked'
    BY <1>1, <1>a DEF RowsLinked
<1>4. LoadedWatched'
    BY <1>1, <1>a DEF LoadedWatched
<1>5. PlansFit'
    BY <1>1, <1>a, PlansStay
<1>6. ReviewsCurrent'
    BY <1>1 DEF InventoryInv, ReviewsCurrent
<1> QED
    BY <1>2, <1>3, <1>4, <1>5, <1>6 DEF InventoryInv

LEMMA FlushFits ==
    ASSUME Inventory!InventoryConstants, InventoryInv, NEW p \in Runners, Inventory!Flush(p)
    PROVE  InventoryInv'
<1>a. Inventory!TypeOK /\ RowsLinked /\ LoadedWatched /\ PlansFit
    BY DEF InventoryInv
<1> DEFINE new == [t \in Targets |-> IF t \in Inventory!SeenBy(p) THEN Inventory!Reconciled(p, t)
                                     ELSE Inventory!Absent]
           now == [t \in Targets |-> IF t \in Inventory!SeenBy(p) THEN known[p][t] ELSE row[t]]
<1>1. /\ UNCHANGED <<row, monitors, review, reviews, service, view, changes, seen>>
      /\ push' = [push EXCEPT ![p] = "flushed"]
      /\ plan' = [plan EXCEPT ![p] = new] /\ known' = [known EXCEPT ![p] = now]
      /\ ~ Inventory!Outdated(p)
    BY Zenon DEF Inventory!Flush, Inventory!world, Inventory!reviewing
<1>2. /\ new \in [Targets -> Inventory!Rows] /\ now \in [Targets -> Inventory!Rows]
  <2>1. \A t \in Targets : t \in Inventory!SeenBy(p) =>
                              Inventory!Reconciled(p, t) \in Inventory!Rows
    BY <1>1, ReconciledFits
  <2> QED
    BY <1>a, <2>1, InventoryBasics DEF Inventory!TypeOK
<1>3. \A t \in Targets : now[t].status = "accepted" => monitors[t] > 0
  <2>1. ASSUME NEW t \in Targets, row[t].status = "accepted"
        PROVE  monitors[t] > 0
    BY <1>a, <2>1, InventoryBasics DEF RowsLinked
  <2> QED
    BY <1>a, <2>1 DEF LoadedWatched
<1>4. \A t \in Inventory!SeenBy(p) :
          new[t] = Inventory!Reconciled(p, t) /\ now[t] = known[p][t] /\ t \in Targets
    BY DEF Inventory!SeenBy
<1> HIDE DEF new, now
<1>5. /\ push'[p] = "flushed" /\ plan'[p] = new /\ known'[p] = now
      /\ \A q \in Runners \ {p} : /\ push'[q] = push[q]
                                 /\ known'[q] = known[q] /\ plan'[q] = plan[q]
    BY <1>1, <1>a DEF Inventory!TypeOK
<1>6. Inventory!TypeOK'
    BY <1>1, <1>2, <1>a DEF Inventory!TypeOK
<1>7. RowsLinked'
    BY <1>1, <1>a DEF RowsLinked
<1>8. LoadedWatched'
    BY <1>1, <1>3, <1>5, <1>a DEF LoadedWatched
<1>9. PlansFit'
  <2>1. \A q \in Runners : Inventory!SeenBy(q)' = Inventory!SeenBy(q)
    BY <1>1 DEF Inventory!SeenBy
  <2>2. ASSUME NEW q \in Runners \ {p}, push[q] = "flushed"
        PROVE  Inventory!SeenBy(p) \cap Inventory!SeenBy(q) = {}
    BY <2>2 DEF Inventory!Flush, Inventory!LockedForOthers, Inventory!LockedBy
  <2>3. ASSUME NEW t \in Inventory!SeenBy(p)
        PROVE  PlanOf(p, t)'
    BY <1>1, <1>4, <1>5, ReconciledFits DEF PlanOf
  <2>4. ASSUME NEW q \in Runners \ {p}, NEW t \in Targets, push[q] = "flushed",
               t \in Inventory!SeenBy(q)
        PROVE  PlanOf(q, t)'
    BY <1>1, <1>5, <1>a, <2>4 DEF PlansFit, PlanOf
  <2> QED
    BY <1>5, <1>a, <2>1, <2>2, <2>3, <2>4 DEF PlansFit
<1>10. ReviewsCurrent'
    BY <1>1 DEF InventoryInv, ReviewsCurrent
<1> QED
    BY <1>6, <1>7, <1>8, <1>9, <1>10 DEF InventoryInv

\* A row after the writes of a push.
Written(p, t) ==
    IF t \in Inventory!SeenBy(p) THEN plan[p][t]
    ELSE IF t \in Inventory!Dropped(p) THEN Inventory!Absent
    ELSE IF t \in Inventory!Missing(p) THEN [row[t] EXCEPT !.status = "orphaned"]
    ELSE row[t]

LEMMA CommitFits ==
    ASSUME Inventory!InventoryConstants, InventoryInv, NEW p \in Runners, Inventory!CommitPush(p)
    PROVE  InventoryInv'
<1>a. Inventory!TypeOK /\ RowsLinked /\ LoadedWatched /\ PlansFit
    BY DEF InventoryInv
<1>1. /\ UNCHANGED <<monitors, review, reviews, service, view, changes>>
      /\ Inventory!Finish(p) /\ push[p] = "flushed"
    BY DEF Inventory!CommitPush, Inventory!world, Inventory!reviewing
<1>2. row' = [t \in Targets |-> Written(p, t)]
    BY Zenon DEF Inventory!CommitPush, Written
<1>3. ASSUME NEW t \in Targets
      PROVE  /\ row'[t] \in Inventory!Rows
             /\ row'[t] # Inventory!Absent => (row'[t].linked <=> monitors[t] > 0)
             /\ row'[t].status \in {"accepted", "orphaned"} => row'[t].linked
             /\ row'[t].status = "dismissed" => row[t].status = "dismissed"
             /\ \A q \in Runners \ {p} :
                   push[q] = "flushed" /\ t \in Inventory!SeenBy(q) => row'[t] = row[t]
  <2>1. row'[t] = Written(p, t)
    BY <1>2
  <2>2. ASSUME NEW q \in Runners \ {p}, push[q] = "flushed", t \in Inventory!SeenBy(q)
        PROVE  row'[t] = row[t]
    <3>1. t \notin Inventory!SeenBy(p)
      BY <1>1, <1>a, <2>2 DEF PlansFit
    <3>2. t \notin Inventory!Missing(p)
      BY <2>2 DEF Inventory!CommitPush, Inventory!LockedForOthers, Inventory!LockedBy
    <3> QED
      BY <2>1, <3>1, <3>2 DEF Written, Inventory!Dropped
  <2>3. CASE t \in Inventory!SeenBy(p)
    BY <1>1, <1>a, <2>1, <2>2, <2>3 DEF Written, PlansFit, PlanOf, Inventory!TypeOK
  <2>4. CASE t \notin Inventory!SeenBy(p) /\ t \in Inventory!Dropped(p)
    BY <2>1, <2>2, <2>4, InventoryBasics DEF Written
  <2>5. CASE t \notin Inventory!SeenBy(p) /\ t \in Inventory!Missing(p) \ Inventory!Dropped(p)
    <3>1. row'[t] = [row[t] EXCEPT !.status = "orphaned"]
      BY <2>1, <2>5 DEF Written
    <3>2. known[p][t].status = "accepted"
      BY <2>5 DEF Inventory!Missing, Inventory!Dropped
    <3>3. row[t] # Inventory!Absent
      BY <2>5 DEF Inventory!CommitPush, Inventory!Vanished
    <3>4. row[t].linked /\ monitors[t] > 0
      BY <1>a, <3>2, <3>3 DEF RowsLinked, LoadedWatched
    <3>5. row[t] \in Inventory!Rows
      BY <1>a DEF Inventory!TypeOK
    <3>6. /\ row'[t] \in Inventory!Rows /\ row'[t].status = "orphaned"
          /\ row'[t].linked = row[t].linked
      BY <3>1, <3>5 DEF Inventory!Rows, Inventory!Statuses
    <3> QED
      BY <2>2, <3>4, <3>6
  <2>6. CASE t \notin Inventory!SeenBy(p) /\ t \notin Inventory!Missing(p)
    <3>1. row'[t] = row[t]
      BY <2>1, <2>6 DEF Written, Inventory!Dropped
    <3> QED
      BY <1>a, <3>1 DEF RowsLinked, Inventory!TypeOK
  <2> QED
    BY <2>2, <2>3, <2>4, <2>5, <2>6
<1>4. row' \in [Targets -> Inventory!Rows]
    BY <1>2, <1>3
<1>5. Inventory!TypeOK'
    BY <1>1, <1>4, <1>a, FinishFacts DEF Inventory!TypeOK
<1>6. RowsLinked'
    BY <1>1, <1>3 DEF RowsLinked
<1>7. LoadedWatched'
  <2>1. ASSUME NEW q \in Runners, NEW t \in Targets, known'[q][t].status = "accepted"
        PROVE  monitors[t] > 0
    <3>1. q # p /\ known'[q] = known[q]
      BY <1>1, <1>a, <2>1, FinishFacts
    <3> QED
      BY <2>1, <3>1, <1>a DEF LoadedWatched
  <2> QED
    BY <1>1, <1>a, <2>1 DEF LoadedWatched
<1>8. PlansFit'
  <2>1. \A q \in Runners : push'[q] = "flushed" =>
            /\ q # p /\ push[q] = "flushed" /\ seen'[q] = seen[q]
            /\ known'[q] = known[q] /\ plan'[q] = plan[q]
    BY <1>1, <1>a, FinishFacts
  <2>2. \A q \in Runners, t \in Targets : push'[q] = "flushed" /\ t \in Inventory!SeenBy(q) =>
            row'[t] = row[t] /\ monitors'[t] = monitors[t]
    BY <1>1, <1>3, <2>1
  <2> QED
    BY <1>a, <2>1, <2>2, PlansStay
<1>9. ReviewsCurrent'
    BY <1>1, <1>3 DEF InventoryInv, ReviewsCurrent
<1> QED
    BY <1>5, <1>6, <1>7, <1>8, <1>9 DEF InventoryInv

\* What a verdict on one target may do to its row and its monitors.
LEMMA VerdictFits ==
    ASSUME Inventory!InventoryConstants, InventoryInv, NEW u \in Reviewers, NEW t \in Targets,
           Inventory!Verdict(u, t),
           row' \in [Targets -> Inventory!Rows], monitors' \in [Targets -> Nat],
           \A s \in Targets \ {t} : row'[s] = row[s] /\ monitors'[s] = monitors[s],
           monitors'[t] >= monitors[t], Cardinality(Reviewers) = 1 => monitors'[t] <= 1,
           row'[t] # Inventory!Absent => (row'[t].linked <=> monitors'[t] > 0),
           row'[t].status \in {"accepted", "orphaned"} => row'[t].linked
    PROVE  InventoryInv'
<1>a. Inventory!TypeOK /\ RowsLinked /\ LoadedWatched /\ PlansFit /\ ReviewsCurrent
    BY DEF InventoryInv
<1>b. Inventory!None \notin Targets
    BY DEF Inventory!InventoryConstants
<1>1. /\ UNCHANGED <<service, view, changes, push, seen, known, plan, reviews>>
      /\ review[u].target = t /\ review' = [review EXCEPT ![u] = Inventory!Idle]
      /\ \A p \in Runners : push[p] = "flushed" => t \notin Inventory!SeenBy(p)
    BY DEF Inventory!Verdict, Inventory!LockedBy, Inventory!world
<1>2. /\ review' \in [Reviewers -> [target : Targets \cup {Inventory!None}, loaded : Inventory!Rows]]
      /\ review'[u].target = Inventory!None
      /\ \A v \in Reviewers \ {u} : review'[v] = review[v]
    BY <1>1, <1>a, InventoryBasics DEF Inventory!TypeOK, Inventory!Idle
<1>3. ASSUME NEW s \in Targets
      PROVE  monitors[s] \in Nat /\ monitors'[s] \in Nat /\ monitors'[s] >= monitors[s]
  <2>1. monitors[s] \in Nat /\ monitors'[s] \in Nat
    BY <1>a DEF Inventory!TypeOK
  <2> QED
    BY <2>1
<1>4. Inventory!TypeOK'
    BY <1>1, <1>2, <1>a DEF Inventory!TypeOK
<1>5. RowsLinked'
    BY <1>a DEF RowsLinked
<1>6. LoadedWatched'
    BY <1>1, <1>2, <1>3, <1>a, <1>b DEF LoadedWatched
<1>7. PlansFit'
    BY <1>1, <1>a, PlansStay
<1>8. ReviewsCurrent'
    BY <1>1, <1>2, <1>a, <1>b, InventoryBasics DEF ReviewsCurrent
<1> QED
    BY <1>4, <1>5, <1>6, <1>7, <1>8 DEF InventoryInv

LEMMA ReviewFits ==
    ASSUME Inventory!InventoryConstants, InventoryInv, NEW u \in Reviewers,
           \/ \E t \in Targets : Inventory!LoadReview(u, t)
           \/ Inventory!Accept(u) \/ Inventory!Dismiss(u) \/ Inventory!ReviewFails(u)
    PROVE  InventoryInv'
<1>a. Inventory!TypeOK /\ RowsLinked /\ LoadedWatched /\ PlansFit /\ ReviewsCurrent
    BY DEF InventoryInv
<1>b. Inventory!None \notin Targets
    BY DEF Inventory!InventoryConstants
<1>1. ASSUME NEW t \in Targets, Inventory!LoadReview(u, t)
      PROVE  InventoryInv'
  <2>1. /\ UNCHANGED <<row, monitors, service, view, changes, push, seen, known, plan>>
        /\ review' = [review EXCEPT ![u] = [target |-> t, loaded |-> row[t]]]
        /\ reviews' = reviews + 1 /\ reviews < MaxReviews
        /\ row[t].status \in {"proposed", "orphaned"}
    BY <1>1 DEF Inventory!LoadReview, Inventory!world
  <2>2. /\ review' \in [Reviewers -> [target : Targets \cup {Inventory!None}, loaded : Inventory!Rows]]
        /\ review'[u].target = t /\ review'[u].loaded = row[t]
        /\ \A v \in Reviewers \ {u} : review'[v] = review[v]
    BY <2>1, <1>a DEF Inventory!TypeOK
  <2>3. row[t].linked <=> monitors[t] > 0
    BY <2>1, <1>a, InventoryBasics DEF RowsLinked
  <2>4. monitors \in [Targets -> Nat] /\ reviews' \in 0 .. MaxReviews
    BY <2>1, <1>a DEF Inventory!TypeOK, Inventory!InventoryConstants
  <2>5. Inventory!TypeOK'
    BY <2>1, <2>2, <2>4, <1>a DEF Inventory!TypeOK
  <2>6. RowsLinked'
    BY <2>1, <1>a DEF RowsLinked
  <2>7. LoadedWatched'
    BY <2>1, <2>2, <2>3, <1>a DEF LoadedWatched
  <2>8. PlansFit'
    BY <2>1, <1>a, PlansStay
  <2>9. ReviewsCurrent'
    BY <2>1, <2>2, <2>3, <2>4, <1>a, InventoryBasics DEF ReviewsCurrent
  <2> QED
    BY <2>5, <2>6, <2>7, <2>8, <2>9 DEF InventoryInv
<1>2. ASSUME NEW t \in Targets, Inventory!Verdict(u, t), row[t] # Inventory!Absent,
             row' = [row EXCEPT ![t].status = "accepted", ![t].linked = TRUE],
             monitors' = IF review[u].loaded.linked THEN monitors
                         ELSE [monitors EXCEPT ![t] = @ + 1]
      PROVE  InventoryInv'
  <2>1. /\ row \in [Targets -> Inventory!Rows] /\ monitors \in [Targets -> Nat]
        /\ review[u].target = t
    BY <1>2, <1>a DEF Inventory!TypeOK, Inventory!Verdict
  <2>r. /\ row' = [row EXCEPT ![t] = [row[t] EXCEPT !.status = "accepted", !.linked = TRUE]]
        /\ row[t] \in Inventory!Rows
    BY <1>2, <2>1
  <2>s. /\ [row[t] EXCEPT !.status = "accepted", !.linked = TRUE] \in Inventory!Rows
        /\ [row[t] EXCEPT !.status = "accepted", !.linked = TRUE].linked
    BY <2>r DEF Inventory!Rows, Inventory!Statuses
  <2>2. /\ row' \in [Targets -> Inventory!Rows] /\ row'[t].linked
        /\ \A s \in Targets \ {t} : row'[s] = row[s]
    BY <2>1, <2>r, <2>s
  <2>3. /\ monitors' \in [Targets -> Nat] /\ monitors'[t] >= monitors[t]
        /\ \A s \in Targets \ {t} : monitors'[s] = monitors[s]
    BY <1>2, <2>1
  <2>4. monitors'[t] > 0
    BY <1>2, <2>1, <1>a DEF LoadedWatched
  <2>5. Cardinality(Reviewers) = 1 => monitors'[t] <= 1
    BY <1>2, <2>1, <1>a DEF ReviewsCurrent
  <2> QED
    BY <1>2, <2>2, <2>3, <2>4, <2>5, VerdictFits
<1>3. ASSUME NEW t \in Targets, Inventory!Verdict(u, t), row[t] # Inventory!Absent,
             row' = [row EXCEPT ![t].status = "dismissed",
                                ![t].refused = review[u].loaded.nature],
             monitors' = monitors
      PROVE  InventoryInv'
  <2>1. /\ row \in [Targets -> Inventory!Rows] /\ monitors \in [Targets -> Nat]
        /\ review[u].loaded.nature \in Inventory!NatureOrNone
    BY <1>a DEF Inventory!TypeOK, Inventory!Rows
  <2>2. /\ row' \in [Targets -> Inventory!Rows] /\ row'[t].linked = row[t].linked
        /\ row'[t].status = "dismissed"
        /\ \A s \in Targets \ {t} : row'[s] = row[s]
    BY <1>3, <2>1 DEF Inventory!Rows, Inventory!Statuses
  <2>3. Cardinality(Reviewers) = 1 => monitors'[t] <= 1
    BY <1>3, <1>a DEF ReviewsCurrent
  <2>4. row[t].linked <=> monitors[t] > 0
    BY <1>3, <1>a DEF RowsLinked
  <2>5. monitors[t] \in Nat
    BY <2>1
  <2> QED
    BY <1>3, <2>1, <2>2, <2>3, <2>4, <2>5, VerdictFits
<1>4. ASSUME NEW t \in Targets, Inventory!Verdict(u, t), row' = row, monitors' = monitors
      PROVE  InventoryInv'
  <2>1. /\ row \in [Targets -> Inventory!Rows] /\ monitors \in [Targets -> Nat]
        /\ monitors[t] \in Nat
    BY <1>a DEF Inventory!TypeOK
  <2>2. Cardinality(Reviewers) = 1 => monitors'[t] <= 1
    BY <1>4, <1>a DEF ReviewsCurrent
  <2>3. /\ row'[t] # Inventory!Absent => (row'[t].linked <=> monitors'[t] > 0)
        /\ row'[t].status \in {"accepted", "orphaned"} => row'[t].linked
    BY <1>4, <1>a DEF RowsLinked
  <2> QED
    BY <1>4, <2>1, <2>2, <2>3, VerdictFits
<1> QED
    BY <1>1, <1>2, <1>3, <1>4 DEF Inventory!Accept, Inventory!Dismiss, Inventory!ReviewFails

LEMMA InventoryStep ==
    ASSUME Inventory!InventoryConstants, InventoryInv, [Inventory!Next]_Inventory!vars
    PROVE  InventoryInv'
<1>1. CASE UNCHANGED Inventory!vars
  <2>1. InventoryInv' = InventoryInv
    BY <1>1 DEF Inventory!vars, InventoryInv, Inventory!TypeOK, RowsLinked, LoadedWatched,
                PlansFit, PlanOf, ReviewsCurrent, Inventory!SeenBy
  <2> QED
    BY <2>1
<1>2. ASSUME NEW t \in Targets, Inventory!ServiceChanges(t)
      PROVE  InventoryInv'
  <2>1. /\ UNCHANGED <<row, monitors, view, push, seen, known, plan, review, reviews>>
        /\ service' \in {[service EXCEPT ![t] = n] : n \in Inventory!NatureOrNone \ {service[t]}}
        /\ changes < MaxChanges /\ changes' = changes + 1
    BY <1>2 DEF Inventory!ServiceChanges, Inventory!reviewing
  <2>2. Inventory!TypeOK'
    BY <2>1 DEF InventoryInv, Inventory!TypeOK, Inventory!InventoryConstants
  <2>3. RowsLinked' /\ LoadedWatched' /\ ReviewsCurrent'
    BY <2>1 DEF InventoryInv, RowsLinked, LoadedWatched, ReviewsCurrent
  <2>4. PlansFit'
    BY <2>1, PlansStay DEF InventoryInv
  <2> QED
    BY <2>2, <2>3, <2>4 DEF InventoryInv
<1>3. ASSUME NEW p \in Runners, Inventory!Push(p)
      PROVE  InventoryInv'
    BY <1>3, PushReads, FlushFits, CommitFits DEF Inventory!Push
<1> QED
    BY <1>1, <1>2, <1>3, ReviewFits DEF Inventory!Next

LEMMA InventoryPromise ==
    ASSUME Inventory!InventoryConstants, InventoryInv
    PROVE  Inventory!InventoryAgrees
<1>1. Inventory!NoSecondMonitor
    BY InventoryBasics DEF InventoryInv, ReviewsCurrent, Inventory!NoSecondMonitor
<1>2. ASSUME NEW t \in Targets, row[t].status \in {"accepted", "orphaned"}
      PROVE  row[t].linked /\ monitors[t] > 0
    BY <1>2, InventoryBasics DEF InventoryInv, RowsLinked
<1> QED
    BY <1>1, <1>2 DEF Inventory!InventoryAgrees, Inventory!AcceptedLinked

\* The promise of RefusalKept for one target.
Refused(t) ==
    row[t].status = "dismissed" /\ row'[t].status # "dismissed"
    => \/ Inventory!Overtaken(t) \/ Inventory!Overruled(t)
       \/ row'[t].nature \notin {Inventory!None, row[t].refused}

LEMMA RefusalStep ==
    ASSUME Inventory!InventoryConstants, InventoryInv, [Inventory!Next]_Inventory!vars
    PROVE  [\A t \in Targets : Refused(t)]_Inventory!vars
<1> SUFFICES ASSUME NEW t \in Targets, row[t].status = "dismissed",
                    row'[t].status # "dismissed", Inventory!Next
             PROVE  \/ Inventory!Overtaken(t) \/ Inventory!Overruled(t)
                    \/ row'[t].nature \notin {Inventory!None, row[t].refused}
    BY DEF Refused, Inventory!vars
<1>a. Inventory!TypeOK /\ RowsLinked /\ LoadedWatched /\ PlansFit /\ ReviewsCurrent
    BY DEF InventoryInv
<1>1. row' # row
    OBVIOUS
<1>2. ASSUME NEW s \in Targets, Inventory!ServiceChanges(s)
      PROVE  FALSE
    BY <1>1, <1>2 DEF Inventory!ServiceChanges
<1>3. ASSUME NEW p \in Runners, Inventory!Push(p)
      PROVE  \/ Inventory!Overtaken(t)
             \/ row'[t].nature \notin {Inventory!None, row[t].refused}
  <2>1. Inventory!CommitPush(p)
    BY <1>1, <1>3 DEF Inventory!Push, Inventory!Scan, Inventory!ReadExisting, Inventory!Flush,
                      Inventory!PushFails
  <2>2. row'[t] = Written(p, t)
    BY <2>1, Zenon DEF Inventory!CommitPush, Written
  <2>3. push[p] = "flushed" /\ push'[p] = "idle"
    BY <2>1, <1>a, FinishFacts DEF Inventory!CommitPush
  <2> SUFFICES ASSUME ~ Inventory!Overtaken(t)
               PROVE  row'[t].nature \notin {Inventory!None, row[t].refused}
      OBVIOUS
  <2>4. known[p][t].status = "dismissed" /\ known[p][t].refused = row[t].refused
    BY <2>3 DEF Inventory!Overtaken
  <2>5. t \in Inventory!SeenBy(p) /\ row'[t] = plan[p][t]
    BY <2>2, <2>4 DEF Written, Inventory!Dropped, Inventory!Missing
  <2> QED
    BY <2>3, <2>4, <2>5, <1>a DEF PlansFit, PlanOf
<1>4. ASSUME NEW u \in Reviewers, NEW s \in Targets, Inventory!Verdict(u, s),
             \A r \in Targets \ {s} : row'[r] = row[r]
      PROVE  Inventory!Overruled(t)
  <2>1. s = t
    BY <1>4
  <2>2. review[u].target = t /\ review'[u] = Inventory!Idle
    BY <1>4, <2>1, <1>a DEF Inventory!Verdict, Inventory!TypeOK
  <2>3. Cardinality(Reviewers) # 1
    BY <2>2, <1>a DEF ReviewsCurrent
  <2> QED
    BY <2>2, <2>3, InventoryBasics DEF Inventory!Overruled
<1>5. ASSUME NEW u \in Reviewers, Inventory!Accept(u) \/ Inventory!Dismiss(u)
                                  \/ Inventory!ReviewFails(u)
      PROVE  Inventory!Overruled(t)
  <2>1. PICK s \in Targets : /\ Inventory!Verdict(u, s)
                             /\ \A r \in Targets \ {s} : row'[r] = row[r]
    BY <1>5, <1>a DEF Inventory!Accept, Inventory!Dismiss, Inventory!ReviewFails,
                      Inventory!TypeOK
  <2> QED
    BY <1>4, <2>1
<1>6. ASSUME NEW u \in Reviewers, NEW s \in Targets, Inventory!LoadReview(u, s)
      PROVE  FALSE
    BY <1>1, <1>6 DEF Inventory!LoadReview
<1> QED
    BY <1>2, <1>3, <1>5, <1>6 DEF Inventory!Next
-----------------------------------------------------------------------------
(* ConfigSync. *)

\* A row of a monitor once its group is one of groups, or none.
GroupIn(m, groups) == IF m.group \in groups THEN m.group ELSE Sync!None

LEMMA MonitorRow ==
    ASSUME NEW m \in Sync!MonitorRows
    PROVE  /\ m = [there |-> m.there, setting |-> m.setting, group |-> m.group]
           /\ m.there \in BOOLEAN /\ m.group \in Groups \cup {Sync!None}
           /\ m.there => m.setting \in Settings
           /\ ~ m.there => m = Sync!NoMonitor
<1>1. CASE m = Sync!NoMonitor
    BY <1>1 DEF Sync!NoMonitor
<1>2. CASE m \in [there : {TRUE}, setting : Settings, group : Groups \cup {Sync!None}]
    BY <1>2
<1> QED
    BY <1>1, <1>2 DEF Sync!MonitorRows

LEMMA SameRow ==
    ASSUME NEW a, NEW s, NEW t, NEW g, NEW h
    PROVE  [there |-> a, setting |-> s, group |-> g] = [there |-> a, setting |-> t, group |-> h]
               <=> s = t /\ g = h
<1>1. ASSUME [there |-> a, setting |-> s, group |-> g] = [there |-> a, setting |-> t, group |-> h]
      PROVE  s = t /\ g = h
  <2>1. /\ [there |-> a, setting |-> s, group |-> g].setting = s
        /\ [there |-> a, setting |-> t, group |-> h].setting = t
        /\ [there |-> a, setting |-> s, group |-> g].group = g
        /\ [there |-> a, setting |-> t, group |-> h].group = h
    OBVIOUS
  <2> QED
    BY <1>1, <2>1, Zenon
<1> QED
    BY <1>1

LEMMA RowOf ==
    ASSUME NEW s \in Settings, NEW g \in Groups \cup {Sync!None}
    PROVE  [there |-> TRUE, setting |-> s, group |-> g] \in Sync!MonitorRows
    BY DEF Sync!MonitorRows

LEMMA DetachedRow ==
    ASSUME NEW m \in Sync!MonitorRows, NEW groups \in SUBSET Groups
    PROVE  /\ Sync!Detached(m, groups) =
                  [there |-> m.there, setting |-> m.setting, group |-> GroupIn(m, groups)]
           /\ Sync!Detached(m, groups) \in Sync!MonitorRows
<1>1. Sync!Detached(m, groups) =
          [there |-> m.there, setting |-> m.setting, group |-> GroupIn(m, groups)]
    BY MonitorRow DEF Sync!Detached, GroupIn
<1>2. GroupIn(m, groups) \in Groups \cup {Sync!None}
    BY DEF GroupIn
<1>3. CASE m.there
    BY <1>1, <1>2, <1>3, MonitorRow, RowOf
<1>4. CASE ~ m.there
  <2>1. m = Sync!NoMonitor
    BY <1>4, MonitorRow
  <2>2. Sync!Detached(m, groups) = Sync!NoMonitor
    BY <1>1, <2>1 DEF GroupIn, Sync!NoMonitor
  <2> QED
    BY <1>1, <2>2 DEF Sync!MonitorRows
<1> QED
    BY <1>1, <1>3, <1>4, MonitorRow

\* A monitor after an import of a document: what it is, and that the next import of
\* the document leaves it alone.
LEMMA MonitorImported ==
    ASSUME Sync!ConfigConstants, NEW old \in Sync!MonitorRows, NEW new \in Sync!MonitorRows,
           NEW d, NEW prune \in BOOLEAN, NEW groups \in SUBSET Groups, d.groups \subseteq groups
    PROVE  LET after(m) == Sync!Detached(Sync!ImportMonitor(m, new, d, prune), groups)
               changed == \/ new.setting \notin {Default, old.setting}
                          \/ new.group \in d.groups \ {old.group}
           IN  /\ after(old) \in Sync!MonitorRows
               /\ after(old).group \in groups \cup {Sync!None}
               /\ after(old).there <=> new.there \/ (old.there /\ ~ prune)
               /\ after(after(old)) = after(old)
               /\ after(old).there /\ old.there =>
                      (new.there /\ changed <=> Sync!Detached(old, groups) # after(old))
<1> DEFINE after(m) == Sync!Detached(Sync!ImportMonitor(m, new, d, prune), groups)
           changed == \/ new.setting \notin {Default, old.setting}
                      \/ new.group \in d.groups \ {old.group}
           declared == IF new.group \in d.groups THEN new.group ELSE Sync!None
           setting(m) == IF new.setting = Default THEN m.setting ELSE new.setting
           group(m) == IF declared = Sync!None THEN m.group ELSE declared
<1>a. Sync!None \notin groups
    BY DEF Sync!ConfigConstants
<1>b. declared \in groups \cup {Sync!None} /\ declared \in Groups \cup {Sync!None}
    OBVIOUS
<1>1. ASSUME NEW m \in Sync!MonitorRows, new.there, m.there
      PROVE  /\ after(m) = [there |-> TRUE, setting |-> setting(m),
                            group |-> IF group(m) \in groups THEN group(m) ELSE Sync!None]
             /\ after(m) \in Sync!MonitorRows
  <2>1. Sync!ImportMonitor(m, new, d, prune) =
            [m EXCEPT !.setting = setting(m), !.group = group(m)]
    BY <1>1 DEF Sync!ImportMonitor
  <2>2. Sync!ImportMonitor(m, new, d, prune) =
            [there |-> TRUE, setting |-> setting(m), group |-> group(m)]
    BY <1>1, <2>1, MonitorRow
  <2>3. setting(m) \in Settings /\ group(m) \in Groups \cup {Sync!None}
    BY <1>1, <1>b, MonitorRow
  <2> HIDE DEF setting, group
  <2>4. Sync!ImportMonitor(m, new, d, prune) \in Sync!MonitorRows
    BY <2>2, <2>3, RowOf
  <2> DEFINE made == [there |-> TRUE, setting |-> setting(m), group |-> group(m)]
  <2>5. made.there = TRUE /\ made.setting = setting(m) /\ made.group = group(m)
    OBVIOUS
  <2> HIDE DEF made
  <2>6. /\ Sync!Detached(made, groups) = [there |-> TRUE, setting |-> setting(m),
                                          group |-> GroupIn(made, groups)]
        /\ Sync!Detached(made, groups) \in Sync!MonitorRows
    BY <2>2, <2>4, <2>5, DetachedRow DEF made
  <2> QED
    BY <2>2, <2>5, <2>6 DEF GroupIn, made
<1>2. ASSUME NEW m \in Sync!MonitorRows, new.there, ~ m.there
      PROVE  /\ after(m) = [there |-> TRUE, setting |-> new.setting, group |-> declared]
             /\ after(m) \in Sync!MonitorRows
  <2>1. Sync!ImportMonitor(m, new, d, prune) = [new EXCEPT !.group = declared]
    BY <1>2 DEF Sync!ImportMonitor
  <2>2. Sync!ImportMonitor(m, new, d, prune) =
            [there |-> TRUE, setting |-> new.setting, group |-> declared]
    BY <1>2, <2>1, MonitorRow
  <2>3. Sync!ImportMonitor(m, new, d, prune) \in Sync!MonitorRows
    BY <1>2, <1>b, <2>2, MonitorRow, RowOf
  <2>4. (IF declared \in groups THEN declared ELSE Sync!None) = declared
    BY <1>b
  <2> HIDE DEF declared
  <2> QED
    BY <2>2, <2>3, <2>4, DetachedRow DEF GroupIn
<1>3. ASSUME NEW m \in Sync!MonitorRows, ~ new.there, prune
      PROVE  after(m) = Sync!NoMonitor /\ after(m) \in Sync!MonitorRows
  <2>1. Sync!ImportMonitor(m, new, d, prune) = Sync!NoMonitor
    BY <1>3 DEF Sync!ImportMonitor
  <2>2. Sync!NoMonitor \in Sync!MonitorRows
    BY DEF Sync!MonitorRows
  <2> QED
    BY <2>1, <2>2, DetachedRow DEF GroupIn, Sync!NoMonitor
<1>4. ASSUME NEW m \in Sync!MonitorRows, ~ new.there, ~ prune
      PROVE  /\ after(m) = [there |-> m.there, setting |-> m.setting, group |-> GroupIn(m, groups)]
             /\ after(m) \in Sync!MonitorRows
  <2>1. Sync!ImportMonitor(m, new, d, prune) = m
    BY <1>4 DEF Sync!ImportMonitor
  <2> QED
    BY <2>1, DetachedRow
<1>5. after(old) \in Sync!MonitorRows
    BY <1>1, <1>2, <1>3, <1>4, MonitorRow
<1>6. /\ after(old).group \in groups \cup {Sync!None}
      /\ after(old).there <=> new.there \/ (old.there /\ ~ prune)
  <2>1. CASE new.there /\ old.there
    BY <1>1, <2>1
  <2>2. CASE new.there /\ ~ old.there
    BY <1>2, <1>b, <2>2
  <2>3. CASE ~ new.there /\ prune
    <3>1. after(old) = Sync!NoMonitor
      BY <1>3, <2>3
    <3>2. Sync!NoMonitor.group = Sync!None /\ Sync!NoMonitor.there = FALSE
      BY DEF Sync!NoMonitor
    <3> HIDE DEF after
    <3> QED
      BY <2>3, <3>1, <3>2
  <2>4. CASE ~ new.there /\ ~ prune
    BY <1>4, <2>4 DEF GroupIn
  <2> QED
    BY <2>1, <2>2, <2>3, <2>4, MonitorRow
<1>7. after(after(old)) = after(old)
  <2> DEFINE x == after(old)
  <2> SUFFICES after(x) = x
    OBVIOUS
  <2>1. CASE new.there /\ old.there
    <3>1. x = [there |-> TRUE, setting |-> setting(old),
               group |-> IF group(old) \in groups THEN group(old) ELSE Sync!None]
      BY <1>1, <2>1
    <3>2. after(x) = [there |-> TRUE, setting |-> setting(x),
                      group |-> IF group(x) \in groups THEN group(x) ELSE Sync!None]
      BY <1>1, <1>5, <1>6, <2>1
    <3>3. setting(x) = x.setting
      BY <3>1
    <3>4. (IF group(x) \in groups THEN group(x) ELSE Sync!None) = x.group
      BY <1>a, <1>b, <3>1
    <3> HIDE DEF x, after, setting, group
    <3> QED
      BY <3>1, <3>2, <3>3, <3>4
  <2>2. CASE new.there /\ ~ old.there
    <3>1. x = [there |-> TRUE, setting |-> new.setting, group |-> declared]
      BY <1>2, <2>2
    <3>2. after(x) = [there |-> TRUE, setting |-> setting(x),
                      group |-> IF group(x) \in groups THEN group(x) ELSE Sync!None]
      BY <1>1, <1>5, <1>6, <2>2
    <3>3. setting(x) = x.setting
      BY <3>1
    <3>4. (IF group(x) \in groups THEN group(x) ELSE Sync!None) = x.group
      BY <1>b, <3>1
    <3> HIDE DEF x, after, setting, group, declared
    <3> QED
      BY <3>1, <3>2, <3>3, <3>4
  <2>3. CASE ~ new.there /\ prune
    BY <1>3, <1>5, <2>3
  <2>4. CASE ~ new.there /\ ~ prune
    <3>1. x = [there |-> old.there, setting |-> old.setting, group |-> GroupIn(old, groups)]
      BY <1>4, <2>4
    <3>2. after(x) = [there |-> x.there, setting |-> x.setting, group |-> GroupIn(x, groups)]
      BY <1>4, <1>5, <2>4
    <3>3. GroupIn(x, groups) = x.group
      BY <3>1 DEF GroupIn
    <3> HIDE DEF x, after
    <3> QED
      BY <3>1, <3>2, <3>3
  <2> QED
    BY <2>1, <2>2, <2>3, <2>4, MonitorRow
<1>8. ASSUME after(old).there, old.there
      PROVE  new.there /\ changed <=> Sync!Detached(old, groups) # after(old)
  <2>1. Sync!Detached(old, groups) =
            [there |-> TRUE, setting |-> old.setting, group |-> GroupIn(old, groups)]
    BY <1>8, DetachedRow
  <2>2. CASE new.there
    <3>1. after(old) = [there |-> TRUE, setting |-> setting(old),
                        group |-> IF group(old) \in groups THEN group(old) ELSE Sync!None]
      BY <1>1, <1>8, <2>2
    <3>2. setting(old) = old.setting <=> ~ (new.setting \notin {Default, old.setting})
      OBVIOUS
    <3>3. (IF group(old) \in groups THEN group(old) ELSE Sync!None) = GroupIn(old, groups)
              <=> ~ (new.group \in d.groups \ {old.group})
      BY <1>a DEF GroupIn
    <3> DEFINE kept == IF group(old) \in groups THEN group(old) ELSE Sync!None
               s == setting(old)
               g == GroupIn(old, groups)
    <3>4. after(old) = [there |-> TRUE, setting |-> s, group |-> kept]
      BY <3>1
    <3>5. s = old.setting <=> ~ (new.setting \notin {Default, old.setting})
      BY <3>2
    <3>6. kept = g <=> ~ (new.group \in d.groups \ {old.group})
      BY <3>3
    <3> HIDE DEF after, s, kept
    <3>7. [there |-> TRUE, setting |-> s, group |-> kept]
            = [there |-> TRUE, setting |-> old.setting, group |-> g]
              <=> s = old.setting /\ kept = g
      BY SameRow
    <3> QED
      BY <2>1, <2>2, <3>4, <3>5, <3>6, <3>7
  <2>3. CASE ~ new.there
    <3>1. ~ prune
      BY <1>6, <1>8, <2>3
    <3>2. after(old) = [there |-> TRUE, setting |-> old.setting, group |-> GroupIn(old, groups)]
      BY <1>4, <1>8, <2>3, <3>1
    <3> QED
      BY <2>1, <2>3, <3>2
  <2> QED
    BY <2>2, <2>3
<1> QED
    BY <1>5, <1>6, <1>7, <1>8

\* A channel after an import, which the next import leaves alone too.
LEMMA ChannelImported ==
    ASSUME NEW old \in Sync!ChannelRows, NEW new \in Sync!ChannelRows, NEW prune \in BOOLEAN
    PROVE  LET after == Sync!ImportChannel(old, new, prune)
           IN  /\ after \in Sync!ChannelRows
               /\ after.there <=> new.there \/ (old.there /\ ~ prune)
               /\ Sync!ImportChannel(after, new, prune) = after
<1>1. /\ Sync!NoChannel \in Sync!ChannelRows /\ Sync!NoChannel.there = FALSE
      /\ old.there \in BOOLEAN /\ new.there \in BOOLEAN
  <2>1. Sync!NoChannel \in Sync!ChannelRows /\ Sync!NoChannel.there = FALSE
    BY DEF Sync!ChannelRows, Sync!NoChannel
  <2>2. ASSUME NEW x \in Sync!ChannelRows
        PROVE  x.there \in BOOLEAN
    <3>1. CASE x = Sync!NoChannel
      BY <2>1, <3>1
    <3>2. CASE x \in [there : {TRUE}, plain : BOOLEAN, secret : Sync!Secrets]
      BY <3>2
    <3> QED
      BY <3>1, <3>2 DEF Sync!ChannelRows
  <2> QED
    BY <2>1, <2>2
<1>2. CASE new.there /\ old.there /\ Sync!IsRedacted(new)
    BY <1>1, <1>2 DEF Sync!ImportChannel
<1>3. CASE new.there /\ ~ (old.there /\ Sync!IsRedacted(new))
    BY <1>1, <1>3 DEF Sync!ImportChannel
<1>4. CASE ~ new.there /\ prune
    BY <1>1, <1>4 DEF Sync!ImportChannel
<1>5. CASE ~ new.there /\ ~ prune
    BY <1>1, <1>5 DEF Sync!ImportChannel
<1> QED
    BY <1>2, <1>3, <1>4, <1>5

\* The parts of an imported configuration.
MonitorAfter(c, d, prune, m) ==
    Sync!Detached(Sync!ImportMonitor(c.monitors[m], d.monitors[m], d, prune),
                  Sync!ImportGroups(c, d, prune))
ChannelAfter(c, d, prune, h) == Sync!ImportChannel(c.channels[h], d.channels[h], prune)
MonitorsAfter(c, d, prune) == [m \in Monitors |-> MonitorAfter(c, d, prune, m)]
ChannelsAfter(c, d, prune) == [h \in Channels |-> ChannelAfter(c, d, prune, h)]
RulesAfter(c, d, prune) ==
    [r \in Sync!Rules |->
        Sync!RulesLeft(c, MonitorsAfter(c, d, prune), ChannelsAfter(c, d, prune), r)
        + Sync!RulesMade(d, r)]

LEMMA ImportParts ==
    ASSUME NEW c, NEW d, NEW prune
    PROVE  /\ Sync!ImportConfig(c, d, prune).groups = Sync!ImportGroups(c, d, prune)
           /\ Sync!ImportConfig(c, d, prune).monitors = MonitorsAfter(c, d, prune)
           /\ Sync!ImportConfig(c, d, prune).channels = ChannelsAfter(c, d, prune)
           /\ Sync!ImportConfig(c, d, prune).rules = RulesAfter(c, d, prune)
    BY Zenon DEF Sync!ImportConfig, MonitorAfter, ChannelAfter, MonitorsAfter, ChannelsAfter,
                 RulesAfter

LEMMA GroupsAfter ==
    ASSUME NEW c \in Sync!Configs, NEW d \in Sync!Configs, NEW prune \in BOOLEAN
    PROVE  /\ Sync!ImportGroups(c, d, prune) \in SUBSET Groups
           /\ d.groups \subseteq Sync!ImportGroups(c, d, prune)
    BY DEF Sync!ImportGroups, Sync!Configs

LEMMA ConfigRows ==
    ASSUME NEW c \in Sync!Configs
    PROVE  /\ \A m \in Monitors : c.monitors[m] \in Sync!MonitorRows
           /\ \A h \in Channels : c.channels[h] \in Sync!ChannelRows
           /\ \A r \in Sync!Rules : c.rules[r] \in 0 .. MaxRules
           /\ c.groups \in SUBSET Groups
           /\ c.monitors \in [Monitors -> Sync!MonitorRows]
           /\ c.channels \in [Channels -> Sync!ChannelRows]
           /\ c.rules \in [Sync!Rules -> 0 .. MaxRules]
    BY DEF Sync!Configs

\* The groups of the monitors exist, and every rule hangs on a monitor.
GroupsKnown(c) == \A m \in Monitors : c.monitors[m].group \in c.groups \cup {Sync!None}
RulesHung(c) == \A r \in Sync!Rules : c.rules[r] # 0 => c.monitors[r[1]].there
ConfigInv == Sync!TypeOK /\ GroupsKnown(db) /\ RulesHung(db) /\ RulesHung(doc)

LEMMA ImportTwice ==
    ASSUME Sync!ConfigConstants, ConfigInv
    PROVE  Sync!ImportConverges
<1> SUFFICES ASSUME NEW prune \in BOOLEAN
             PROVE  Sync!SameButRules(
                        Sync!ImportConfig(Sync!ImportConfig(db, doc, prune), doc, prune),
                        Sync!ImportConfig(db, doc, prune))
    BY Zenon DEF Sync!ImportConverges
<1>1. db \in Sync!Configs /\ doc \in Sync!Configs
    BY DEF ConfigInv, Sync!TypeOK
<1> DEFINE once == Sync!ImportConfig(db, doc, prune)
           twice == Sync!ImportConfig(once, doc, prune)
<1> HIDE DEF once, twice
<1>2. /\ once.groups = Sync!ImportGroups(db, doc, prune)
      /\ once.monitors = MonitorsAfter(db, doc, prune)
      /\ once.channels = ChannelsAfter(db, doc, prune)
    BY ImportParts, Zenon DEF once
<1>3. /\ twice.groups = Sync!ImportGroups(once, doc, prune)
      /\ twice.monitors = MonitorsAfter(once, doc, prune)
      /\ twice.channels = ChannelsAfter(once, doc, prune)
    BY ImportParts, Zenon DEF twice
<1>4. twice.groups = once.groups
    BY <1>2, <1>3 DEF Sync!ImportGroups
<1>5. ASSUME NEW m \in Monitors
      PROVE  MonitorAfter(once, doc, prune, m) = MonitorAfter(db, doc, prune, m)
  <2>1. /\ db.monitors[m] \in Sync!MonitorRows /\ doc.monitors[m] \in Sync!MonitorRows
        /\ Sync!ImportGroups(db, doc, prune) \in SUBSET Groups
        /\ doc.groups \subseteq Sync!ImportGroups(db, doc, prune)
    BY <1>1, ConfigRows, GroupsAfter
  <2>2. once.monitors[m] = MonitorAfter(db, doc, prune, m)
    BY <1>2 DEF MonitorsAfter
  <2>3. Sync!ImportGroups(once, doc, prune) = Sync!ImportGroups(db, doc, prune)
    BY <1>2, <1>3, <1>4
  <2> QED
    BY <2>1, <2>2, <2>3, MonitorImported DEF MonitorAfter
<1>6. ASSUME NEW h \in Channels
      PROVE  ChannelAfter(once, doc, prune, h) = ChannelAfter(db, doc, prune, h)
  <2>1. db.channels[h] \in Sync!ChannelRows /\ doc.channels[h] \in Sync!ChannelRows
    BY <1>1, ConfigRows
  <2>2. once.channels[h] = ChannelAfter(db, doc, prune, h)
    BY <1>2 DEF ChannelsAfter
  <2>3. Sync!ImportChannel(ChannelAfter(db, doc, prune, h), doc.channels[h], prune)
            = ChannelAfter(db, doc, prune, h)
    BY <2>1, ChannelImported DEF ChannelAfter
  <2>4. ChannelAfter(once, doc, prune, h)
            = Sync!ImportChannel(once.channels[h], doc.channels[h], prune)
    BY DEF ChannelAfter
  <2> QED
    BY <2>2, <2>3, <2>4
<1>7. Sync!SameButRules(twice, once)
    BY <1>2, <1>3, <1>4, <1>5, <1>6 DEF Sync!SameButRules, MonitorsAfter, ChannelsAfter
<1> QED
    BY <1>7 DEF twice, once

LEMMA ImportForetold ==
    ASSUME Sync!ConfigConstants, ConfigInv
    PROVE  Sync!DryRunForetells
<1> SUFFICES ASSUME NEW prune \in BOOLEAN
             PROVE  LET plan_ == Sync!DryRun(db, doc, prune)
                        after == Sync!ImportConfig(db, doc, prune)
                    IN  /\ after.groups = (db.groups \cup plan_.groups.created)
                                              \ plan_.groups.deleted
                        /\ \A m \in Monitors :
                              /\ m \in plan_.monitors.created
                                    <=> ~ db.monitors[m].there /\ after.monitors[m].there
                              /\ m \in plan_.monitors.deleted
                                    <=> db.monitors[m].there /\ ~ after.monitors[m].there
                              /\ after.monitors[m].there /\ db.monitors[m].there
                                    => (m \in plan_.updated <=>
                                           Sync!Detached(db.monitors[m], after.groups)
                                               # after.monitors[m])
    BY Zenon DEF Sync!DryRunForetells
<1> DEFINE foretold == Sync!DryRun(db, doc, prune)
           after == Sync!ImportConfig(db, doc, prune)
           groups == Sync!ImportGroups(db, doc, prune)
<1> HIDE DEF foretold, after
<1>1. db \in Sync!Configs /\ doc \in Sync!Configs
    BY DEF ConfigInv, Sync!TypeOK
<1>2. /\ after.groups = groups
      /\ after.monitors = MonitorsAfter(db, doc, prune)
    BY ImportParts, Zenon DEF after
<1>3. /\ foretold.groups.created = doc.groups \ db.groups
      /\ foretold.groups.deleted = IF prune THEN db.groups \ doc.groups ELSE {}
      /\ foretold.monitors.created = {m \in Monitors : doc.monitors[m].there}
                                         \ {m \in Monitors : db.monitors[m].there}
      /\ foretold.monitors.deleted =
             IF prune THEN {m \in Monitors : db.monitors[m].there}
                               \ {m \in Monitors : doc.monitors[m].there}
             ELSE {}
      /\ foretold.updated =
             {m \in {m \in Monitors : db.monitors[m].there}
                        \cap {m \in Monitors : doc.monitors[m].there} :
                 \/ doc.monitors[m].setting \notin {Default, db.monitors[m].setting}
                 \/ doc.monitors[m].group \in doc.groups \ {db.monitors[m].group}}
    BY Zenon DEF Sync!DryRun, foretold
<1>4. after.groups = (db.groups \cup foretold.groups.created) \ foretold.groups.deleted
    BY <1>2, <1>3 DEF Sync!ImportGroups
<1>5. ASSUME NEW m \in Monitors
      PROVE  /\ m \in foretold.monitors.created
                    <=> ~ db.monitors[m].there /\ after.monitors[m].there
             /\ m \in foretold.monitors.deleted
                    <=> db.monitors[m].there /\ ~ after.monitors[m].there
             /\ after.monitors[m].there /\ db.monitors[m].there
                    => (m \in foretold.updated <=>
                           Sync!Detached(db.monitors[m], after.groups) # after.monitors[m])
  <2> DEFINE old == db.monitors[m]
             new == doc.monitors[m]
             now == MonitorAfter(db, doc, prune, m)
             changed == \/ new.setting \notin {Default, old.setting}
                        \/ new.group \in doc.groups \ {old.group}
  <2>1. /\ old \in Sync!MonitorRows /\ new \in Sync!MonitorRows
        /\ groups \in SUBSET Groups /\ doc.groups \subseteq groups
    BY <1>1, ConfigRows, GroupsAfter
  <2>2. /\ now.there <=> new.there \/ (old.there /\ ~ prune)
        /\ now.there /\ old.there =>
              (new.there /\ changed <=> Sync!Detached(old, groups) # now)
    BY <2>1, MonitorImported DEF MonitorAfter
  <2>3. /\ m \in foretold.monitors.created <=> new.there /\ ~ old.there
        /\ m \in foretold.monitors.deleted <=> prune /\ old.there /\ ~ new.there
        /\ m \in foretold.updated <=> old.there /\ new.there /\ changed
    BY <1>3
  <2>4. after.monitors[m] = now /\ after.groups = groups
    BY <1>2 DEF MonitorsAfter
  <2> HIDE DEF old, new, now, changed, groups
  <2>5. /\ m \in foretold.monitors.created <=> ~ old.there /\ after.monitors[m].there
        /\ m \in foretold.monitors.deleted <=> old.there /\ ~ after.monitors[m].there
        /\ after.monitors[m].there /\ old.there
              => (m \in foretold.updated <=>
                     Sync!Detached(old, after.groups) # after.monitors[m])
    BY <2>2, <2>3, <2>4
  <2> QED
    BY <2>5 DEF old
<1> QED
    BY <1>4, <1>5 DEF foretold, after

\* An export as a document, with every secret hidden.
LEMMA RedactedRow ==
    ASSUME NEW x \in Sync!ChannelRows
    PROVE  /\ Sync!Redacted(x) \in Sync!ChannelRows
           /\ Sync!Redacted(x).there = x.there
           /\ ~ x.there => x = Sync!NoChannel
           /\ x.there /\ ~ x.plain => Sync!IsRedacted(Sync!Redacted(x))
<1>1. CASE x = Sync!NoChannel
  <2>1. Sync!Redacted(x) = x
    BY <1>1 DEF Sync!Redacted, Sync!NoChannel
  <2>2. ~ x.there
    BY <1>1 DEF Sync!NoChannel
  <2> QED
    BY <1>1, <2>1, <2>2
<1>2. CASE x \in [there : {TRUE}, plain : BOOLEAN, secret : Sync!Secrets]
  <2> DEFINE hidden == IF x.secret = Sync!None THEN Sync!None ELSE Sync!Stars
  <2>1. hidden \in Sync!Secrets /\ hidden # "key"
    BY DEF Sync!Secrets, Sync!None, Sync!Stars
  <2>2. Sync!Redacted(x) = [x EXCEPT !.secret = hidden]
    BY DEF Sync!Redacted
  <2> HIDE DEF hidden
  <2>3. /\ Sync!Redacted(x) \in [there : {TRUE}, plain : BOOLEAN, secret : Sync!Secrets]
        /\ Sync!Redacted(x).there = x.there /\ Sync!Redacted(x).plain = x.plain
        /\ Sync!Redacted(x).secret = hidden /\ x.there
    BY <1>2, <2>1, <2>2
  <2> QED
    BY <2>1, <2>3 DEF Sync!ChannelRows, Sync!IsRedacted
<1> QED
    BY <1>1, <1>2 DEF Sync!ChannelRows

LEMMA Exported ==
    ASSUME NEW c \in Sync!Configs
    PROVE  /\ Sync!ExportConfig(c) \in Sync!Configs
           /\ Sync!ExportConfig(c).groups = c.groups
           /\ Sync!ExportConfig(c).monitors = c.monitors
           /\ Sync!ExportConfig(c).rules = c.rules
           /\ \A h \in Channels :
                 Sync!ExportConfig(c).channels[h] = Sync!Redacted(c.channels[h])
<1> DEFINE hidden == [h \in Channels |-> Sync!Redacted(c.channels[h])]
<1>1. hidden \in [Channels -> Sync!ChannelRows]
    BY ConfigRows, RedactedRow
<1>2. Sync!ExportConfig(c) = [c EXCEPT !.channels = hidden]
    BY DEF Sync!ExportConfig
<1>3. \A h \in Channels : hidden[h] = Sync!Redacted(c.channels[h])
    OBVIOUS
<1> HIDE DEF hidden
<1> QED
    BY <1>1, <1>2, <1>3 DEF Sync!Configs

\* The sum over no rule.
LEMMA NoOrphans == \A f : Sync!SumFunctionOnSet(f, {}) = 0
<1>1. \A f : Sync!SumFunctionOnSet(f, {}) = SumFunctionOnSet(f, {})
    BY DEF Sync!SumFunctionOnSet, Sync!FoldFunctionOnSet, Sync!MapThenFoldSet,
           SumFunctionOnSet, FoldFunctionOnSet, MapThenFoldSet
<1>2. IsFiniteSet({})
    BY FS_EmptySet
<1> QED
    BY <1>1, <1>2, SumComputed

LEMMA BackupRestored ==
    ASSUME Sync!ConfigConstants, ConfigInv
    PROVE  Sync!BackupHarmless
<1> DEFINE backup == Sync!ExportConfig(db)
           again == Sync!ImportConfig(db, backup, TRUE)
<1>1. db \in Sync!Configs /\ GroupsKnown(db) /\ RulesHung(db)
    BY DEF ConfigInv, Sync!TypeOK
<1>2. /\ backup \in Sync!Configs
      /\ backup.groups = db.groups /\ backup.monitors = db.monitors /\ backup.rules = db.rules
      /\ \A h \in Channels : backup.channels[h] = Sync!Redacted(db.channels[h])
    BY <1>1, Exported
<1> HIDE DEF backup, again
<1>3. /\ again.groups = Sync!ImportGroups(db, backup, TRUE)
      /\ again.monitors = MonitorsAfter(db, backup, TRUE)
      /\ again.channels = ChannelsAfter(db, backup, TRUE)
      /\ again.rules = RulesAfter(db, backup, TRUE)
    BY ImportParts, Zenon DEF again
<1>4. again.groups = db.groups
    BY <1>2, <1>3 DEF Sync!ImportGroups
<1>5. ASSUME NEW m \in Monitors
      PROVE  MonitorAfter(db, backup, TRUE, m) = db.monitors[m]
  <2> DEFINE row_ == db.monitors[m]
             g == IF row_.group \in db.groups THEN row_.group ELSE Sync!None
  <2>1. /\ row_ \in Sync!MonitorRows /\ row_.group \in db.groups \cup {Sync!None}
        /\ db.groups \in SUBSET Groups
    BY <1>1, ConfigRows DEF GroupsKnown
  <2>2. MonitorAfter(db, backup, TRUE, m) =
            Sync!Detached(Sync!ImportMonitor(row_, row_, backup, TRUE), db.groups)
    BY <1>2, <1>3, <1>4 DEF MonitorAfter
  <2>3. g = row_.group
    BY <2>1
  <2>6. Sync!Detached(row_, db.groups) = row_
    <3>1. GroupIn(row_, db.groups) = row_.group
      BY <2>3 DEF GroupIn
    <3>2. Sync!Detached(row_, db.groups) =
              [there |-> row_.there, setting |-> row_.setting, group |-> row_.group]
      BY <2>1, <3>1, DetachedRow
    <3> QED
      BY <2>1, <3>2, MonitorRow
  <2>4. CASE row_.there
    <3>1. Sync!ImportMonitor(row_, row_, backup, TRUE) =
              [row_ EXCEPT !.setting = row_.setting, !.group = row_.group]
      BY <1>2, <2>3, <2>4 DEF Sync!ImportMonitor
    <3>2. Sync!ImportMonitor(row_, row_, backup, TRUE) = row_
      BY <2>1, <3>1, MonitorRow
    <3> QED
      BY <2>2, <2>6, <3>2
  <2>5. CASE ~ row_.there
    <3>1. Sync!ImportMonitor(row_, row_, backup, TRUE) = row_
      BY <2>1, <2>5, MonitorRow DEF Sync!ImportMonitor
    <3> QED
      BY <2>2, <2>6, <3>1
  <2> QED
    BY <2>4, <2>5
<1>6. again.monitors = db.monitors
    BY <1>1, <1>3, <1>5, ConfigRows DEF MonitorsAfter
<1>7. ASSUME NEW h \in Channels
      PROVE  /\ again.channels[h] = ChannelAfter(db, backup, TRUE, h)
             /\ again.channels[h].there = db.channels[h].there
             /\ ~ db.channels[h].plain => again.channels[h] = db.channels[h]
  <2> DEFINE x == db.channels[h]
  <2>1. x \in Sync!ChannelRows /\ backup.channels[h] = Sync!Redacted(x)
    BY <1>1, <1>2, ConfigRows
  <2>2. again.channels[h] = Sync!ImportChannel(x, Sync!Redacted(x), TRUE)
    BY <1>3, <2>1 DEF ChannelsAfter, ChannelAfter
  <2>3. again.channels[h] = ChannelAfter(db, backup, TRUE, h)
    BY <1>3 DEF ChannelsAfter
  <2> HIDE DEF x
  <2>4. CASE x.there
    <3>1. again.channels[h] = IF Sync!IsRedacted(Sync!Redacted(x)) THEN x ELSE Sync!Redacted(x)
      BY <2>1, <2>2, <2>4, RedactedRow DEF Sync!ImportChannel
    <3> QED
      BY <2>1, <2>3, <2>4, <3>1, RedactedRow DEF x
  <2>5. CASE ~ x.there
    <3>1. again.channels[h] = x
      BY <2>1, <2>2, <2>5, RedactedRow DEF Sync!ImportChannel
    <3> QED
      BY <2>3, <3>1 DEF x
  <2> QED
    BY <2>4, <2>5
<1>8. ASSUME NEW r \in Sync!Rules
      PROVE  again.rules[r] >= db.rules[r]
  <2>1. /\ r[1] \in Monitors /\ db.rules[r] \in Nat /\ backup.rules[r] \in Nat
        /\ db.rules[r] # 0 => db.monitors[r[1]].there
    BY <1>1, <1>2, ConfigRows DEF RulesHung, Sync!Rules, Sync!ConfigConstants
  <2>2. again.rules[r] = Sync!RulesLeft(db, again.monitors, again.channels, r)
                             + Sync!RulesMade(backup, r)
    BY <1>3 DEF RulesAfter
  <2>3. Sync!RulesMade(backup, r) \in Nat
    BY <2>1 DEF Sync!RulesMade
  <2>4. {c \in Channels : db.channels[c].there /\ ~ again.channels[c].there} = {}
    BY <1>7
  <2>5. {<<r[1], c>> : c \in {}} = {}
    OBVIOUS
  <2>6. Sync!RulesLeft(db, again.monitors, again.channels, r) =
            IF ~ db.monitors[r[1]].there THEN 0
            ELSE IF r[2] = Sync!None
                 THEN db.rules[r] + Sync!SumFunctionOnSet(db.rules, {})
                 ELSE db.rules[r]
    BY <1>6, <2>4, <2>5 DEF Sync!RulesLeft
  <2>7. Sync!RulesLeft(db, again.monitors, again.channels, r) = db.rules[r]
    BY <2>1, <2>6, NoOrphans
  <2> QED
    BY <2>1, <2>2, <2>3, <2>7
<1>9. /\ again.groups = db.groups /\ again.monitors = db.monitors
      /\ \A r \in Sync!Rules : again.rules[r] >= db.rules[r]
      /\ \A h \in Channels : ~ db.channels[h].plain => again.channels[h] = db.channels[h]
    BY <1>4, <1>6, <1>7, <1>8
<1> QED
    BY <1>9, Zenon DEF Sync!BackupHarmless, again, backup

LEMMA EmptyConfig ==
    ASSUME Sync!ConfigConstants
    PROVE  Sync!Empty \in Sync!Configs /\ GroupsKnown(Sync!Empty) /\ RulesHung(Sync!Empty)
<1>1. /\ [m \in Monitors |-> Sync!NoMonitor] \in [Monitors -> Sync!MonitorRows]
      /\ [c \in Channels |-> Sync!NoChannel] \in [Channels -> Sync!ChannelRows]
      /\ [r \in Sync!Rules |-> 0] \in [Sync!Rules -> 0 .. MaxRules]
    BY DEF Sync!MonitorRows, Sync!ChannelRows, Sync!ConfigConstants
<1>2. Sync!NoMonitor.group = Sync!None
    BY DEF Sync!NoMonitor
<1> QED
    BY <1>1, <1>2 DEF Sync!Empty, Sync!Configs, GroupsKnown, RulesHung

LEMMA ConfigInit ==
    ASSUME Sync!ConfigConstants, Sync!Init
    PROVE  ConfigInv
<1>1. edits \in 0 .. MaxEdits
    BY DEF Sync!Init, Sync!ConfigConstants
<1> QED
    BY <1>1, EmptyConfig DEF Sync!Init, ConfigInv, Sync!TypeOK

\* A configuration of which one row or the groups are other ones.
Sound(c) == c \in Sync!Configs /\ GroupsKnown(c) /\ RulesHung(c)

LEMMA RulesOn ==
    ASSUME NEW r \in Sync!Rules
    PROVE  r[1] \in Monitors
    BY DEF Sync!Rules

LEMMA Remonitored ==
    ASSUME NEW c \in Sync!Configs, NEW M \in [Monitors -> Sync!MonitorRows],
           NEW G \in SUBSET Groups, NEW R \in [Sync!Rules -> 0 .. MaxRules],
           \A m \in Monitors : M[m].group \in G \cup {Sync!None},
           \A r \in Sync!Rules : R[r] # 0 => M[r[1]].there
    PROVE  Sound([groups |-> G, monitors |-> M, channels |-> c.channels, rules |-> R])
<1>1. c.channels \in [Channels -> Sync!ChannelRows]
    BY ConfigRows
<1>2. [groups |-> G, monitors |-> M, channels |-> c.channels, rules |-> R] \in Sync!Configs
    BY <1>1 DEF Sync!Configs
<1> QED
    BY <1>2 DEF Sound, GroupsKnown, RulesHung

Regrouped(c, G, M) == [c EXCEPT !.groups = G, !.monitors = M]
Unhung(c, M, R) == [c EXCEPT !.monitors = M, !.rules = R]

LEMMA RegroupedIs ==
    ASSUME NEW c \in Sync!Configs, NEW G, NEW M
    PROVE  Regrouped(c, G, M) =
               [groups |-> G, monitors |-> M, channels |-> c.channels, rules |-> c.rules]
<1> DEFINE one == [c EXCEPT !.groups = G]
<1>1. one = [groups |-> G, monitors |-> c.monitors, channels |-> c.channels, rules |-> c.rules]
    BY DEF Sync!Configs
<1>2. Regrouped(c, G, M) = [one EXCEPT !.monitors = M]
    BY DEF Sync!Configs, Regrouped
<1> HIDE DEF one
<1> QED
    BY <1>1, <1>2

LEMMA UnhungIs ==
    ASSUME NEW c \in Sync!Configs, NEW M, NEW R
    PROVE  Unhung(c, M, R) =
               [groups |-> c.groups, monitors |-> M, channels |-> c.channels, rules |-> R]
<1> DEFINE one == [c EXCEPT !.monitors = M]
<1>1. one = [groups |-> c.groups, monitors |-> M, channels |-> c.channels, rules |-> c.rules]
    BY DEF Sync!Configs
<1>2. Unhung(c, M, R) = [one EXCEPT !.rules = R]
    BY DEF Sync!Configs, Unhung
<1> HIDE DEF one
<1> QED
    BY <1>1, <1>2

LEMMA EditsSound ==
    ASSUME Sync!ConfigConstants, ConfigInv,
           Sync!EditGroup \/ Sync!EditMonitor \/ Sync!EditChannel \/ Sync!AddRule
    PROVE  ConfigInv'
<1>a. /\ db \in Sync!Configs /\ doc \in Sync!Configs /\ edits \in 0 .. MaxEdits
      /\ GroupsKnown(db) /\ RulesHung(db) /\ RulesHung(doc)
    BY DEF ConfigInv, Sync!TypeOK
<1>b. /\ db = [groups |-> db.groups, monitors |-> db.monitors, channels |-> db.channels,
               rules |-> db.rules]
      /\ db.groups \in SUBSET Groups /\ db.monitors \in [Monitors -> Sync!MonitorRows]
      /\ db.channels \in [Channels -> Sync!ChannelRows]
      /\ db.rules \in [Sync!Rules -> 0 .. MaxRules]
    BY <1>a DEF Sync!Configs
<1>c. /\ \A m \in Monitors : db.monitors[m].group \in db.groups \cup {Sync!None}
      /\ \A r \in Sync!Rules : db.rules[r] # 0 => db.monitors[r[1]].there
    BY <1>a DEF GroupsKnown, RulesHung
<1>1. ASSUME NEW c, Sync!Edit(c), Sound(c)
      PROVE  ConfigInv'
  <2>1. edits' \in 0 .. MaxEdits
    BY <1>1, <1>a DEF Sync!Edit, Sync!ConfigConstants
  <2>2. doc' = doc /\ db' = c
    BY <1>1 DEF Sync!Edit
  <2> QED
    BY <1>1, <1>a, <2>1, <2>2 DEF ConfigInv, Sync!TypeOK, Sound
<1>2. ASSUME NEW g \in Groups
      PROVE  Sound([db EXCEPT !.groups = @ \cup {g}])
  <2> DEFINE G == db.groups \cup {g}
             x == [db EXCEPT !.groups = G]
  <2>1. G \in SUBSET Groups /\ db.groups \subseteq G
    BY <1>b
  <2> HIDE DEF G
  <2>2. x = [groups |-> G, monitors |-> db.monitors, channels |-> db.channels,
             rules |-> db.rules]
    BY <1>a DEF Sync!Configs
  <2> HIDE DEF x
  <2>3. Sound(x)
    BY <1>a, <1>b, <1>c, <2>1, <2>2, Remonitored
  <2> QED
    BY <2>3 DEF x, G
<1>3. ASSUME NEW g \in Groups
      PROVE  Sound([db EXCEPT !.groups = @ \ {g},
                              !.monitors = [m \in Monitors |->
                                               Sync!Detached(@[m], db.groups \ {g})]])
  <2> DEFINE M == [m \in Monitors |-> Sync!Detached(db.monitors[m], db.groups \ {g})]
             x == Regrouped(db, db.groups \ {g}, M)
  <2>1. ASSUME NEW m \in Monitors
        PROVE  /\ M[m] \in Sync!MonitorRows /\ M[m].there = db.monitors[m].there
               /\ M[m].group \in (db.groups \ {g}) \cup {Sync!None}
    <3>1. db.monitors[m] \in Sync!MonitorRows /\ db.groups \ {g} \in SUBSET Groups
      BY <1>b
    <3> QED
      BY <3>1, DetachedRow DEF GroupIn
  <2>2. M \in [Monitors -> Sync!MonitorRows]
    BY <2>1
  <2> HIDE DEF M
  <2>3. x = [groups |-> db.groups \ {g}, monitors |-> M, channels |-> db.channels,
             rules |-> db.rules]
    BY <1>a, RegroupedIs
  <2> HIDE DEF x
  <2>4. \A r \in Sync!Rules : db.rules[r] # 0 => M[r[1]].there
    BY <1>c, <2>1, RulesOn
  <2>5. Sound([groups |-> db.groups \ {g}, monitors |-> M, channels |-> db.channels,
               rules |-> db.rules])
    BY <1>a, <1>b, <2>1, <2>2, <2>4, Remonitored
  <2>6. Sound(x)
    BY <2>3, <2>5
  <2> QED
    BY <2>6 DEF x, M, Regrouped
<1>4. ASSUME NEW m \in Monitors, NEW s \in Settings, NEW g \in db.groups \cup {Sync!None}
      PROVE  Sound([db EXCEPT !.monitors[m] = [there |-> TRUE, setting |-> s, group |-> g]])
  <2> DEFINE new == [there |-> TRUE, setting |-> s, group |-> g]
             M == [db.monitors EXCEPT ![m] = new]
             x == [db EXCEPT !.monitors = M]
  <2>1. new \in Sync!MonitorRows /\ new.there /\ new.group = g
    BY <1>b, RowOf
  <2> HIDE DEF new
  <2>2. /\ M \in [Monitors -> Sync!MonitorRows] /\ M[m] = new
        /\ \A n \in Monitors \ {m} : M[n] = db.monitors[n]
    BY <1>b, <2>1
  <2> HIDE DEF M
  <2>3. x = [groups |-> db.groups, monitors |-> M, channels |-> db.channels,
             rules |-> db.rules]
    BY <1>a DEF Sync!Configs
  <2> HIDE DEF x
  <2>4. \A n \in Monitors : M[n].group \in db.groups \cup {Sync!None}
    BY <1>c, <2>1, <2>2
  <2>5. \A r \in Sync!Rules : db.rules[r] # 0 => M[r[1]].there
    BY <1>c, <2>1, <2>2, RulesOn
  <2>6. Sound([groups |-> db.groups, monitors |-> M, channels |-> db.channels,
               rules |-> db.rules])
    BY <1>a, <1>b, <2>2, <2>4, <2>5, Remonitored
  <2>7. Sound(x)
    BY <2>3, <2>6
  <2> QED
    BY <2>7 DEF x, M, new
<1>5. ASSUME NEW m \in Monitors
      PROVE  Sound([db EXCEPT !.monitors[m] = Sync!NoMonitor,
                              !.rules = [r \in Sync!Rules |-> IF r[1] = m THEN 0 ELSE @[r]]])
  <2> DEFINE M == [db.monitors EXCEPT ![m] = Sync!NoMonitor]
             R == [r \in Sync!Rules |-> IF r[1] = m THEN 0 ELSE db.rules[r]]
             x == Unhung(db, M, R)
  <2>1. Sync!NoMonitor \in Sync!MonitorRows /\ Sync!NoMonitor.group = Sync!None
    BY DEF Sync!NoMonitor, Sync!MonitorRows
  <2>2. /\ M \in [Monitors -> Sync!MonitorRows] /\ M[m] = Sync!NoMonitor
        /\ \A n \in Monitors \ {m} : M[n] = db.monitors[n]
    BY <1>b, <2>1
  <2>3. /\ R \in [Sync!Rules -> 0 .. MaxRules]
        /\ \A r \in Sync!Rules : R[r] # 0 => db.rules[r] # 0 /\ r[1] # m
    BY <1>b DEF Sync!ConfigConstants
  <2> HIDE DEF M, R
  <2>4. x = [groups |-> db.groups, monitors |-> M, channels |-> db.channels,
             rules |-> R]
    BY <1>a, UnhungIs
  <2> HIDE DEF x
  <2>5. \A n \in Monitors : M[n].group \in db.groups \cup {Sync!None}
    BY <1>c, <2>1, <2>2
  <2>6. \A r \in Sync!Rules : R[r] # 0 => M[r[1]].there
    BY <1>c, <2>2, <2>3, RulesOn
  <2>7. Sound([groups |-> db.groups, monitors |-> M, channels |-> db.channels, rules |-> R])
    BY <1>a, <1>b, <2>2, <2>3, <2>5, <2>6, Remonitored
  <2>8. Sound(x)
    BY <2>4, <2>7
  <2> QED
    BY <2>8 DEF x, M, R, Unhung
<1>6. ASSUME NEW h \in Channels, NEW p \in BOOLEAN, NEW s \in {Sync!None, "key"}
      PROVE  Sound([db EXCEPT !.channels[h] = [there |-> TRUE, plain |-> p, secret |-> s]])
  <2> DEFINE new == [there |-> TRUE, plain |-> p, secret |-> s]
             H == [db.channels EXCEPT ![h] = new]
             x == [db EXCEPT !.channels = H]
  <2>1. new \in Sync!ChannelRows
    BY DEF Sync!ChannelRows, Sync!Secrets
  <2> HIDE DEF new
  <2>2. H \in [Channels -> Sync!ChannelRows]
    BY <1>b, <2>1
  <2> HIDE DEF H
  <2>3. /\ x \in Sync!Configs
        /\ x.groups = db.groups /\ x.monitors = db.monitors /\ x.rules = db.rules
    BY <1>b, <2>2 DEF Sync!Configs
  <2> HIDE DEF x
  <2>4. Sound(x)
    BY <1>c, <2>3 DEF Sound, GroupsKnown, RulesHung
  <2> QED
    BY <2>4 DEF x, H, new
<1>7. ASSUME NEW r \in Sync!Rules, db.monitors[r[1]].there
      PROVE  Sound([db EXCEPT !.rules[r] = 1])
  <2> DEFINE R == [db.rules EXCEPT ![r] = 1]
             x == [db EXCEPT !.rules = R]
  <2>1. /\ R \in [Sync!Rules -> 0 .. MaxRules]
        /\ \A q \in Sync!Rules \ {r} : R[q] = db.rules[q]
    BY <1>b DEF Sync!ConfigConstants
  <2> HIDE DEF R
  <2>2. /\ x \in Sync!Configs
        /\ x.groups = db.groups /\ x.monitors = db.monitors /\ x.rules = R
    BY <1>b, <2>1 DEF Sync!Configs
  <2> HIDE DEF x
  <2>3. Sound(x)
    BY <1>7, <1>c, <2>1, <2>2 DEF Sound, GroupsKnown, RulesHung
  <2> QED
    BY <2>3 DEF x, R
<1>8. CASE Sync!EditGroup
    BY <1>1, <1>2, <1>3, <1>8 DEF Sync!EditGroup
<1>9. CASE Sync!EditMonitor
    BY <1>1, <1>4, <1>5, <1>9 DEF Sync!EditMonitor
<1>10. CASE Sync!EditChannel
    BY <1>1, <1>6, <1>10 DEF Sync!EditChannel
<1>11. CASE Sync!AddRule
    BY <1>1, <1>7, <1>11 DEF Sync!AddRule
<1> QED
    BY <1>8, <1>9, <1>10, <1>11

LEMMA ImportSound ==
    ASSUME Sync!ConfigConstants, ConfigInv, Sync!Import
    PROVE  ConfigInv'
<1>1. PICK prune \in BOOLEAN : db' = Sync!ImportConfig(db, doc, prune)
    BY DEF Sync!Import
<1>2. /\ db \in Sync!Configs /\ doc \in Sync!Configs /\ db' \in Sync!Configs
      /\ doc' = doc /\ edits' = edits /\ edits \in 0 .. MaxEdits
      /\ RulesHung(db) /\ RulesHung(doc)
    BY DEF Sync!Import, ConfigInv, Sync!TypeOK
<1>3. /\ db'.groups = Sync!ImportGroups(db, doc, prune)
      /\ db'.monitors = MonitorsAfter(db, doc, prune)
      /\ db'.channels = ChannelsAfter(db, doc, prune)
      /\ db'.rules = RulesAfter(db, doc, prune)
    BY <1>1, ImportParts, Zenon
<1>4. ASSUME NEW m \in Monitors
      PROVE  /\ db'.monitors[m].group \in db'.groups \cup {Sync!None}
             /\ doc.monitors[m].there => db'.monitors[m].there
  <2>1. /\ db.monitors[m] \in Sync!MonitorRows /\ doc.monitors[m] \in Sync!MonitorRows
        /\ db'.groups \in SUBSET Groups /\ doc.groups \subseteq db'.groups
    BY <1>2, <1>3, ConfigRows, GroupsAfter
  <2>2. db'.monitors[m] = Sync!Detached(
            Sync!ImportMonitor(db.monitors[m], doc.monitors[m], doc, prune), db'.groups)
    BY <1>3 DEF MonitorsAfter, MonitorAfter
  <2> QED
    BY <2>1, <2>2, MonitorImported
<1>5. ASSUME NEW r \in Sync!Rules, ~ db'.monitors[r[1]].there
      PROVE  db'.rules[r] = 0
  <2>1. db'.rules[r] = Sync!RulesLeft(db, db'.monitors, db'.channels, r)
                           + Sync!RulesMade(doc, r)
    BY <1>3 DEF RulesAfter
  <2>2. Sync!RulesLeft(db, db'.monitors, db'.channels, r) = 0
    BY <1>5 DEF Sync!RulesLeft
  <2>3. doc.rules[r] = 0
    BY <1>2, <1>4, <1>5, RulesOn DEF RulesHung
  <2> QED
    BY <2>1, <2>2, <2>3 DEF Sync!RulesMade
<1> QED
    BY <1>2, <1>4, <1>5 DEF ConfigInv, Sync!TypeOK, GroupsKnown, RulesHung

LEMMA DocSound ==
    ASSUME Sync!ConfigConstants, ConfigInv, Sync!Export \/ Sync!EditDoc
    PROVE  ConfigInv'
<1>a. /\ db \in Sync!Configs /\ doc \in Sync!Configs /\ edits \in 0 .. MaxEdits
      /\ GroupsKnown(db) /\ RulesHung(db) /\ RulesHung(doc)
    BY DEF ConfigInv, Sync!TypeOK
<1>1. CASE Sync!Export
    BY <1>1, <1>a, Exported DEF Sync!Export, ConfigInv, Sync!TypeOK, RulesHung
<1>2. CASE Sync!EditDoc
  <2>1. /\ edits' \in 0 .. MaxEdits /\ db' = db /\ doc' \in Sync!Configs
    <3>1. edits < MaxEdits /\ edits' = edits + 1 /\ db' = db /\ doc' \in Sync!Configs
      BY <1>2, Zenon DEF Sync!EditDoc
    <3> QED
      BY <1>a, <3>1 DEF Sync!ConfigConstants
  <2>2. PICK m \in Monitors :
            \/ \E s \in Settings : doc' = [doc EXCEPT !.monitors[m].setting = s]
            \/ doc' = [doc EXCEPT !.monitors[m] = Sync!NoMonitor,
                                  !.rules = [r \in Sync!Rules |-> IF r[1] = m THEN 0 ELSE @[r]]]
    BY <1>2 DEF Sync!EditDoc
  <2>3. /\ doc.monitors \in [Monitors -> Sync!MonitorRows]
        /\ doc.rules \in [Sync!Rules -> 0 .. MaxRules]
    BY <1>a, ConfigRows
  <2>4. ASSUME NEW s \in Settings, doc' = [doc EXCEPT !.monitors[m].setting = s]
        PROVE  RulesHung(doc')
    <3> DEFINE new == [doc.monitors[m] EXCEPT !.setting = s]
               M == [doc.monitors EXCEPT ![m] = new]
    <3>1. new.there = doc.monitors[m].there
      BY <2>3, MonitorRow
    <3> HIDE DEF new
    <3>2. \A n \in Monitors : M[n].there = doc.monitors[n].there
      BY <2>3, <3>1
    <3>3. doc' = [doc EXCEPT !.monitors = M]
      BY <2>4 DEF M, new
    <3> HIDE DEF M
    <3>4. doc'.monitors = M /\ doc'.rules = doc.rules
      BY <1>a, <3>3 DEF Sync!Configs
    <3> QED
      BY <1>a, <3>2, <3>4, RulesOn DEF RulesHung
  <2>5. ASSUME doc' = [doc EXCEPT !.monitors[m] = Sync!NoMonitor,
                          !.rules = [r \in Sync!Rules |-> IF r[1] = m THEN 0 ELSE @[r]]]
        PROVE  RulesHung(doc')
    <3> DEFINE M == [doc.monitors EXCEPT ![m] = Sync!NoMonitor]
               R == [r \in Sync!Rules |-> IF r[1] = m THEN 0 ELSE doc.rules[r]]
    <3>1. \A n \in Monitors \ {m} : M[n] = doc.monitors[n]
      BY <2>3
    <3>2. \A r \in Sync!Rules : R[r] # 0 => doc.rules[r] # 0 /\ r[1] # m
      OBVIOUS
    <3>3. doc' = Unhung(doc, M, R)
      BY <2>5 DEF Unhung, M, R
    <3> HIDE DEF M, R
    <3>4. doc'.monitors = M /\ doc'.rules = R
      BY <1>a, <3>3, UnhungIs
    <3> QED
      BY <1>a, <3>1, <3>2, <3>4, RulesOn DEF RulesHung
  <2>6. RulesHung(doc')
    BY <2>2, <2>4, <2>5
  <2> QED
    BY <1>a, <2>1, <2>6 DEF ConfigInv, Sync!TypeOK
<1> QED
    BY <1>1, <1>2

LEMMA ConfigStep ==
    ASSUME Sync!ConfigConstants, ConfigInv, [Sync!Next]_Sync!vars
    PROVE  ConfigInv'
<1>1. CASE UNCHANGED Sync!vars
    BY <1>1 DEF Sync!vars, ConfigInv, Sync!TypeOK, GroupsKnown, RulesHung
<1> QED
    BY <1>1, EditsSound, DocSound, ImportSound DEF Sync!Next
-----------------------------------------------------------------------------
(* The composition: every step of Edges is a step or a stutter of each *)
(* component.                                                           *)

LEMMA EdgesSteps ==
    ASSUME [EdgesNext]_edgeVars
    PROVE  /\ [Next]_vars
           /\ [Inventory!Next]_Inventory!vars
           /\ [Sync!Next]_Sync!vars
           /\ [Heartbeats!Next]_Heartbeats!vars
           /\ [Duty!Next]_Duty!vars
           /\ [Metrics!Next]_Metrics!vars
           /\ UNCHANGED component
<1> USE DEF edgeVars, discoveryVars, configVars, syncVars, dutyVars, metricVars,
            Inventory!vars, Sync!vars, Heartbeats!vars, Duty!vars, Metrics!vars,
            Inventory!world, Inventory!reviewing, Heartbeats!bounds, Duty!zone, Duty!shape,
            Metrics!tables, Metrics!bounds
<1>1. CASE OnlyReporter /\ Next
    BY <1>1 DEF OnlyReporter
<1>2. CASE OnlyDiscovery /\ Inventory!Next
    BY <1>2 DEF OnlyDiscovery
<1>3. CASE OnlyConfig /\ Sync!Next
    BY <1>3 DEF OnlyConfig
<1>4. CASE OnlySync /\ Heartbeats!Next
    BY <1>4 DEF OnlySync
<1>5. CASE OnlyDuty /\ Duty!Next
    BY <1>5 DEF OnlyDuty
<1>6. CASE OnlyMetrics /\ Metrics!Next
    BY <1>6 DEF OnlyMetrics
<1>7. CASE UNCHANGED edgeVars
    BY <1>7
<1> QED
    BY <1>1, <1>2, <1>3, <1>4, <1>5, <1>6, <1>7 DEF EdgesNext

\* A request for an immediate check is not forgotten between the key that is read
\* and the key that is deleted (heartbeat, trigger_check), for any number of
\* probes and monitors.
THEOREM ChecksAreNotForgotten ==
    ASSUME Heartbeats!SyncConstants
    PROVE  EdgesSpec => []RequestKept
<1>1. EdgesInit => SyncInv
    BY SyncInit DEF EdgesInit
<1>2. SyncInv /\ [EdgesNext]_edgeVars => SyncInv'
    BY SyncStep, EdgesSteps
<1>3. SyncInv => RequestKept
    BY DEF SyncInv, RequestKept
<1> QED
    BY <1>1, <1>2, <1>3, PTL DEF EdgesSpec

THEOREM IngestInvariant ==
    ASSUME Metrics!IngestConstants
    PROVE  EdgesSpec => [](IngestInv /\ RoomLeft)
<1>1. EdgesInit => IngestInv /\ RoomLeft
    BY IngestInit, RoomInit DEF EdgesInit
<1>2. IngestInv /\ RoomLeft /\ [EdgesNext]_edgeVars => (IngestInv /\ RoomLeft)'
    BY IngestStep, RoomStep, EdgesSteps
<1> QED
    BY <1>1, <1>2, PTL DEF EdgesSpec

\* The limits of an ingestion hold under any number of overlapping requests
\* (_consume_rate_budget, _resolve_series): the budget of a minute as it is
\* written, its counter to the point, and the series up to one batch for every
\* other request.
THEOREM LimitsUnderOverlap ==
    ASSUME Metrics!IngestConstants
    PROVE  EdgesSpec => []LimitsHeld
<1>1. IngestInv /\ RoomLeft => LimitsHeld
    BY IngestPromises, SeriesBounded DEF LimitsHeld, Metrics!LimitsHeld, IngestInv
<1> QED
    BY <1>1, IngestInvariant, PTL

\* Points never lose the registry entry that their labels are found by, whatever
\* pushes and purges overlap (purge_stale_metric_series).
THEOREM PointsStayReachable ==
    ASSUME Metrics!IngestConstants
    PROVE  EdgesSpec => []NoOrphanPoints
<1>1. IngestInv /\ RoomLeft => NoOrphanPoints
    BY IngestPromises DEF NoOrphanPoints
<1> QED
    BY <1>1, IngestInvariant, PTL

\* The turn that resolve_on_call_user computes from the anchor is the one that
\* people living by the wall clock count, for every schedule and every pair of
\* clock changes (shift_index).
THEOREM OneTurn ==
    ASSUME Duty!DutyConstants
    PROVE  EdgesSpec => []RotationAgrees
<1>1. EdgesInit => DutyInv
    BY DutyInit DEF EdgesInit
<1>2. DutyInv /\ [EdgesNext]_edgeVars => DutyInv'
    BY DutyStep, EdgesSteps
<1>3. DutyInv => RotationAgrees
    BY TurnTaken DEF RotationAgrees
<1> QED
    BY <1>1, <1>2, <1>3, PTL DEF EdgesSpec

THEOREM InventoryInvariant ==
    ASSUME Inventory!InventoryConstants
    PROVE  EdgesSpec => []InventoryInv
<1>1. EdgesInit => InventoryInv
    BY InventoryInit DEF EdgesInit
<1>2. InventoryInv /\ [EdgesNext]_edgeVars => InventoryInv'
    BY InventoryStep, EdgesSteps
<1> QED
    BY <1>1, <1>2, PTL DEF EdgesSpec

\* For any number of runners and targets, however pushes and reviews overlap: what
\* is accepted has a monitor, and one reviewer never makes a second one
\* (_match_new_proposals, _accept_row).
THEOREM InventoryMatchesMonitors ==
    ASSUME Inventory!InventoryConstants
    PROVE  EdgesSpec => []InventoryAgrees
<1>1. InventoryInv => InventoryAgrees
    BY InventoryPromise DEF InventoryAgrees
<1> QED
    BY <1>1, InventoryInvariant, PTL

\* A push takes back no refusal that it had read, unless the service is another
\* one than the reviewer refused (_handle_dismissed_drift).
THEOREM RefusalsAreKept ==
    ASSUME Inventory!InventoryConstants
    PROVE  EdgesSpec => RefusalKept
<1>1. InventoryInv /\ [EdgesNext]_edgeVars =>
          [\A t \in Targets :
              row[t].status = "dismissed" /\ row'[t].status # "dismissed"
              => \/ Inventory!Overtaken(t) \/ Inventory!Overruled(t)
                 \/ row'[t].nature \notin {Inventory!None, row[t].refused}]_Inventory!vars
    BY RefusalStep, EdgesSteps DEF Refused
<1> QED
    BY <1>1, InventoryInvariant, PTL DEF EdgesSpec, RefusalKept, Inventory!RefusalKept

THEOREM ConfigInvariant ==
    ASSUME Sync!ConfigConstants
    PROVE  EdgesSpec => []ConfigInv
<1>1. EdgesInit => ConfigInv
    BY ConfigInit DEF EdgesInit
<1>2. ConfigInv /\ [EdgesNext]_edgeVars => ConfigInv'
    BY ConfigStep, EdgesSteps
<1> QED
    BY <1>1, <1>2, PTL DEF EdgesSpec

\* An import of any document into any configuration that edits and imports lead to
\* is done once by being done twice, restores a backup without a loss but that of
\* plain settings beside a secret, and does what the dry run foretold
\* (import_config, export_config).
THEOREM ImportsAreDependable ==
    ASSUME Sync!ConfigConstants
    PROVE  EdgesSpec => []ImportDependable
<1>1. ConfigInv => ImportDependable
    BY ImportTwice, BackupRestored, ImportForetold
    DEF ImportDependable, Sync!ImportDependable
<1> QED
    BY <1>1, ConfigInvariant, PTL

\* Every component keeps its types, whichever of them runs.
Kinds ==
    /\ component \in Components /\ Heartbeats!TypeOK /\ Duty!TypeOK
    /\ Inventory!TypeOK /\ Sync!TypeOK /\ Metrics!TypeOK

THEOREM EdgesTypes ==
    ASSUME EdgesConstants
    PROVE  EdgesSpec => []EdgesTypeOK
<1> USE DEF EdgesConstants
<1>1. EdgesSpec => []TypeOK
  <2>1. EdgesInit => Init
    BY DEF EdgesInit
  <2>2. [EdgesNext]_edgeVars => [Next]_vars
    BY EdgesSteps
  <2>3. EdgesSpec => Spec
    BY <2>1, <2>2, PTL DEF EdgesSpec, Spec
  <2> QED
    BY <2>3, ReporterTypes, PTL
<1>2. EdgesSpec => [](component \in Components /\ SyncInv /\ DutyInv)
  <2>1. EdgesInit => component \in Components /\ SyncInv /\ DutyInv
    BY SyncInit, DutyInit DEF EdgesInit
  <2>2. component \in Components /\ SyncInv /\ DutyInv /\ [EdgesNext]_edgeVars
            => (component \in Components /\ SyncInv /\ DutyInv)'
    BY SyncStep, DutyStep, EdgesSteps
  <2> QED
    BY <2>1, <2>2, PTL DEF EdgesSpec
<1>3. component \in Components /\ SyncInv /\ DutyInv /\ InventoryInv /\ ConfigInv /\ IngestInv
          => Kinds
  <2>1. SyncInv => Heartbeats!TypeOK
    BY DEF SyncInv
  <2>2. DutyInv => Duty!TypeOK
    BY DEF DutyInv
  <2>3. InventoryInv => Inventory!TypeOK
    BY DEF InventoryInv
  <2>4. ConfigInv => Sync!TypeOK
    BY DEF ConfigInv
  <2>5. IngestInv => Metrics!TypeOK
    BY DEF IngestInv
  <2> QED
    BY <2>1, <2>2, <2>3, <2>4, <2>5 DEF Kinds
<1>4. Kinds /\ TypeOK => EdgesTypeOK
  <2>1. component \in Components => component \in {"reporter", "discovery", "config",
                                                   "sync", "oncall", "metrics"}
    OBVIOUS
  <2> QED
    BY <2>1 DEF Kinds, EdgesTypeOK
<1> QED
    BY <1>1, <1>2, <1>3, <1>4, InventoryInvariant, ConfigInvariant, IngestInvariant, PTL
=============================================================================
