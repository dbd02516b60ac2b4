----------------------------- MODULE LRUProofs -----------------------------
(***************************************************************************)
(* Proofs about LRU, for every set of keys and values and every capacity:  *)
(* map and list never come apart, the victim is the least recently used    *)
(* entry, and the list implements the bounded cache that Catalog assumes.  *)
(***************************************************************************)
EXTENDS LRU, FiniteSetTheorems, TLAPS

-----------------------------------------------------------------------------
(* Lists with some of their elements removed *)

\* The indices in I are numbered from 1 on, in their order.
LEMMA NthFacts ==
    ASSUME NEW n \in Nat, NEW I \in SUBSET (1 .. n)
    PROVE  /\ IsFiniteSet(I) /\ Cardinality(I) \in Nat /\ Cardinality(I) <= n
           /\ I # 1 .. n => Cardinality(I) < n
           /\ \A j \in 1 .. Cardinality(I) : Nth(I, j) \in I
           /\ \A i \in I : \E j \in 1 .. Cardinality(I) : Nth(I, j) = i
           /\ \A j, k \in 1 .. Cardinality(I) : j < k => Nth(I, j) < Nth(I, k)
  <1> DEFINE below(i) == { h \in I : h < i }
             f == [i \in I |-> Cardinality(below(i)) + 1]
  <1>1. /\ IsFiniteSet(1 .. n) /\ Cardinality(1 .. n) = n
        /\ IsFiniteSet(I) /\ Cardinality(I) \in Nat /\ Cardinality(I) <= n
        /\ I # 1 .. n => Cardinality(I) # n
    <2>1. IsFiniteSet(1 .. n) /\ Cardinality(1 .. n) = n
      BY FS_Interval
    <2> QED
      BY <2>1, FS_Subset, FS_CardinalityType
  <1>2. ASSUME NEW i \in I
        PROVE  /\ IsFiniteSet(below(i)) /\ Cardinality(below(i)) \in Nat
               /\ Cardinality(below(i)) < Cardinality(I)
    <2>1. below(i) \in SUBSET I /\ i \notin below(i)
      OBVIOUS
    <2> HIDE DEF below
    <2>2. IsFiniteSet(below(i)) /\ Cardinality(below(i)) \in Nat
      BY <1>1, <2>1, FS_Subset, FS_CardinalityType
    <2>3. Cardinality(below(i)) <= Cardinality(I) /\ Cardinality(below(i)) # Cardinality(I)
      BY <1>1, <1>2, <2>1, FS_Subset
    <2> QED
      BY <1>1, <2>2, <2>3
  <1>3. ASSUME NEW i \in I, NEW h \in I, h < i
        PROVE  Cardinality(below(h)) < Cardinality(below(i))
    <2>1. below(h) \in SUBSET below(i) /\ h \in below(i) /\ h \notin below(h)
      <3>1. \A g \in I : g \in Int
        OBVIOUS
      <3>2. \A g \in I : g < h => g < i
        BY <1>3, <3>1
      <3>3. ~ (h < h)
        BY <3>1
      <3> QED
        BY <1>3, <3>2, <3>3, Zenon
    <2>2. IsFiniteSet(below(i)) /\ Cardinality(below(i)) \in Nat /\ Cardinality(below(h)) \in Nat
      BY <1>2
    <2> HIDE DEF below
    <2>3. /\ Cardinality(below(h)) <= Cardinality(below(i))
          /\ Cardinality(below(h)) # Cardinality(below(i))
      BY <2>1, <2>2, FS_Subset
    <2> QED
      BY <2>2, <2>3
  <1>4. ASSUME NEW i \in I
        PROVE  f[i] \in 1 .. Cardinality(I) /\ f[i] = Cardinality(below(i)) + 1
    <2>1. Cardinality(below(i)) \in Nat /\ Cardinality(below(i)) < Cardinality(I)
      BY <1>2
    <2> HIDE DEF below
    <2> QED
      BY <1>1, <2>1
  <1>5. ASSUME NEW i \in I, NEW h \in I, h < i
        PROVE  f[h] < f[i]
    <2>1. /\ f[h] = Cardinality(below(h)) + 1 /\ f[i] = Cardinality(below(i)) + 1
          /\ Cardinality(below(h)) < Cardinality(below(i))
          /\ Cardinality(below(h)) \in Nat /\ Cardinality(below(i)) \in Nat
      BY <1>2, <1>3, <1>4, <1>5
    <2> HIDE DEF below, f
    <2> QED
      BY <2>1
  <1>6. \A j, i \in I : f[i] = f[j] => i = j
    <2> SUFFICES ASSUME NEW i \in I, NEW j \in I, f[i] = f[j], i # j
                 PROVE  FALSE
      OBVIOUS
    <2>1. (i < j \/ j < i) /\ f[i] \in Int /\ f[j] \in Int
      <3>1. i < j \/ j < i
        OBVIOUS
      <3> QED
        BY <1>1, <1>4, <3>1
    <2> HIDE DEF f
    <2> QED
      BY <1>5, <2>1
  <1>7. f \in Injection(I, 1 .. Cardinality(I))
    <2>1. f \in [I -> 1 .. Cardinality(I)]
      BY <1>4
    <2> HIDE DEF f
    <2> QED
      BY <1>6, <2>1 DEF Injection, IsInjective
  <1>8. f \in Surjection(I, 1 .. Cardinality(I))
    <2>1. IsFiniteSet(1 .. Cardinality(I)) /\ Cardinality(1 .. Cardinality(I)) = Cardinality(I)
      BY <1>1, FS_Interval
    <2> HIDE DEF f
    <2> QED
      BY <1>7, <2>1, FS_Injection
  <1>9. ASSUME NEW j \in 1 .. Cardinality(I)
        PROVE  Nth(I, j) \in I /\ f[Nth(I, j)] = j
    <2>1. PICK i \in I : f[i] = j
      BY <1>8 DEF Surjection
    <2>2. Cardinality(below(i)) = j - 1
      <3>1. f[i] = Cardinality(below(i)) + 1 /\ Cardinality(below(i)) \in Nat
        BY <1>2, <1>4
      <3> HIDE DEF f, below
      <3> QED
        BY <1>1, <2>1, <3>1
    <2>3. Nth(I, j) \in I /\ Cardinality(below(Nth(I, j))) = j - 1
      BY <2>2, Zenon DEF Nth
    <2>4. f[Nth(I, j)] = Cardinality(below(Nth(I, j))) + 1
      BY <1>4, <2>3
    <2> HIDE DEF f, below
    <2> QED
      BY <1>1, <2>3, <2>4
  <1> HIDE DEF f
  <1>10. ASSUME NEW i \in I
         PROVE  \E j \in 1 .. Cardinality(I) : Nth(I, j) = i
    <2>1. PICK j \in 1 .. Cardinality(I) : j = f[i]
      BY <1>4
    <2> QED
      BY <1>6, <1>9, <2>1
  <1>11. ASSUME NEW j \in 1 .. Cardinality(I), NEW k \in 1 .. Cardinality(I), j < k
         PROVE  Nth(I, j) < Nth(I, k)
    <2>1. PICK a \in I, b \in I : a = Nth(I, j) /\ b = Nth(I, k)
      BY <1>9
    <2>2. f[a] = j /\ f[b] = k
      BY <1>9, <2>1
    <2>3. a \in Int /\ b \in Int /\ j \in Int /\ k \in Int
      BY <1>1
    <2>4. ~ (b < a) /\ b # a
      BY <1>5, <1>11, <2>2, <2>3
    <2> QED
      BY <2>1, <2>3, <2>4
  <1> QED
    BY <1>1, <1>9, <1>10, <1>11

\* The elements of m are those of s at the indices in I, in their order: b maps
\* the new indices to the old ones.
Picks(b, m, s, I) ==
    /\ b \in [DOMAIN m -> I]
    /\ \A j \in DOMAIN m : m[j] = s[b[j]]
    /\ \A i \in I : \E j \in DOMAIN m : b[j] = i
    /\ \A j, k \in DOMAIN m : j < k => b[j] < b[k]

\* What Keep leaves.
LEMMA KeepFacts ==
    ASSUME NEW S, NEW s \in Seq(S), NEW I \in SUBSET DOMAIN s, NEW m, m = Keep(s, I)
    PROVE  /\ m \in Seq(S) /\ Len(m) \in Nat /\ Len(m) <= Len(s)
           /\ I # DOMAIN s => Len(m) < Len(s)
           /\ \E b : Picks(b, m, s, I)
  <1>1. Len(s) \in Nat /\ DOMAIN s = 1 .. Len(s) /\ \A i \in 1 .. Len(s) : s[i] \in S
    OBVIOUS
  <1>2. /\ Cardinality(I) \in Nat /\ Cardinality(I) <= Len(s)
        /\ I # 1 .. Len(s) => Cardinality(I) < Len(s)
        /\ \A j \in 1 .. Cardinality(I) : Nth(I, j) \in I
        /\ \A i \in I : \E j \in 1 .. Cardinality(I) : Nth(I, j) = i
        /\ \A j, k \in 1 .. Cardinality(I) : j < k => Nth(I, j) < Nth(I, k)
    BY <1>1, NthFacts
  <1>3. PICK c \in Nat : c = Cardinality(I)
    BY <1>2
  <1>4. PICK b : b = [j \in 1 .. c |-> Nth(I, j)]
    OBVIOUS
  <1>5. m = [j \in 1 .. c |-> s[b[j]]] /\ b \in [1 .. c -> I]
    BY <1>2, <1>3, <1>4 DEF Keep
  <1>6. m \in [1 .. c -> S]
    BY <1>1, <1>5
  <1>7. m \in Seq(S) /\ Len(m) = c /\ DOMAIN m = 1 .. c
    BY <1>6
  <1>8. /\ \A i \in I : \E j \in 1 .. c : b[j] = i
        /\ \A j, k \in 1 .. c : j < k => b[j] < b[k]
    BY <1>2, <1>3, <1>4
  <1>9. Picks(b, m, s, I)
    BY <1>5, <1>7, <1>8 DEF Picks
  <1> QED
    BY <1>1, <1>2, <1>3, <1>7, <1>9

-----------------------------------------------------------------------------
(* The cache *)

\* No key is twice in the list.
Distinct(l) == \A i, j \in DOMAIN l : l[i].key = l[j].key => i = j

KeysOf(l) == { l[i].key : i \in DOMAIN l }

\* No key is twice in the history.
Once(t) == \A a, b \in DOMAIN t : t[a] = t[b] => a = b

\* The list has its keys in the order in which t has them.
InStep(l, t) ==
    \A i, j \in DOMAIN l, a, b \in DOMAIN t :
        i < j /\ t[a] = l[i].key /\ t[b] = l[j].key => a < b

\* Map, list and history belong together.
IInv ==
    /\ TypeOK
    /\ Distinct(list) /\ items = KeysOf(list) /\ Len(list) <= capacity
    /\ Once(touched)
    /\ items \subseteq ToSet(touched)
    /\ InStep(list, touched)

\* A list with some entries removed.
LEMMA KeepList ==
    ASSUME NEW l \in Seq(Entry), Distinct(l), NEW I \in SUBSET DOMAIN l, NEW m, m = Keep(l, I)
    PROVE  /\ m \in Seq(Entry) /\ Distinct(m) /\ Len(m) \in Nat /\ Len(m) <= Len(l)
           /\ I # DOMAIN l => Len(m) < Len(l)
           /\ KeysOf(m) = { l[i].key : i \in I } /\ ToSet(m) = { l[i] : i \in I }
           /\ \A t : InStep(l, t) => InStep(m, t)
  <1>0. PICK b : Picks(b, m, l, I)
    BY KeepFacts
  <1>1. /\ b \in [DOMAIN m -> I]
        /\ \A j \in DOMAIN m : m[j] = l[b[j]]
        /\ \A i \in I : \E j \in DOMAIN m : b[j] = i
        /\ \A j, k \in DOMAIN m : j < k => b[j] < b[k]
    BY <1>0 DEF Picks
  <1>2. m \in Seq(Entry) /\ Len(m) \in Nat /\ Len(m) <= Len(l) /\ (I # DOMAIN l => Len(m) < Len(l))
    BY KeepFacts
  <1>3. DOMAIN m \subseteq Int /\ DOMAIN l \subseteq Int
    BY <1>2
  <1>4. ASSUME NEW i \in DOMAIN m, NEW j \in DOMAIN m, m[i].key = m[j].key, i # j
        PROVE  FALSE
    <2>1. b[i] = b[j]
      BY <1>1, <1>4 DEF Distinct
    <2>2. i < j \/ j < i
      BY <1>3, <1>4
    <2>3. b[i] \in Int
      BY <1>1, <1>3
    <2> QED
      BY <1>1, <2>1, <2>2, <2>3
  <1>5. KeysOf(m) = { l[i].key : i \in I } /\ ToSet(m) = { l[i] : i \in I }
    BY <1>1 DEF KeysOf, ToSet
  <1>6. ASSUME NEW t, InStep(l, t)
        PROVE  InStep(m, t)
    <2> SUFFICES ASSUME NEW i \in DOMAIN m, NEW j \in DOMAIN m, NEW a \in DOMAIN t, NEW c \in DOMAIN t,
                        i < j, t[a] = m[i].key, t[c] = m[j].key
                 PROVE  a < c
      BY DEF InStep
    <2>1. b[i] \in DOMAIN l /\ b[j] \in DOMAIN l /\ b[i] < b[j]
          /\ t[a] = l[b[i]].key /\ t[c] = l[b[j]].key
      BY <1>1
    <2> QED
      BY <1>6, <2>1 DEF InStep
  <1> QED
    BY <1>2, <1>4, <1>5, <1>6 DEF Distinct

\* A list without its last entry.
LEMMA FrontList ==
    ASSUME NEW l \in Seq(Entry), Distinct(l), Len(l) > 0, NEW m, m = Front(l)
    PROVE  /\ m \in Seq(Entry) /\ Distinct(m) /\ Len(m) = Len(l) - 1
           /\ KeysOf(m) = KeysOf(l) \ {Last(l).key} /\ ToSet(m) = ToSet(l) \ {Last(l)}
           /\ Last(l) \in ToSet(l)
           /\ \A k \in KeysOf(m) : \E i \in DOMAIN l : i < Len(l) /\ l[i].key = k
           /\ \A t : InStep(l, t) => InStep(m, t)
  <1>1. PICK n \in Nat : n = Len(l) - 1
    OBVIOUS
  <1>2. /\ m \in Seq(Entry) /\ Len(m) = n /\ DOMAIN m = 1 .. n /\ DOMAIN l = 1 .. n + 1
        /\ \A i \in 1 .. n : m[i] = l[i]
    <2>1. m = SubSeq(l, 1, n) /\ n \in 0 .. Len(l) /\ Len(l) = n + 1
      BY <1>1 DEF Front
    <2>2. m = [i \in 1 .. n |-> l[i]]
      BY <2>1
    <2>3. \A i \in 1 .. n : l[i] \in Entry
      BY <2>1
    <2>4. m \in [1 .. n -> Entry]
      BY <2>2, <2>3
    <2> QED
      BY <2>1, <2>2, <2>4
  <1>3. Last(l) = l[n + 1]
    BY <1>1 DEF Last
  <1>4. ASSUME NEW i \in 1 .. n + 1
        PROVE  /\ l[i].key = l[n + 1].key => i = n + 1
               /\ l[i] = l[n + 1] => i = n + 1
               /\ i # n + 1 => i \in 1 .. n /\ i < Len(l)
    BY <1>1, <1>2 DEF Distinct
  <1>5. KeysOf(m) = KeysOf(l) \ {Last(l).key} /\ ToSet(m) = ToSet(l) \ {Last(l)}
    <2>1. 1 .. n \subseteq 1 .. n + 1 /\ n + 1 \notin 1 .. n
      OBVIOUS
    <2> QED
      BY <1>2, <1>3, <1>4, <2>1 DEF KeysOf, ToSet
  <1>6. Distinct(m) /\ \A t : InStep(l, t) => InStep(m, t)
    <2>1. 1 .. n \subseteq 1 .. n + 1
      OBVIOUS
    <2> QED
      BY <1>2, <2>1 DEF Distinct, InStep
  <1>7. \A k \in KeysOf(m) : \E i \in DOMAIN l : i < Len(l) /\ l[i].key = k
    BY <1>1, <1>2 DEF KeysOf
  <1>8. Last(l) \in ToSet(l)
    BY <1>2, <1>3 DEF ToSet
  <1> QED
    BY <1>1, <1>2, <1>5, <1>6, <1>7, <1>8

\* A list with a new entry in front.
LEMMA PushList ==
    ASSUME NEW m \in Seq(Entry), Distinct(m), NEW e \in Entry, e.key \notin KeysOf(m),
           NEW l, l = PushFront(e, m)
    PROVE  /\ l \in Seq(Entry) /\ Distinct(l) /\ Len(l) = Len(m) + 1
           /\ KeysOf(l) = KeysOf(m) \cup {e.key} /\ ToSet(l) = ToSet(m) \cup {e}
           /\ l[1] = e /\ \A i \in DOMAIN l : i # 1 => i - 1 \in DOMAIN m /\ l[i] = m[i - 1]
  <1>1. PICK n \in Nat : n = Len(m)
    OBVIOUS
  <1>2. /\ l \in Seq(Entry) /\ Len(l) = n + 1 /\ DOMAIN l = 1 .. n + 1 /\ DOMAIN m = 1 .. n
        /\ l[1] = e /\ \A i \in 1 .. n : l[i + 1] = m[i]
    BY <1>1 DEF PushFront
  <1>3. \A i \in 1 .. n + 1 : i # 1 => i - 1 \in 1 .. n /\ l[i] = m[i - 1]
    <2> SUFFICES ASSUME NEW i \in 1 .. n + 1, i # 1
                 PROVE  i - 1 \in 1 .. n /\ l[i] = m[i - 1]
      OBVIOUS
    <2>1. i - 1 \in 1 .. n /\ (i - 1) + 1 = i
      OBVIOUS
    <2> QED
      BY <1>2, <2>1
  <1>4. KeysOf(l) = KeysOf(m) \cup {e.key} /\ ToSet(l) = ToSet(m) \cup {e}
    <2>1. 1 \in 1 .. n + 1 /\ \A i \in 1 .. n : i + 1 \in 1 .. n + 1
      OBVIOUS
    <2>2. /\ \A i \in 1 .. n + 1 : l[i] = e \/ \E j \in 1 .. n : l[i] = m[j]
          /\ \A j \in 1 .. n : \E i \in 1 .. n + 1 : l[i] = m[j]
          /\ \E i \in 1 .. n + 1 : l[i] = e
      BY <1>2, <1>3, <2>1
    <2>3. ToSet(l) = ToSet(m) \cup {e}
      <3>1. ToSet(l) = { l[i] : i \in 1 .. n + 1 } /\ ToSet(m) = { m[i] : i \in 1 .. n }
        BY <1>2 DEF ToSet
      <3> QED
        BY <2>2, <3>1, Zenon
    <2>4. KeysOf(l) = { x.key : x \in ToSet(l) } /\ KeysOf(m) = { x.key : x \in ToSet(m) }
      BY DEF KeysOf, ToSet
    <2> QED
      BY <2>3, <2>4
  <1>5. ASSUME NEW i \in 1 .. n + 1, NEW j \in 1 .. n + 1, l[i].key = l[j].key
        PROVE  i = j
    <2>1. i # 1 => i - 1 \in 1 .. n /\ l[i] = m[i - 1] /\ l[i].key \in KeysOf(m)
      BY <1>2, <1>3 DEF KeysOf
    <2>2. j # 1 => j - 1 \in 1 .. n /\ l[j] = m[j - 1] /\ l[j].key \in KeysOf(m)
      BY <1>2, <1>3 DEF KeysOf
    <2>3. CASE i = 1 \/ j = 1
      BY <1>2, <1>5, <2>1, <2>2, <2>3
    <2>4. CASE i # 1 /\ j # 1
      <3>1. i - 1 = j - 1
        BY <1>2, <1>5, <2>1, <2>2, <2>4 DEF Distinct
      <3> QED
        BY <3>1
    <2> QED
      BY <2>3, <2>4
  <1> QED
    BY <1>1, <1>2, <1>3, <1>4, <1>5 DEF Distinct

\* u has k in front, and the others as t has them.
ToFront(k, t, u) ==
    /\ 1 \in DOMAIN u /\ u[1] = k
    /\ ToSet(u) = ToSet(t) \cup {k}
    /\ \A a, b \in DOMAIN u : a < b /\ u[a] # k =>
          \E c, d \in DOMAIN t : c < d /\ t[c] = u[a] /\ t[d] = u[b]

\* The history with k moved to the front.
LEMMA TouchFacts ==
    ASSUME NEW t \in Seq(Keys), Once(t), NEW k \in Keys,
           NEW u, u = PushFront(k, Keep(t, { i \in DOMAIN t : t[i] # k }))
    PROVE  u \in Seq(Keys) /\ Once(u) /\ ToFront(k, t, u)
  <1>1. PICK I, m : I = { i \in DOMAIN t : t[i] # k } /\ m = Keep(t, I)
    OBVIOUS
  <1>2. I \in SUBSET DOMAIN t
    BY <1>1
  <1>3. m \in Seq(Keys) /\ Len(m) \in Nat
    BY <1>1, <1>2, KeepFacts
  <1>4. PICK b : Picks(b, m, t, I)
    BY <1>1, <1>2, KeepFacts
  <1>5. PICK n \in Nat : n = Len(m)
    BY <1>3
  <1>6. /\ u \in Seq(Keys) /\ DOMAIN u = 1 .. n + 1 /\ DOMAIN m = 1 .. n
        /\ 1 \in 1 .. n + 1 /\ u[1] = k /\ \A i \in 1 .. n : u[i + 1] = m[i]
    BY <1>1, <1>3, <1>5 DEF PushFront
  <1>b. /\ \A j \in 1 .. n : b[j] \in I /\ m[j] = t[b[j]]
        /\ \A i \in I : \E j \in 1 .. n : b[j] = i
        /\ \A j, h \in 1 .. n : j < h => b[j] < b[h]
    BY <1>4, <1>6 DEF Picks
  <1>c. \A i \in I : i \in DOMAIN t /\ i \in Int /\ t[i] # k
    BY <1>1
  <1>7. ASSUME NEW a \in 1 .. n + 1, a # 1
        PROVE  /\ a - 1 \in 1 .. n /\ u[a] = t[b[a - 1]]
               /\ b[a - 1] \in DOMAIN t /\ u[a] # k
    <2>1. a - 1 \in 1 .. n /\ (a - 1) + 1 = a
      BY <1>7
    <2>2. u[a] = m[a - 1]
      BY <1>6, <2>1
    <2> QED
      BY <1>b, <1>c, <2>1, <2>2
  <1>8. ASSUME NEW a \in 1 .. n + 1, NEW c \in 1 .. n + 1, a < c, u[a] # k
        PROVE  /\ b[a - 1] \in DOMAIN t /\ b[c - 1] \in DOMAIN t /\ b[a - 1] < b[c - 1]
               /\ t[b[a - 1]] = u[a] /\ t[b[c - 1]] = u[c]
    <2>1. a # 1 /\ c # 1
      BY <1>6, <1>8
    <2>2. a - 1 \in 1 .. n /\ c - 1 \in 1 .. n /\ a - 1 < c - 1
      BY <1>8, <2>1
    <2>3. b[a - 1] < b[c - 1]
      BY <1>b, <2>2
    <2> QED
      BY <1>7, <1>8, <2>1, <2>3
  <1>9. ASSUME NEW a \in 1 .. n + 1, NEW c \in 1 .. n + 1, u[a] = u[c], a < c
        PROVE  FALSE
    <2>1. CASE a = 1
      <3>1. c # 1
        BY <1>9, <2>1
      <3> QED
        BY <1>6, <1>7, <1>9, <2>1, <3>1
    <2>2. CASE a # 1
      <3>1. u[a] # k
        BY <1>7, <2>2
      <3>2. PICK x, y : x = b[a - 1] /\ y = b[c - 1]
        OBVIOUS
      <3>3. x \in DOMAIN t /\ y \in DOMAIN t /\ x < y /\ t[x] = t[y]
        BY <1>8, <1>9, <3>1, <3>2
      <3>4. x \in Int /\ x = y
        BY <3>3 DEF Once
      <3> QED
        BY <3>3, <3>4
    <2> QED
      BY <2>1, <2>2
  <1>10. \A a, c \in 1 .. n + 1 : u[a] = u[c] => a = c
    <2> SUFFICES ASSUME NEW a \in 1 .. n + 1, NEW c \in 1 .. n + 1, u[a] = u[c]
                 PROVE  a = c
      OBVIOUS
    <2>1. ~ (a < c) /\ ~ (c < a)
      BY <1>9
    <2> QED
      BY <2>1
  <1>11. ToSet(u) = ToSet(t) \cup {k}
    <2>1. \A a \in 1 .. n + 1 : u[a] = k \/ \E i \in DOMAIN t : u[a] = t[i]
      BY <1>6, <1>7
    <2>2. ASSUME NEW i \in DOMAIN t
          PROVE  \E a \in 1 .. n + 1 : u[a] = t[i]
      <3>1. CASE t[i] = k
        BY <1>6, <3>1
      <3>2. CASE t[i] # k
        <4>1. PICK j \in 1 .. n : b[j] = i
          BY <1>1, <1>b, <3>2
        <4>2. j + 1 \in 1 .. n + 1 /\ u[j + 1] = t[i]
          BY <1>b, <1>6, <4>1
        <4> QED
          BY <4>2
      <3> QED
        BY <3>1, <3>2
    <2>3. \E a \in 1 .. n + 1 : u[a] = k
      BY <1>6
    <2>4. ToSet(u) = { u[a] : a \in 1 .. n + 1 } /\ ToSet(t) = { t[i] : i \in DOMAIN t }
      BY <1>6 DEF ToSet
    <2>5. ToSet(u) \subseteq ToSet(t) \cup {k}
      BY <2>1, <2>4
    <2>6. ToSet(t) \subseteq ToSet(u) /\ k \in ToSet(u)
      BY <2>2, <2>3, <2>4
    <2> QED
      BY <2>5, <2>6
  <1>12. \A a, c \in DOMAIN u : a < c /\ u[a] # k =>
             \E x, y \in DOMAIN t : x < y /\ t[x] = u[a] /\ t[y] = u[c]
    <2> SUFFICES ASSUME NEW a \in 1 .. n + 1, NEW c \in 1 .. n + 1, a < c, u[a] # k
                 PROVE  \E x, y \in DOMAIN t : x < y /\ t[x] = u[a] /\ t[y] = u[c]
      BY <1>6
    <2>1. PICK x, y : x = b[a - 1] /\ y = b[c - 1]
      OBVIOUS
    <2>2. x \in DOMAIN t /\ y \in DOMAIN t /\ x < y /\ t[x] = u[a] /\ t[y] = u[c]
      BY <1>8, <2>1
    <2> QED
      BY <2>2
  <1>13. Once(u)
    BY <1>6, <1>10 DEF Once
  <1>14. ToFront(k, t, u)
    BY <1>6, <1>11, <1>12 DEF ToFront
  <1> QED
    BY <1>6, <1>13, <1>14

\* An entry with key k in front of what m has kept of the list, and k used.
LEMMA FrontStep ==
    ASSUME IInv, NEW k \in Keys, NEW e \in Entry, e.key = k,
           NEW m \in Seq(Entry), Distinct(m), k \notin KeysOf(m), KeysOf(m) \subseteq items,
           Len(m) < capacity, InStep(m, touched),
           list' = PushFront(e, m), Touch(k), capacity' = capacity,
           items' = KeysOf(m) \cup {k}
    PROVE  IInv'
  <1>a. /\ capacity \in Nat /\ Len(m) \in Nat /\ touched \in Seq(Keys)
        /\ Once(touched)
        /\ items \subseteq ToSet(touched) /\ items \subseteq Keys
    BY DEF IInv, TypeOK
  <1>1. PICK l, u : l = list' /\ u = touched'
    OBVIOUS
  <1>2. /\ l \in Seq(Entry) /\ Distinct(l) /\ Len(l) = Len(m) + 1
        /\ KeysOf(l) = KeysOf(m) \cup {k} /\ l[1] = e
        /\ \A i \in DOMAIN l : i # 1 => i - 1 \in DOMAIN m /\ l[i] = m[i - 1]
    BY <1>1, PushList
  <1>3. /\ u \in Seq(Keys) /\ 1 \in DOMAIN u /\ u[1] = k
        /\ \A a, b \in DOMAIN u : u[a] = u[b] => a = b
        /\ ToSet(u) = ToSet(touched) \cup {k}
        /\ \A a, b \in DOMAIN u : a < b /\ u[a] # k =>
              \E c, d \in DOMAIN touched : c < d /\ touched[c] = u[a] /\ touched[d] = u[b]
    <2>1. u = PushFront(k, Keep(touched, { i \in DOMAIN touched : touched[i] # k }))
      BY <1>1 DEF Touch
    <2>2. u \in Seq(Keys) /\ Once(u) /\ ToFront(k, touched, u)
      BY <1>a, <2>1, TouchFacts
    <2> QED
      BY <2>2 DEF Once, ToFront
  <1>4. DOMAIN u \subseteq Int /\ DOMAIN l \subseteq Int /\ DOMAIN touched \subseteq Int
        /\ DOMAIN m \subseteq Int /\ \A a \in DOMAIN u : a >= 1
    BY <1>a, <1>2, <1>3
  <1>5. InStep(l, u)
    <2> SUFFICES ASSUME NEW i \in DOMAIN l, NEW j \in DOMAIN l, NEW a \in DOMAIN u, NEW b \in DOMAIN u,
                        i < j, u[a] = l[i].key, u[b] = l[j].key
                 PROVE  a < b
      BY DEF InStep
    <2>1. j # 1 /\ j - 1 \in DOMAIN m /\ l[j] = m[j - 1] /\ l[j].key # k
      <3>1. j # 1
        BY <1>2, <1>4
      <3>2. j - 1 \in DOMAIN m /\ l[j] = m[j - 1]
        BY <1>2, <3>1
      <3> QED
        BY <3>1, <3>2 DEF KeysOf
    <2>2. CASE i = 1
      <3>1. a = 1 /\ b # 1
        BY <1>2, <1>3, <2>1, <2>2
      <3> QED
        BY <1>4, <3>1
    <2>3. CASE i # 1
      <3>1. i - 1 \in DOMAIN m /\ l[i] = m[i - 1] /\ i - 1 < j - 1
        BY <1>2, <1>4, <2>3
      <3>2. a # b
        BY <1>2, <1>4 DEF Distinct
      <3> SUFFICES ASSUME b < a PROVE FALSE
        BY <1>4, <3>2
      <3>3. PICK c \in DOMAIN touched, d \in DOMAIN touched :
                c < d /\ touched[c] = l[j].key /\ touched[d] = l[i].key
        BY <1>3, <2>1
      <3>4. d < c
        BY <2>1, <3>1, <3>3 DEF InStep
      <3> QED
        BY <1>4, <3>3, <3>4
    <2> QED
      BY <2>2, <2>3
  <1>6. TypeOK'
    BY <1>a, <1>1, <1>2, <1>3 DEF TypeOK, IInv
  <1>7. Len(l) <= capacity
    BY <1>a, <1>2
  <1>8. items' = KeysOf(l) /\ items' \subseteq ToSet(u)
    BY <1>a, <1>2, <1>3
  <1>9. /\ KeysOf(l) = KeysOf(list)' /\ Distinct(list)' /\ InStep(list, touched)'
        /\ ToSet(u) = ToSet(touched)' /\ Once(touched)'
    BY <1>1, <1>2, <1>3, <1>5 DEF KeysOf, Distinct, InStep, ToSet, Once
  <1> QED
    BY <1>1, <1>3, <1>6, <1>7, <1>8, <1>9 DEF IInv

-----------------------------------------------------------------------------
(* The operations *)

\* The entry that the map has for a key is in the list.
LEMMA ElemFacts ==
    ASSUME IInv, NEW k \in items, NEW e, e = Elem(k)
    PROVE  /\ e \in Entry /\ e.key = k /\ e \in ToSet(list) /\ k \in Keys
           /\ \A d \in ToSet(list) : d.key = k => d = e
  <1>1. list \in Seq(Entry) /\ k \in KeysOf(list) /\ Distinct(list) /\ k \in Keys
    BY DEF IInv, TypeOK
  <1>2. \E d \in ToSet(list) : d.key = k
    BY <1>1 DEF KeysOf, ToSet
  <1>3. e \in ToSet(list) /\ e.key = k
    BY <1>2, Zenon DEF Elem
  <1>4. \A d \in ToSet(list) : d.key = k => d = e
    BY <1>1, <1>3 DEF ToSet, Distinct
  <1>5. e \in Entry
    BY <1>1, <1>3 DEF ToSet
  <1> QED
    BY <1>1, <1>3, <1>4, <1>5

\* The list without the entries of some keys.
LEMMA RemoveFacts ==
    ASSUME IInv, NEW keys, NEW m, m = RemoveKeys(keys)
    PROVE  /\ m \in Seq(Entry) /\ Distinct(m) /\ Len(m) \in Nat /\ Len(m) <= Len(list)
           /\ keys \cap items # {} => Len(m) < Len(list)
           /\ KeysOf(m) = items \ keys
           /\ ToSet(m) = { e \in ToSet(list) : e.key \notin keys }
           /\ InStep(m, touched)
  <1>1. PICK I : I = { i \in DOMAIN list : list[i].key \notin keys }
    OBVIOUS
  <1>2. /\ list \in Seq(Entry) /\ Distinct(list) /\ items = KeysOf(list) /\ InStep(list, touched)
        /\ I \in SUBSET DOMAIN list /\ m = Keep(list, I)
    BY <1>1 DEF IInv, TypeOK, RemoveKeys
  <1>3. /\ m \in Seq(Entry) /\ Distinct(m) /\ Len(m) \in Nat /\ Len(m) <= Len(list)
        /\ I # DOMAIN list => Len(m) < Len(list)
        /\ KeysOf(m) = { list[i].key : i \in I } /\ ToSet(m) = { list[i] : i \in I }
        /\ InStep(m, touched)
    BY <1>2, KeepList
  <1>4. KeysOf(m) = items \ keys
    BY <1>1, <1>2, <1>3 DEF KeysOf
  <1>5. ToSet(m) = { e \in ToSet(list) : e.key \notin keys }
    BY <1>1, <1>3 DEF ToSet
  <1>6. keys \cap items # {} => I # DOMAIN list
    BY <1>1, <1>2 DEF KeysOf
  <1> QED
    BY <1>3, <1>4, <1>5, <1>6

\* What a Put of a new key leaves of the list has room for it.
LEMMA EvictFacts ==
    ASSUME IInv, NEW m, m = Evict.list
    PROVE  /\ m \in Seq(Entry) /\ Distinct(m) /\ Len(m) \in Nat /\ Len(m) < capacity
           /\ KeysOf(m) = Evict.items /\ KeysOf(m) \subseteq items
           /\ InStep(m, touched)
           /\ Len(list) < capacity => m = list /\ Evict.items = items
           /\ ~ (Len(list) < capacity) => /\ Len(list) > 0
                                          /\ Last(list) \in ToSet(list)
                                          /\ ToSet(m) = ToSet(list) \ {Last(list)}
                                          /\ Evict.items = items \ {Last(list).key}
                                          /\ \A k \in KeysOf(m) :
                                               \E i \in DOMAIN list : i < Len(list) /\ list[i].key = k
  <1>1. /\ list \in Seq(Entry) /\ Distinct(list) /\ items = KeysOf(list) /\ InStep(list, touched)
        /\ Len(list) \in Nat /\ capacity \in Nat \ {0} /\ Len(list) <= capacity
    BY DEF IInv, TypeOK
  <1>2. CASE Len(list) < capacity
    <2>1. m = list /\ Evict.items = items
      BY <1>1, <1>2 DEF Evict
    <2> QED
      BY <1>1, <1>2, <2>1
  <1>3. CASE ~ (Len(list) < capacity)
    <2>1. m = Front(list) /\ Evict.items = items \ {Last(list).key} /\ Len(list) > 0
      BY <1>1, <1>3 DEF Evict
    <2>2. /\ m \in Seq(Entry) /\ Distinct(m) /\ Len(m) = Len(list) - 1
          /\ KeysOf(m) = KeysOf(list) \ {Last(list).key} /\ ToSet(m) = ToSet(list) \ {Last(list)}
          /\ Last(list) \in ToSet(list) /\ InStep(m, touched)
          /\ \A k \in KeysOf(m) : \E i \in DOMAIN list : i < Len(list) /\ list[i].key = k
      BY <1>1, <2>1, FrontList
    <2>3. Len(m) \in Nat /\ Len(m) < capacity
      BY <1>1, <2>1, <2>2
    <2> QED
      BY <1>1, <1>3, <2>1, <2>2, <2>3
  <1> QED
    BY <1>2, <1>3

\* A hit keeps map, list and history together.
LEMMA GetStep ==
    ASSUME IInv, NEW k \in Keys, Get(k)
    PROVE  IInv' /\ ToSet(list') = ToSet(list)
  <1>1. PICK e, m : e = Elem(k) /\ m = RemoveKeys({k})
    OBVIOUS
  <1>2. /\ k \in items /\ list' = PushFront(e, m) /\ Touch(k)
        /\ capacity' = capacity /\ items' = items
    BY <1>1 DEF Get
  <1>3. /\ e \in Entry /\ e.key = k /\ e \in ToSet(list)
        /\ \A d \in ToSet(list) : d.key = k => d = e
    BY <1>1, <1>2, ElemFacts
  <1>4. /\ m \in Seq(Entry) /\ Distinct(m) /\ Len(m) \in Nat /\ Len(m) < Len(list)
        /\ KeysOf(m) = items \ {k} /\ ToSet(m) = { d \in ToSet(list) : d.key \notin {k} }
        /\ InStep(m, touched)
    <2>1. {k} \cap items # {}
      BY <1>2
    <2> QED
      BY <1>1, <2>1, RemoveFacts
  <1>5. Len(m) < capacity
    BY <1>4 DEF IInv, TypeOK
  <1>6. k \notin KeysOf(m) /\ KeysOf(m) \subseteq items /\ items' = KeysOf(m) \cup {k}
    BY <1>2, <1>4
  <1>7. IInv'
    BY <1>2, <1>3, <1>4, <1>5, <1>6, FrontStep
  <1>8. ToSet(list') = ToSet(m) \cup {e}
    BY <1>2, <1>3, <1>4, <1>6, PushList
  <1> QED
    BY <1>3, <1>4, <1>7, <1>8

\* A store of a key that is there.
LEMMA PutHit ==
    ASSUME IInv, NEW k \in Keys, NEW v \in Values, Put(k, v), k \in items
    PROVE  /\ IInv'
           /\ items' = items
           /\ ToSet(list') = { d \in ToSet(list) : d.key \notin {k} } \cup {[key |-> k, value |-> v]}
  <1>1. PICK e, m : e = [key |-> k, value |-> v] /\ m = RemoveKeys({k})
    OBVIOUS
  <1>2. /\ list' = PushFront(e, m) /\ Touch(k)
        /\ capacity' = capacity /\ items' = items
    BY <1>1 DEF Put
  <1>3. e \in Entry /\ e.key = k
    BY <1>1 DEF Entry
  <1>4. /\ m \in Seq(Entry) /\ Distinct(m) /\ Len(m) \in Nat /\ Len(m) < Len(list)
        /\ KeysOf(m) = items \ {k} /\ ToSet(m) = { d \in ToSet(list) : d.key \notin {k} }
        /\ InStep(m, touched)
    <2>1. {k} \cap items # {}
      OBVIOUS
    <2> QED
      BY <1>1, <2>1, RemoveFacts
  <1>5. Len(m) < capacity
    BY <1>4 DEF IInv, TypeOK
  <1>6. k \notin KeysOf(m) /\ KeysOf(m) \subseteq items /\ items' = KeysOf(m) \cup {k}
    BY <1>2, <1>4
  <1>7. IInv'
    BY <1>2, <1>3, <1>4, <1>5, <1>6, FrontStep
  <1>8. ToSet(list') = ToSet(m) \cup {e}
    BY <1>2, <1>3, <1>4, <1>6, PushList
  <1> QED
    BY <1>1, <1>2, <1>4, <1>7, <1>8

\* A store of a key that is not there.
LEMMA PutMiss ==
    ASSUME IInv, NEW k \in Keys, NEW v \in Values, Put(k, v), k \notin items
    PROVE  /\ IInv'
           /\ items' = Evict.items \cup {k}
           /\ ToSet(list') = ToSet(Evict.list) \cup {[key |-> k, value |-> v]}
  <1>1. PICK e, m : e = [key |-> k, value |-> v] /\ m = Evict.list
    OBVIOUS
  <1>2. /\ list' = PushFront(e, m) /\ Touch(k)
        /\ capacity' = capacity /\ items' = Evict.items \cup {k}
    BY <1>1 DEF Put
  <1>3. e \in Entry /\ e.key = k
    BY <1>1 DEF Entry
  <1>4. /\ m \in Seq(Entry) /\ Distinct(m) /\ Len(m) \in Nat /\ Len(m) < capacity
        /\ KeysOf(m) = Evict.items /\ KeysOf(m) \subseteq items /\ InStep(m, touched)
    BY <1>1, EvictFacts
  <1>5. k \notin KeysOf(m) /\ items' = KeysOf(m) \cup {k}
    BY <1>2, <1>4
  <1>6. IInv'
    BY <1>2, <1>3, <1>4, <1>5, FrontStep
  <1>7. ToSet(list') = ToSet(m) \cup {e}
    BY <1>2, <1>3, <1>4, <1>5, PushList
  <1> QED
    BY <1>1, <1>2, <1>6, <1>7

\* An invalidation takes the keys out of map and list.
LEMMA InvalidateStep ==
    ASSUME IInv, NEW keys, InvalidateIf(keys)
    PROVE  IInv' /\ ToSet(list') = { e \in ToSet(list) : e.key \notin keys }
  <1>1. PICK m : m = RemoveKeys(keys \cap items)
    OBVIOUS
  <1>2. /\ list' = m /\ items' = items \ keys
        /\ capacity' = capacity /\ touched' = touched
    BY <1>1 DEF InvalidateIf
  <1>3. /\ m \in Seq(Entry) /\ Distinct(m) /\ Len(m) \in Nat /\ Len(m) <= Len(list)
        /\ KeysOf(m) = items \ (keys \cap items)
        /\ ToSet(m) = { e \in ToSet(list) : e.key \notin keys \cap items }
        /\ InStep(m, touched)
    BY <1>1, RemoveFacts
  <1>4. \A e \in ToSet(list) : e.key \in items
    BY DEF IInv, KeysOf, ToSet
  <1>5. /\ TypeOK' /\ Len(m) <= capacity
    BY <1>2, <1>3 DEF IInv, TypeOK
  <1>6. /\ Distinct(list)' /\ items' = KeysOf(list)' /\ InStep(list, touched)'
        /\ Once(touched)' /\ items' \subseteq ToSet(touched)'
    <2>1. items' = KeysOf(m) /\ items' \subseteq ToSet(touched) /\ Once(touched)
      BY <1>2, <1>3 DEF IInv
    <2> QED
      BY <1>2, <1>3, <2>1 DEF Distinct, KeysOf, InStep, Once, ToSet
  <1>7. IInv'
    BY <1>2, <1>5, <1>6 DEF IInv
  <1> QED
    BY <1>2, <1>3, <1>4, <1>7

\* Clear empties map and list.
LEMMA ClearStep ==
    ASSUME IInv, Clear
    PROVE  IInv' /\ ToSet(list') = {}
  <1>0. <<>> \in Seq(Entry) /\ DOMAIN <<>> = {} /\ Len(<<>>) = 0
    OBVIOUS
  <1>1. list' \in Seq(Entry) /\ DOMAIN list' = {} /\ Len(list') = 0
    BY <1>0 DEF Clear
  <1>2. items' = {} /\ capacity' = capacity /\ touched' = touched
    BY DEF Clear
  <1>3. Distinct(list)' /\ KeysOf(list)' = {} /\ InStep(list, touched)' /\ ToSet(list') = {}
    BY <1>1 DEF Distinct, KeysOf, InStep, ToSet
  <1>4. Once(touched)'
    BY <1>2 DEF IInv, Once
  <1>5. TypeOK' /\ Len(list') <= capacity'
    <2>1. capacity \in Nat \ {0} /\ touched \in Seq(Keys)
      BY DEF IInv, TypeOK
    <2>2. Len(list') <= capacity'
      BY <1>1, <1>2, <2>1
    <2> QED
      BY <1>1, <1>2, <2>1, <2>2 DEF TypeOK
  <1> QED
    BY <1>2, <1>3, <1>4, <1>5 DEF IInv

\* A new cache is empty and has room for one entry at least.
LEMMA InitInv ==
    ASSUME Init
    PROVE  IInv /\ ToSet(list) = {}
  <1>1. capacity \in Nat \ {0} /\ items = {} /\ touched \in Seq(Keys) /\ touched = <<>>
    BY LRUAssumption DEF Init, NewCapacity
  <1>2. list \in Seq(Entry) /\ DOMAIN list = {} /\ Len(list) = 0
    BY DEF Init
  <1>3. DOMAIN touched = {}
    BY <1>1
  <1>4. Distinct(list) /\ KeysOf(list) = {} /\ InStep(list, touched) /\ ToSet(list) = {} /\ Once(touched)
    BY <1>2, <1>3 DEF Distinct, KeysOf, InStep, ToSet, Once
  <1> QED
    BY <1>1, <1>2, <1>4 DEF IInv, TypeOK

\* A step of any operation.
LEMMA InvStep ==
    ASSUME IInv, [Next]_vars
    PROVE  IInv'
  <1>1. CASE UNCHANGED vars
    <2>1. capacity' = capacity /\ items' = items /\ list' = list /\ touched' = touched
      BY <1>1 DEF vars
    <2> QED
      BY <2>1 DEF IInv, TypeOK, Distinct, KeysOf, InStep, Once, ToSet
  <1>2. ASSUME NEW k \in Keys, Get(k)
        PROVE  IInv'
    BY <1>2, GetStep
  <1>3. ASSUME NEW k \in Keys, NEW v \in Values, Put(k, v)
        PROVE  IInv'
    BY <1>3, PutHit, PutMiss
  <1>4. ASSUME NEW k \in Keys, Invalidate(k)
        PROVE  IInv'
    BY <1>4, InvalidateStep DEF Invalidate
  <1>5. ASSUME NEW keys \in SUBSET Keys, InvalidateIf(keys)
        PROVE  IInv'
    BY <1>5, InvalidateStep
  <1>6. CASE Clear
    BY <1>6, ClearStep
  <1> QED
    BY <1>1, <1>2, <1>3, <1>4, <1>5, <1>6 DEF Next

\* A list without a key twice has as many entries, and as many keys, as places.
LEMMA CountFacts ==
    ASSUME IInv
    PROVE  Cardinality(ToSet(list)) = Len(list) /\ Cardinality(KeysOf(list)) = Len(list)
  <1>1. PICK n \in Nat : n = Len(list) /\ DOMAIN list = 1 .. n
    BY DEF IInv, TypeOK
  <1>2. Distinct(list) /\ list \in Seq(Entry)
    BY DEF IInv, TypeOK
  <1>3. IsFiniteSet(1 .. n) /\ Cardinality(1 .. n) = n
    BY FS_Interval
  <1>4. PICK f, g : f = [i \in 1 .. n |-> list[i]] /\ g = [i \in 1 .. n |-> list[i].key]
    OBVIOUS
  <1>5. f \in Bijection(1 .. n, ToSet(list))
    BY <1>1, <1>2, <1>4 DEF Bijection, Injection, IsInjective, Surjection, ToSet, Distinct
  <1>6. g \in Bijection(1 .. n, KeysOf(list))
    BY <1>1, <1>2, <1>4 DEF Bijection, Injection, IsInjective, Surjection, KeysOf, Distinct
  <1>7. ExistsBijection(1 .. n, ToSet(list)) /\ ExistsBijection(1 .. n, KeysOf(list))
    BY <1>5, <1>6 DEF ExistsBijection
  <1> QED
    BY <1>1, <1>3, <1>7, FS_Bijection

\* A key that a Put pushes out was used before every key that stays.
LEMMA OldestStep ==
    ASSUME IInv, NEW k \in Keys, NEW v \in Values, Put(k, v),
           NEW out \in items \ items', NEW in \in items' \cap items
    PROVE  UsedBefore(out, in)
  <1>1. k \notin items
    BY PutHit
  <1>2. items' = Evict.items \cup {k}
    BY <1>1, PutMiss
  <1>3. PICK m : m = Evict.list
    OBVIOUS
  <1>4. /\ KeysOf(m) = Evict.items
        /\ Len(list) < capacity => Evict.items = items
        /\ ~ (Len(list) < capacity) => /\ Len(list) > 0
                                       /\ Evict.items = items \ {Last(list).key}
                                       /\ \A j \in KeysOf(m) :
                                            \E i \in DOMAIN list : i < Len(list) /\ list[i].key = j
    BY <1>3, EvictFacts
  <1>5. ~ (Len(list) < capacity) /\ out = Last(list).key /\ in \in KeysOf(m)
    BY <1>1, <1>2, <1>4
  <1>6. PICK i \in DOMAIN list : i < Len(list) /\ list[i].key = in
    BY <1>4, <1>5
  <1>7. Len(list) \in DOMAIN list /\ list[Len(list)].key = out
    BY <1>4, <1>5 DEF IInv, TypeOK, Last
  <1>8. PICK a \in DOMAIN touched, b \in DOMAIN touched : touched[a] = in /\ touched[b] = out
    BY DEF IInv, ToSet
  <1>9. a < b
    BY <1>6, <1>7, <1>8 DEF IInv, InStep
  <1> QED
    BY <1>8, <1>9 DEF UsedBefore

\* Seen as a set of entries, each operation is one of the bounded cache, or none.
LEMMA AbstractStep ==
    ASSUME IInv, [Next]_vars
    PROVE  [Abstract!Next]_(Abstract!vars)
  <1> USE DEF Abstract!Next, Abstract!vars, Abstract!Put, Abstract!Invalidate, Abstract!Without
  <1>t. ToSet(list)' = ToSet(list')
    BY DEF ToSet
  <1>c. Abstract!Cardinality(ToSet(list)) = Cardinality(ToSet(list))
    BY Zenon DEF Abstract!Cardinality, Cardinality
  <1>1. CASE UNCHANGED vars
    BY <1>1 DEF vars, ToSet
  <1>2. ASSUME NEW k \in Keys, Get(k)
        PROVE  UNCHANGED Abstract!vars
    BY <1>t, <1>2, GetStep DEF Get
  <1>3. ASSUME NEW k \in Keys, NEW v \in Values, Put(k, v)
        PROVE  Abstract!Next
    <2>1. PICK new : new = [key |-> k, value |-> v]
      OBVIOUS
    <2>2. capacity' = capacity
      BY <1>3 DEF Put
    <2>3. \A e \in ToSet(list) : e.key \in items
      BY DEF IInv, KeysOf, ToSet
    <2>4. Cardinality(ToSet(list)) = Len(list)
      BY CountFacts
    <2>5. CASE k \in items
      <3>1. ToSet(list') = { d \in ToSet(list) : d.key \notin {k} } \cup {new}
        BY <1>3, <2>1, <2>5, PutHit
      <3>2. \E d \in ToSet(list) : d.key = k
        BY <2>5 DEF IInv, KeysOf, ToSet
      <3>3. { d \in ToSet(list) : d.key \notin {k} } # ToSet(list)
        BY <3>2
      <3>4. Abstract!Put(k, v)
        BY <1>t, <2>1, <3>1, <3>3
      <3> QED
        BY <2>2, <3>4
    <2>6. CASE k \notin items /\ Len(list) < capacity
      <3>1. ToSet(list') = ToSet(list) \cup {new}
        BY <1>3, <2>1, <2>6, PutMiss, EvictFacts
      <3>2. { d \in ToSet(list) : d.key \notin {k} } = ToSet(list)
        BY <2>3, <2>6
      <3>3. Abstract!Put(k, v)
        <4>1. Cardinality(ToSet(list)) < capacity
          BY <2>4, <2>6
        <4>2. ToSet(list)' = { d \in ToSet(list) : d.key \notin {k} } \cup {[key |-> k, value |-> v]}
          BY <1>t, <2>1, <3>1, <3>2
        <4> QED
          BY <1>c, <4>1, <4>2
      <3> QED
        BY <2>2, <3>3
    <2>7. CASE k \notin items /\ ~ (Len(list) < capacity)
      <3>1. /\ ToSet(list') = (ToSet(list) \ {Last(list)}) \cup {new}
            /\ Last(list) \in ToSet(list)
        BY <1>3, <2>1, <2>7, PutMiss, EvictFacts
      <3>2. { d \in ToSet(list) : d.key \notin {k} } = ToSet(list)
        BY <2>3, <2>7
      <3>3. Abstract!Put(k, v)
        <4>1. ~ (Cardinality(ToSet(list)) < capacity)
          BY <2>4, <2>7
        <4>2. \E victim \in ToSet(list) :
                  ToSet(list)' = (ToSet(list) \ {victim}) \cup {[key |-> k, value |-> v]}
          BY <1>t, <2>1, <3>1
        <4> QED
          BY <1>c, <3>2, <4>1, <4>2
      <3> QED
        BY <2>2, <3>3
    <2> QED
      BY <2>5, <2>6, <2>7
  <1>4. ASSUME NEW keys \in SUBSET Keys, InvalidateIf(keys)
        PROVE  Abstract!Next
    BY <1>t, <1>4, InvalidateStep DEF InvalidateIf
  <1>5. ASSUME NEW k \in Keys, Invalidate(k)
        PROVE  Abstract!Next
    BY <1>4, <1>5 DEF Invalidate
  <1>6. CASE Clear
    <2>1. ToSet(list') = {} /\ capacity' = capacity
      BY <1>6, ClearStep DEF Clear
    <2>2. \A e \in ToSet(list) : e.key \in Keys
      <3>1. \A i \in DOMAIN list : list[i] \in Entry
        BY DEF IInv, TypeOK
      <3> QED
        BY <3>1 DEF ToSet, Entry
    <2>3. Abstract!Invalidate(Keys)
      BY <1>t, <2>1, <2>2
    <2> QED
      BY <2>1, <2>3
  <1> QED
    BY <1>1, <1>2, <1>3, <1>4, <1>5, <1>6 DEF Next

-----------------------------------------------------------------------------
(* The theorems *)

\* Map, list and history belong together after any sequence of calls.
THEOREM Inductive == Spec => []IInv
  <1>1. Init => IInv
    BY InitInv
  <1>2. IInv /\ [Next]_vars => IInv'
    BY InvStep
  <1> QED
    BY <1>1, <1>2, PTL DEF Spec

\* Every variable of the cache has its type; the capacity is never below 1,
\* whatever NewLRU is called with.
THEOREM TypeCorrect == Spec => []TypeOK
  <1>1. IInv => TypeOK
    BY DEF IInv
  <1> QED
    BY <1>1, Inductive, PTL

\* Map and list never come apart, and the list stays within the capacity.
THEOREM NeverApart == Spec => []MapMatchesList
  <1>1. ASSUME IInv
        PROVE  MapMatchesList
    <2>1. KeysOf(list) = { e.key : e \in ToSet(list) }
      BY DEF KeysOf, ToSet
    <2> QED
      BY <1>1, <2>1, CountFacts DEF IInv, MapMatchesList
  <1> QED
    BY <1>1, Inductive, PTL

\* The entry that a Put pushes out is the least recently used one.
THEOREM OldestGoes == Spec => EvictsOldest
  <1>1. IInv /\ [Next]_vars =>
            [\A k \in Keys, v \in Values :
                Put(k, v) => \A out \in items \ items', in \in (items' \cap items) :
                                UsedBefore(out, in)]_vars
    BY OldestStep
  <1> QED
    BY <1>1, Inductive, PTL DEF Spec, EvictsOldest

\* The list implements the bounded cache that Catalog assumes.
THEOREM IsBoundedCache == Spec => ImplementsBoundedCache
  <1>1. Init => Abstract!Init
    BY InitInv DEF IInv, TypeOK, Abstract!Init
  <1>2. IInv /\ [Next]_vars => [Abstract!Next]_(Abstract!vars)
    BY AbstractStep
  <1> QED
    BY <1>1, <1>2, Inductive, PTL DEF Spec, ImplementsBoundedCache, Abstract!Spec

=============================================================================
