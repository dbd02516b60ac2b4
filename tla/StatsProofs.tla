---------------------------- MODULE StatsProofs ----------------------------
(***************************************************************************)
(* What the loops of ColumnStats compute, for every list of files, and     *)
(* with it that the statistics which Reads answers are those of one        *)
(* snapshot. Where a proof goes by induction over a loop it takes the      *)
(* first round in which the loop would be off (LeastNat).                  *)
(***************************************************************************)
EXTENDS AnswersProofs

-----------------------------------------------------------------------------
(* Loops *)

\* f and v are the same from 0 to n when they start alike and each round, as
\* long as they are the same, leaves them the same.
LEMMA SameRounds ==
    ASSUME NEW n \in Nat, NEW f, NEW v, f[0] = v[0],
           \A i \in 1 .. n : f[i - 1] = v[i - 1] => f[i] = v[i]
    PROVE  f[n] = v[n]
  <1> DEFINE Off == { i \in 0 .. n : f[i] # v[i] }
  <1> SUFFICES ASSUME Off # {} PROVE FALSE
    OBVIOUS
  <1>1. PICK m \in Off : \A i \in Off : m <= i
    <2>1. Off \in SUBSET Nat
      OBVIOUS
    <2> QED
      BY <2>1, LeastNat
  <1>2. m \in 1 .. n /\ m - 1 \in 0 .. n /\ ~ (m <= m - 1)
    OBVIOUS
  <1>3. f[m - 1] = v[m - 1]
    BY <1>1, <1>2
  <1> QED
    BY <1>2, <1>3

TotalRow == [rows : Nat, bytes : Nat]

\* If v follows the rounds of GetStats' loop, the loop ends where v does.
LEMMA TotalledRounds ==
    ASSUME NEW files \in Seq(TotalRow), NEW v,
           v = [i \in 0 .. Len(files) |-> v[i]],
           v[0] = StatsStart(Len(files)),
           \A i \in 1 .. Len(files) : v[i] = AddFile(v[i - 1], files[i])
    PROVE  Totalled(files)[Len(files)] = v[Len(files)]
  <1> DEFINE Round(f, i) ==
               IF i = 0 THEN StatsStart(Len(files)) ELSE AddFile(f[i - 1], files[i])
  <1>0. Len(files) \in Nat
    OBVIOUS
  <1>1. \A i \in 0 .. Len(files) : v[i] = Round(v, i)
    <2> SUFFICES ASSUME NEW i \in 0 .. Len(files) PROVE v[i] = Round(v, i)
      OBVIOUS
    <2>1. i = 0 \/ i \in 1 .. Len(files)
      BY <1>0
    <2> QED
      BY <2>1, Zenon
  <1>2. v = [i \in 0 .. Len(files) |-> Round(v, i)]
    BY <1>1, Zenon
  <1>3. PICK f : f = Totalled(files)
    OBVIOUS
  <1>4. f = [i \in 0 .. Len(files) |-> Round(f, i)]
    BY <1>2, <1>3, Zenon DEF Totalled
  <1>5. f[0] = v[0] /\ \A i \in 1 .. Len(files) : f[i - 1] = v[i - 1] => f[i] = v[i]
    <2>1. ASSUME NEW i \in 0 .. Len(files) PROVE f[i] = Round(f, i)
      BY <1>4, Zenon
    <2>2. 0 \in 0 .. Len(files) /\ \A i \in 1 .. Len(files) : i \in 0 .. Len(files) /\ i # 0
      BY <1>0
    <2> QED
      BY <2>1, <2>2, Zenon
  <1> QED
    BY <1>0, <1>3, <1>5, SameRounds

\* The same for the loop over the statistics of one file.
LEMMA WithFileRounds ==
    ASSUME NEW stats \in Seq(ColumnStat), NEW v,
           v = [j \in 0 .. Len(stats) |-> v[j]],
           \A j \in 1 .. Len(stats) : v[j] = MergeInto(v[j - 1], stats[j])
    PROVE  WithFile(v[0], stats)[Len(stats)] = v[Len(stats)]
  <1> DEFINE Round(f, j) == IF j = 0 THEN v[0] ELSE MergeInto(f[j - 1], stats[j])
  <1>0. Len(stats) \in Nat
    OBVIOUS
  <1>1. \A j \in 0 .. Len(stats) : v[j] = Round(v, j)
    <2> SUFFICES ASSUME NEW j \in 0 .. Len(stats) PROVE v[j] = Round(v, j)
      OBVIOUS
    <2>1. j = 0 \/ j \in 1 .. Len(stats)
      BY <1>0
    <2> QED
      BY <2>1, Zenon
  <1>2. v = [j \in 0 .. Len(stats) |-> Round(v, j)]
    BY <1>1, Zenon
  <1>3. PICK f : f = WithFile(v[0], stats)
    OBVIOUS
  <1>4. f = [j \in 0 .. Len(stats) |-> Round(f, j)]
    BY <1>2, <1>3, Zenon DEF WithFile
  <1>5. f[0] = v[0] /\ \A j \in 1 .. Len(stats) : f[j - 1] = v[j - 1] => f[j] = v[j]
    <2>1. ASSUME NEW j \in 0 .. Len(stats) PROVE f[j] = Round(f, j)
      BY <1>4, Zenon
    <2>2. 0 \in 0 .. Len(stats) /\ \A j \in 1 .. Len(stats) : j \in 0 .. Len(stats) /\ j # 0
      BY <1>0
    <2> QED
      BY <2>1, <2>2, Zenon
  <1> QED
    BY <1>0, <1>3, <1>5, SameRounds

\* The same for the loop over the files.
LEMMA WithFilesRounds ==
    ASSUME NEW files \in Seq(Seq(ColumnStat)), NEW v,
           v = [i \in 0 .. Len(files) |-> v[i]],
           v[0] = [c \in {} |-> NewAgg],
           \A i \in 1 .. Len(files) : v[i] = WithFile(v[i - 1], files[i])[Len(files[i])]
    PROVE  WithFiles(files)[Len(files)] = v[Len(files)]
  <1> DEFINE Round(f, i) ==
               IF i = 0 THEN [c \in {} |-> NewAgg]
               ELSE WithFile(f[i - 1], files[i])[Len(files[i])]
  <1>0. Len(files) \in Nat
    OBVIOUS
  <1>1. \A i \in 0 .. Len(files) : v[i] = Round(v, i)
    <2> SUFFICES ASSUME NEW i \in 0 .. Len(files) PROVE v[i] = Round(v, i)
      OBVIOUS
    <2>1. i = 0 \/ i \in 1 .. Len(files)
      BY <1>0
    <2> QED
      BY <2>1, Zenon
  <1>2. v = [i \in 0 .. Len(files) |-> Round(v, i)]
    BY <1>1, Zenon
  <1>3. PICK f : f = WithFiles(files)
    OBVIOUS
  <1>4. f = [i \in 0 .. Len(files) |-> Round(f, i)]
    BY <1>2, <1>3, Zenon DEF WithFiles
  <1>5. f[0] = v[0] /\ \A i \in 1 .. Len(files) : f[i - 1] = v[i - 1] => f[i] = v[i]
    <2>1. ASSUME NEW i \in 0 .. Len(files) PROVE f[i] = Round(f, i)
      BY <1>4, Zenon
    <2>2. 0 \in 0 .. Len(files) /\ \A i \in 1 .. Len(files) : i \in 0 .. Len(files) /\ i # 0
      BY <1>0
    <2> QED
      BY <2>1, <2>2, Zenon
  <1> QED
    <2>1. PICK n \in Nat : n = Len(files)
      BY <1>0
    <2>2. f[n] = v[n]
      BY <1>5, <2>1, SameRounds
    <2> QED
      BY <1>3, <2>1, <2>2

-----------------------------------------------------------------------------
(* Sums, least and greatest *)

\* A sum over a finite set is a natural, and 0 over the empty set.
LEMMA SumNat ==
    ASSUME NEW P, IsFiniteSet(P), NEW f \in [P -> Nat]
    PROVE  /\ IsFiniteSet(UNION { {x} \X (1 .. f[x]) : x \in P })
           /\ SumOver(f) = Cardinality(UNION { {x} \X (1 .. f[x]) : x \in P })
           /\ SumOver(f) \in Nat
           /\ P = {} => SumOver(f) = 0
  <1>1. PICK g, Q : g = [x \in P |-> {x} \X (1 .. f[x])] /\ Q = { {x} \X (1 .. f[x]) : x \in P }
    OBVIOUS
  <1>2. g \in Surjection(P, Q)
    BY <1>1 DEF Surjection
  <1>3. IsFiniteSet(Q)
    BY <1>2, FS_Surjection
  <1>4. ASSUME NEW T \in Q PROVE IsFiniteSet(T)
    <2>1. PICK x \in P : T = {x} \X (1 .. f[x])
      BY <1>1
    <2>2. PICK n \in Nat : n = f[x]
      OBVIOUS
    <2>3. IsFiniteSet({x})
      BY FS_Singleton
    <2>4. IsFiniteSet(1 .. n)
      BY FS_Interval
    <2> QED
      BY <2>1, <2>2, <2>3, <2>4, FS_Product
  <1>5. IsFiniteSet(UNION Q)
    BY <1>3, <1>4, FS_UNION
  <1>6. SumOver(f) = Cardinality(UNION Q)
    BY <1>1 DEF SumOver
  <1>7. P = {} => UNION Q = {}
    BY <1>1
  <1> QED
    BY <1>1, <1>5, <1>6, <1>7, FS_CardinalityType, FS_EmptySet

\* One more member adds its number to the sum.
LEMMA SumMore ==
    ASSUME NEW P, IsFiniteSet(P), NEW p, p \notin P, NEW f \in [P \cup {p} -> Nat],
           NEW g, g = [x \in P |-> f[x]]
    PROVE  SumOver(f) = SumOver(g) + f[p]
  <1>1. IsFiniteSet(P \cup {p}) /\ g \in [P -> Nat]
    BY FS_AddElement
  <1>2. PICK A, B, C : /\ A = UNION { {x} \X (1 .. f[x]) : x \in P \cup {p} }
                       /\ B = UNION { {x} \X (1 .. g[x]) : x \in P }
                       /\ C = {p} \X (1 .. f[p])
    OBVIOUS
  <1>3. SumOver(f) = Cardinality(A) /\ SumOver(g) = Cardinality(B) /\ IsFiniteSet(B)
    BY <1>1, <1>2, SumNat
  <1>4. A = B \cup C /\ B \cap C = {}
    <2>1. \A x \in P : {x} \X (1 .. g[x]) = {x} \X (1 .. f[x])
      OBVIOUS
    <2>2. B = UNION { {x} \X (1 .. f[x]) : x \in P }
      BY <1>2, <2>1
    <2> QED
      BY <1>2, <2>2
  <1>5. IsFiniteSet(C) /\ Cardinality(C) = f[p]
    <2>1. PICK n \in Nat : n = f[p]
      OBVIOUS
    <2>2. IsFiniteSet({p}) /\ Cardinality({p}) = 1
      BY FS_Singleton
    <2>3. IsFiniteSet(1 .. n) /\ Cardinality(1 .. n) = n
      BY FS_Interval
    <2>4. /\ IsFiniteSet({p} \X (1 .. n))
          /\ Cardinality({p} \X (1 .. n)) = Cardinality({p}) * Cardinality(1 .. n)
      BY <2>2, <2>3, FS_Product, Zenon
    <2>5. 1 * n = n
      OBVIOUS
    <2> QED
      BY <1>2, <2>1, <2>2, <2>3, <2>4, <2>5, Zenon
  <1>6. Cardinality(A) = Cardinality(B) + Cardinality(C) - Cardinality(B \cap C)
    BY <1>3, <1>4, <1>5, FS_Union
  <1>7. Cardinality(B \cap C) = 0 /\ Cardinality(B) \in Nat
    BY <1>3, <1>4, FS_EmptySet, FS_CardinalityType
  <1> QED
    BY <1>3, <1>5, <1>6, <1>7

\* The least bound other than 0, with one more bound.
LEMMA LeastMore ==
    ASSUME NEW S \in SUBSET Nat, NEW b \in Nat
    PROVE  /\ Least(S) \in Nat
           /\ Least(S) # 0 <=> \E x \in S : x # 0
           /\ Least(S \cup {b}) = IF b # 0 /\ (Least(S) = 0 \/ b < Least(S)) THEN b ELSE Least(S)
  <1>1. ASSUME NEW T \in SUBSET Nat, T \ {0} # {}
        PROVE  /\ Least(T) \in T \ {0} /\ \A x \in T \ {0} : Least(T) <= x
    <2>1. \E m \in T \ {0} : \A x \in T \ {0} : m <= x
      BY <1>1, LeastNat
    <2>2. Min(T \ {0}) \in T \ {0} /\ \A x \in T \ {0} : Min(T \ {0}) <= x
      BY <2>1, Zenon DEF Min
    <2>3. Least(T) = Min(T \ {0})
      BY <1>1 DEF Least
    <2> QED
      BY <2>2, <2>3
  <1>2. ASSUME NEW T \in SUBSET Nat, T \ {0} = {}
        PROVE  Least(T) = 0
    BY <1>2 DEF Least
  <1>3. PICK T \in SUBSET Nat : T = S \cup {b}
    OBVIOUS
  <1>4. CASE S \ {0} = {}
    <2>1. Least(S) = 0
      BY <1>2, <1>4
    <2>2. CASE b = 0
      <3>1. T \ {0} = {}
        BY <1>3, <1>4, <2>2
      <3> QED
        BY <1>2, <1>3, <1>4, <2>1, <2>2, <3>1
    <2>3. CASE b # 0
      <3>1. T \ {0} = {b}
        BY <1>3, <1>4, <2>3
      <3>2. Least(T) = b
        BY <1>1, <3>1
      <3> QED
        BY <1>3, <1>4, <2>1, <2>3, <3>2
    <2> QED
      BY <2>2, <2>3
  <1>5. CASE S \ {0} # {}
    <2>1. Least(S) \in S \ {0} /\ \A x \in S \ {0} : Least(S) <= x
      BY <1>1, <1>5
    <2>2. Least(T) \in T \ {0} /\ \A x \in T \ {0} : Least(T) <= x
      BY <1>1, <1>3, <1>5
    <2>3. Least(T) = b \/ Least(T) \in S \ {0}
      BY <1>3, <2>2
    <2>4. Least(T) <= Least(S) /\ (b # 0 => Least(T) <= b) /\ Least(T) # 0
      BY <1>3, <2>1, <2>2
    <2>5. Least(T) \in Nat /\ Least(S) \in Nat /\ (Least(T) \in S \ {0} => Least(S) <= Least(T))
      BY <2>1, <2>2
    <2>6. Least(T) = IF b # 0 /\ (Least(S) = 0 \/ b < Least(S)) THEN b ELSE Least(S)
      BY <2>1, <2>3, <2>4, <2>5
    <2> QED
      BY <1>3, <2>1, <2>5, <2>6
  <1> QED
    BY <1>4, <1>5

\* The greatest bound, with one more bound.
LEMMA GreatestMore ==
    ASSUME NEW S \in SUBSET Nat, IsFiniteSet(S), NEW b \in Nat
    PROVE  /\ Greatest(S) \in Nat
           /\ Greatest(S \cup {b}) = IF b # 0 /\ b > Greatest(S) THEN b ELSE Greatest(S)
  <1>1. ASSUME NEW T \in SUBSET Nat, IsFiniteSet(T), T \ {0} # {}
        PROVE  /\ Greatest(T) \in T \ {0} /\ \A x \in T \ {0} : x <= Greatest(T)
    <2>1. T \ {0} \in SUBSET Nat /\ IsFiniteSet(T \ {0})
      BY <1>1, FS_Subset
    <2>2. Max(T \ {0}) \in T \ {0} /\ \A x \in T \ {0} : x <= Max(T \ {0})
      BY <1>1, <2>1, MaxOf
    <2>3. Greatest(T) = Max(T \ {0})
      BY <1>1 DEF Greatest
    <2> QED
      BY <2>2, <2>3
  <1>2. ASSUME NEW T \in SUBSET Nat, T \ {0} = {}
        PROVE  Greatest(T) = 0
    BY <1>2 DEF Greatest
  <1>3. PICK T \in SUBSET Nat : T = S \cup {b} /\ IsFiniteSet(T)
    <2>1. S \cup {b} \in SUBSET Nat /\ IsFiniteSet(S \cup {b})
      BY FS_AddElement
    <2> QED
      BY <2>1
  <1>4. CASE S \ {0} = {}
    <2>1. Greatest(S) = 0
      BY <1>2, <1>4
    <2>2. CASE b = 0
      <3>1. T \ {0} = {}
        BY <1>3, <1>4, <2>2
      <3> QED
        BY <1>2, <1>3, <1>4, <2>1, <2>2, <3>1
    <2>3. CASE b # 0
      <3>1. T \ {0} = {b}
        BY <1>3, <1>4, <2>3
      <3>2. Greatest(T) = b
        BY <1>1, <1>3, <3>1
      <3> QED
        BY <1>3, <1>4, <2>1, <2>3, <3>2
    <2> QED
      BY <2>2, <2>3
  <1>5. CASE S \ {0} # {}
    <2>1. Greatest(S) \in S \ {0} /\ \A x \in S \ {0} : x <= Greatest(S)
      BY <1>1, <1>5
    <2>2. Greatest(T) \in T \ {0} /\ \A x \in T \ {0} : x <= Greatest(T)
      BY <1>1, <1>3, <1>5
    <2>3. Greatest(T) = b \/ Greatest(T) \in S \ {0}
      BY <1>3, <2>2
    <2>4. Greatest(S) <= Greatest(T) /\ (b # 0 => b <= Greatest(T)) /\ Greatest(T) # 0
      BY <1>3, <2>1, <2>2
    <2>5. Greatest(T) \in Nat /\ Greatest(S) \in Nat
          /\ (Greatest(T) \in S \ {0} => Greatest(T) <= Greatest(S))
      BY <2>1, <2>2
    <2>6. Greatest(T) = IF b # 0 /\ b > Greatest(S) THEN b ELSE Greatest(S)
      BY <2>1, <2>3, <2>4, <2>5
    <2> QED
      BY <1>3, <2>1, <2>5, <2>6
  <1> QED
    BY <1>4, <1>5

-----------------------------------------------------------------------------
(* Totals *)

\* What the loop of GetStats has after i of the files.
TotalsUpto(files, i) ==
    [partitions |-> Len(files),
     rows  |-> SumOver([j \in 1 .. i |-> files[j].rows]),
     bytes |-> SumOver([j \in 1 .. i |-> files[j].bytes]),
     avg   |-> 0]

\* One more file adds its rows and bytes.
LEMMA TotalsMore ==
    ASSUME NEW files \in Seq(TotalRow), NEW i \in 1 .. Len(files)
    PROVE  TotalsUpto(files, i) = AddFile(TotalsUpto(files, i - 1), files[i])
  <1>1. /\ i - 1 \in Nat /\ 1 .. i = (1 .. i - 1) \cup {i} /\ i \notin 1 .. i - 1
        /\ \A j \in 1 .. i : files[j].rows \in Nat /\ files[j].bytes \in Nat
    <2>1. /\ i - 1 \in Nat /\ 1 .. i = (1 .. i - 1) \cup {i} /\ i \notin 1 .. i - 1
      OBVIOUS
    <2>2. \A j \in 1 .. i : files[j] \in TotalRow
      OBVIOUS
    <2> QED
      BY <2>1, <2>2 DEF TotalRow
  <1>2. IsFiniteSet(1 .. i - 1)
    BY <1>1, FS_Interval
  <1>3. PICK f, g, F, G : /\ f = [j \in 1 .. i |-> files[j].rows]
                          /\ g = [j \in 1 .. i |-> files[j].bytes]
                          /\ F = [j \in 1 .. i - 1 |-> files[j].rows]
                          /\ G = [j \in 1 .. i - 1 |-> files[j].bytes]
    OBVIOUS
  <1>4. /\ f \in [(1 .. i - 1) \cup {i} -> Nat] /\ F = [j \in 1 .. i - 1 |-> f[j]]
        /\ g \in [(1 .. i - 1) \cup {i} -> Nat] /\ G = [j \in 1 .. i - 1 |-> g[j]]
        /\ f[i] = files[i].rows /\ g[i] = files[i].bytes
    BY <1>1, <1>3
  <1>5. SumOver(f) = SumOver(F) + f[i] /\ SumOver(g) = SumOver(G) + g[i]
    <2>1. PICK P : P = 1 .. i - 1 /\ IsFiniteSet(P) /\ i \notin P
      BY <1>1, <1>2
    <2>2. /\ f \in [P \cup {i} -> Nat] /\ F = [j \in P |-> f[j]]
          /\ g \in [P \cup {i} -> Nat] /\ G = [j \in P |-> g[j]]
      BY <1>4, <2>1
    <2>3. SumOver(f) = SumOver(F) + f[i]
      BY <2>1, <2>2, SumMore
    <2>4. SumOver(g) = SumOver(G) + g[i]
      BY <2>1, <2>2, SumMore
    <2> QED
      BY <2>3, <2>4
  <1>6. PICK t : t = TotalsUpto(files, i - 1)
    OBVIOUS
  <1>7. t = [partitions |-> Len(files), rows |-> SumOver(F), bytes |-> SumOver(G), avg |-> 0]
    BY <1>3, <1>6 DEF TotalsUpto
  <1>8. AddFile(t, files[i]) = [partitions |-> Len(files), rows |-> SumOver(F) + files[i].rows,
                                bytes |-> SumOver(G) + files[i].bytes, avg |-> 0]
    BY <1>7 DEF AddFile
  <1>9. TotalsUpto(files, i) =
            [partitions |-> Len(files), rows |-> SumOver(f), bytes |-> SumOver(g), avg |-> 0]
    BY <1>3 DEF TotalsUpto
  <1> QED
    BY <1>4, <1>5, <1>6, <1>8, <1>9

\* GetStats computes the number of files, the sums of their rows and bytes and
\* the mean size, whatever the files and however many.
THEOREM TotalsExact == \A files \in Seq(TotalRow) : GetStats(files) = TrueStats(files)
  <1> SUFFICES ASSUME NEW files \in Seq(TotalRow)
               PROVE  GetStats(files) = TrueStats(files)
    OBVIOUS
  <1>1. PICK n \in Nat : n = Len(files) /\ DOMAIN files = 1 .. n
    OBVIOUS
  <1>2. PICK v : v = [i \in 0 .. Len(files) |-> TotalsUpto(files, i)]
    OBVIOUS
  <1>3. v = [i \in 0 .. Len(files) |-> v[i]]
    BY <1>2
  <1>4. v[0] = StatsStart(Len(files))
    <2>1. 0 \in 0 .. Len(files) /\ 1 .. 0 = {}
      BY <1>1
    <2>2. IsFiniteSet({})
      BY FS_EmptySet
    <2>3. \A f \in [{} -> Nat] : SumOver(f) = 0
      BY <2>2, SumNat
    <2>4. /\ [j \in 1 .. 0 |-> files[j].rows] \in [{} -> Nat]
          /\ [j \in 1 .. 0 |-> files[j].bytes] \in [{} -> Nat]
      BY <2>1
    <2>5. TotalsUpto(files, 0) = [partitions |-> Len(files), rows |-> 0, bytes |-> 0, avg |-> 0]
      BY <2>3, <2>4 DEF TotalsUpto
    <2>6. StatsStart(Len(files)) = [partitions |-> Len(files), rows |-> 0, bytes |-> 0, avg |-> 0]
      BY DEF StatsStart, StatsZero
    <2> QED
      BY <1>2, <2>1, <2>5, <2>6
  <1>5. \A i \in 1 .. Len(files) : v[i] = AddFile(v[i - 1], files[i])
    <2> SUFFICES ASSUME NEW i \in 1 .. Len(files) PROVE v[i] = AddFile(v[i - 1], files[i])
      OBVIOUS
    <2>1. i \in 0 .. Len(files) /\ i - 1 \in 0 .. Len(files)
      BY <1>1
    <2>2. v[i] = TotalsUpto(files, i) /\ v[i - 1] = TotalsUpto(files, i - 1)
      BY <1>2, <2>1
    <2> QED
      BY <2>2, TotalsMore
  <1>6. Totalled(files)[Len(files)] = v[Len(files)]
    BY <1>3, <1>4, <1>5, TotalledRounds
  <1>7. PICK r, b : /\ r = SumOver([j \in DOMAIN files |-> files[j].rows])
                    /\ b = SumOver([j \in DOMAIN files |-> files[j].bytes])
    OBVIOUS
  <1>8. v[Len(files)] = [partitions |-> n, rows |-> r, bytes |-> b, avg |-> 0]
    <2>1. Len(files) \in 0 .. Len(files)
      BY <1>1
    <2>2. v[Len(files)] = TotalsUpto(files, Len(files))
      BY <1>2, <2>1
    <2> QED
      BY <1>1, <1>7, <2>2 DEF TotalsUpto
  <1>9. GetStats(files) = [partitions |-> n, rows |-> r, bytes |-> b,
                           avg |-> IF n > 0 THEN b \div n ELSE 0]
    <2>1. PICK t : t = [partitions |-> n, rows |-> r, bytes |-> b, avg |-> 0]
      OBVIOUS
    <2>2. GetStats(files) = IF t.partitions > 0 THEN [t EXCEPT !.avg = t.bytes \div t.partitions]
                            ELSE t
      BY <1>6, <1>8, <2>1 DEF GetStats
    <2>3. t.partitions = n /\ t.bytes = b
      BY <2>1
    <2>4. [t EXCEPT !.avg = b \div n] = [partitions |-> n, rows |-> r, bytes |-> b, avg |-> b \div n]
      BY <2>1
    <2> QED
      BY <2>1, <2>2, <2>3, <2>4
  <1>10. TrueStats(files) = [partitions |-> n, rows |-> r, bytes |-> b,
                             avg |-> IF files = <<>> THEN 0 ELSE b \div n]
    BY <1>1, <1>7 DEF TrueStats
  <1>11. files = <<>> <=> ~ (n > 0)
    BY <1>1
  <1> QED
    BY <1>9, <1>10, <1>11

-----------------------------------------------------------------------------
(* Column bounds *)

\* A is a function from places to column statistics, P and Q sets of places.
ColumnsOf(A, P) == { A[e].col : e \in P }

OfColumn(A, P, c) == { e \in P : A[e].col = c }

\* The aggregate of the statistics at Q, and the aggregates of P by column.
AggOf(A, Q) ==
    [nulls  |-> SumOver([e \in Q |-> A[e].nulls]),
     nans   |-> SumOver([e \in Q |-> A[e].nans]),
     values |-> SumOver([e \in Q |-> A[e].values]),
     min    |-> Least({ A[e].min : e \in Q }),
     max    |-> Greatest({ A[e].max : e \in Q }),
     hasMin |-> \E e \in Q : A[e].min # 0]

AggOver(A, P) == [c \in ColumnsOf(A, P) |-> AggOf(A, OfColumn(A, P, c))]

\* The sum of one more place's numbers, for a number of each place.
LEMMA SumPlace ==
    ASSUME NEW Q, IsFiniteSet(Q), NEW e, e \notin Q, NEW h \in [Q \cup {e} -> Nat]
    PROVE  SumOver([x \in Q \cup {e} |-> h[x]]) = SumOver([x \in Q |-> h[x]]) + h[e]
  <1>1. PICK g : g = [x \in Q |-> h[x]]
    OBVIOUS
  <1>2. SumOver(h) = SumOver(g) + h[e]
    BY <1>1, SumMore
  <1>3. h = [x \in Q \cup {e} |-> h[x]]
    OBVIOUS
  <1> QED
    BY <1>1, <1>2, <1>3

\* A new aggregate is that of no statistics, and Merge adds those of one more
\* place.
LEMMA AggMore ==
    ASSUME NEW E, IsFiniteSet(E), NEW A \in [E -> ColumnStat], NEW Q \in SUBSET E,
           NEW e \in E, e \notin Q
    PROVE  /\ AggOf(A, {}) = NewAgg
           /\ AggOf(A, Q \cup {e}) = Merge(AggOf(A, Q), A[e])
  <1>1. IsFiniteSet(Q) /\ Q \cup {e} \in SUBSET E
    BY FS_Subset
  <1>2. \A x \in E : /\ A[x].nulls \in Nat /\ A[x].nans \in Nat /\ A[x].values \in Nat
                     /\ A[x].min \in Nat /\ A[x].max \in Nat
    BY DEF ColumnStat
  <1>3. SumOver([x \in Q \cup {e} |-> A[x].nulls]) = SumOver([x \in Q |-> A[x].nulls]) + A[e].nulls
    <2>1. PICK h : h = [x \in Q \cup {e} |-> A[x].nulls]
      OBVIOUS
    <2>2. h \in [Q \cup {e} -> Nat] /\ \A x \in Q \cup {e} : h[x] = A[x].nulls
      BY <1>1, <1>2, <2>1
    <2>3. SumOver([x \in Q \cup {e} |-> h[x]]) = SumOver([x \in Q |-> h[x]]) + h[e]
      BY <1>1, <2>2, SumPlace
    <2>4. [x \in Q \cup {e} |-> h[x]] = [x \in Q \cup {e} |-> A[x].nulls]
          /\ [x \in Q |-> h[x]] = [x \in Q |-> A[x].nulls] /\ h[e] = A[e].nulls
      BY <2>2
    <2> QED
      BY <2>3, <2>4
  <1>4. SumOver([x \in Q \cup {e} |-> A[x].nans]) = SumOver([x \in Q |-> A[x].nans]) + A[e].nans
    <2>1. PICK h : h = [x \in Q \cup {e} |-> A[x].nans]
      OBVIOUS
    <2>2. h \in [Q \cup {e} -> Nat] /\ \A x \in Q \cup {e} : h[x] = A[x].nans
      BY <1>1, <1>2, <2>1
    <2>3. SumOver([x \in Q \cup {e} |-> h[x]]) = SumOver([x \in Q |-> h[x]]) + h[e]
      BY <1>1, <2>2, SumPlace
    <2>4. [x \in Q \cup {e} |-> h[x]] = [x \in Q \cup {e} |-> A[x].nans]
          /\ [x \in Q |-> h[x]] = [x \in Q |-> A[x].nans] /\ h[e] = A[e].nans
      BY <2>2
    <2> QED
      BY <2>3, <2>4
  <1>5. SumOver([x \in Q \cup {e} |-> A[x].values]) = SumOver([x \in Q |-> A[x].values]) + A[e].values
    <2>1. PICK h : h = [x \in Q \cup {e} |-> A[x].values]
      OBVIOUS
    <2>2. h \in [Q \cup {e} -> Nat] /\ \A x \in Q \cup {e} : h[x] = A[x].values
      BY <1>1, <1>2, <2>1
    <2>3. SumOver([x \in Q \cup {e} |-> h[x]]) = SumOver([x \in Q |-> h[x]]) + h[e]
      BY <1>1, <2>2, SumPlace
    <2>4. [x \in Q \cup {e} |-> h[x]] = [x \in Q \cup {e} |-> A[x].values]
          /\ [x \in Q |-> h[x]] = [x \in Q |-> A[x].values] /\ h[e] = A[e].values
      BY <2>2
    <2> QED
      BY <2>3, <2>4
  <1>6. PICK mins, maxs, b, d : /\ mins = { A[x].min : x \in Q } /\ maxs = { A[x].max : x \in Q }
                                /\ b = A[e].min /\ d = A[e].max
    OBVIOUS
  <1>7. /\ mins \in SUBSET Nat /\ maxs \in SUBSET Nat /\ b \in Nat /\ d \in Nat
        /\ { A[x].min : x \in Q \cup {e} } = mins \cup {b}
        /\ { A[x].max : x \in Q \cup {e} } = maxs \cup {d}
    BY <1>2, <1>6
  <1>8. IsFiniteSet(maxs)
    <2>1. PICK g : g = [x \in Q |-> A[x].max]
      OBVIOUS
    <2>2. g \in Surjection(Q, maxs)
      BY <1>6, <2>1 DEF Surjection
    <2> QED
      BY <1>1, <2>2, FS_Surjection
  <1>9. /\ Least(mins) \in Nat /\ (Least(mins) # 0 <=> \E x \in Q : A[x].min # 0)
        /\ Least(mins \cup {b}) =
              IF b # 0 /\ (Least(mins) = 0 \/ b < Least(mins)) THEN b ELSE Least(mins)
    <2>1. /\ Least(mins) \in Nat /\ (Least(mins) # 0 <=> \E x \in mins : x # 0)
          /\ Least(mins \cup {b}) =
                IF b # 0 /\ (Least(mins) = 0 \/ b < Least(mins)) THEN b ELSE Least(mins)
      BY <1>7, LeastMore
    <2>2. (\E x \in mins : x # 0) <=> \E x \in Q : A[x].min # 0
      BY <1>6
    <2> QED
      BY <2>1, <2>2
  <1>10. Greatest(maxs \cup {d}) = IF d # 0 /\ d > Greatest(maxs) THEN d ELSE Greatest(maxs)
    BY <1>7, <1>8, GreatestMore
  <1>11. AggOf(A, Q \cup {e}) = Merge(AggOf(A, Q), A[e])
    <2>1. PICK n, N, v, h : /\ n = SumOver([x \in Q |-> A[x].nulls])
                            /\ N = SumOver([x \in Q |-> A[x].nans])
                            /\ v = SumOver([x \in Q |-> A[x].values])
                            /\ h = (\E x \in Q : A[x].min # 0)
      OBVIOUS
    <2>2. PICK a : a = AggOf(A, Q)
      OBVIOUS
    <2>3. a = [nulls |-> n, nans |-> N, values |-> v, min |-> Least(mins),
               max |-> Greatest(maxs), hasMin |-> h]
      BY <1>6, <2>1, <2>2, Zenon DEF AggOf
    <2>4. Merge(a, A[e]) =
            [nulls |-> n + A[e].nulls, nans |-> N + A[e].nans, values |-> v + A[e].values,
             min |-> IF b # 0 /\ (~h \/ b < Least(mins)) THEN b ELSE Least(mins),
             max |-> IF d # 0 /\ d > Greatest(maxs) THEN d ELSE Greatest(maxs),
             hasMin |-> h \/ b # 0]
      BY <1>6, <2>3 DEF Merge
    <2>5. (\E x \in Q \cup {e} : A[x].min # 0) <=> h \/ b # 0
      BY <1>6, <2>1
    <2>6. AggOf(A, Q \cup {e}) =
            [nulls |-> n + A[e].nulls, nans |-> N + A[e].nans, values |-> v + A[e].values,
             min |-> Least(mins \cup {b}), max |-> Greatest(maxs \cup {d}),
             hasMin |-> h \/ b # 0]
      BY <1>3, <1>4, <1>5, <1>7, <2>1, <2>5 DEF AggOf
    <2>7. Least(mins \cup {b}) = IF b # 0 /\ (~h \/ b < Least(mins)) THEN b ELSE Least(mins)
      BY <1>9, <2>1
    <2> QED
      BY <1>10, <2>2, <2>4, <2>6, <2>7
  <1>12. AggOf(A, {}) = NewAgg
    <2>1. \A g \in [{} -> Nat] : SumOver(g) = 0
      BY FS_EmptySet, SumNat
    <2>2. /\ [x \in {} |-> A[x].nulls] \in [{} -> Nat] /\ [x \in {} |-> A[x].nans] \in [{} -> Nat]
          /\ [x \in {} |-> A[x].values] \in [{} -> Nat]
      OBVIOUS
    <2>3. Least({}) = 0 /\ Greatest({}) = 0
      BY DEF Least, Greatest
    <2>4. { A[x].min : x \in {} } = {} /\ { A[x].max : x \in {} } = {}
      OBVIOUS
    <2>5. (\E x \in {} : A[x].min # 0) <=> FALSE
      OBVIOUS
    <2> QED
      BY <2>1, <2>2, <2>3, <2>4, <2>5 DEF AggOf, NewAgg
  <1> QED
    BY <1>11, <1>12

\* MergeInto adds the statistics of one more place to the map.
LEMMA AggStep ==
    ASSUME NEW E, IsFiniteSet(E), NEW A \in [E -> ColumnStat], NEW P \in SUBSET E,
           NEW e \in E, e \notin P
    PROVE  AggOver(A, P \cup {e}) = MergeInto(AggOver(A, P), A[e])
  <1>1. PICK m, k : m = AggOver(A, P) /\ k = A[e].col
    OBVIOUS
  <1>2. DOMAIN m = ColumnsOf(A, P) /\ \A c \in ColumnsOf(A, P) : m[c] = AggOf(A, OfColumn(A, P, c))
    BY <1>1 DEF AggOver
  <1>3. ColumnsOf(A, P \cup {e}) = DOMAIN m \cup {k}
    BY <1>1, <1>2 DEF ColumnsOf
  <1>4. ASSUME NEW c \in DOMAIN m \cup {k}
        PROVE  AggOf(A, OfColumn(A, P \cup {e}, c)) =
                   IF c # k THEN m[c]
                   ELSE Merge(IF c \in DOMAIN m THEN m[c] ELSE NewAgg, A[e])
    <2>1. CASE c # k
      <3>1. OfColumn(A, P \cup {e}, c) = OfColumn(A, P, c)
        BY <1>1, <2>1 DEF OfColumn
      <3>2. m[c] = AggOf(A, OfColumn(A, P, c))
        BY <1>2, <2>1
      <3> QED
        BY <2>1, <3>1, <3>2
    <2>2. CASE c = k
      <3>1. PICK Q \in SUBSET E : Q = OfColumn(A, P, c)
        BY DEF OfColumn
      <3>2. e \notin Q /\ OfColumn(A, P \cup {e}, c) = Q \cup {e}
        BY <1>1, <2>2, <3>1 DEF OfColumn
      <3>3. AggOf(A, Q \cup {e}) = Merge(AggOf(A, Q), A[e]) /\ AggOf(A, {}) = NewAgg
        BY <3>2, AggMore
      <3>4. c \in DOMAIN m => m[c] = AggOf(A, Q)
        BY <1>2, <3>1
      <3>5. c \notin DOMAIN m => Q = {}
        BY <1>2, <3>1 DEF ColumnsOf, OfColumn
      <3>6. (IF c \in DOMAIN m THEN m[c] ELSE NewAgg) = AggOf(A, Q)
        BY <3>3, <3>4, <3>5
      <3> QED
        BY <2>2, <3>2, <3>3, <3>6
    <2> QED
      BY <2>1, <2>2
  <1>5. AggOver(A, P \cup {e}) = [c \in DOMAIN m \cup {k} |-> AggOf(A, OfColumn(A, P \cup {e}, c))]
    BY <1>3 DEF AggOver
  <1>6. MergeInto(m, A[e]) = [c \in DOMAIN m \cup {k} |->
                                IF c # k THEN m[c]
                                ELSE Merge(IF c \in DOMAIN m THEN m[c] ELSE NewAgg, A[e])]
    BY <1>1, Zenon DEF MergeInto
  <1> QED
    BY <1>1, <1>4, <1>5, <1>6, Zenon

\* The statistics of the files, and the places of the first i files.
StatAt(files) == [e \in Places(files) |-> files[e[1]][e[2]]]

Upto(files, i) == { e \in Places(files) : e[1] <= i }

\* There are finitely many places, each with the statistics of a column.
LEMMA PlacesFinite ==
    ASSUME NEW files \in Seq(Seq(ColumnStat))
    PROVE  /\ IsFiniteSet(Places(files))
           /\ StatAt(files) \in [Places(files) -> ColumnStat]
           /\ \A i \in 1 .. Len(files), j \in Nat : <<i, j>> \in Places(files) <=> j \in 1 .. Len(files[i])
           /\ \A e \in Places(files) : /\ e[1] \in 1 .. Len(files) /\ e[2] \in 1 .. Len(files[e[1]])
                                       /\ e = <<e[1], e[2]>>
  <1>1. /\ DOMAIN files = 1 .. Len(files) /\ Len(files) \in Nat
        /\ \A i \in 1 .. Len(files) : files[i] \in Seq(ColumnStat)
    OBVIOUS
  <1>2. \A i \in 1 .. Len(files) : DOMAIN files[i] = 1 .. Len(files[i]) /\ Len(files[i]) \in Nat
    BY <1>1
  <1>3. PICK Q : Q = { {i} \X DOMAIN files[i] : i \in 1 .. Len(files) }
    OBVIOUS
  <1>4. Places(files) = UNION Q
    BY <1>1, <1>3 DEF Places
  <1>5. IsFiniteSet(Q)
    <2>1. PICK g : g = [i \in 1 .. Len(files) |-> {i} \X DOMAIN files[i]]
      OBVIOUS
    <2>2. g \in Surjection(1 .. Len(files), Q)
      BY <1>3, <2>1 DEF Surjection
    <2>3. IsFiniteSet(1 .. Len(files))
      BY <1>1, FS_Interval
    <2> QED
      BY <2>2, <2>3, FS_Surjection
  <1>6. ASSUME NEW T \in Q PROVE IsFiniteSet(T)
    <2>1. PICK i \in 1 .. Len(files) : T = {i} \X DOMAIN files[i]
      BY <1>3
    <2>2. PICK n \in Nat : DOMAIN files[i] = 1 .. n
      BY <1>2
    <2>3. IsFiniteSet(1 .. n)
      BY FS_Interval
    <2>4. IsFiniteSet({i})
      BY FS_Singleton
    <2> QED
      BY <2>1, <2>2, <2>3, <2>4, FS_Product
  <1>7. IsFiniteSet(Places(files))
    BY <1>4, <1>5, <1>6, FS_UNION
  <1>8. ASSUME NEW e \in Places(files)
        PROVE  e[1] \in 1 .. Len(files) /\ e[2] \in 1 .. Len(files[e[1]]) /\ e = <<e[1], e[2]>>
    BY <1>1, <1>2 DEF Places
  <1>9. ASSUME NEW i \in 1 .. Len(files), NEW j \in Nat
        PROVE  <<i, j>> \in Places(files) <=> j \in 1 .. Len(files[i])
    BY <1>1, <1>2 DEF Places
  <1>10. ASSUME NEW e \in Places(files) PROVE files[e[1]][e[2]] \in ColumnStat
    BY <1>1, <1>8
  <1> QED
    BY <1>7, <1>8, <1>9, <1>10 DEF StatAt

\* The loop over the statistics of file i takes the aggregates of the files
\* before it to those of the files up to it.
LEMMA FileLoop ==
    ASSUME NEW files \in Seq(Seq(ColumnStat)), NEW i \in 1 .. Len(files)
    PROVE  WithFile(AggOver(StatAt(files), Upto(files, i - 1)), files[i])[Len(files[i])]
               = AggOver(StatAt(files), Upto(files, i))
  <1>1. PICK E, A, stats, U : /\ E = Places(files) /\ A = StatAt(files) /\ stats = files[i]
                              /\ U = Upto(files, i - 1)
    OBVIOUS
  <1>2. IsFiniteSet(E) /\ A \in [E -> ColumnStat] /\ stats \in Seq(ColumnStat) /\ Len(stats) \in Nat
    BY <1>1, PlacesFinite
  <1>3. PICK v : v = [j \in 0 .. Len(stats) |-> AggOver(A, U \cup ({i} \X (1 .. j)))]
    OBVIOUS
  <1>4. v = [j \in 0 .. Len(stats) |-> v[j]]
    BY <1>3
  <1>5. U \in SUBSET E /\ \A e \in U : e[1] # i
    BY <1>1, PlacesFinite DEF Upto
  <1>6. ASSUME NEW j \in 1 .. Len(stats)
        PROVE  v[j] = MergeInto(v[j - 1], stats[j])
    <2>1. j \in Nat /\ j - 1 \in Nat /\ j \in 0 .. Len(stats) /\ j - 1 \in 0 .. Len(stats)
      BY <1>2
    <2>2. PICK P, e : P = U \cup ({i} \X (1 .. j - 1)) /\ e = <<i, j>>
      OBVIOUS
    <2>3. e \in E
      BY <1>1, <2>1, <2>2, PlacesFinite
    <2>4. P \in SUBSET E
      <3>1. \A k \in 1 .. j - 1 : k \in Nat /\ k \in 1 .. Len(files[i])
        BY <1>1, <1>2, <2>1
      <3>2. \A k \in 1 .. j - 1 : <<i, k>> \in E
        BY <1>1, <3>1, PlacesFinite
      <3> QED
        BY <1>5, <2>2, <3>2
    <2>5. e \notin P
      BY <1>5, <2>1, <2>2
    <2>6. P \cup {e} = U \cup ({i} \X (1 .. j))
      <3>1. 1 .. j = (1 .. j - 1) \cup {j}
        BY <2>1
      <3>2. {i} \X ((1 .. j - 1) \cup {j}) = ({i} \X (1 .. j - 1)) \cup {<<i, j>>}
        OBVIOUS
      <3> QED
        BY <2>2, <3>1, <3>2
    <2>7. AggOver(A, P \cup {e}) = MergeInto(AggOver(A, P), A[e])
      <3>1. /\ IsFiniteSet(E) /\ A \in [E -> ColumnStat] /\ P \in SUBSET E
            /\ e \in E /\ e \notin P
        BY <1>2, <2>3, <2>4, <2>5
      <3> QED
        BY ONLY <3>1, AggStep
    <2>8. A[e] = stats[j]
      <3>1. e[1] = i /\ e[2] = j
        BY <2>2
      <3> QED
        BY <1>1, <2>3, <3>1 DEF StatAt
    <2>9. v[j] = AggOver(A, P \cup {e}) /\ v[j - 1] = AggOver(A, P)
      BY <1>3, <2>1, <2>2, <2>6
    <2> QED
      BY <2>7, <2>8, <2>9
  <1>7. WithFile(v[0], stats)[Len(stats)] = v[Len(stats)]
    BY <1>2, <1>4, <1>6, WithFileRounds
  <1>8. v[0] = AggOver(A, U)
    <2>1. 0 \in 0 .. Len(stats) /\ U \cup ({i} \X (1 .. 0)) = U
      BY <1>2
    <2> QED
      BY <1>3, <2>1
  <1>9. v[Len(stats)] = AggOver(A, Upto(files, i))
    <2>1. Len(stats) \in 0 .. Len(stats)
      BY <1>2
    <2>2. ASSUME NEW e \in U \cup ({i} \X (1 .. Len(stats))) PROVE e \in Upto(files, i)
      <3>1. CASE e \in U
        <4>1. e \in Places(files) /\ e[1] <= i - 1 /\ e[1] \in 1 .. Len(files)
          BY <1>1, <3>1, PlacesFinite DEF Upto
        <4> QED
          BY <4>1 DEF Upto
      <3>2. CASE e \in {i} \X (1 .. Len(stats))
        <4>1. PICK j \in 1 .. Len(stats) : e = <<i, j>>
          BY <3>2
        <4>2. j \in Nat /\ j \in 1 .. Len(files[i])
          BY <1>1, <1>2
        <4>3. <<i, j>> \in Places(files)
          BY <4>2, PlacesFinite
        <4>4. e[1] = i /\ i <= i
          BY <4>1
        <4> QED
          BY <4>1, <4>3, <4>4 DEF Upto
      <3> QED
        BY <3>1, <3>2
    <2>3. ASSUME NEW e \in Upto(files, i) PROVE e \in U \cup ({i} \X (1 .. Len(stats)))
      <3>1. /\ e \in Places(files) /\ e[1] <= i /\ e[1] \in 1 .. Len(files)
            /\ e[2] \in 1 .. Len(files[e[1]]) /\ e = <<e[1], e[2]>>
        BY PlacesFinite DEF Upto
      <3>2. e[1] = i \/ e[1] <= i - 1
        BY <3>1
      <3>3. CASE e[1] <= i - 1
        BY <1>1, <3>1, <3>3 DEF Upto
      <3>4. CASE e[1] = i
        <4>1. e[2] \in 1 .. Len(stats)
          BY <1>1, <3>1, <3>4
        <4>2. <<e[1], e[2]>> \in {i} \X (1 .. Len(stats))
          BY <3>4, <4>1
        <4> QED
          BY <3>1, <4>2
      <3> QED
        BY <3>2, <3>3, <3>4
    <2>4. U \cup ({i} \X (1 .. Len(stats))) = Upto(files, i)
      BY <2>2, <2>3
    <2> QED
      BY <1>3, <2>1, <2>4
  <1> QED
    BY <1>1, <1>7, <1>8, <1>9

\* GetColumnStats reports, for each column that some file has statistics of, the
\* sums of the counts and the least and greatest of the bounds that there are,
\* whatever the files, their statistics and their order.
THEOREM BoundsExact ==
    \A files \in Seq(Seq(ColumnStat)) : GetColumnStats(files) = TrueBounds(files)
  <1> SUFFICES ASSUME NEW files \in Seq(Seq(ColumnStat))
               PROVE  GetColumnStats(files) = TrueBounds(files)
    OBVIOUS
  <1>1. PICK n \in Nat : n = Len(files)
    OBVIOUS
  <1>2. PICK A, E : A = StatAt(files) /\ E = Places(files)
    OBVIOUS
  <1>3. PICK v : v = [i \in 0 .. Len(files) |-> AggOver(A, Upto(files, i))]
    OBVIOUS
  <1>4. v = [i \in 0 .. Len(files) |-> v[i]]
    BY <1>3
  <1>5. v[0] = [c \in {} |-> NewAgg]
    <2>1. 0 \in 0 .. Len(files)
      BY <1>1
    <2>2. Upto(files, 0) = {}
      BY PlacesFinite DEF Upto
    <2>3. AggOver(A, {}) = [c \in {} |-> NewAgg]
      BY DEF AggOver, ColumnsOf
    <2> QED
      BY <1>3, <2>1, <2>2, <2>3
  <1>6. ASSUME NEW i \in 1 .. Len(files)
        PROVE  v[i] = WithFile(v[i - 1], files[i])[Len(files[i])]
    <2>1. i \in 0 .. Len(files) /\ i - 1 \in 0 .. Len(files)
      BY <1>1
    <2>2. v[i] = AggOver(A, Upto(files, i)) /\ v[i - 1] = AggOver(A, Upto(files, i - 1))
      BY <1>3, <2>1
    <2> QED
      BY <1>2, <2>2, FileLoop
  <1>7. WithFiles(files)[Len(files)] = v[Len(files)]
    BY <1>4, <1>5, <1>6, WithFilesRounds
  <1>8. Upto(files, Len(files)) = E
    <2>1. \A e \in Places(files) : e[1] \in 1 .. Len(files)
      BY PlacesFinite
    <2>2. \A e \in Places(files) : e[1] <= Len(files)
      BY <1>1, <2>1
    <2> QED
      BY <1>2, <2>2 DEF Upto
  <1>9. WithFiles(files)[Len(files)] = AggOver(A, E)
    <2>1. Len(files) \in 0 .. Len(files)
      BY <1>1
    <2> QED
      BY <1>3, <1>7, <1>8, <2>1
  <1>10. GetColumnStats(files) =
             [c \in ColumnsOf(A, E) |-> Bounds(AggOf(A, OfColumn(A, E, c)))]
    <2>1. PICK m : m = AggOver(A, E)
      OBVIOUS
    <2>2. DOMAIN m = ColumnsOf(A, E) /\ \A c \in ColumnsOf(A, E) : m[c] = AggOf(A, OfColumn(A, E, c))
      BY <2>1 DEF AggOver
    <2>3. GetColumnStats(files) = [c \in DOMAIN m |-> Bounds(m[c])]
      BY <1>9, <2>1, Zenon DEF GetColumnStats
    <2> QED
      BY <2>2, <2>3, Zenon
  <1>11. \A Q : Bounds(AggOf(A, Q)) =
             [nulls  |-> SumOver([e \in Q |-> A[e].nulls]),
              nans   |-> SumOver([e \in Q |-> A[e].nans]),
              values |-> SumOver([e \in Q |-> A[e].values]),
              min    |-> Least({ A[e].min : e \in Q }),
              max    |-> Greatest({ A[e].max : e \in Q })]
    BY DEF Bounds, AggOf
  <1>12. DOMAIN A = E
    BY <1>2 DEF StatAt
  <1>13. TrueBounds(files) =
             [c \in ColumnsOf(A, E) |->
                [nulls  |-> SumOver([e \in OfColumn(A, E, c) |-> A[e].nulls]),
                 nans   |-> SumOver([e \in OfColumn(A, E, c) |-> A[e].nans]),
                 values |-> SumOver([e \in OfColumn(A, E, c) |-> A[e].values]),
                 min    |-> Least({ A[e].min : e \in OfColumn(A, E, c) }),
                 max    |-> Greatest({ A[e].max : e \in OfColumn(A, E, c) })]]
    BY <1>2, <1>12, Zenon DEF TrueBounds, ColumnsOf, OfColumn, StatAt
  <1> QED
    BY <1>10, <1>11, <1>13, Zenon

-----------------------------------------------------------------------------
(* The statistics that Reads answers *)

\* The query for the files of a snapshot has a row at each place of its order.
LEMMA RowsInOrder ==
    ASSUME BasicInv, NEW t, NEW s, NEW R, R = Visible(t, s)
    PROVE  /\ Cardinality(R) \in Nat
           /\ \A i \in 1 .. Cardinality(R) :
                 /\ InOrder(R)[i] \in R /\ InOrder(R)[i] \in FileRow
                 /\ Cardinality({ g \in R : PartitionID(g) < PartitionID(InOrder(R)[i]) }) = i - 1
           /\ InOrder(R) = [i \in 1 .. Cardinality(R) |-> InOrder(R)[i]]
  <1>1. /\ IsFiniteSet(R) /\ Cardinality(R) \in Nat
        /\ \A f \in R : f \in FileRow /\ f.table = t /\ PartitionID(f) \in Nat
    BY VisibleFile, VisibleFinite DEF BasicInv, IInv
  <1>2. \A f, g \in R : PartitionID(f) = PartitionID(g) => f = g
    BY <1>1, PartitionOrder
  <1>3. PICK w : w = [f \in R |-> PartitionID(f)]
    OBVIOUS
  <1>4. /\ w \in [R -> Int] /\ \A f \in R : w[f] = PartitionID(f)
        /\ \A f, g \in R : w[f] = w[g] => f = g
    BY <1>1, <1>2, <1>3
  <1>5. \A f \in R : Before(R, w, f) = Cardinality({ g \in R : PartitionID(g) < PartitionID(f) })
    <2> SUFFICES ASSUME NEW f \in R
                 PROVE  { g \in R : w[g] < w[f] } = { g \in R : PartitionID(g) < PartitionID(f) }
      BY DEF Before
    <2> QED
      BY <1>4
  <1>6. PICK b : b = [f \in R |-> Before(R, w, f)]
    OBVIOUS
  <1>7. PICK n \in Nat : n = Cardinality(R)
    BY <1>1
  <1>8. ASSUME NEW f \in R PROVE Before(R, w, f) \in 0 .. n - 1
    <2>1. PICK B : B = { g \in R : w[g] < w[f] }
      OBVIOUS
    <2>2. B \in SUBSET R /\ B # R
      BY <1>4, <2>1
    <2>3. IsFiniteSet(B) /\ Cardinality(B) \in Nat /\ Cardinality(B) <= n /\ Cardinality(B) # n
      BY <1>1, <1>7, <2>2, FS_Subset, FS_CardinalityType
    <2>4. Before(R, w, f) = Cardinality(B)
      BY <2>1 DEF Before
    <2> QED
      BY <2>3, <2>4
  <1>9. ASSUME NEW f \in R, NEW g \in R, f # g PROVE Before(R, w, f) # Before(R, w, g)
    <2>1. w[f] < w[g] \/ w[g] < w[f]
      BY <1>4, <1>9
    <2>2. Before(R, w, f) \in Nat /\ Before(R, w, g) \in Nat
      BY <1>8
    <2> QED
      BY <1>1, <1>4, <2>1, <2>2, BeforeMono
  <1>10. b \in Injection(R, 0 .. n - 1)
    BY <1>6, <1>8, <1>9 DEF Injection, IsInjective
  <1>11. IsFiniteSet(0 .. n - 1) /\ Cardinality(0 .. n - 1) = n
    <2>1. 0 \in Int /\ n - 1 \in Int
      OBVIOUS
    <2>2. PICK k \in Int : k = n - 1
      BY <2>1
    <2>3. /\ IsFiniteSet(0 .. k)
          /\ Cardinality(0 .. k) = IF 0 > k THEN 0 ELSE k - 0 + 1
      BY FS_Interval
    <2> QED
      BY <2>2, <2>3
  <1>12. b \in Surjection(R, 0 .. n - 1)
    BY <1>7, <1>10, <1>11, FS_Injection
  <1>13. ASSUME NEW i \in 1 .. Cardinality(R)
         PROVE  /\ InOrder(R)[i] \in R
                /\ Cardinality({ g \in R : PartitionID(g) < PartitionID(InOrder(R)[i]) }) = i - 1
    <2>1. i - 1 \in 0 .. n - 1
      BY <1>7
    <2>2. \E f \in R : b[f] = i - 1
      BY <1>12, <2>1 DEF Surjection
    <2>3. \E f \in R : Cardinality({ g \in R : PartitionID(g) < PartitionID(f) }) = i - 1
      BY <1>5, <1>6, <2>2
    <2>4. InOrder(R)[i] = CHOOSE f \in R :
                             Cardinality({ g \in R : PartitionID(g) < PartitionID(f) }) = i - 1
      BY Zenon DEF InOrder
    <2> QED
      BY <2>3, <2>4, Zenon
  <1>14. InOrder(R) = [i \in 1 .. Cardinality(R) |-> InOrder(R)[i]]
    <2> DEFINE Nth(i) == CHOOSE f \in R :
                             Cardinality({ g \in R : PartitionID(g) < PartitionID(f) }) = i - 1
    <2>1. InOrder(R) = [i \in 1 .. Cardinality(R) |-> Nth(i)]
      BY Zenon DEF InOrder
    <2> HIDE DEF Nth
    <2> QED
      BY <2>1
  <1> QED
    BY <1>1, <1>13, <1>14

\* What the code adds up are rows of numbers and lists of column statistics.
LEMMA RowsAddedUp ==
    ASSUME BasicInv, NEW t, NEW s, NEW R, R = Visible(t, s)
    PROVE  Totals(R) \in Seq(TotalRow) /\ Stats(R) \in Seq(Seq(ColumnStat))
  <1>1. PICK files : files = InOrder(R)
    OBVIOUS
  <1>2. PICK n \in Nat : n = Cardinality(R)
    BY RowsInOrder
  <1>3. DOMAIN files = 1 .. n /\ \A i \in 1 .. n : files[i] \in FileRow
    <2>1. \A i \in 1 .. n : files[i] \in FileRow
      BY <1>2, <1>1, RowsInOrder
    <2>2. InOrder(R) = [i \in 1 .. Cardinality(R) |-> InOrder(R)[i]]
      BY RowsInOrder
    <2> QED
      BY <1>2, <1>1, <2>1, <2>2
  <1>4. /\ RowCount \in [Keys \X SnapIds -> Nat] /\ SizeBytes \in [Keys \X SnapIds -> Nat]
        /\ FileStats \in [Keys \X SnapIds -> Seq(ColumnStat)]
    BY ReadsAssumption, Zenon
  <1>5. ASSUME NEW i \in 1 .. n
        PROVE  /\ RowCount[files[i].key, files[i].snap] \in Nat
               /\ SizeBytes[files[i].key, files[i].snap] \in Nat
               /\ FileStats[files[i].key, files[i].snap] \in Seq(ColumnStat)
    <2>1. files[i].key \in Keys /\ files[i].snap \in SnapIds
      BY <1>3 DEF FileRow
    <2>2. <<files[i].key, files[i].snap>> \in Keys \X SnapIds
      BY <2>1
    <2> QED
      BY <1>4, <2>2
  <1>6. Totals(R) = [i \in 1 .. n |-> [rows  |-> RowCount[files[i].key, files[i].snap],
                                       bytes |-> SizeBytes[files[i].key, files[i].snap]]]
    BY <1>1, <1>3, Zenon DEF Totals
  <1>7. Stats(R) = [i \in 1 .. n |-> FileStats[files[i].key, files[i].snap]]
    BY <1>1, <1>3, Zenon DEF Stats
  <1>8. ASSUME NEW i \in 1 .. n
        PROVE  [rows  |-> RowCount[files[i].key, files[i].snap],
                bytes |-> SizeBytes[files[i].key, files[i].snap]] \in TotalRow
    BY <1>5 DEF TotalRow
  <1>9. ASSUME NEW S, NEW q, q = [i \in 1 .. n |-> q[i]], \A i \in 1 .. n : q[i] \in S
        PROVE  q \in Seq(S)
    BY <1>9
  <1>10. /\ Totals(R) = [i \in 1 .. n |-> Totals(R)[i]] /\ \A i \in 1 .. n : Totals(R)[i] \in TotalRow
        /\ Stats(R) = [i \in 1 .. n |-> Stats(R)[i]] /\ \A i \in 1 .. n : Stats(R)[i] \in Seq(ColumnStat)
    BY <1>5, <1>6, <1>7, <1>8, Zenon
  <1>11. Totals(R) \in Seq(TotalRow)
    BY <1>9, <1>10
  <1>12. Stats(R) \in Seq(Seq(ColumnStat))
    BY <1>9, <1>10
  <1> QED
    BY <1>11, <1>12

\* GetPartitionStats answers the number of files, the sums of their rows and
\* bytes and the mean size of the snapshot that was current when it was asked.
THEOREM TotalsOfOneSnapshot == ReadsSpec => []StatsExact
  <1>1. BasicInv /\ OneSnapshot => StatsExact
    <2> SUFFICES ASSUME BasicInv, OneSnapshot, NEW r \in Readers,
                        call[r].at = "stats_reply", call[r].tid \in Kept(r)
                 PROVE  GetStats(Totals(call[r].rows))
                            = TrueStats(Totals(Visible(call[r].tid, call[r].snap)))
      BY DEF StatsExact
    <2>1. PICK R : R = Visible(call[r].tid, call[r].snap)
      OBVIOUS
    <2>2. call[r].rows = R
      BY <2>1 DEF OneSnapshot
    <2>3. Totals(R) \in Seq(TotalRow)
      BY <2>1, RowsAddedUp
    <2>4. GetStats(Totals(R)) = TrueStats(Totals(R))
      BY <2>3, TotalsExact
    <2> QED
      BY <2>1, <2>2, <2>4
  <1> QED
    BY <1>1, ReadsInductive, AddsUpOneSnapshot, PTL

\* GetColumnStats answers the bounds and counts of the files that are visible at
\* the committed snapshot it reports, files without a bound left out.
THEOREM BoundsOfOneSnapshot == ReadsSpec => []ColumnsExact
  <1>1. BasicInv /\ OneSnapshot => ColumnsExact
    <2> SUFFICES ASSUME BasicInv, OneSnapshot, NEW r \in Readers,
                        call[r].at = "columns_reply", call[r].tid \in Kept(r),
                        call[r].snap <= watch[r].head
                 PROVE  GetColumnStats(Stats(call[r].rows))
                            = TrueBounds(Stats(Visible(call[r].tid, call[r].snap)))
      BY DEF ColumnsExact
    <2>1. PICK R : R = Visible(call[r].tid, call[r].snap)
      OBVIOUS
    <2>2. call[r].rows = R
      BY <2>1 DEF OneSnapshot
    <2>3. Stats(R) \in Seq(Seq(ColumnStat))
      BY <2>1, RowsAddedUp
    <2>4. GetColumnStats(Stats(R)) = TrueBounds(Stats(R))
      BY <2>3, BoundsExact
    <2> QED
      BY <2>1, <2>2, <2>4
  <1> QED
    BY <1>1, ReadsInductive, AddsUpOneSnapshot, PTL

=============================================================================
