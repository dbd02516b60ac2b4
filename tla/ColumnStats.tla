---------------------------- MODULE ColumnStats ----------------------------
(***************************************************************************)
(* The statistics that IceCore computes from the files of a snapshot: the  *)
(* totals of GetPartitionStats and the per-column bounds of                *)
(* GetColumnStats, as the loops of the code compute them, row by row in    *)
(* the order of the query, and as what they should be.                     *)
(*                                                                         *)
(* Column values are strings, ordered byte by byte; only that order        *)
(* matters, so a string stands for its rank, and 0 is the empty string,    *)
(* which a file's statistics have when they have no bound.                 *)
(***************************************************************************)
EXTENDS Integers, FiniteSets, Sequences, SequencesExt

ColumnStat == [col : Nat, nulls : Nat, nans : Nat, values : Nat, min : Nat, max : Nat]

-----------------------------------------------------------------------------
(* GetStats *)

StatsZero == [partitions |-> 0, rows |-> 0, bytes |-> 0, avg |-> 0]

\* The totals of n files before the first one is added.
StatsStart(n) == [StatsZero EXCEPT !.partitions = n]

AddFile(sum, f) == [partitions |-> sum.partitions, rows |-> sum.rows + f.rows,
                    bytes |-> sum.bytes + f.bytes, avg |-> sum.avg]

\* files is a sequence of [rows, bytes]; the loop over them: the totals after i
\* of them.
Totalled(files) ==
    LET after[i \in 0 .. Len(files)] ==
          IF i = 0 THEN StatsStart(Len(files)) ELSE AddFile(after[i - 1], files[i])
    IN  after

\* Mutant: the mean is taken over the rows.
GetStatsPerRow(files) ==
    LET sum == Totalled(files)[Len(files)]
    IN  IF sum.rows > 0 THEN [sum EXCEPT !.avg = sum.bytes \div sum.rows] ELSE sum

\* The mean is cut off to an integer.
GetStats(files) ==
    LET sum == Totalled(files)[Len(files)]
    IN  IF sum.partitions > 0
        THEN [sum EXCEPT !.avg = sum.bytes \div sum.partitions]
        ELSE sum

-----------------------------------------------------------------------------
(* GetColumnStatsForSnapshot *)

NewAgg == [nulls |-> 0, nans |-> 0, values |-> 0, min |-> 0, max |-> 0, hasMin |-> FALSE]

\* Mutant: the empty string takes part in the comparison of minima.
MergeAnyMin(a, cs) ==
    [nulls  |-> a.nulls + cs.nulls,
     nans   |-> a.nans + cs.nans,
     values |-> a.values + cs.values,
     min    |-> IF ~a.hasMin \/ cs.min < a.min THEN cs.min ELSE a.min,
     max    |-> IF cs.max # 0 /\ cs.max > a.max THEN cs.max ELSE a.max,
     hasMin |-> TRUE]

\* One file's statistics of a column go into the column's aggregate.
Merge(a, cs) ==
    [nulls  |-> a.nulls + cs.nulls,
     nans   |-> a.nans + cs.nans,
     values |-> a.values + cs.values,
     min    |-> IF cs.min # 0 /\ (~a.hasMin \/ cs.min < a.min) THEN cs.min ELSE a.min,
     max    |-> IF cs.max # 0 /\ cs.max > a.max THEN cs.max ELSE a.max,
     hasMin |-> a.hasMin \/ cs.min # 0]

\* byCol is a map from column ids to aggregates.
MergeInto(byCol, cs) ==
    [c \in DOMAIN byCol \cup {cs.col} |->
        IF c # cs.col THEN byCol[c]
        ELSE Merge(IF c \in DOMAIN byCol THEN byCol[c] ELSE NewAgg, cs)]

Bounds(a) == [nulls |-> a.nulls, nans |-> a.nans, values |-> a.values,
              min |-> a.min, max |-> a.max]

\* The loop over the statistics of one file: the map after j of them.
WithFile(byCol, stats) ==
    LET after[j \in 0 .. Len(stats)] ==
          IF j = 0 THEN byCol ELSE MergeInto(after[j - 1], stats[j])
    IN  after

\* files is a sequence of the files' lists of column statistics; the loop over
\* them: the map after i of them.
WithFiles(files) ==
    LET after[i \in 0 .. Len(files)] ==
          IF i = 0 THEN [c \in {} |-> NewAgg]
          ELSE WithFile(after[i - 1], files[i])[Len(files[i])]
    IN  after

GetColumnStats(files) ==
    LET byCol == WithFiles(files)[Len(files)]
    IN  [c \in DOMAIN byCol |-> Bounds(byCol[c])]

-----------------------------------------------------------------------------
(* What they should be *)

\* The sum over x of the naturals f[x], as a count: f[x] pairs for each x.
SumOver(f) == Cardinality(UNION { {x} \X (1 .. f[x]) : x \in DOMAIN f })

\* Least and greatest bound that some file has, 0 if none has one.
Least(S)    == IF S \ {0} = {} THEN 0 ELSE Min(S \ {0})
Greatest(S) == IF S \ {0} = {} THEN 0 ELSE Max(S \ {0})

TrueStats(files) ==
    LET bytes == SumOver([i \in DOMAIN files |-> files[i].bytes])
    IN  [partitions |-> Len(files),
         rows  |-> SumOver([i \in DOMAIN files |-> files[i].rows]),
         bytes |-> bytes,
         avg   |-> IF files = <<>> THEN 0 ELSE bytes \div Len(files)]

\* The statistics that the files have, by file and place in its list.
Places(files) == UNION { {i} \X DOMAIN files[i] : i \in DOMAIN files }

TrueBounds(files) ==
    LET at    == [e \in Places(files) |-> files[e[1]][e[2]]]
        of(c) == { e \in DOMAIN at : at[e].col = c }
    IN  [c \in { at[e].col : e \in DOMAIN at } |->
           [nulls  |-> SumOver([e \in of(c) |-> at[e].nulls]),
            nans   |-> SumOver([e \in of(c) |-> at[e].nans]),
            values |-> SumOver([e \in of(c) |-> at[e].values]),
            min    |-> Least({ at[e].min : e \in of(c) }),
            max    |-> Greatest({ at[e].max : e \in of(c) })]]

=============================================================================
