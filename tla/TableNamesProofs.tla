--------------------------- MODULE TableNamesProofs ---------------------------
(***************************************************************************)
(* What TableNames keeps, for every set of tables and names, every number  *)
(* of faults and any length of the log.                                    *)
(*                                                                         *)
(* 1. Types: the log and the names of the source fit together (SourceOK),  *)
(*    no two tables of the target have one name (TargetOK), and the marks  *)
(*    of the progress and of its row are in their places (JobOK).          *)
(* 2. Truth: what the progress and its row say of the copies.  No two      *)
(*    source tables share a table of the target, a table has rows of its   *)
(*    own source table only (Owned), and out of a full sync the copy of    *)
(*    each source table is what the table was at the binlog the progress   *)
(*    says, or is about to be restored, or is in doubt (Good).             *)
(*                                                                         *)
(* Truth holds as long as no name has misled the job (strayed); the end    *)
(* of a full sync makes it true again.  A lemma ...Types says that an      *)
(* action keeps the first part, a lemma ...Truth that it keeps the second. *)
(***************************************************************************)
EXTENDS TableNames, FiniteSetTheorems, WellFoundedInduction, TLAPS

(* The ids. *)

\* How many elements of F are before d.
Rank(F, d) == Cardinality({e \in F : e < d})

\* A set of numbers that is not empty has a least element.
LEMMA LeastElement ==
    ASSUME NEW S, S \subseteq Nat, S # {}
    PROVE  \E m \in S : \A k \in S : m <= k
<1>1. PICK m \in S : \A k \in S : <<k, m>> \notin OpToRel(<, Nat)
  BY NatLessThanWellFounded, WFMin
<1>2. \A k \in S : ~ k < m
  BY <1>1 DEF OpToRel
<1>3. ASSUME NEW k \in S PROVE m <= k
  <2>1. m \in Nat /\ k \in Nat /\ ~ k < m
    BY <1>1, <1>2
  <2> QED
    BY <2>1
<1> QED
  BY <1>3

\* The element after d comes next.
LEMMA NextRank ==
    ASSUME NEW F, F \subseteq Nat, IsFiniteSet(F), NEW d \in F, Rank(F, d) + 1 < Cardinality(F)
    PROVE  \E e \in F : Rank(F, e) = Rank(F, d) + 1
<1> DEFINE before == {e \in F : e < d}
           after == {e \in F : d < e}
<1>1. IsFiniteSet(before) /\ Cardinality(before) \in Nat /\ Cardinality(before) = Rank(F, d)
  BY FS_Subset, FS_CardinalityType DEF Rank
<1>2. /\ IsFiniteSet(before \cup {d})
      /\ Cardinality(before \cup {d}) = Cardinality(before) + 1
  <2>1. d \notin before
    OBVIOUS
  <2> QED
    BY <1>1, <2>1, FS_AddElement
<1>3. after # {}
  <2>1. SUFFICES ASSUME after = {}
                 PROVE  FALSE
    OBVIOUS
  <2>2. ASSUME NEW e \in F PROVE e \in before \cup {d}
    <3>1. e \in Nat /\ d \in Nat /\ ~ d < e
      BY <2>1
    <3>2. e < d \/ e = d
      BY <3>1
    <3> QED
      BY <3>2
  <2>3. before \cup {d} = F
    BY <2>2
  <2>4. Cardinality(F) = Rank(F, d) + 1 /\ Rank(F, d) \in Nat
    BY <1>1, <1>2, <2>3
  <2> HIDE DEF before, after
  <2> QED
    BY <2>4
<1>4. PICK e \in after : \A k \in after : e <= k
  BY <1>3, LeastElement
<1>5. {k \in F : k < e} = before \cup {d}
  <2>1. e \in F /\ e \in Nat /\ d \in Nat /\ d < e
    BY <1>4
  <2>2. ASSUME NEW k \in F PROVE k < e <=> k < d \/ k = d
    <3>1. k \in Nat /\ (d < k => e <= k)
      BY <1>4, <2>2
    <3> QED
      BY <2>1, <3>1
  <2> QED
    BY <2>1, <2>2
<1> QED
  BY <1>1, <1>2, <1>4, <1>5 DEF Rank

\* Every number below the cardinality is the rank of an element.
LEMMA Ranked ==
    ASSUME NEW F, F \subseteq Nat, IsFiniteSet(F), NEW n \in Nat, n < Cardinality(F)
    PROVE  \E d \in F : Rank(F, d) = n
<1> DEFINE missing == {k \in Nat : k < Cardinality(F) /\ \A d \in F : Rank(F, d) # k}
<1>1. SUFFICES ASSUME missing # {}
               PROVE  FALSE
  OBVIOUS
<1>2. Cardinality(F) \in Nat
  BY FS_CardinalityType
<1>3. PICK m \in missing : \A k \in missing : m <= k
  BY <1>1, LeastElement
<1>4. CASE m = 0
  <2>1. F # {}
    BY <1>2, <1>3, <1>4, FS_EmptySet
  <2>2. PICK d \in F : \A e \in F : d <= e
    BY <2>1, LeastElement
  <2>3. {e \in F : e < d} = {}
    <3>1. ASSUME NEW e \in F PROVE ~ e < d
      <4>1. e \in Nat /\ d \in Nat /\ d <= e
        BY <2>2
      <4> QED
        BY <4>1
    <3> QED
      BY <3>1
  <2>4. Rank(F, d) = 0
    BY <2>3, FS_EmptySet DEF Rank
  <2> QED
    BY <1>3, <1>4, <2>4
<1>5. CASE m # 0
  <2>1. m - 1 \in Nat /\ m - 1 \notin missing /\ m < Cardinality(F)
    BY <1>3, <1>5
  <2>2. PICK d \in F : Rank(F, d) = m - 1
    BY <1>2, <2>1
  <2>3. m \in Nat /\ Rank(F, d) + 1 = m
    BY <1>3, <2>2
  <2>4. \E e \in F : Rank(F, e) = Rank(F, d) + 1
    BY <2>1, <2>3, NextRank
  <2> QED
    BY <1>3, <2>3, <2>4
<1> QED
  BY <1>4, <1>5

\* Different elements have different ranks.
LEMMA RankInjective ==
    ASSUME NEW F, F \subseteq Nat, IsFiniteSet(F), NEW d \in F, NEW e \in F, d # e
    PROVE  Rank(F, d) # Rank(F, e)
<1>1. ASSUME NEW a \in F, NEW b \in F, a < b
      PROVE  Rank(F, a) < Rank(F, b)
  <2> DEFINE low == {k \in F : k < a}
             high == {k \in F : k < b}
  <2>1. IsFiniteSet(low) /\ IsFiniteSet(high) /\ low \subseteq high /\ low # high
    <3>1. low \in SUBSET F /\ high \in SUBSET F
      OBVIOUS
    <3>2. IsFiniteSet(low) /\ IsFiniteSet(high)
      BY <3>1, FS_Subset
    <3>3. ASSUME NEW k \in F, k < a PROVE k < b
      <4>1. k \in Nat /\ a \in Nat /\ b \in Nat
        OBVIOUS
      <4> QED
        BY <1>1, <3>3, <4>1
    <3>4. a \in high /\ a \notin low
      <4>1. a \in Nat
        OBVIOUS
      <4> QED
        BY <1>1, <4>1
    <3> QED
      BY <3>2, <3>3, <3>4
  <2>2. /\ Cardinality(low) <= Cardinality(high) /\ Cardinality(low) # Cardinality(high)
        /\ Cardinality(low) \in Nat /\ Cardinality(high) \in Nat
    BY <2>1, FS_Subset, FS_CardinalityType
  <2> QED
    BY <2>2 DEF Rank
<1>2. d < e \/ e < d
  OBVIOUS
<1>3. Rank(F, d) \in Nat /\ Rank(F, e) \in Nat
  BY FS_Subset, FS_CardinalityType DEF Rank
<1> QED
  BY <1>1, <1>2, <1>3

\* A function has no more values than arguments.
LEMMA RangeFinite ==
    ASSUME NEW S, IsFiniteSet(S), NEW f, DOMAIN f = S
    PROVE  IsFiniteSet(Range(f)) /\ Cardinality(Range(f)) <= Cardinality(S)
<1> DEFINE g == [x \in S |-> f[x]]
<1>1. g \in Surjection(S, Range(f))
  BY DEF Surjection, Range
<1> QED
  BY <1>1, FS_Surjection

-------------------------------------------------------------------------------
(* The source. *)

\* The length of the log.
N == Len(log)

\* Two tables never have one name.
Injective(f) == \A s, t \in SourceTables : f[s] = f[t] /\ f[s] # Nil => s = t

\* What a binlog says of the names before and after it.
Follows(b, old, new) ==
    \/ b.kind = "UPSERT" /\ old[b.table] # Nil /\ new = old
    \/ b.kind = "ALTER_JOB" /\ b.name # Nil /\ old[b.table] = b.name /\ new = old
    \/ /\ b.kind \in {"CREATE_TABLE", "RECOVER_INFO"} /\ b.name # Nil /\ old[b.table] = Nil
       /\ new = [old EXCEPT ![b.table] = b.name]
    \/ /\ b.kind = "DROP_TABLE" /\ b.name # Nil /\ old[b.table] = b.name
       /\ new = [old EXCEPT ![b.table] = Nil]
    \/ /\ b.kind = "RENAME_TABLE" /\ b.name # Nil /\ b.newName # Nil /\ b.name # b.newName
       /\ old[b.table] = b.name /\ new = [old EXCEPT ![b.table] = b.newName]
    \/ /\ b.kind = "REPLACE_TABLE" /\ b.name # Nil /\ b.newName # Nil /\ b.name # b.newName
       /\ b.newTable \in SourceTables /\ b.newTable # b.table
       /\ old[b.table] = b.name /\ old[b.newTable] = b.newName
       /\ new = [old EXCEPT ![b.table] = IF b.swap THEN b.newName ELSE Nil,
                            ![b.newTable] = b.name]

\* The log holds binlogs, and the names before and after each of them.
SourceTyped ==
    /\ log \in Seq(Binlog) /\ Len(log) <= MaxSeq
    /\ names \in Seq(NameMaps) /\ Len(names) = Len(log) + 1

\* Each binlog follows the names before it, and these are distinct.
SourceOK ==
    /\ SourceTyped
    /\ \A k \in 1..N + 1 : Injective(names[k])
    /\ \A i \in 1..N :
         /\ Follows(log[i], names[i], names[i + 1])
         /\ log[i].kind = "CREATE_TABLE" => RowsOf(log[i].table, i) = {}

\* What SourceTyped says of the length of the log, its binlogs and the names.
LEMMA SourceFacts ==
    ASSUME SourceTyped
    PROVE  /\ N \in Nat /\ N <= MaxSeq /\ N \in Seqs
           /\ \A i \in 1..N : log[i] \in Binlog
           /\ \A k \in 1..N + 1 : names[k] \in NameMaps
           /\ \A s \in SourceTables : \A k \in 0..N : NameAt(s, k) \in Names \cup {Nil}
<1>1. N \in Nat /\ N <= MaxSeq
  BY DEF SourceTyped, N
<1>2. \A i \in 1..N : log[i] \in Binlog
  BY DEF SourceTyped, N
<1>3. \A k \in 1..N + 1 : names[k] \in NameMaps
  BY DEF SourceTyped, N
<1>4. ASSUME NEW s \in SourceTables, NEW k \in 0..N
      PROVE  NameAt(s, k) \in Names \cup {Nil}
  <2>1. k + 1 \in 1..N + 1
    BY <1>1
  <2>2. names[k + 1] \in NameMaps
    BY <1>3, <2>1
  <2> QED
    BY <2>2 DEF NameMaps, NameAt
<1>5. N \in Seqs
  BY <1>1, NamesAssumption DEF Seqs
<1> QED
  BY <1>1, <1>2, <1>3, <1>4, <1>5

\* A statement of a user adds a binlog and the names after it.
LEMMA WriteAdds ==
    ASSUME SourceTyped, NEW b \in Binlog, NEW now \in NameMaps, Write(b, now)
    PROVE  /\ SourceTyped' /\ N' = N + 1
           /\ log'[N + 1] = b /\ names'[N + 2] = now
           /\ \A i \in 1..N : log'[i] = log[i]
           /\ \A k \in 1..N + 1 : names'[k] = names[k]
<1>1. /\ log' = Append(log, b) /\ names' = Append(names, now) /\ Len(log) < MaxSeq
  BY DEF Write
<1>2. /\ log \in Seq(Binlog) /\ names \in Seq(NameMaps) /\ Len(names) = Len(log) + 1
      /\ Len(log) \in Nat
  BY DEF SourceTyped
<1>3. /\ Len(log') = Len(log) + 1 /\ log' \in Seq(Binlog)
      /\ log'[Len(log) + 1] = b /\ \A i \in 1..Len(log) : log'[i] = log[i]
  BY <1>1, <1>2
<1>4. /\ Len(names') = Len(names) + 1 /\ names' \in Seq(NameMaps)
      /\ names'[Len(names) + 1] = now /\ \A k \in 1..Len(names) : names'[k] = names[k]
  BY <1>1, <1>2
<1>5. Len(names) + 1 = N + 2 /\ 1..Len(names) = 1..N + 1
  BY <1>2 DEF N
<1>6. SourceTyped'
  BY <1>1, <1>2, <1>3, <1>4, NamesAssumption DEF SourceTyped
<1> QED
  BY <1>3, <1>4, <1>5, <1>6 DEF N

\* Nothing is written over.
Grows ==
    /\ N' \in Nat /\ N <= N'
    /\ \A i \in 1..N : log'[i] = log[i]
    /\ \A k \in 1..N + 1 : names'[k] = names[k]

\* The rows and the names of the log so far stay.
LEMMA GrowsFacts ==
    ASSUME SourceTyped, Grows, NEW s, NEW k \in 0..N
    PROVE  NameAt(s, k)' = NameAt(s, k) /\ RowsOf(s, k)' = RowsOf(s, k)
<1>1. N \in Nat
  BY SourceFacts
<1>2. k + 1 \in 1..N + 1 /\ \A i \in 1..k : i \in 1..N
  BY <1>1
<1> QED
  BY <1>2 DEF Grows, NameAt, RowsOf

\* Every statement of a user adds one binlog that follows the names.
LEMMA SourceStep ==
    ASSUME SourceOK, SourceWrites
    PROVE  \E b \in Binlog, now \in NameMaps :
             /\ Write(b, now) /\ Follows(b, names[N + 1], now) /\ Injective(now)
             /\ b.kind = "CREATE_TABLE" => \A k \in 1..N + 1 : names[k][b.table] = Nil
<1> DEFINE old == names[N + 1]
           Good(b, now) ==
             /\ Write(b, now) /\ Follows(b, old, now) /\ Injective(now)
             /\ b.kind = "CREATE_TABLE" => \A k \in 1..N + 1 : names[k][b.table] = Nil
<1>1. N \in Nat /\ old \in NameMaps /\ Injective(old)
  BY SourceFacts DEF SourceOK
<1>2. Now = old /\ DOMAIN names = 1..N + 1
  BY DEF Now, N, SourceOK, SourceTyped
<1>3. \A s : s \in LiveAt(N) <=> s \in SourceTables /\ old[s] # Nil
  BY DEF LiveAt, NameAt
<1>4. old \in [SourceTables -> Names \cup {Nil}] /\ Nil \notin Names
  BY <1>1, NamesAssumption DEF NameMaps
<1>5. ASSUME NEW s \in LiveAt(N), Write([NoBinlog EXCEPT !.table = s], Now)
      PROVE  \E b \in Binlog, now \in NameMaps : Good(b, now)
  <2> DEFINE b == [NoBinlog EXCEPT !.table = s]
  <2>1. b \in Binlog /\ b.kind = "UPSERT" /\ b.table = s
    BY <1>3, <1>5 DEF NoBinlog, Binlog, Write
  <2>2. Follows(b, old, old)
    BY <1>3, <2>1 DEF Follows
  <2> HIDE DEF b
  <2>3. Good(b, old)
    BY <1>1, <1>2, <1>5, <2>1, <2>2 DEF b
  <2> QED
    BY <1>1, <2>1, <2>3
<1>6. ASSUME NEW s \in SourceTables, NEW n \in Names, NEW kind \in {"CREATE_TABLE", "RECOVER_INFO"},
             FreeName(n), old[s] = Nil, kind = "CREATE_TABLE" => ~WasUsed(s),
             Write([NoBinlog EXCEPT !.kind = kind, !.table = s, !.name = n],
                   [Now EXCEPT ![s] = n])
      PROVE  \E b \in Binlog, now \in NameMaps : Good(b, now)
  <2> DEFINE b == [NoBinlog EXCEPT !.kind = kind, !.table = s, !.name = n]
             now == [old EXCEPT ![s] = n]
  <2>1. b \in Binlog /\ b.kind = kind /\ b.table = s /\ b.name = n
    BY <1>6 DEF NoBinlog, Binlog, Write
  <2>2. now \in NameMaps /\ Injective(now)
    BY <1>1, <1>2, <1>4, <1>6 DEF NameMaps, Injective, FreeName
  <2> HIDE DEF b
  <2>3. Follows(b, old, now)
    BY <1>4, <1>6, <2>1 DEF Follows
  <2>4. Good(b, now)
    BY <1>2, <1>6, <2>1, <2>2, <2>3 DEF b, WasUsed
  <2> QED
    BY <2>1, <2>2, <2>4
<1>7. ASSUME NEW s \in LiveAt(N),
             Write([NoBinlog EXCEPT !.kind = "ALTER_JOB", !.table = s, !.name = Now[s]], Now)
      PROVE  \E b \in Binlog, now \in NameMaps : Good(b, now)
  <2> DEFINE b == [NoBinlog EXCEPT !.kind = "ALTER_JOB", !.table = s, !.name = Now[s]]
  <2>1. b \in Binlog /\ b.kind = "ALTER_JOB" /\ b.table = s /\ b.name = old[s]
    BY <1>2, <1>3, <1>4, <1>7 DEF NoBinlog, Binlog, Write
  <2>2. Follows(b, old, old)
    BY <1>3, <2>1 DEF Follows
  <2> HIDE DEF b
  <2>3. Good(b, old)
    BY <1>1, <1>2, <1>7, <2>1, <2>2 DEF b
  <2> QED
    BY <1>1, <2>1, <2>3
<1>8. ASSUME NEW s \in LiveAt(N),
             Write([NoBinlog EXCEPT !.kind = "DROP_TABLE", !.table = s, !.name = Now[s]],
                   [Now EXCEPT ![s] = Nil])
      PROVE  \E b \in Binlog, now \in NameMaps : Good(b, now)
  <2> DEFINE b == [NoBinlog EXCEPT !.kind = "DROP_TABLE", !.table = s, !.name = Now[s]]
             now == [old EXCEPT ![s] = Nil]
  <2>1. b \in Binlog /\ b.kind = "DROP_TABLE" /\ b.table = s /\ b.name = old[s]
    BY <1>2, <1>3, <1>4, <1>8 DEF NoBinlog, Binlog, Write
  <2>2. now \in NameMaps /\ Injective(now)
    BY <1>1, <1>4 DEF NameMaps, Injective
  <2> HIDE DEF b
  <2>3. Follows(b, old, now)
    BY <1>3, <2>1 DEF Follows
  <2>4. Good(b, now)
    BY <1>2, <1>8, <2>1, <2>2, <2>3 DEF b
  <2> QED
    BY <2>1, <2>2, <2>4
<1>9. ASSUME NEW s \in LiveAt(N), NEW n \in Names, FreeName(n),
             Write([NoBinlog EXCEPT !.kind = "RENAME_TABLE", !.table = s, !.name = Now[s],
                                    !.newName = n],
                   [Now EXCEPT ![s] = n])
      PROVE  \E b \in Binlog, now \in NameMaps : Good(b, now)
  <2> DEFINE b == [NoBinlog EXCEPT !.kind = "RENAME_TABLE", !.table = s, !.name = Now[s],
                                   !.newName = n]
             now == [old EXCEPT ![s] = n]
  <2>1. b \in Binlog /\ b.kind = "RENAME_TABLE" /\ b.table = s /\ b.name = old[s] /\ b.newName = n
    BY <1>2, <1>3, <1>4, <1>9 DEF NoBinlog, Binlog, Write
  <2>2. now \in NameMaps /\ Injective(now) /\ old[s] # n
    BY <1>1, <1>2, <1>3, <1>4, <1>9 DEF NameMaps, Injective, FreeName
  <2> HIDE DEF b
  <2>3. Follows(b, old, now)
    BY <1>3, <1>4, <2>1, <2>2 DEF Follows
  <2>4. Good(b, now)
    BY <1>2, <1>9, <2>1, <2>2, <2>3 DEF b
  <2> QED
    BY <2>1, <2>2, <2>4
<1>10. ASSUME NEW s \in LiveAt(N), NEW t \in LiveAt(N), NEW swap \in BOOLEAN, s # t,
              Write([kind |-> "REPLACE_TABLE", table |-> s, name |-> Now[s], newTable |-> t,
                     newName |-> Now[t], swap |-> swap],
                    [Now EXCEPT ![s] = IF swap THEN Now[t] ELSE Nil, ![t] = Now[s]])
       PROVE  \E b \in Binlog, now \in NameMaps : Good(b, now)
  <2> DEFINE b == [kind |-> "REPLACE_TABLE", table |-> s, name |-> Now[s], newTable |-> t,
                   newName |-> Now[t], swap |-> swap]
             now == [old EXCEPT ![s] = IF swap THEN old[t] ELSE Nil, ![t] = old[s]]
  <2>1. /\ b \in Binlog /\ b.kind = "REPLACE_TABLE" /\ b.table = s /\ b.name = old[s]
        /\ b.newTable = t /\ b.newName = old[t] /\ b.swap = swap
    BY <1>2, <1>3, <1>4, <1>10 DEF Binlog, Write
  <2>2. now \in NameMaps /\ Injective(now) /\ old[s] # old[t]
    BY <1>1, <1>3, <1>4, <1>10 DEF NameMaps, Injective
  <2> HIDE DEF b
  <2>3. Follows(b, old, now)
    BY <1>3, <1>10, <2>1, <2>2 DEF Follows
  <2>4. Good(b, now)
    BY <1>2, <1>10, <2>1, <2>2, <2>3 DEF b
  <2> QED
    BY <2>1, <2>2, <2>4
<1>11. \E b \in Binlog, now \in NameMaps : Good(b, now)
  <2> HIDE DEF Good
  <2>1. CASE \E s \in LiveAt(N) : Write([NoBinlog EXCEPT !.table = s], Now)
    BY <1>5, <2>1
  <2>2. CASE \E s \in SourceTables, n \in Names :
               /\ FreeName(n) /\ ~WasUsed(s)
               /\ Write([NoBinlog EXCEPT !.kind = "CREATE_TABLE", !.table = s, !.name = n],
                        [Now EXCEPT ![s] = n])
    <3>1. PICK s \in SourceTables, n \in Names :
               /\ FreeName(n) /\ ~WasUsed(s)
               /\ Write([NoBinlog EXCEPT !.kind = "CREATE_TABLE", !.table = s, !.name = n],
                        [Now EXCEPT ![s] = n])
      BY <2>2
    <3>2. old[s] = Nil
      BY <1>1, <1>2, <3>1 DEF WasUsed
    <3> QED
      BY <1>6, <3>1, <3>2
  <2>3. CASE \E s \in SourceTables, n \in Names :
               /\ FreeName(n) /\ WasUsed(s) /\ Now[s] = Nil
               /\ Write([NoBinlog EXCEPT !.kind = "RECOVER_INFO", !.table = s, !.name = n],
                        [Now EXCEPT ![s] = n])
    <3>1. PICK s \in SourceTables, n \in Names :
               /\ FreeName(n) /\ WasUsed(s) /\ Now[s] = Nil
               /\ Write([NoBinlog EXCEPT !.kind = "RECOVER_INFO", !.table = s, !.name = n],
                        [Now EXCEPT ![s] = n])
      BY <2>3
    <3> QED
      BY <1>2, <1>6, <3>1
  <2>4. CASE \E s \in LiveAt(N) :
               Write([NoBinlog EXCEPT !.kind = "ALTER_JOB", !.table = s, !.name = Now[s]], Now)
    BY <1>7, <2>4
  <2>5. CASE \E s \in LiveAt(N) :
               Write([NoBinlog EXCEPT !.kind = "DROP_TABLE", !.table = s, !.name = Now[s]],
                     [Now EXCEPT ![s] = Nil])
    BY <1>8, <2>5
  <2>6. CASE \E s \in LiveAt(N), n \in Names :
               /\ FreeName(n)
               /\ Write([NoBinlog EXCEPT !.kind = "RENAME_TABLE", !.table = s, !.name = Now[s],
                                         !.newName = n],
                        [Now EXCEPT ![s] = n])
    BY <1>9, <2>6
  <2>7. CASE \E s, t \in LiveAt(N), swap \in BOOLEAN :
               /\ s # t
               /\ Write([kind |-> "REPLACE_TABLE", table |-> s, name |-> Now[s], newTable |-> t,
                         newName |-> Now[t], swap |-> swap],
                        [Now EXCEPT ![s] = IF swap THEN Now[t] ELSE Nil, ![t] = Now[s]])
    BY <1>10, <2>7
  <2> QED
    BY <2>1, <2>2, <2>3, <2>4, <2>5, <2>6, <2>7 DEF SourceWrites, N
<1> QED
  BY <1>11

\* The log starts empty, and the first names are distinct.
LEMMA InitSource ==
    ASSUME NamesInit
    PROVE  SourceOK
<1>1. log = <<>> /\ names = <<InitialNames>>
  BY DEF NamesInit
<1>2. log \in Seq(Binlog) /\ Len(log) = 0 /\ names \in Seq(NameMaps) /\ Len(names) = 1
  BY <1>1, NamesAssumption DEF NameMaps
<1>3. SourceTyped /\ N = 0
  BY <1>2, NamesAssumption DEF SourceTyped, N
<1>4. \A k \in 1..N + 1 : Injective(names[k])
  BY <1>1, <1>3, NamesAssumption DEF Injective
<1> QED
  BY <1>3, <1>4 DEF SourceOK

\* A binlog that is added has all before it behind.
LEMMA WritesKeepSource ==
    ASSUME SourceOK, SourceWrites
    PROVE  SourceOK' /\ Grows
<1>1. PICK b \in Binlog, now \in NameMaps :
         /\ Write(b, now) /\ Follows(b, names[N + 1], now) /\ Injective(now)
         /\ b.kind = "CREATE_TABLE" => \A k \in 1..N + 1 : names[k][b.table] = Nil
  BY SourceStep
<1>2. SourceTyped /\ N \in Nat
  BY SourceFacts DEF SourceOK
<1>3. /\ SourceTyped' /\ N' = N + 1
      /\ log'[N + 1] = b /\ names'[N + 2] = now
      /\ \A i \in 1..N : log'[i] = log[i]
      /\ \A k \in 1..N + 1 : names'[k] = names[k]
  BY <1>1, <1>2, WriteAdds
<1>4. Grows
  BY <1>2, <1>3 DEF Grows
<1>5. ASSUME NEW k \in 1..N' + 1
      PROVE  Injective(names'[k])
  <2>1. k \in 1..N + 1 \/ k = N + 2
    BY <1>2, <1>3
  <2>2. CASE k \in 1..N + 1
    BY <1>3, <2>2 DEF SourceOK
  <2>3. CASE k = N + 2
    BY <1>1, <1>3, <2>3
  <2> QED
    BY <2>1, <2>2, <2>3
<1>6. ASSUME NEW i \in 1..N'
      PROVE  /\ Follows(log'[i], names'[i], names'[i + 1])
             /\ log'[i].kind = "CREATE_TABLE" => RowsOf(log[i].table, i)' = {}
  <2>1. i \in 1..N \/ i = N + 1
    BY <1>2, <1>3
  <2>2. CASE i \in 1..N
    <3>1. i \in 1..N + 1 /\ i + 1 \in 1..N + 1 /\ i \in 0..N
      BY <1>2, <2>2
    <3>2. log'[i] = log[i] /\ names'[i] = names[i] /\ names'[i + 1] = names[i + 1]
      BY <1>3, <2>2, <3>1
    <3>4. PICK s : s = log[i].table
      OBVIOUS
    <3>5. RowsOf(s, i)' = RowsOf(s, i)
      BY <1>2, <1>4, <3>1, GrowsFacts
    <3>6. RowsOf(log[i].table, i)' = RowsOf(s, i)'
      BY <3>2, <3>4 DEF RowsOf
    <3>7. Follows(log[i], names[i], names[i + 1])
      BY <2>2 DEF SourceOK
    <3>8. log[i].kind = "CREATE_TABLE" => RowsOf(s, i) = {}
      BY <2>2, <3>4 DEF SourceOK
    <3> QED
      BY <3>2, <3>4, <3>5, <3>6, <3>7, <3>8
  <2>3. CASE i = N + 1
    <3>1. log'[i] = b /\ names'[i] = names[N + 1] /\ names'[i + 1] = now
      <4>1. i \in 1..N + 1 /\ i + 1 = N + 2
        BY <1>2, <2>3
      <4> QED
        BY <1>3, <2>3, <4>1
    <3>2. ASSUME b.kind = "CREATE_TABLE", NEW j \in 1..N + 1,
                 log'[j].kind = "UPSERT", log'[j].table = b.table
          PROVE  FALSE
      <4>1. j # N + 1
        BY <1>3, <3>2
      <4>2. j \in 1..N /\ j \in 1..N + 1
        BY <1>2, <4>1
      <4>3. log'[j] = log[j] /\ Follows(log[j], names[j], names[j + 1])
        BY <1>3, <4>2 DEF SourceOK
      <4>4. names[j][b.table] # Nil
        BY <3>2, <4>3 DEF Follows
      <4> QED
        BY <1>1, <3>2, <4>2, <4>4
    <3>3. b.kind = "CREATE_TABLE" => RowsOf(log[i].table, i)' = {}
      BY <2>3, <3>1, <3>2 DEF RowsOf
    <3> QED
      BY <1>1, <3>1, <3>3
  <2> QED
    BY <2>1, <2>2, <2>3
<1>7. SourceOK'
  BY <1>3, <1>5, <1>6 DEF SourceOK
<1> QED
  BY <1>4, <1>7

\* Nothing else writes to the log.
LEMMA OthersKeepSource ==
    ASSUME [NamesNext]_nameVars, ~SourceWrites
    PROVE  UNCHANGED <<log, names>>
<1>1. CASE JobAction
  BY <1>1
  DEF JobAction, JobStep, StartHandle, Recover, SkipBinlog, SnapshotUnknownReplace, HandleFails,
      HandleUpsert, CreateTable, CreateExistingTable, DropTable, DropUnknownTable, RenameTable,
      ReplaceSkipped, ReplaceBySnapshot, ReplaceTable, StatementFails, RestoreChangedTable,
      FinishBinlog, BackupAll, RestoreAll, BackupTable, BackupIdNotMatch, BackupTableNotFound,
      RestoreTable
<1>2. CASE Environment
  BY <1>2 DEF Environment, Crash, FullSyncAsked
<1>3. CASE UNCHANGED nameVars
  BY <1>3 DEF nameVars
<1> QED
  BY <1>1, <1>2, <1>3 DEF NamesNext

\* A step that touches neither the log nor the names keeps what is said of them.
LEMMA SameSource ==
    ASSUME SourceOK, UNCHANGED <<log, names>>
    PROVE  SourceOK' /\ Grows /\ N' = N
<1>1. N \in Nat
  BY SourceFacts DEF SourceOK
<1>2. N' = N /\ log' = log /\ names' = names
  BY DEF N
<1>3. SourceTyped'
  BY <1>2 DEF SourceOK, SourceTyped
<1>4. \A s, i : RowsOf(s, i)' = RowsOf(s, i)
  BY <1>2 DEF RowsOf
<1>5. SourceOK'
  BY <1>2, <1>3, <1>4 DEF SourceOK
<1>6. Grows
  BY <1>1, <1>2 DEF Grows
<1> QED
  BY <1>2, <1>5, <1>6

\* Every step keeps what is said of the source, and writes nothing over.
LEMMA NextSource ==
    ASSUME SourceOK, [NamesNext]_nameVars
    PROVE  SourceOK' /\ Grows
<1>1. CASE SourceWrites
  BY <1>1, WritesKeepSource
<1>2. CASE ~SourceWrites
  <2>1. UNCHANGED <<log, names>>
    BY <1>2, OthersKeepSource
  <2> QED
    BY <2>1, SameSource
<1> QED
  BY <1>1, <1>2

-------------------------------------------------------------------------------
(* The tables of the target. *)

\* Tables with ids of the target, no two under one name.
TargetOK(T) ==
    /\ DOMAIN T \subseteq TargetIds
    /\ \A d \in DOMAIN T : T[d] \in [name : Names, rows : SUBSET Seqs]
    /\ \A d, e \in DOMAIN T : T[d].name = T[e].name => d = e

\* A name has one table at the target.
LEMMA IdOfFacts ==
    ASSUME NEW n, Exists(n)
    PROVE  IdOf(n) \in DOMAIN target /\ target[IdOf(n)].name = n
BY DEF Exists, IdOf

\* The table that has a name is the one the name leads to.
LEMMA IdOfUnique ==
    ASSUME TargetOK(target), NEW d \in DOMAIN target, NEW n, target[d].name = n
    PROVE  Exists(n) /\ IdOf(n) = d
<1>1. Exists(n)
  BY DEF Exists
<1>2. IdOf(n) \in DOMAIN target /\ target[IdOf(n)].name = n
  BY <1>1, IdOfFacts
<1> QED
  BY <1>1, <1>2 DEF TargetOK

\* What is left without a name.
LEMMA WithoutFacts ==
    ASSUME TargetOK(target), NEW n
    PROVE  /\ DOMAIN Without(n) = {d \in DOMAIN target : target[d].name # n}
           /\ \A d \in DOMAIN Without(n) : Without(n)[d] = target[d]
           /\ TargetOK(Without(n))
<1>1. /\ DOMAIN Without(n) = {d \in DOMAIN target : target[d].name # n}
      /\ \A d \in DOMAIN Without(n) : Without(n)[d] = target[d]
  BY DEF Without, Restrict
<1> QED
  BY <1>1 DEF TargetOK

\* A table that is put in place of, or beside, others.
LEMMA PutOK ==
    ASSUME NEW T, TargetOK(T), NEW id \in TargetIds, NEW n \in Names, NEW rows \in SUBSET Seqs,
           \A d \in DOMAIN T : d # id => T[d].name # n
    PROVE  TargetOK(Put(id, Table(n, rows), T))
<1>1. PICK x : x = Table(n, rows)
  OBVIOUS
<1>2. PICK U : U = Put(id, x, T)
  OBVIOUS
<1>3. /\ DOMAIN U = DOMAIN T \cup {id} /\ U[id] = x
      /\ \A d \in DOMAIN T : d # id => U[d] = T[d]
  BY <1>2 DEF Put
<1>4. x \in [name : Names, rows : SUBSET Seqs] /\ x.name = n
  BY <1>1 DEF Table
<1>5. \A d \in DOMAIN U : U[d] \in [name : Names, rows : SUBSET Seqs]
  BY <1>3, <1>4 DEF TargetOK
<1>6. \A d \in DOMAIN U : d # id => U[d].name # n
  BY <1>3
<1>7. ASSUME NEW d \in DOMAIN U, NEW e \in DOMAIN U, U[d].name = U[e].name
      PROVE  d = e
  <2>1. CASE d = id \/ e = id
    BY <1>3, <1>4, <1>6, <1>7, <2>1
  <2>2. CASE d # id /\ e # id
    BY <1>3, <1>7, <2>2 DEF TargetOK
  <2> QED
    BY <2>1, <2>2
<1>8. TargetOK(U)
  BY <1>3, <1>5, <1>7 DEF TargetOK
<1> QED
  BY <1>1, <1>2, <1>8

\* A table gets another name, or more rows.
LEMMA RenameFacts ==
    ASSUME NEW T, TargetOK(T), NEW d \in DOMAIN T, NEW n \in Names,
           \A e \in DOMAIN T : e # d => T[e].name # n,
           NEW U, U = [T EXCEPT ![d].name = n]
    PROVE  /\ DOMAIN U = DOMAIN T
           /\ U[d].name = n /\ U[d].rows = T[d].rows
           /\ \A e \in DOMAIN T : e # d => U[e] = T[e]
           /\ TargetOK(U)
<1>1. T[d] \in [name : Names, rows : SUBSET Seqs]
  BY DEF TargetOK
<1>2. DOMAIN U = DOMAIN T /\ \A e \in DOMAIN T : e # d => U[e] = T[e]
  OBVIOUS
<1>3. U[d] = [T[d] EXCEPT !.name = n]
  OBVIOUS
<1>4. U[d].name = n /\ U[d].rows = T[d].rows /\ U[d] \in [name : Names, rows : SUBSET Seqs]
  BY <1>1, <1>3
<1>5. TargetOK(U)
  BY <1>2, <1>4 DEF TargetOK
<1> QED
  BY <1>2, <1>4, <1>5

\* An insert adds one row to one table.
LEMMA InsertFacts ==
    ASSUME NEW T, TargetOK(T), NEW d \in DOMAIN T, NEW c \in Seqs,
           NEW U, U = [T EXCEPT ![d].rows = @ \cup {c}]
    PROVE  /\ DOMAIN U = DOMAIN T
           /\ U[d].name = T[d].name /\ U[d].rows = T[d].rows \cup {c}
           /\ \A e \in DOMAIN T : e # d => U[e] = T[e]
           /\ TargetOK(U)
<1>1. T[d] \in [name : Names, rows : SUBSET Seqs]
  BY DEF TargetOK
<1>2. DOMAIN U = DOMAIN T /\ \A e \in DOMAIN T : e # d => U[e] = T[e]
  OBVIOUS
<1>3. U[d] = [T[d] EXCEPT !.rows = @ \cup {c}]
  OBVIOUS
<1>4. /\ U[d].name = T[d].name /\ U[d].rows = T[d].rows \cup {c}
      /\ U[d] \in [name : Names, rows : SUBSET Seqs]
  BY <1>1, <1>3
<1>5. TargetOK(U)
  BY <1>2, <1>4 DEF TargetOK
<1> QED
  BY <1>2, <1>4, <1>5

\* Both rows of the progress map the tables of the source.
MapsTyped ==
    /\ prog.tableMapping \in [SourceTables -> TargetIds \cup {NoTarget}]
    /\ disk.tableMapping \in [SourceTables -> TargetIds \cup {NoTarget}]

\* The ids and the free ones are finite sets of numbers.
LEMMA IdsFinite ==
    /\ TargetIds \subseteq Nat /\ NoTarget \notin TargetIds /\ IsFiniteSet(TargetIds)
    /\ Cardinality(TargetIds) = Cardinality(Names) + 2 * Cardinality(SourceTables) + 1
    /\ Cardinality(Names) \in Nat /\ Cardinality(SourceTables) \in Nat
    /\ FreeIds \subseteq Nat /\ IsFiniteSet(FreeIds)
<1>1. PICK m : m = Cardinality(Names) + 2 * Cardinality(SourceTables) + 1
  OBVIOUS
<1>2. Cardinality(Names) \in Nat /\ Cardinality(SourceTables) \in Nat
  BY NamesAssumption, FS_CardinalityType
<1>3. m \in Nat /\ m > 0 /\ TargetIds = 1..m
  BY <1>1, <1>2 DEF TargetIds
<1>4. IsFiniteSet(TargetIds) /\ Cardinality(TargetIds) = m
  BY <1>3, FS_Interval
<1>5. TargetIds \subseteq Nat /\ NoTarget \notin TargetIds
  BY <1>3 DEF NoTarget
<1>6. FreeIds \in SUBSET TargetIds
  BY DEF FreeIds
<1>7. IsFiniteSet(FreeIds)
  BY <1>4, <1>6, FS_Subset
<1> QED
  BY <1>1, <1>2, <1>4, <1>5, <1>6, <1>7

\* The union of two sets has at most the elements of both.
LEMMA UnionBound ==
    ASSUME NEW A, IsFiniteSet(A), NEW B1, IsFiniteSet(B1)
    PROVE  /\ IsFiniteSet(A \cup B1) /\ Cardinality(A \cup B1) \in Nat
           /\ Cardinality(A \cup B1) <= Cardinality(A) + Cardinality(B1)
<1>1. /\ IsFiniteSet(A \cup B1)
      /\ Cardinality(A \cup B1) = Cardinality(A) + Cardinality(B1) - Cardinality(A \cap B1)
  BY FS_Union
<1>2. IsFiniteSet(A \cap B1)
  BY FS_Intersection
<1>3. /\ Cardinality(A \cap B1) \in Nat /\ Cardinality(A) \in Nat /\ Cardinality(B1) \in Nat
      /\ Cardinality(A \cup B1) \in Nat
  BY <1>1, <1>2, FS_CardinalityType
<1> QED
  BY <1>1, <1>3

\* There is a free id for each table whose name is not at the target, and one more.
LEMMA FreeIdsCount ==
    ASSUME TargetOK(target), MapsTyped, NEW S, IsFiniteSet(S), NEW g \in [S -> Names],
           \A s, t \in S : g[s] = g[t] => s = t,
           \A s \in S : ~Exists(g[s])
    PROVE  /\ Cardinality(S) \in Nat /\ Cardinality(FreeIds) \in Nat
           /\ Cardinality(S) < Cardinality(FreeIds)
<1> DEFINE A == {target[d].name : d \in DOMAIN target}
           X == {g[s] : s \in S}
           f == [d \in DOMAIN target |-> target[d].name]
           R == Range(prog.tableMapping) \cup Range(disk.tableMapping)
           U == DOMAIN target \cup R
<1>1. A \in SUBSET Names /\ X \in SUBSET Names /\ A \cap X = {}
  <2>1. \A d \in DOMAIN target : target[d].name \in Names
    BY DEF TargetOK
  <2>2. \A d \in DOMAIN target, s \in S : target[d].name # g[s]
    BY DEF Exists
  <2> QED
    BY <2>1, <2>2
<1>2. IsFiniteSet(A) /\ IsFiniteSet(X) /\ Cardinality(A) + Cardinality(X) <= Cardinality(Names)
  <2>1. IsFiniteSet(A) /\ IsFiniteSet(X)
    BY <1>1, NamesAssumption, FS_Subset
  <2>2. A \cup X \in SUBSET Names
    BY <1>1
  <2>3. Cardinality(A \cup X) <= Cardinality(Names)
    BY <2>2, NamesAssumption, FS_Subset
  <2>4. Cardinality(A \cup X) = Cardinality(A) + Cardinality(X) - Cardinality(A \cap X)
    BY <2>1, FS_Union
  <2>5. Cardinality(A \cap X) = 0
    BY <1>1, FS_EmptySet
  <2>6. Cardinality(A) \in Nat /\ Cardinality(X) \in Nat
    BY <2>1, FS_CardinalityType
  <2> HIDE DEF A, X
  <2> QED
    BY <2>1, <2>3, <2>4, <2>5, <2>6
<1>3. IsFiniteSet(DOMAIN target) /\ Cardinality(DOMAIN target) <= Cardinality(A)
  <2>1. f \in Injection(DOMAIN target, A)
    BY DEF Injection, IsInjective, TargetOK
  <2> QED
    BY <1>2, <2>1, FS_Injection
<1>4. Cardinality(S) <= Cardinality(X)
  <2>1. g \in Injection(S, X)
    BY DEF Injection, IsInjective
  <2> QED
    BY <1>2, <2>1, FS_Injection
<1>5. /\ IsFiniteSet(R) /\ Cardinality(R) \in Nat
      /\ Cardinality(R) <= Cardinality(SourceTables) + Cardinality(SourceTables)
  <2>1. DOMAIN prog.tableMapping = SourceTables /\ DOMAIN disk.tableMapping = SourceTables
    BY DEF MapsTyped
  <2>2. /\ IsFiniteSet(Range(prog.tableMapping))
        /\ Cardinality(Range(prog.tableMapping)) <= Cardinality(SourceTables)
        /\ IsFiniteSet(Range(disk.tableMapping))
        /\ Cardinality(Range(disk.tableMapping)) <= Cardinality(SourceTables)
    BY <2>1, RangeFinite, NamesAssumption
  <2>3. /\ IsFiniteSet(R) /\ Cardinality(R) \in Nat
        /\ Cardinality(R) <= Cardinality(Range(prog.tableMapping))
                             + Cardinality(Range(disk.tableMapping))
    BY <2>2, UnionBound
  <2>4. /\ Cardinality(Range(prog.tableMapping)) \in Nat
        /\ Cardinality(Range(disk.tableMapping)) \in Nat /\ Cardinality(SourceTables) \in Nat
    BY <2>2, NamesAssumption, FS_CardinalityType
  <2> HIDE DEF R
  <2> QED
    BY <2>2, <2>3, <2>4
<1>6. /\ IsFiniteSet(U) /\ Cardinality(U) \in Nat
      /\ Cardinality(U) <= Cardinality(DOMAIN target) + Cardinality(R)
  BY <1>3, <1>5, UnionBound
<1>7. /\ Cardinality(TargetIds) <= Cardinality(FreeIds) + Cardinality(U)
      /\ Cardinality(FreeIds) \in Nat
  <2>1. IsFiniteSet(FreeIds) /\ IsFiniteSet(TargetIds)
    BY IdsFinite
  <2>2. TargetIds \in SUBSET (FreeIds \cup U)
    BY DEF FreeIds
  <2>3. /\ IsFiniteSet(FreeIds \cup U) /\ Cardinality(FreeIds \cup U) \in Nat
        /\ Cardinality(FreeIds \cup U) <= Cardinality(FreeIds) + Cardinality(U)
    BY <1>6, <2>1, UnionBound
  <2>4. Cardinality(TargetIds) <= Cardinality(FreeIds \cup U)
    BY <2>2, <2>3, FS_Subset
  <2>5. Cardinality(FreeIds) \in Nat /\ Cardinality(TargetIds) \in Nat
    BY <2>1, FS_CardinalityType
  <2> HIDE DEF U
  <2> QED
    BY <1>6, <2>3, <2>4, <2>5
<1>8. /\ Cardinality(TargetIds) = Cardinality(Names) + 2 * Cardinality(SourceTables) + 1
      /\ Cardinality(Names) \in Nat /\ Cardinality(SourceTables) \in Nat
  BY IdsFinite
<1>9. /\ Cardinality(A) \in Nat /\ Cardinality(X) \in Nat /\ Cardinality(S) \in Nat
      /\ Cardinality(DOMAIN target) \in Nat
  BY <1>2, <1>3, FS_CardinalityType
<1> HIDE DEF A, X, f, R, U
<1> QED
  BY <1>2, <1>3, <1>4, <1>5, <1>6, <1>7, <1>8, <1>9

\* The free id of a number below the number of free ids is one, and has that rank.
LEMMA FreeIdFacts ==
    ASSUME NEW n \in Nat, n < Cardinality(FreeIds)
    PROVE  FreeId(n) \in FreeIds /\ Rank(FreeIds, FreeId(n)) = n
<1>1. \E d \in FreeIds : Rank(FreeIds, d) = n
  BY IdsFinite, Ranked
<1> QED
  BY <1>1 DEF FreeId, Rank

\* The first free id is an id of no table and of no mapping.
LEMMA FreshId ==
    ASSUME TargetOK(target), MapsTyped
    PROVE  /\ FreeId(0) \in TargetIds /\ FreeId(0) # NoTarget
           /\ FreeId(0) \notin DOMAIN target
           /\ \A s \in SourceTables : /\ prog.tableMapping[s] # FreeId(0)
                                      /\ disk.tableMapping[s] # FreeId(0)
<1>1. Cardinality(FreeIds) \in Nat /\ 0 < Cardinality(FreeIds)
  <2>1. PICK g : g = [s \in {} |-> Nil]
    OBVIOUS
  <2>2. IsFiniteSet({}) /\ Cardinality({}) = 0 /\ g \in [{} -> Names]
    BY <2>1, FS_EmptySet
  <2> QED
    BY <2>2, FreeIdsCount
<1>2. FreeId(0) \in FreeIds
  BY <1>1, FreeIdFacts
<1>3. ASSUME NEW s \in SourceTables
      PROVE  /\ prog.tableMapping[s] \in Range(prog.tableMapping)
             /\ disk.tableMapping[s] \in Range(disk.tableMapping)
  BY DEF MapsTyped, Range
<1> QED
  BY <1>2, <1>3, IdsFinite DEF FreeIds

\* A part of a set has less elements before one of it.
LEMMA RankBelow ==
    ASSUME NEW F, F \subseteq Nat, IsFiniteSet(F), NEW d \in F
    PROVE  Rank(F, d) \in Nat /\ Rank(F, d) < Cardinality(F)
<1> DEFINE low == {e \in F : e < d}
<1>1. low \in SUBSET F /\ d \notin low
  BY DEF low
<1>2. IsFiniteSet(low) /\ Cardinality(low) <= Cardinality(F) /\ Cardinality(low) # Cardinality(F)
  BY <1>1, FS_Subset
<1>3. Cardinality(low) \in Nat /\ Cardinality(F) \in Nat
  BY <1>2, FS_CardinalityType
<1> QED
  BY <1>2, <1>3 DEF Rank

\* A full snapshot gives each table an id of its own: that of the table of its name, or a free
\* one.  The others at the target have other names.
LEMMA RestoreAllFacts ==
    ASSUME SourceOK, TargetOK(target), MapsTyped, NEW k \in 0..N,
           NEW live, live = LiveAt(k),
           NEW new, new \subseteq live,
           \A s \in live : s \in new <=> ~Exists(NameAt(s, k)),
           NEW id, DOMAIN id = live,
           \A s \in new : id[s] = FreeId(Rank(new, s)),
           \A s \in live : s \notin new => id[s] = IdOf(NameAt(s, k)),
           NEW restored, DOMAIN restored = Range(id),
           \A s \in live : (\A t \in live : id[t] = id[s] => t = s) =>
                             restored[id[s]] = Table(NameAt(s, k), RowsOf(s, k)),
           NEW U, DOMAIN U = DOMAIN restored \cup DOMAIN target,
           \A d \in DOMAIN restored : U[d] = restored[d],
           \A d \in DOMAIN target : d \notin DOMAIN restored => U[d] = target[d]
    PROVE  /\ \A s \in live : id[s] \in TargetIds /\ id[s] \in DOMAIN U
           /\ \A s, t \in live : id[s] = id[t] => s = t
           /\ \A s \in live : U[id[s]] = Table(NameAt(s, k), RowsOf(s, k))
           /\ TargetOK(U)
<1>1. SourceTyped /\ N \in Nat /\ k \in Nat /\ k + 1 \in 1..N + 1
  BY SourceFacts DEF SourceOK
<1>2. /\ live \subseteq SourceTables
      /\ \A s \in live : NameAt(s, k) \in Names
      /\ \A s, t \in live : NameAt(s, k) = NameAt(t, k) => s = t
  <2>1. \A s \in SourceTables : s \in live <=> NameAt(s, k) # Nil
    BY DEF LiveAt
  <2>2. \A s \in SourceTables : NameAt(s, k) \in Names \cup {Nil}
    BY <1>1, SourceFacts
  <2>3. Injective(names[k + 1])
    BY <1>1 DEF SourceOK
  <2>4. live \subseteq SourceTables
    BY DEF LiveAt
  <2> QED
    BY <2>1, <2>2, <2>3, <2>4 DEF Injective, NameAt
<1>3. new \subseteq Nat /\ IsFiniteSet(new)
  <2>1. new \in SUBSET SourceTables
    BY <1>2
  <2> QED
    BY <2>1, NamesAssumption, FS_Subset
<1>4. /\ Cardinality(new) \in Nat
      /\ Cardinality(FreeIds) \in Nat /\ Cardinality(new) < Cardinality(FreeIds)
  <2>1. PICK g : g = [s \in new |-> NameAt(s, k)]
    OBVIOUS
  <2>2. g \in [new -> Names]
    BY <1>2, <1>3, <2>1
  <2>3. \A s, t \in new : g[s] = g[t] => s = t
    BY <1>2, <1>3, <2>1
  <2>4. \A s \in new : ~Exists(g[s])
    BY <2>1
  <2> QED
    BY <1>3, <2>2, <2>3, <2>4, FreeIdsCount
<1>5. ASSUME NEW s \in new
      PROVE  id[s] \in FreeIds /\ Rank(FreeIds, id[s]) = Rank(new, s)
  <2>1. Rank(new, s) \in Nat /\ Rank(new, s) < Cardinality(new)
    BY <1>3, RankBelow
  <2>2. Rank(new, s) < Cardinality(FreeIds)
    BY <1>4, <2>1
  <2>3. id[s] = FreeId(Rank(new, s))
    OBVIOUS
  <2> QED
    BY <2>1, <2>2, <2>3, FreeIdFacts
<1>6. ASSUME NEW s \in live \ new
      PROVE  id[s] \in DOMAIN target /\ target[id[s]].name = NameAt(s, k)
  <2>1. Exists(NameAt(s, k)) /\ id[s] = IdOf(NameAt(s, k))
    OBVIOUS
  <2> QED
    BY <2>1, IdOfFacts
<1>7. ASSUME NEW s \in live, NEW t \in live, id[s] = id[t]
      PROVE  s = t
  <2>1. CASE s \in new /\ t \in new
    <3>1. Rank(new, s) = Rank(new, t)
      BY <1>5, <1>7, <2>1
    <3> QED
      BY <1>3, <2>1, <3>1, RankInjective
  <2>2. CASE s \notin new /\ t \notin new
    <3>1. target[id[s]].name = NameAt(s, k) /\ target[id[t]].name = NameAt(t, k)
      BY <1>6, <2>2
    <3>2. NameAt(s, k) = NameAt(t, k)
      BY <1>7, <3>1
    <3> QED
      BY <1>2, <3>2
  <2>3. CASE ~(s \in new <=> t \in new)
    BY <1>5, <1>6, <1>7, <2>3 DEF FreeIds
  <2> QED
    BY <2>1, <2>2, <2>3
<1>8. ASSUME NEW s \in live
      PROVE  id[s] \in TargetIds
  BY <1>5, <1>6 DEF FreeIds, TargetOK
<1>9. DOMAIN id = live /\ DOMAIN restored = Range(id)
  OBVIOUS
<1>10. Range(id) = {id[s] : s \in live}
  BY <1>9 DEF Range
<1>11. ASSUME NEW s \in live
       PROVE  id[s] \in DOMAIN restored /\ restored[id[s]] = Table(NameAt(s, k), RowsOf(s, k))
  <2>1. id[s] \in Range(id)
    BY <1>10
  <2>2. \A t \in live : id[t] = id[s] => t = s
    BY <1>7
  <2> QED
    BY <1>9, <2>1, <2>2
<1>12. /\ DOMAIN U = DOMAIN restored \cup DOMAIN target
       /\ \A d \in DOMAIN restored : U[d] = restored[d]
       /\ \A d \in DOMAIN target : d \notin DOMAIN restored => U[d] = target[d]
  OBVIOUS
<1>13. ASSUME NEW s \in live
       PROVE  id[s] \in DOMAIN U /\ U[id[s]] = Table(NameAt(s, k), RowsOf(s, k))
  <2>1. PICK d : d = id[s]
    OBVIOUS
  <2>2. d \in DOMAIN restored /\ restored[d] = Table(NameAt(s, k), RowsOf(s, k))
    BY <1>11, <2>1
  <2>3. d \in DOMAIN U /\ U[d] = Table(NameAt(s, k), RowsOf(s, k))
    BY <1>12, <2>2
  <2> QED
    BY <2>1, <2>3
<1>14. ASSUME NEW d \in DOMAIN U, \A s \in live : id[s] # d
       PROVE  /\ d \in DOMAIN target /\ U[d] = target[d]
              /\ \A s \in live : target[d].name # NameAt(s, k)
  <2>1. d \notin DOMAIN restored
    BY <1>9, <1>10, <1>14
  <2>2. d \in DOMAIN target /\ U[d] = target[d]
    BY <1>12, <2>1
  <2>3. ASSUME NEW s \in live, target[d].name = NameAt(s, k)
        PROVE  FALSE
    <3>1. Exists(NameAt(s, k)) /\ IdOf(NameAt(s, k)) = d
      BY <2>2, <2>3, IdOfUnique
    <3> QED
      BY <1>14, <3>1
  <2> QED
    BY <2>2, <2>3
<1>15. TargetOK(U)
  <2>1. ASSUME NEW d \in DOMAIN U
        PROVE  d \in TargetIds
    <3>1. CASE \E s \in live : id[s] = d
      BY <1>8, <3>1
    <3>2. CASE \A s \in live : id[s] # d
      BY <1>14, <3>2 DEF TargetOK
    <3> QED
      BY <3>1, <3>2
  <2>2. ASSUME NEW s \in live
        PROVE  /\ Table(NameAt(s, k), RowsOf(s, k)) \in [name : Names, rows : SUBSET Seqs]
               /\ Table(NameAt(s, k), RowsOf(s, k)).name = NameAt(s, k)
    <3>1. RowsOf(s, k) \subseteq Seqs
      <4>1. ASSUME NEW i \in 1..k PROVE i \in Seqs
        BY <1>1, NamesAssumption, SourceFacts DEF Seqs
      <4> QED
        BY <4>1 DEF RowsOf
    <3> QED
      BY <1>2, <3>1 DEF Table
  <2>3. ASSUME NEW d \in DOMAIN U
        PROVE  U[d] \in [name : Names, rows : SUBSET Seqs]
    <3>1. CASE \E s \in live : id[s] = d
      BY <1>13, <2>2, <3>1
    <3>2. CASE \A s \in live : id[s] # d
      BY <1>14, <3>2 DEF TargetOK
    <3> QED
      BY <3>1, <3>2
  <2>4. ASSUME NEW d \in DOMAIN U, NEW e \in DOMAIN U, U[d].name = U[e].name
        PROVE  d = e
    <3>1. CASE (\E s \in live : id[s] = d) /\ (\E s \in live : id[s] = e)
      <4>1. PICK s \in live, t \in live : id[s] = d /\ id[t] = e
        BY <3>1
      <4>2. U[d].name = NameAt(s, k) /\ U[e].name = NameAt(t, k)
        BY <1>13, <2>2, <4>1
      <4>3. s = t
        BY <1>2, <2>4, <4>2
      <4> QED
        BY <4>1, <4>3
    <3>2. CASE (\E s \in live : id[s] = d) /\ (\A s \in live : id[s] # e)
      <4>1. PICK s \in live : id[s] = d
        BY <3>2
      <4>2. U[d].name = NameAt(s, k)
        BY <1>13, <2>2, <4>1
      <4>3. U[e].name # NameAt(s, k)
        BY <1>14, <3>2
      <4> QED
        BY <2>4, <4>2, <4>3
    <3>3. CASE (\A s \in live : id[s] # d) /\ (\E s \in live : id[s] = e)
      <4>1. PICK s \in live : id[s] = e
        BY <3>3
      <4>2. U[e].name = NameAt(s, k)
        BY <1>13, <2>2, <4>1
      <4>3. U[d].name # NameAt(s, k)
        BY <1>14, <3>3
      <4> QED
        BY <2>4, <4>2, <4>3
    <3>4. CASE (\A s \in live : id[s] # d) /\ (\A s \in live : id[s] # e)
      BY <1>14, <2>4, <3>4 DEF TargetOK
    <3> QED
      BY <3>1, <3>2, <3>3, <3>4
  <2> QED
    BY <2>1, <2>3, <2>4 DEF TargetOK
<1> QED
  BY <1>2, <1>7, <1>8, <1>9, <1>13, <1>15

-------------------------------------------------------------------------------
(* The marks of the progress. *)

\* Where the marks of a progress are, and what the state of the sync says of them.
Places(P, h) ==
    /\ P.commitSeq <= N /\ P.unknownCommitSeq <= N /\ P.snapshotSeq <= N
    /\ P.prevCommitSeq <= P.commitSeq
    /\ IsIncrementalSync(P) =>
         /\ P.subSyncState = "Done" /\ P.commitSeq <= P.prevCommitSeq + 1
         /\ P.unknownCommitSeq <= P.prevCommitSeq + 1
         /\ h = "handle" => P.commitSeq = P.prevCommitSeq + 1
         /\ h = "handled" => P.unknownCommitSeq <= P.commitSeq
         /\ h # "idle" => P.commitSeq # 0
    /\ P.syncState = "DBIncrementalSync" => P.tableCommitSeqMap = NoMap
    /\ ~IsIncrementalSync(P) => h = "idle" /\ P.subSyncState # "Done"
    /\ P.syncState = "DBPartialSync" =>
         /\ P.partialSyncData # Nil /\ P.unknownCommitSeq <= P.commitSeq
         /\ P.subSyncState = "RestoreSnapshot" =>
              /\ P.commitSeq <= P.snapshotSeq
              /\ NameAt(P.partialSyncData.table, P.snapshotSeq) = P.partialSyncData.name
    /\ P.syncState = "DBFullSync" /\ P.subSyncState = "RestoreSnapshot" =>
         P.unknownCommitSeq <= P.snapshotSeq

\* The progress P, its row D, and the place h of the job in a binlog.
JobOK(P, D, h) ==
    /\ P \in Progress /\ D \in Progress /\ D.prevCommitSeq = P.prevCommitSeq
    /\ h \in {"idle", "handle", "handled"} /\ (h = "handle" => D = P)
    /\ Places(P, h) /\ Places(D, "idle")

\* The first part of the invariant, which holds whether or not a name has misled the job.
Types == SourceOK /\ TargetOK(target) /\ JobOK(prog, disk, pc)

\* The fields of a progress.
LEMMA ProgressFields ==
    ASSUME NEW P \in Progress
    PROVE  /\ P.syncState \in {"DBFullSync", "DBPartialSync", "DBTablesIncrementalSync",
                               "DBIncrementalSync"}
           /\ P.subSyncState \in {"Done", "BeginCreateSnapshot", "RestoreSnapshot"}
           /\ P.commitSeq \in Nat /\ P.prevCommitSeq \in Nat
           /\ P.unknownCommitSeq \in Nat /\ P.snapshotSeq \in Nat
           /\ P.commitSeq <= MaxSeq /\ P.prevCommitSeq <= MaxSeq
           /\ P.unknownCommitSeq <= MaxSeq /\ P.snapshotSeq <= MaxSeq
           /\ P.tableCommitSeqMap \in [SourceTables -> 0..MaxInt64]
           /\ P.tableMapping \in [SourceTables -> TargetIds \cup {NoTarget}]
           /\ P.partialSyncData \in Partial \cup {Nil}
BY NamesAssumption DEF Progress, Seqs

\* What NextWithPersist makes of the progress.
LEMMA NextWithPersistFacts ==
    ASSUME NEW P \in Progress, NEW seq \in Seqs,
           NEW st \in {"DBFullSync", "DBPartialSync", "DBTablesIncrementalSync",
                       "DBIncrementalSync"},
           NEW sub \in {"Done", "BeginCreateSnapshot", "RestoreSnapshot"}
    PROVE  \E Q \in Progress :
             /\ Q = NextWithPersist(P, seq, st, sub)
             /\ Q.syncState = st /\ Q.subSyncState = sub /\ Q.commitSeq = seq
             /\ Q.prevCommitSeq = IF sub = "Done" THEN seq ELSE P.prevCommitSeq
             /\ Q.unknownCommitSeq = P.unknownCommitSeq /\ Q.snapshotSeq = 0
             /\ Q.tableCommitSeqMap = P.tableCommitSeqMap /\ Q.tableMapping = P.tableMapping
             /\ Q.partialSyncData = P.partialSyncData
<1> DEFINE Q == NextWithPersist(P, seq, st, sub)
<1>1. PICK prev : prev = IF sub = "Done" THEN seq ELSE P.prevCommitSeq
  OBVIOUS
<1>2. prev \in Seqs /\ 0 \in Seqs
  BY <1>1, NamesAssumption DEF Progress, Seqs
<1>3. Q = [P EXCEPT !.commitSeq = seq, !.prevCommitSeq = prev, !.syncState = st,
                    !.subSyncState = sub, !.snapshotSeq = 0]
  BY <1>1 DEF NextWithPersist, Progress
<1> HIDE DEF Q
<1>4. /\ Q.syncState = st /\ Q.subSyncState = sub
      /\ Q.commitSeq = seq /\ Q.prevCommitSeq = prev
      /\ Q.unknownCommitSeq = P.unknownCommitSeq /\ Q.snapshotSeq = 0
      /\ Q.tableCommitSeqMap = P.tableCommitSeqMap /\ Q.tableMapping = P.tableMapping
      /\ Q.partialSyncData = P.partialSyncData
  BY <1>3 DEF Progress
<1>5. Q \in Progress
  BY <1>2, <1>3 DEF Progress
<1> QED
  BY <1>1, <1>4, <1>5 DEF Q

\* What Done makes of the progress.
LEMMA DoneFacts ==
    ASSUME NEW P \in Progress
    PROVE  \E Q \in Progress :
             /\ Q = Done(P)
             /\ Q.syncState = P.syncState /\ Q.subSyncState = "Done"
             /\ Q.commitSeq = P.commitSeq /\ Q.prevCommitSeq = P.commitSeq
             /\ Q.unknownCommitSeq = P.unknownCommitSeq /\ Q.snapshotSeq = P.snapshotSeq
             /\ Q.tableCommitSeqMap = P.tableCommitSeqMap /\ Q.tableMapping = P.tableMapping
             /\ Q.partialSyncData = P.partialSyncData
<1> DEFINE Q == Done(P)
<1>1. /\ Q.syncState = P.syncState /\ Q.subSyncState = "Done"
      /\ Q.commitSeq = P.commitSeq /\ Q.prevCommitSeq = P.commitSeq
      /\ Q.unknownCommitSeq = P.unknownCommitSeq /\ Q.snapshotSeq = P.snapshotSeq
      /\ Q.tableCommitSeqMap = P.tableCommitSeqMap /\ Q.tableMapping = P.tableMapping
      /\ Q.partialSyncData = P.partialSyncData
  BY DEF Done, Progress
<1>2. Q \in Progress
  BY DEF Done, Progress
<1> HIDE DEF Q
<1>3. Q = Done(P)
  BY DEF Q
<1> QED
  BY <1>1, <1>2, <1>3

\* What Rollback makes of the progress.
LEMMA RollbackFacts ==
    ASSUME NEW P \in Progress
    PROVE  \E Q \in Progress :
             /\ Q = Rollback(P)
             /\ Q.syncState = P.syncState /\ Q.subSyncState = "Done"
             /\ Q.commitSeq = P.prevCommitSeq /\ Q.prevCommitSeq = P.prevCommitSeq
             /\ Q.unknownCommitSeq = P.commitSeq /\ Q.snapshotSeq = P.snapshotSeq
             /\ Q.tableCommitSeqMap = P.tableCommitSeqMap /\ Q.tableMapping = P.tableMapping
             /\ Q.partialSyncData = P.partialSyncData
<1> DEFINE Q == Rollback(P)
<1>1. /\ Q.syncState = P.syncState /\ Q.subSyncState = "Done"
      /\ Q.commitSeq = P.prevCommitSeq /\ Q.prevCommitSeq = P.prevCommitSeq
      /\ Q.unknownCommitSeq = P.commitSeq /\ Q.snapshotSeq = P.snapshotSeq
      /\ Q.tableCommitSeqMap = P.tableCommitSeqMap /\ Q.tableMapping = P.tableMapping
      /\ Q.partialSyncData = P.partialSyncData
  BY DEF Rollback, Progress
<1>2. Q \in Progress
  BY DEF Rollback, Progress
<1> HIDE DEF Q
<1>3. Q = Rollback(P)
  BY DEF Q
<1> QED
  BY <1>1, <1>2, <1>3

\* Another copy for a table leaves the rest of the progress alone.
LEMMA MapFacts ==
    ASSUME NEW P \in Progress, NEW s \in SourceTables, NEW d \in TargetIds \cup {NoTarget},
           NEW Q, Q = [P EXCEPT !.tableMapping[s] = d]
    PROVE  /\ Q \in Progress /\ Q.syncState = P.syncState /\ Q.subSyncState = P.subSyncState
           /\ Q.commitSeq = P.commitSeq /\ Q.prevCommitSeq = P.prevCommitSeq
           /\ Q.unknownCommitSeq = P.unknownCommitSeq /\ Q.snapshotSeq = P.snapshotSeq
           /\ Q.tableCommitSeqMap = P.tableCommitSeqMap
           /\ Q.partialSyncData = P.partialSyncData
<1>1. P.tableMapping \in [SourceTables -> TargetIds \cup {NoTarget}]
  BY DEF Progress
<1>2. PICK m : m = [P.tableMapping EXCEPT ![s] = d]
  OBVIOUS
<1>3. m \in [SourceTables -> TargetIds \cup {NoTarget}]
  BY <1>1, <1>2
<1>4. Q = [P EXCEPT !.tableMapping = m]
  BY <1>2
<1>5. /\ Q \in Progress /\ Q.syncState = P.syncState /\ Q.subSyncState = P.subSyncState
      /\ Q.commitSeq = P.commitSeq /\ Q.prevCommitSeq = P.prevCommitSeq
      /\ Q.unknownCommitSeq = P.unknownCommitSeq /\ Q.snapshotSeq = P.snapshotSeq
      /\ Q.tableCommitSeqMap = P.tableCommitSeqMap
      /\ Q.tableMapping = m /\ Q.partialSyncData = P.partialSyncData
  BY <1>3, <1>4 DEF Progress
<1> QED
  BY <1>5

\* Another mark for a table leaves the rest of the progress alone.
LEMMA MarkFacts ==
    ASSUME NEW P \in Progress, NEW s \in SourceTables, NEW k \in 0..MaxInt64,
           NEW Q, Q = [P EXCEPT !.tableCommitSeqMap[s] = k]
    PROVE  /\ Q \in Progress /\ Q.syncState = P.syncState /\ Q.subSyncState = P.subSyncState
           /\ Q.commitSeq = P.commitSeq /\ Q.prevCommitSeq = P.prevCommitSeq
           /\ Q.unknownCommitSeq = P.unknownCommitSeq /\ Q.snapshotSeq = P.snapshotSeq
           /\ Q.tableMapping = P.tableMapping /\ Q.partialSyncData = P.partialSyncData
<1>1. P.tableCommitSeqMap \in [SourceTables -> 0..MaxInt64]
  BY DEF Progress
<1>2. PICK m : m = [P.tableCommitSeqMap EXCEPT ![s] = k]
  OBVIOUS
<1>3. m \in [SourceTables -> 0..MaxInt64]
  BY <1>1, <1>2
<1>4. Q = [P EXCEPT !.tableCommitSeqMap = m]
  BY <1>2
<1>5. /\ Q \in Progress /\ Q.syncState = P.syncState /\ Q.subSyncState = P.subSyncState
      /\ Q.commitSeq = P.commitSeq /\ Q.prevCommitSeq = P.prevCommitSeq
      /\ Q.unknownCommitSeq = P.unknownCommitSeq /\ Q.snapshotSeq = P.snapshotSeq
      /\ Q.tableCommitSeqMap = m
      /\ Q.tableMapping = P.tableMapping /\ Q.partialSyncData = P.partialSyncData
  BY <1>3, <1>4 DEF Progress
<1> QED
  BY <1>5

\* A map without marks stays without when a mark is removed.
LEMMA NoMapKept ==
    ASSUME NEW m, m \in [SourceTables -> 0..MaxInt64], m = NoMap, NEW s \in SourceTables
    PROVE  [m EXCEPT ![s] = 0] = NoMap
BY DEF NoMap

\* Another snapshot to wait for leaves the rest of the progress alone.
LEMMA PartialFacts ==
    ASSUME NEW P \in Progress, NEW x \in Partial \cup {Nil},
           NEW Q, Q = [P EXCEPT !.partialSyncData = x]
    PROVE  /\ Q \in Progress /\ Q.syncState = P.syncState /\ Q.subSyncState = P.subSyncState
           /\ Q.commitSeq = P.commitSeq /\ Q.prevCommitSeq = P.prevCommitSeq
           /\ Q.unknownCommitSeq = P.unknownCommitSeq /\ Q.snapshotSeq = P.snapshotSeq
           /\ Q.tableCommitSeqMap = P.tableCommitSeqMap /\ Q.tableMapping = P.tableMapping
           /\ Q.partialSyncData = x
BY DEF Progress

\* A full sync is asked for.
LEMMA NewSnapshotFacts ==
    ASSUME prog \in Progress, NEW seq \in Seqs, NewSnapshot(seq)
    PROVE  \E Q \in Progress :
             /\ prog' = Q /\ disk' = Q /\ pc' = "idle"
             /\ Q.syncState = "DBFullSync" /\ Q.subSyncState = "BeginCreateSnapshot"
             /\ Q.commitSeq = seq /\ Q.prevCommitSeq = prog.prevCommitSeq
             /\ Q.unknownCommitSeq = prog.unknownCommitSeq /\ Q.snapshotSeq = 0
             /\ Q.tableCommitSeqMap = prog.tableCommitSeqMap
             /\ Q.tableMapping = prog.tableMapping
<1>1. PICK P : P = [prog EXCEPT !.partialSyncData = Nil]
  OBVIOUS
<1>2. /\ P \in Progress /\ P.prevCommitSeq = prog.prevCommitSeq
      /\ P.unknownCommitSeq = prog.unknownCommitSeq
      /\ P.tableCommitSeqMap = prog.tableCommitSeqMap /\ P.tableMapping = prog.tableMapping
  BY <1>1, PartialFacts
<1>3. PICK st, sub :
        /\ st = "DBFullSync" /\ sub = "BeginCreateSnapshot"
        /\ st \in {"DBFullSync", "DBPartialSync", "DBTablesIncrementalSync", "DBIncrementalSync"}
        /\ sub \in {"Done", "BeginCreateSnapshot", "RestoreSnapshot"} /\ sub # "Done"
  OBVIOUS
<1>4. PICK Q \in Progress :
        /\ Q = NextWithPersist(P, seq, st, sub)
        /\ Q.syncState = st /\ Q.subSyncState = sub
        /\ Q.commitSeq = seq /\ Q.prevCommitSeq = P.prevCommitSeq
        /\ Q.unknownCommitSeq = P.unknownCommitSeq /\ Q.snapshotSeq = 0
        /\ Q.tableCommitSeqMap = P.tableCommitSeqMap /\ Q.tableMapping = P.tableMapping
  BY <1>2, <1>3, NextWithPersistFacts
<1>5. prog' = Q /\ disk' = Q /\ pc' = "idle"
  BY <1>1, <1>3, <1>4 DEF NewSnapshot, Persist
<1> QED
  BY <1>2, <1>3, <1>4, <1>5

\* A snapshot of one table is asked for.
LEMMA NewPartialSnapshotFacts ==
    ASSUME prog \in Progress, NEW s \in SourceTables, NEW n \in Names, NEW replace \in BOOLEAN,
           NewPartialSnapshot(s, n, replace)
    PROVE  \E Q \in Progress :
             /\ prog' = Q /\ disk' = Q /\ pc' = "idle"
             /\ Q.syncState = "DBPartialSync" /\ Q.subSyncState = "BeginCreateSnapshot"
             /\ Q.commitSeq = prog.commitSeq /\ Q.prevCommitSeq = prog.prevCommitSeq
             /\ Q.unknownCommitSeq = prog.unknownCommitSeq /\ Q.snapshotSeq = 0
             /\ Q.tableCommitSeqMap = prog.tableCommitSeqMap
             /\ Q.tableMapping = prog.tableMapping
             /\ Q.partialSyncData # Nil /\ Q.partialSyncData.table = s
<1> DEFINE x == [table |-> s, name |-> n, replace |-> replace]
<1>1. PICK P : P = [prog EXCEPT !.partialSyncData = x]
  OBVIOUS
<1>2. x \in Partial /\ x.table = s
  BY DEF Partial
<1> HIDE DEF x
<1>3. /\ P \in Progress /\ P.commitSeq = prog.commitSeq /\ P.prevCommitSeq = prog.prevCommitSeq
      /\ P.unknownCommitSeq = prog.unknownCommitSeq
      /\ P.tableCommitSeqMap = prog.tableCommitSeqMap /\ P.tableMapping = prog.tableMapping
      /\ P.partialSyncData = x
  BY <1>1, <1>2, PartialFacts
<1>4. PICK st, sub :
        /\ st = "DBPartialSync" /\ sub = "BeginCreateSnapshot"
        /\ st \in {"DBFullSync", "DBPartialSync", "DBTablesIncrementalSync", "DBIncrementalSync"}
        /\ sub \in {"Done", "BeginCreateSnapshot", "RestoreSnapshot"} /\ sub # "Done"
  OBVIOUS
<1>5. PICK c \in Seqs : c = prog.commitSeq
  BY DEF Progress
<1>6. PICK Q \in Progress :
        /\ Q = NextWithPersist(P, c, st, sub)
        /\ Q.syncState = st /\ Q.subSyncState = sub
        /\ Q.commitSeq = c /\ Q.prevCommitSeq = P.prevCommitSeq
        /\ Q.unknownCommitSeq = P.unknownCommitSeq /\ Q.snapshotSeq = 0
        /\ Q.tableCommitSeqMap = P.tableCommitSeqMap /\ Q.tableMapping = P.tableMapping
        /\ Q.partialSyncData = P.partialSyncData
  <2>1. P \in Progress /\ c \in Seqs
    BY <1>3, <1>5
  <2>2. PICK Q \in Progress :
          /\ Q = NextWithPersist(P, c, st, sub)
          /\ Q.syncState = st /\ Q.subSyncState = sub /\ Q.commitSeq = c
          /\ Q.prevCommitSeq = IF sub = "Done" THEN c ELSE P.prevCommitSeq
          /\ Q.unknownCommitSeq = P.unknownCommitSeq /\ Q.snapshotSeq = 0
          /\ Q.tableCommitSeqMap = P.tableCommitSeqMap /\ Q.tableMapping = P.tableMapping
          /\ Q.partialSyncData = P.partialSyncData
    BY <1>4, <2>1, NextWithPersistFacts
  <2> QED
    BY <1>4, <2>2
<1>7. prog' = Q /\ disk' = Q /\ pc' = "idle"
  BY <1>1, <1>4, <1>5, <1>6 DEF NewPartialSnapshot, Persist, x
<1>8. x # Nil
  BY <1>2, NamesAssumption DEF Partial
<1>9. /\ Q.syncState = "DBPartialSync" /\ Q.subSyncState = "BeginCreateSnapshot"
      /\ Q.commitSeq = prog.commitSeq /\ Q.prevCommitSeq = prog.prevCommitSeq
      /\ Q.unknownCommitSeq = prog.unknownCommitSeq /\ Q.snapshotSeq = 0
      /\ Q.tableCommitSeqMap = prog.tableCommitSeqMap
      /\ Q.tableMapping = prog.tableMapping
  BY <1>3, <1>4, <1>5, <1>6
<1>10. Q.partialSyncData = x
  BY <1>3, <1>6
<1>11. Q.partialSyncData # Nil /\ Q.partialSyncData.table = s
  BY <1>2, <1>8, <1>10
<1> QED
  BY <1>7, <1>9, <1>11

\* Two progresses that differ in the mapping only are in the same place.
LEMMA SamePlaces ==
    ASSUME NEW P, NEW h, Places(P, h), NEW Q,
           Q.syncState = P.syncState, Q.subSyncState = P.subSyncState,
           Q.commitSeq = P.commitSeq, Q.prevCommitSeq = P.prevCommitSeq,
           Q.unknownCommitSeq = P.unknownCommitSeq, Q.snapshotSeq = P.snapshotSeq,
           Q.tableCommitSeqMap = P.tableCommitSeqMap, Q.partialSyncData = P.partialSyncData
    PROVE  Places(Q, h)
BY DEF Places, IsIncrementalSync

\* In a handler the marks surround one binlog, and the row is the progress.
LEMMA HandleFacts ==
    ASSUME Types, pc = "handle"
    PROVE  /\ prog \in Progress /\ disk = prog /\ IsIncrementalSync(prog)
           /\ prog.subSyncState = "Done" /\ prog.commitSeq \in 1..N
           /\ prog.commitSeq = prog.prevCommitSeq + 1
           /\ prog.unknownCommitSeq <= prog.commitSeq
           /\ B \in Binlog /\ Follows(B, names[prog.commitSeq], names[prog.commitSeq + 1])
           /\ B.table \in SourceTables
<1>1. /\ prog \in Progress /\ disk = prog /\ Places(prog, "handle") /\ SourceOK
  BY DEF Types, JobOK
<1>2. /\ prog.commitSeq \in Nat /\ prog.prevCommitSeq \in Nat /\ prog.unknownCommitSeq \in Nat
      /\ N \in Nat
  BY <1>1, ProgressFields, SourceFacts DEF SourceOK
<1>3. IsIncrementalSync(prog)
  BY <1>1 DEF Places
<1>4. /\ prog.subSyncState = "Done" /\ prog.commitSeq = prog.prevCommitSeq + 1
      /\ prog.unknownCommitSeq <= prog.prevCommitSeq + 1 /\ prog.commitSeq <= N
  BY <1>1, <1>3 DEF Places
<1>5. prog.commitSeq \in 1..N
  BY <1>2, <1>4
<1>6. B \in Binlog /\ Follows(B, names[prog.commitSeq], names[prog.commitSeq + 1])
  BY <1>1, <1>5, SourceFacts DEF B, SourceOK
<1> QED
  BY <1>1, <1>2, <1>3, <1>4, <1>5, <1>6 DEF Binlog

\* What the names of a binlog are.
LEMMA BinlogNames ==
    ASSUME Types, pc = "handle"
    PROVE  /\ B.kind \in {"ALTER_JOB", "CREATE_TABLE", "RECOVER_INFO", "DROP_TABLE", "RENAME_TABLE",
                          "REPLACE_TABLE"} => B.name \in Names
           /\ B.kind \in {"RENAME_TABLE", "REPLACE_TABLE"} =>
                 B.newName \in Names /\ B.newName # B.name
           /\ B.kind = "REPLACE_TABLE" =>
                 B.newTable \in SourceTables /\ B.newTable # B.table /\ B.swap \in BOOLEAN
<1>1. B \in Binlog /\ Follows(B, names[prog.commitSeq], names[prog.commitSeq + 1])
  BY HandleFacts
<1>2. B.name \in Names \cup {Nil} /\ B.newName \in Names \cup {Nil} /\ B.swap \in BOOLEAN
  BY <1>1 DEF Binlog
<1> QED
  BY <1>1, <1>2 DEF Follows

\* The table that a handler writes to is one of the target, or none.
LEMMA DestTyped ==
    ASSUME Types, NEW s \in SourceTables, CanMap(s)
    PROVE  DestTableId(s) \in TargetIds \cup {NoTarget}
<1>1. prog.tableMapping[s] \in TargetIds \cup {NoTarget}
  BY ProgressFields DEF Types, JobOK
<1>2. ASSUME Exists(NameNow(s))
      PROVE  IdOf(NameNow(s)) \in TargetIds
  <2>1. PICK n : n = NameNow(s)
    OBVIOUS
  <2>2. IdOf(n) \in DOMAIN target
    BY <1>2, <2>1, IdOfFacts
  <2> QED
    BY <2>1, <2>2 DEF Types, TargetOK
<1> QED
  BY <1>1, <1>2 DEF CanMap, DestTableId

\* The job after a step: what Types says, but for the log.
JobAfter == TargetOK(target') /\ JobOK(prog', disk', pc')

\* A progress and a row that are at the same marks are right together.
LEMMA IdleOK ==
    ASSUME NEW Q \in Progress, Places(Q, "idle")
    PROVE  JobOK(Q, Q, "idle")
BY DEF JobOK

\* A binlog is begun, or given up, or one that failed is forgotten.
LEMMA StartTypes ==
    ASSUME Types, StartHandle
    PROVE  JobAfter
<1>1. PICK Q : Q = [prog EXCEPT !.commitSeq = @ + 1]
  OBVIOUS
<1>2. /\ prog \in Progress /\ Places(prog, "idle") /\ TargetOK(target)
      /\ IsIncrementalSync(prog) /\ prog.subSyncState = "Done"
      /\ prog.prevCommitSeq = prog.commitSeq /\ prog.commitSeq < N
      /\ N \in Nat /\ N <= MaxSeq
  BY SourceFacts DEF Types, JobOK, StartHandle, IsDone, N, SourceOK
<1>3. /\ prog.commitSeq \in Nat /\ prog.unknownCommitSeq \in Nat
  BY <1>2, ProgressFields
<1>4. prog.commitSeq + 1 \in Seqs
  BY <1>2, <1>3, NamesAssumption DEF Seqs
<1>5. /\ Q \in Progress
      /\ Q.syncState = prog.syncState /\ Q.subSyncState = prog.subSyncState
      /\ Q.commitSeq = prog.commitSeq + 1 /\ Q.prevCommitSeq = prog.prevCommitSeq
      /\ Q.unknownCommitSeq = prog.unknownCommitSeq /\ Q.snapshotSeq = prog.snapshotSeq
      /\ Q.tableCommitSeqMap = prog.tableCommitSeqMap
      /\ Q.partialSyncData = prog.partialSyncData
  BY <1>1, <1>2, <1>4 DEF Progress
<1>6. IsIncrementalSync(Q)
  BY <1>2, <1>5 DEF IsIncrementalSync
<1>7. Places(Q, "handle") /\ Places(Q, "idle")
  BY <1>2, <1>3, <1>5, <1>6 DEF Places, IsIncrementalSync
<1>8. prog' = Q /\ disk' = Q /\ pc' = "handle" /\ target' = target
  BY <1>1 DEF StartHandle, Persist
<1> QED
  BY <1>2, <1>5, <1>7, <1>8 DEF JobAfter, JobOK

\* A job that reads its row again is at rest, at the marks of the row.
LEMMA RecoverTypes ==
    ASSUME Types, Recover
    PROVE  JobAfter
<1>1. /\ prog \in Progress /\ Places(prog, "idle") /\ TargetOK(target) /\ pc = "idle"
      /\ IsIncrementalSync(prog) /\ N \in Nat
  BY SourceFacts DEF Types, JobOK, Recover, SourceOK
<1>2. /\ prog.commitSeq \in Nat /\ prog.unknownCommitSeq \in Nat /\ prog.prevCommitSeq \in Nat
  BY <1>1, ProgressFields
<1>3. PICK Q \in Progress :
        /\ Q = Rollback(prog)
        /\ Q.syncState = prog.syncState /\ Q.subSyncState = "Done"
        /\ Q.commitSeq = prog.prevCommitSeq /\ Q.prevCommitSeq = prog.prevCommitSeq
        /\ Q.unknownCommitSeq = prog.commitSeq /\ Q.snapshotSeq = prog.snapshotSeq
        /\ Q.tableCommitSeqMap = prog.tableCommitSeqMap
  BY <1>1, RollbackFacts
<1>4. IsIncrementalSync(Q)
  BY <1>1, <1>3 DEF IsIncrementalSync
<1>5. Places(Q, "idle")
  BY <1>1, <1>2, <1>3, <1>4 DEF Places, IsIncrementalSync
<1>6. prog' = Q /\ disk' = Q /\ pc' = "idle" /\ target' = target
  BY <1>1, <1>3 DEF Recover, Persist
<1>7. JobOK(Q, Q, "idle")
  BY <1>3, <1>5, IdleOK
<1> QED
  BY <1>1, <1>6, <1>7 DEF JobAfter

\* The progress after a handler that does not touch it.
LEMMA HandlerPlaces ==
    ASSUME Types, pc = "handle", NEW Q \in Progress,
           Q.syncState = prog.syncState, Q.subSyncState = prog.subSyncState,
           Q.commitSeq = prog.commitSeq, Q.prevCommitSeq = prog.prevCommitSeq,
           Q.unknownCommitSeq = prog.unknownCommitSeq, Q.snapshotSeq = prog.snapshotSeq,
           Q.tableCommitSeqMap = prog.tableCommitSeqMap, Q.partialSyncData = prog.partialSyncData
    PROVE  JobOK(Q, disk, "handled") /\ JobOK(Q, disk, "idle")
<1>1. /\ disk = prog /\ prog \in Progress /\ prog.unknownCommitSeq <= prog.commitSeq
      /\ prog.commitSeq \in Nat /\ prog.commitSeq # 0 /\ IsIncrementalSync(prog)
  BY HandleFacts
<1>2. Places(prog, "handle") /\ Places(prog, "idle")
  BY <1>1 DEF Types, JobOK
<1>3. Places(prog, "handled")
  BY <1>1, <1>2 DEF Places
<1>4. Places(Q, "handled") /\ Places(Q, "idle")
  BY <1>2, <1>3, SamePlaces
<1> QED
  BY <1>1, <1>2, <1>4 DEF JobOK

\* A handler that touches nothing but its place keeps the types.
LEMMA PassTypes ==
    ASSUME Types, pc = "handle", UNCHANGED <<target, prog, disk>>, pc' \in {"idle", "handled"}
    PROVE  JobAfter
<1>1. JobOK(prog, disk, "handled") /\ JobOK(prog, disk, "idle")
  BY HandleFacts, HandlerPlaces
<1>2. TargetOK(target)
  BY DEF Types
<1> QED
  BY <1>1, <1>2 DEF JobAfter

\* A handler that changes the mapping, and may lose its last answer.
LEMMA HandledTypes ==
    ASSUME Types, pc = "handle", TargetOK(target'), NEW Q \in Progress, HandledOrLost(Q),
           Q.syncState = prog.syncState, Q.subSyncState = prog.subSyncState,
           Q.commitSeq = prog.commitSeq, Q.prevCommitSeq = prog.prevCommitSeq,
           Q.unknownCommitSeq = prog.unknownCommitSeq, Q.snapshotSeq = prog.snapshotSeq,
           Q.tableCommitSeqMap = prog.tableCommitSeqMap, Q.partialSyncData = prog.partialSyncData
    PROVE  JobAfter
<1>1. JobOK(Q, disk, "handled") /\ JobOK(prog, disk, "idle")
  BY HandleFacts, HandlerPlaces
<1>2. \/ prog' = Q /\ disk' = disk /\ pc' = "handled"
      \/ prog' = prog /\ disk' = disk /\ pc' = "idle"
  BY DEF HandledOrLost, Volatile, Handled, Fails
<1> QED
  BY <1>1, <1>2 DEF JobAfter

\* A full sync, or a snapshot of one table, is asked for.
LEMMA NewSnapshotTypes ==
    ASSUME Types, NEW seq \in Seqs, NewSnapshot(seq), UNCHANGED target,
           seq <= N, prog.prevCommitSeq <= seq
    PROVE  JobAfter
<1>1. prog \in Progress /\ TargetOK(target) /\ Places(prog, pc) /\ N \in Nat
  BY SourceFacts DEF Types, JobOK, SourceOK
<1>2. PICK Q \in Progress :
        /\ prog' = Q /\ disk' = Q /\ pc' = "idle"
        /\ Q.syncState = "DBFullSync" /\ Q.subSyncState = "BeginCreateSnapshot"
        /\ Q.commitSeq = seq /\ Q.prevCommitSeq = prog.prevCommitSeq
        /\ Q.unknownCommitSeq = prog.unknownCommitSeq /\ Q.snapshotSeq = 0
  BY <1>1, NewSnapshotFacts
<1>3. Places(Q, "idle")
  BY <1>1, <1>2 DEF Places, IsIncrementalSync
<1>4. JobOK(Q, Q, "idle")
  BY <1>3, IdleOK
<1> QED
  BY <1>1, <1>2, <1>4 DEF JobAfter

\* A snapshot of one table is asked for from a mark that is known.
LEMMA NewPartialSnapshotTypes ==
    ASSUME Types, NEW s \in SourceTables, NEW n \in Names, NEW replace \in BOOLEAN,
           NewPartialSnapshot(s, n, replace), UNCHANGED target,
           prog.unknownCommitSeq <= prog.commitSeq
    PROVE  JobAfter
<1>1. prog \in Progress /\ TargetOK(target) /\ Places(prog, pc) /\ N \in Nat
  BY SourceFacts DEF Types, JobOK, SourceOK
<1>2. PICK Q \in Progress :
        /\ prog' = Q /\ disk' = Q /\ pc' = "idle"
        /\ Q.syncState = "DBPartialSync" /\ Q.subSyncState = "BeginCreateSnapshot"
        /\ Q.commitSeq = prog.commitSeq /\ Q.prevCommitSeq = prog.prevCommitSeq
        /\ Q.unknownCommitSeq = prog.unknownCommitSeq /\ Q.snapshotSeq = 0
        /\ Q.partialSyncData # Nil
  BY <1>1, NewPartialSnapshotFacts
<1>3. Places(Q, "idle")
  BY <1>1, <1>2 DEF Places, IsIncrementalSync
<1>4. JobOK(Q, Q, "idle")
  BY <1>3, IdleOK
<1> QED
  BY <1>1, <1>2, <1>4 DEF JobAfter

-------------------------------------------------------------------------------
(* The handlers. *)

\* An upsert keeps the types: it adds rows to one table of the target.
LEMMA UpsertTypes ==
    ASSUME Types, HandleUpsert
    PROVE  JobAfter
<1> DEFINE s == B.table
           d == DestTableId(B.table)
<1>1. pc = "handle" /\ CanMap(s)
  BY DEF HandleUpsert, Handles
<1>2. /\ prog \in Progress /\ disk = prog /\ s \in SourceTables /\ IsIncrementalSync(prog)
      /\ prog.subSyncState = "Done" /\ prog.commitSeq = prog.prevCommitSeq + 1
      /\ prog.unknownCommitSeq <= prog.commitSeq /\ prog.commitSeq \in 1..N
      /\ N \in Nat /\ TargetOK(target)
  BY <1>1, HandleFacts, SourceFacts DEF Types, SourceOK
<1>3. d \in TargetIds \cup {NoTarget}
  BY <1>1, <1>2, DestTyped
<1>4. PICK P \in Progress :
        /\ P = Mapped(s, d)
        /\ P.syncState = prog.syncState /\ P.subSyncState = prog.subSyncState
        /\ P.commitSeq = prog.commitSeq /\ P.prevCommitSeq = prog.prevCommitSeq
        /\ P.unknownCommitSeq = prog.unknownCommitSeq /\ P.snapshotSeq = prog.snapshotSeq
        /\ P.tableCommitSeqMap = prog.tableCommitSeqMap
        /\ P.partialSyncData = prog.partialSyncData
  <2> HIDE DEF s, d
  <2>1. PICK P : P = [prog EXCEPT !.tableMapping[s] = d]
    OBVIOUS
  <2>2. /\ P \in Progress
        /\ P.syncState = prog.syncState /\ P.subSyncState = prog.subSyncState
        /\ P.commitSeq = prog.commitSeq /\ P.prevCommitSeq = prog.prevCommitSeq
        /\ P.unknownCommitSeq = prog.unknownCommitSeq /\ P.snapshotSeq = prog.snapshotSeq
        /\ P.tableCommitSeqMap = prog.tableCommitSeqMap
        /\ P.partialSyncData = prog.partialSyncData
    BY <1>2, <1>3, <2>1, MapFacts
  <2>3. P = Mapped(s, d)
    BY <2>1 DEF Mapped
  <2> QED
    BY <2>2, <2>3
<1>5. Places(prog, "handle") /\ JobOK(prog, disk, "handled") /\ JobOK(prog, disk, "idle")
  BY <1>1, <1>2, HandlerPlaces DEF Types, JobOK
<1>6. prog.prevCommitSeq \in Nat /\ prog.unknownCommitSeq \in Nat /\ prog.commitSeq \in Nat
  BY <1>2, ProgressFields
<1>7. CASE d = NoTarget /\ Handled /\ UNCHANGED <<target, prog, disk>>
  BY <1>1, <1>7, PassTypes DEF Handled
<1>8. CASE /\ d \in DOMAIN target
           /\ target' = IF IsTableDropped(B.table) THEN target
                        ELSE [target EXCEPT ![d].rows = @ \cup {prog.commitSeq}]
           /\ Persist(Done(Mapped(B.table, d)))
           /\ Handled
  <2>1. PICK Q \in Progress :
          /\ Q = Done(P) /\ Q.syncState = P.syncState /\ Q.subSyncState = "Done"
          /\ Q.commitSeq = P.commitSeq /\ Q.prevCommitSeq = P.commitSeq
          /\ Q.unknownCommitSeq = P.unknownCommitSeq /\ Q.snapshotSeq = P.snapshotSeq
          /\ Q.tableCommitSeqMap = P.tableCommitSeqMap
          /\ Q.partialSyncData = P.partialSyncData
    BY DoneFacts
  <2>2. IsIncrementalSync(Q) /\ IsIncrementalSync(P)
    BY <1>2, <1>4, <2>1 DEF IsIncrementalSync
  <2>3. Places(Q, "handled") /\ Places(Q, "idle")
    BY <1>2, <1>4, <1>5, <1>6, <2>1, <2>2 DEF Places, IsIncrementalSync
  <2>4. prog' = Q /\ disk' = Q /\ pc' = "handled"
    BY <1>4, <1>8, <2>1 DEF Persist, Handled
  <2>5. TargetOK(target')
    <3>1. CASE target' = target
      BY <1>2, <3>1
    <3>2. CASE target' = [target EXCEPT ![d].rows = @ \cup {prog.commitSeq}]
      <4>1. PICK e, c : e = d /\ c = prog.commitSeq
        OBVIOUS
      <4>2. e \in DOMAIN target /\ c \in Seqs
        BY <1>2, <1>8, <4>1 DEF Progress
      <4>3. PICK U : U = [target EXCEPT ![e].rows = @ \cup {c}]
        OBVIOUS
      <4>4. TargetOK(U)
        BY <1>2, <4>2, <4>3, InsertFacts
      <4> QED
        BY <3>2, <4>1, <4>3, <4>4
    <3> QED
      BY <1>8, <3>1, <3>2
  <2> QED
    BY <2>3, <2>4, <2>5 DEF JobAfter, JobOK
<1>9. CASE /\ LET p == Rollback(prog)
              IN disk' = p /\ prog' = [p EXCEPT !.tableMapping[B.table] = NoTarget]
           /\ Fails /\ UNCHANGED target
  <2>1. PICK D \in Progress :
          /\ D = Rollback(prog) /\ D.syncState = prog.syncState /\ D.subSyncState = "Done"
          /\ D.commitSeq = prog.prevCommitSeq /\ D.prevCommitSeq = prog.prevCommitSeq
          /\ D.unknownCommitSeq = prog.commitSeq /\ D.snapshotSeq = prog.snapshotSeq
          /\ D.tableCommitSeqMap = prog.tableCommitSeqMap
          /\ D.partialSyncData = prog.partialSyncData
    BY <1>2, RollbackFacts
  <2>2. PICK Q \in Progress :
          /\ Q = [D EXCEPT !.tableMapping[s] = NoTarget]
          /\ Q.syncState = D.syncState /\ Q.subSyncState = D.subSyncState
          /\ Q.commitSeq = D.commitSeq /\ Q.prevCommitSeq = D.prevCommitSeq
          /\ Q.unknownCommitSeq = D.unknownCommitSeq /\ Q.snapshotSeq = D.snapshotSeq
          /\ Q.tableCommitSeqMap = D.tableCommitSeqMap
          /\ Q.partialSyncData = D.partialSyncData
    <3> HIDE DEF s
    <3>1. PICK Q : Q = [D EXCEPT !.tableMapping[s] = NoTarget]
      OBVIOUS
    <3>2. PICK none \in TargetIds \cup {NoTarget} : none = NoTarget
      OBVIOUS
    <3>3. Q = [D EXCEPT !.tableMapping[s] = none]
      BY <3>1, <3>2
    <3>4. /\ Q \in Progress
          /\ Q.syncState = D.syncState /\ Q.subSyncState = D.subSyncState
          /\ Q.commitSeq = D.commitSeq /\ Q.prevCommitSeq = D.prevCommitSeq
          /\ Q.unknownCommitSeq = D.unknownCommitSeq /\ Q.snapshotSeq = D.snapshotSeq
          /\ Q.tableCommitSeqMap = D.tableCommitSeqMap
          /\ Q.partialSyncData = D.partialSyncData
      BY <1>2, <3>3, MapFacts
    <3> QED
      BY <3>1, <3>4
  <2>3. IsIncrementalSync(D)
    BY <1>2, <2>1 DEF IsIncrementalSync
  <2>4. Places(D, "idle")
    BY <1>2, <1>5, <1>6, <2>1, <2>3 DEF Places, IsIncrementalSync
  <2>5. Places(Q, "idle")
    BY <2>2, <2>4, SamePlaces
  <2>6. prog' = Q /\ disk' = D /\ pc' = "idle" /\ target' = target
    BY <1>9, <2>1, <2>2 DEF Fails
  <2> QED
    BY <1>2, <2>2, <2>4, <2>5, <2>6 DEF JobAfter, JobOK
<1> QED
  BY <1>1, <1>7, <1>8, <1>9 DEF HandleUpsert

\* What HandledOrLost(Mapped(s, d)) keeps.
LEMMA MappedTypes ==
    ASSUME Types, pc = "handle", TargetOK(target'), NEW s \in SourceTables,
           NEW d \in TargetIds \cup {NoTarget}, HandledOrLost(Mapped(s, d))
    PROVE  JobAfter
<1>1. prog \in Progress
  BY HandleFacts
<1>2. PICK P : P = Mapped(s, d)
  OBVIOUS
<1>3. /\ P \in Progress
      /\ P.syncState = prog.syncState /\ P.subSyncState = prog.subSyncState
      /\ P.commitSeq = prog.commitSeq /\ P.prevCommitSeq = prog.prevCommitSeq
      /\ P.unknownCommitSeq = prog.unknownCommitSeq /\ P.snapshotSeq = prog.snapshotSeq
      /\ P.tableCommitSeqMap = prog.tableCommitSeqMap
      /\ P.partialSyncData = prog.partialSyncData
  BY <1>1, <1>2, MapFacts DEF Mapped
<1>4. HandledOrLost(P)
  BY <1>2
<1> QED
  BY <1>3, <1>4, HandledTypes

\* The id of a new table is free.
LEMMA TypesFresh ==
    ASSUME Types
    PROVE  /\ MapsTyped /\ FreeId(0) \in TargetIds /\ FreeId(0) # NoTarget
           /\ FreeId(0) \notin DOMAIN target
           /\ \A s \in SourceTables : /\ prog.tableMapping[s] # FreeId(0)
                                      /\ disk.tableMapping[s] # FreeId(0)
<1>1. TargetOK(target) /\ MapsTyped
  BY ProgressFields DEF Types, JobOK, MapsTyped
<1> QED
  BY <1>1, FreshId

\* CREATE TABLE adds one empty table under the name of the binlog.
LEMMA CreateTarget ==
    ASSUME Types, CreateTable
    PROVE  /\ TargetOK(target') /\ DOMAIN target' = DOMAIN target \cup {FreeId(0)}
           /\ target'[FreeId(0)] = Table(B.name, {})
           /\ \A d \in DOMAIN target : target'[d] = target[d]
<1>1. pc = "handle" /\ B.kind = "CREATE_TABLE" /\ ~Exists(B.name)
  BY DEF CreateTable, Handles
<1>2. B.name \in Names /\ FreeId(0) \in TargetIds /\ FreeId(0) \notin DOMAIN target
  BY <1>1, BinlogNames, TypesFresh
<1>3. PICK id, n : id = FreeId(0) /\ n = B.name
  OBVIOUS
<1>4. \A d \in DOMAIN target : target[d].name # n
  BY <1>1, <1>3 DEF Exists
<1>5. target' = Put(id, Table(n, {}), target)
  BY <1>3 DEF CreateTable
<1>6. id \in TargetIds /\ n \in Names /\ TargetOK(target)
  BY <1>2, <1>3 DEF Types
<1>7. PICK x, none : none = {} /\ x = Table(n, none)
  OBVIOUS
<1>8. none \in SUBSET Seqs
  BY <1>7
<1>9. TargetOK(Put(id, Table(n, none), target))
  BY <1>4, <1>6, <1>8, PutOK
<1>10. PICK U : U = Put(id, x, target)
  OBVIOUS
<1>11. /\ DOMAIN U = DOMAIN target \cup {id} /\ U[id] = x
       /\ \A d \in DOMAIN target : d # id => U[d] = target[d]
  BY <1>10 DEF Put
<1> QED
  BY <1>2, <1>3, <1>5, <1>7, <1>9, <1>10, <1>11

\* CREATE TABLE keeps the types.
LEMMA CreateTypes ==
    ASSUME Types, CreateTable
    PROVE  JobAfter
<1>1. pc = "handle" /\ HandledOrLost(Mapped(B.table, FreeId(0)))
  BY DEF CreateTable, Handles
<1>2. B.table \in SourceTables /\ FreeId(0) \in TargetIds /\ TargetOK(target')
  BY <1>1, HandleFacts, TypesFresh, CreateTarget
<1>3. PICK s, d : s = B.table /\ d = FreeId(0)
  OBVIOUS
<1> QED
  BY <1>1, <1>2, <1>3, MappedTypes

\* DROP TABLE keeps the types.
LEMMA DropTypes ==
    ASSUME Types, DropTable
    PROVE  JobAfter
<1>1. pc = "handle" /\ HandledOrLost(Mapped(B.table, NoTarget)) /\ target' = Without(B.name)
  BY DEF DropTable, Handles, Unmapped
<1>2. B.table \in SourceTables /\ TargetOK(target)
  BY <1>1, HandleFacts DEF Types
<1>3. PICK s, n : s = B.table /\ n = B.name
  OBVIOUS
<1>4. TargetOK(Without(n))
  BY <1>2, WithoutFacts
<1> QED
  BY <1>1, <1>2, <1>3, <1>4, MappedTypes

\* DROP TABLE of a table without a copy keeps the types.
LEMMA DropUnknownTypes ==
    ASSUME Types, DropUnknownTable
    PROVE  JobAfter
<1>1. pc = "handle" /\ UNCHANGED target /\ pc' = "handled" /\ UNCHANGED disk
  BY DEF DropUnknownTable, Handles, Handled, Volatile
<1>2. /\ prog \in Progress /\ disk = prog /\ B.table \in SourceTables /\ TargetOK(target)
      /\ IsIncrementalSync(prog)
  BY <1>1, HandleFacts DEF Types
<1>3. JobOK(prog, disk, "handled")
  BY <1>1, <1>2, HandlerPlaces
<1>4. PICK s \in SourceTables : s = B.table
  BY <1>2
<1>5. PICK Q : Q = [prog EXCEPT !.tableCommitSeqMap[s] = 0]
  OBVIOUS
<1>6. 0 \in 0..MaxInt64
  BY NamesAssumption DEF MaxInt64
<1>7. PICK k \in 0..MaxInt64 : k = 0
  BY <1>6
<1>8. Q = [prog EXCEPT !.tableCommitSeqMap[s] = k]
  BY <1>5, <1>7
<1>9. /\ Q \in Progress /\ Q.syncState = prog.syncState
      /\ Q.subSyncState = prog.subSyncState
      /\ Q.commitSeq = prog.commitSeq /\ Q.prevCommitSeq = prog.prevCommitSeq
      /\ Q.unknownCommitSeq = prog.unknownCommitSeq /\ Q.snapshotSeq = prog.snapshotSeq
      /\ Q.partialSyncData = prog.partialSyncData
  BY <1>2, <1>8, MarkFacts
<1>10. Q.tableCommitSeqMap = [prog.tableCommitSeqMap EXCEPT ![s] = 0]
  BY <1>2, <1>5 DEF Progress
<1>11. prog.tableCommitSeqMap = NoMap => Q.tableCommitSeqMap = NoMap
  BY <1>2, <1>10, ProgressFields, NoMapKept
<1>12. Places(Q, "handled")
  BY <1>3, <1>9, <1>11 DEF JobOK, Places, IsIncrementalSync
<1>13. prog' = Q
  BY <1>4, <1>5 DEF DropUnknownTable, Volatile
<1> QED
  BY <1>1, <1>2, <1>3, <1>9, <1>12, <1>13 DEF JobAfter, JobOK

\* RENAME gives one table the new name, which no table has.
LEMMA RenameTarget ==
    ASSUME Types, RenameTable
    PROVE  /\ TargetOK(target') /\ DOMAIN target' = DOMAIN target
           /\ IdOf(B.name) \in DOMAIN target /\ target[IdOf(B.name)].name = B.name
           /\ target'[IdOf(B.name)].name = B.newName
           /\ target'[IdOf(B.name)].rows = target[IdOf(B.name)].rows
           /\ \A d \in DOMAIN target : d # IdOf(B.name) => target'[d] = target[d]
<1>1. /\ pc = "handle" /\ B.kind = "RENAME_TABLE" /\ Exists(B.name) /\ ~Exists(B.newName)
      /\ target' = [target EXCEPT ![IdOf(B.name)].name = B.newName]
  BY DEF RenameTable, Handles, CanRename
<1>2. B.newName \in Names /\ TargetOK(target)
  BY <1>1, BinlogNames DEF Types
<1>3. PICK m, n, d : m = B.name /\ n = B.newName /\ d = IdOf(m)
  OBVIOUS
<1>4. d \in DOMAIN target /\ target[d].name = m
  BY <1>1, <1>3, IdOfFacts
<1>5. n \in Names /\ \A e \in DOMAIN target : e # d => target[e].name # n
  BY <1>1, <1>2, <1>3 DEF Exists
<1>6. PICK U : U = [target EXCEPT ![d].name = n]
  OBVIOUS
<1>7. DOMAIN U = DOMAIN target /\ TargetOK(U)
  BY <1>2, <1>4, <1>5, <1>6, RenameFacts
<1>8. U[d].name = n /\ U[d].rows = target[d].rows
  BY <1>2, <1>4, <1>5, <1>6, RenameFacts
<1>9. \A e \in DOMAIN target : e # d => U[e] = target[e]
  BY <1>2, <1>4, <1>5, <1>6, RenameFacts
<1>10. target' = U
  BY <1>1, <1>3, <1>6
<1> QED
  BY <1>3, <1>4, <1>7, <1>8, <1>9, <1>10

\* RENAME keeps the types.
LEMMA RenameTypes ==
    ASSUME Types, RenameTable
    PROVE  JobAfter
<1>1. /\ pc = "handle" /\ CanMap(B.table)
      /\ HandledOrLost(Mapped(B.table, DestTableId(B.table)))
  BY DEF RenameTable, Handles, CanRename
<1>2. B.table \in SourceTables /\ TargetOK(target')
  BY <1>1, HandleFacts, RenameTarget
<1>3. PICK s, d : s = B.table /\ d = DestTableId(s)
  OBVIOUS
<1>4. d \in TargetIds \cup {NoTarget}
  BY <1>1, <1>2, <1>3, DestTyped
<1> QED
  BY <1>1, <1>2, <1>3, <1>4, MappedTypes

\* REPLACE WITH TABLE that swaps exchanges the names of two tables.
LEMMA SwapTarget ==
    ASSUME Types, ReplaceTable, B.swap
    PROVE  /\ TargetOK(target') /\ DOMAIN target' = DOMAIN target
           /\ IdOf(B.name) \in DOMAIN target /\ IdOf(B.newName) \in DOMAIN target
           /\ IdOf(B.name) # IdOf(B.newName)
           /\ target[IdOf(B.name)].name = B.name /\ target[IdOf(B.newName)].name = B.newName
           /\ target'[IdOf(B.name)].name = B.newName
           /\ target'[IdOf(B.name)].rows = target[IdOf(B.name)].rows
           /\ target'[IdOf(B.newName)].name = B.name
           /\ target'[IdOf(B.newName)].rows = target[IdOf(B.newName)].rows
           /\ \A d \in DOMAIN target : d # IdOf(B.name) /\ d # IdOf(B.newName)
                                         => target'[d] = target[d]
<1>1. /\ pc = "handle" /\ B.kind = "REPLACE_TABLE" /\ Exists(B.name) /\ Exists(B.newName)
      /\ target' = [target EXCEPT ![IdOf(B.name)].name = B.newName,
                                  ![IdOf(B.newName)].name = B.name]
  BY DEF ReplaceTable, Handles, CanReplace, Swapped
<1>2. PICK m, n : m = B.name /\ n = B.newName
  OBVIOUS
<1>3. m \in Names /\ n \in Names /\ m # n /\ TargetOK(target) /\ Exists(m) /\ Exists(n)
  BY <1>1, <1>2, BinlogNames DEF Types
<1>4. PICK U : U = [target EXCEPT ![IdOf(m)].name = n, ![IdOf(n)].name = m]
  OBVIOUS
<1>5. /\ DOMAIN U = DOMAIN target /\ IdOf(m) # IdOf(n)
      /\ U[IdOf(m)].name = n /\ U[IdOf(m)].rows = target[IdOf(m)].rows
      /\ U[IdOf(n)].name = m /\ U[IdOf(n)].rows = target[IdOf(n)].rows
      /\ \A e \in DOMAIN target : e # IdOf(m) /\ e # IdOf(n) => U[e] = target[e]
      /\ TargetOK(U)
  <2>1. PICK d \in DOMAIN target : d = IdOf(m) /\ target[d].name = m
    BY <1>3, IdOfFacts
  <2>2. PICK e \in DOMAIN target : e = IdOf(n) /\ target[e].name = n
    BY <1>3, IdOfFacts
  <2>3. d # e
    BY <1>3, <1>4, <2>1, <2>2
  <2>4. U = [target EXCEPT ![d].name = n, ![e].name = m]
    BY <1>3, <1>4, <2>1, <2>2
  <2>5. /\ target[d] \in [name : Names, rows : SUBSET Seqs]
        /\ target[e] \in [name : Names, rows : SUBSET Seqs]
    BY <1>3 DEF TargetOK
  <2>6. /\ DOMAIN U = DOMAIN target
        /\ \A k \in DOMAIN target : k # d /\ k # e => U[k] = target[k]
        /\ U[d] = [target[d] EXCEPT !.name = n] /\ U[e] = [target[e] EXCEPT !.name = m]
    BY <2>3, <2>4
  <2>7. /\ U[d].name = n /\ U[d].rows = target[d].rows
        /\ U[e].name = m /\ U[e].rows = target[e].rows
        /\ U[d] \in [name : Names, rows : SUBSET Seqs]
        /\ U[e] \in [name : Names, rows : SUBSET Seqs]
    BY <1>3, <2>5, <2>6
  <2>8. ASSUME NEW k \in DOMAIN target, k # d, k # e
        PROVE  target[k].name # m /\ target[k].name # n
    BY <1>3, <2>1, <2>2, <2>8 DEF TargetOK
  <2>9. TargetOK(U)
    <3>1. \A k \in DOMAIN U : U[k] \in [name : Names, rows : SUBSET Seqs]
      BY <1>3, <2>6, <2>7 DEF TargetOK
    <3>2. ASSUME NEW k \in DOMAIN U, NEW l \in DOMAIN U, U[k].name = U[l].name
          PROVE  k = l
      BY <1>3, <2>3, <2>6, <2>7, <2>8, <3>2 DEF TargetOK
    <3> QED
      BY <1>3, <2>6, <3>1, <3>2 DEF TargetOK
  <2> QED
    BY <2>1, <2>2, <2>3, <2>6, <2>7, <2>9
<1>6. /\ IdOf(m) \in DOMAIN target /\ target[IdOf(m)].name = m
      /\ IdOf(n) \in DOMAIN target /\ target[IdOf(n)].name = n
  BY <1>3, IdOfFacts
<1>7. target' = U
  BY <1>1, <1>2, <1>4
<1> QED
  BY <1>2, <1>5, <1>6, <1>7

\* REPLACE WITH TABLE that does not swap drops one table and renames the other.
LEMMA ReplaceTarget ==
    ASSUME Types, ReplaceTable, ~B.swap
    PROVE  /\ TargetOK(target') /\ DOMAIN target' = DOMAIN target \ {IdOf(B.name)}
           /\ IdOf(B.name) \in DOMAIN target /\ IdOf(B.newName) \in DOMAIN target
           /\ IdOf(B.name) # IdOf(B.newName)
           /\ target[IdOf(B.name)].name = B.name /\ target[IdOf(B.newName)].name = B.newName
           /\ target'[IdOf(B.newName)].name = B.name
           /\ target'[IdOf(B.newName)].rows = target[IdOf(B.newName)].rows
           /\ \A d \in DOMAIN target : d # IdOf(B.name) /\ d # IdOf(B.newName)
                                         => target'[d] = target[d]
<1>1. /\ pc = "handle" /\ B.kind = "REPLACE_TABLE" /\ Exists(B.name) /\ Exists(B.newName)
      /\ target' = [Without(B.name) EXCEPT ![IdOf(B.newName)].name = B.name]
  BY DEF ReplaceTable, Handles, CanReplace, Replaced
<1>2. PICK m, n : m = B.name /\ n = B.newName
  OBVIOUS
<1>3. m \in Names /\ n \in Names /\ m # n /\ TargetOK(target) /\ Exists(m) /\ Exists(n)
  BY <1>1, <1>2, BinlogNames DEF Types
<1>4. PICK U : U = [Without(m) EXCEPT ![IdOf(n)].name = m]
  OBVIOUS
<1>5. /\ DOMAIN U = DOMAIN target \ {IdOf(m)} /\ IdOf(m) # IdOf(n)
      /\ U[IdOf(n)].name = m /\ U[IdOf(n)].rows = target[IdOf(n)].rows
      /\ \A e \in DOMAIN target : e # IdOf(m) /\ e # IdOf(n) => U[e] = target[e]
      /\ TargetOK(U)
  <2>1. PICK d \in DOMAIN target : d = IdOf(m) /\ target[d].name = m
    BY <1>3, IdOfFacts
  <2>2. PICK e \in DOMAIN target : e = IdOf(n) /\ target[e].name = n
    BY <1>3, IdOfFacts
  <2>3. d # e
    BY <1>3, <1>4, <2>1, <2>2
  <2>4. PICK T : T = Without(m)
    OBVIOUS
  <2>5. DOMAIN T = DOMAIN target \ {d} /\ TargetOK(T) /\ \A k \in DOMAIN T : T[k] = target[k]
    <3>1. /\ DOMAIN T = {k \in DOMAIN target : target[k].name # m}
          /\ \A k \in DOMAIN T : T[k] = target[k]
          /\ TargetOK(T)
      BY <1>3, <2>4, WithoutFacts
    <3>2. \A k \in DOMAIN target : target[k].name # m <=> k # d
      BY <1>3, <2>1 DEF TargetOK
    <3> QED
      BY <3>1, <3>2
  <2>6. \A k \in DOMAIN T : T[k].name # m
    <3>1. ASSUME NEW k \in DOMAIN T, T[k].name = m
          PROVE  FALSE
      <4>1. k \in DOMAIN target /\ k # d /\ target[k].name = m
        BY <2>5, <3>1
      <4> QED
        BY <1>3, <2>1, <4>1 DEF TargetOK
    <3> QED
      BY <3>1
  <2>7. e \in DOMAIN T /\ U = [T EXCEPT ![e].name = m]
    BY <1>4, <2>2, <2>3, <2>4, <2>5
  <2>8. /\ DOMAIN U = DOMAIN T /\ U[e].name = m /\ U[e].rows = T[e].rows
        /\ \A k \in DOMAIN T : k # e => U[k] = T[k]
        /\ TargetOK(U)
    <3>1. TargetOK(T) /\ \A k \in DOMAIN T : k # e => T[k].name # m
      BY <2>5, <2>6
    <3>2. PICK V : V = [T EXCEPT ![e].name = m]
      OBVIOUS
    <3>3. DOMAIN V = DOMAIN T
      BY <1>3, <2>7, <3>1, <3>2, RenameFacts
    <3>4. V[e].name = m /\ V[e].rows = T[e].rows
      BY <1>3, <2>7, <3>1, <3>2, RenameFacts
    <3>5. \A k \in DOMAIN T : k # e => V[k] = T[k]
      BY <1>3, <2>7, <3>1, <3>2, RenameFacts
    <3>6. TargetOK(V)
      BY <1>3, <2>7, <3>1, <3>2, RenameFacts
    <3> QED
      BY <2>7, <3>2, <3>3, <3>4, <3>5, <3>6
  <2>9. /\ U[e].rows = target[e].rows
        /\ \A k \in DOMAIN target : k # d /\ k # e => U[k] = target[k]
    BY <2>5, <2>7, <2>8
  <2> QED
    BY <2>1, <2>2, <2>3, <2>5, <2>8, <2>9
<1>6. /\ IdOf(m) \in DOMAIN target /\ target[IdOf(m)].name = m
      /\ IdOf(n) \in DOMAIN target /\ target[IdOf(n)].name = n
  BY <1>3, IdOfFacts
<1>7. target' = U
  BY <1>1, <1>2, <1>4
<1> QED
  BY <1>2, <1>5, <1>6, <1>7

\* REPLACE WITH TABLE keeps the types.
LEMMA ReplaceTypes ==
    ASSUME Types, ReplaceTable
    PROVE  JobAfter
<1>1. pc = "handle"
  BY DEF ReplaceTable, Handles
<1>2. prog \in Progress /\ B.table \in SourceTables
  BY <1>1, HandleFacts
<1>3. CASE B.swap
  <2>1. TargetOK(target') /\ HandledOrLost(prog)
    BY <1>3, SwapTarget DEF ReplaceTable
  <2> QED
    BY <1>1, <1>2, <2>1, HandledTypes
<1>4. CASE ~B.swap
  <2>1. TargetOK(target') /\ HandledOrLost(Mapped(B.table, NoTarget))
    BY <1>4, ReplaceTarget DEF ReplaceTable, Unmapped
  <2>2. PICK s : s = B.table
    OBVIOUS
  <2> QED
    BY <1>1, <1>2, <2>1, <2>2, MappedTypes
<1> QED
  BY <1>3, <1>4

\* The handlers that ask for a snapshot keep the types.
LEMMA AskTypes ==
    ASSUME Types,
           CreateExistingTable \/ ReplaceBySnapshot \/ RestoreChangedTable \/ SnapshotUnknownReplace
    PROVE  JobAfter
<1>1. pc = "handle" /\ UNCHANGED target
  BY DEF CreateExistingTable, ReplaceBySnapshot, RestoreChangedTable, SnapshotUnknownReplace,
         Handles
<1>2. PICK s \in SourceTables : s = B.table
  BY <1>1, HandleFacts
<1>3. prog.unknownCommitSeq <= prog.commitSeq
  BY <1>1, HandleFacts
<1>4. PICK yes \in BOOLEAN, no \in BOOLEAN : yes = TRUE /\ no = FALSE
  OBVIOUS
<1>5. CASE CreateExistingTable
  <2>1. B.name \in Names /\ NewPartialSnapshot(B.table, B.name, TRUE)
    BY <1>1, <1>5, BinlogNames DEF CreateExistingTable, Handles
  <2>2. PICK n \in Names : n = B.name
    BY <2>1
  <2>3. NewPartialSnapshot(s, n, yes)
    BY <1>2, <1>4, <2>1, <2>2
  <2> QED
    BY <1>1, <1>3, <2>3, NewPartialSnapshotTypes
<1>6. CASE ReplaceBySnapshot
  <2>1. B.newName \in Names /\ NewPartialSnapshot(B.table, B.newName, FALSE)
    BY <1>1, <1>6, BinlogNames DEF ReplaceBySnapshot, Handles
  <2>2. PICK n \in Names : n = B.newName
    BY <2>1
  <2>3. NewPartialSnapshot(s, n, no)
    BY <1>2, <1>4, <2>1, <2>2
  <2> QED
    BY <1>1, <1>3, <2>3, NewPartialSnapshotTypes
<1>7. CASE RestoreChangedTable
  <2>1. B.name \in Names /\ NewPartialSnapshot(B.table, B.name, TRUE)
    BY <1>1, <1>7, BinlogNames DEF RestoreChangedTable, Handles
  <2>2. PICK n \in Names : n = B.name
    BY <2>1
  <2>3. NewPartialSnapshot(s, n, yes)
    BY <1>2, <1>4, <2>1, <2>2
  <2> QED
    BY <1>1, <1>3, <2>3, NewPartialSnapshotTypes
<1>8. CASE SnapshotUnknownReplace
  <2>1. NewSnapshot(prog.unknownCommitSeq) /\ prog.unknownCommitSeq = prog.commitSeq
    BY <1>8 DEF SnapshotUnknownReplace, IsReplaceUnknown, IsUnknown
  <2>2. /\ prog \in Progress /\ prog.commitSeq \in 1..N /\ N \in Nat
        /\ prog.commitSeq = prog.prevCommitSeq + 1
    BY <1>1, HandleFacts, SourceFacts DEF Types, SourceOK
  <2>3. prog.prevCommitSeq \in Nat /\ prog.commitSeq \in Nat /\ prog.unknownCommitSeq \in Seqs
    BY <2>2, ProgressFields DEF Progress
  <2>4. PICK k \in Seqs : k = prog.unknownCommitSeq
    BY <2>3
  <2>5. k <= N /\ prog.prevCommitSeq <= k /\ NewSnapshot(k)
    BY <2>1, <2>2, <2>3, <2>4
  <2> QED
    BY <1>1, <2>5, NewSnapshotTypes
<1> QED
  BY <1>5, <1>6, <1>7, <1>8

\* The end of a binlog: the marks of the tables go when the last table has caught up.
LEMMA AfterFacts ==
    ASSUME NEW P \in Progress, P.syncState \in {"DBTablesIncrementalSync", "DBIncrementalSync"},
           P.syncState = "DBIncrementalSync" => P.tableCommitSeqMap = NoMap
    PROVE  \E Q \in Progress :
             /\ Q = AfterHandleBinlog(P) /\ Q.subSyncState = P.subSyncState
             /\ Q.syncState \in {"DBTablesIncrementalSync", "DBIncrementalSync"}
             /\ Q.commitSeq = P.commitSeq /\ Q.prevCommitSeq = P.prevCommitSeq
             /\ Q.unknownCommitSeq = P.unknownCommitSeq /\ Q.snapshotSeq = P.snapshotSeq
             /\ Q.tableMapping = P.tableMapping
             /\ Q.syncState = "DBIncrementalSync" => Q.tableCommitSeqMap = NoMap
             /\ Q.partialSyncData = P.partialSyncData
             /\ \/ Q = P
                \/ /\ Q.tableCommitSeqMap = NoMap
                   /\ \A s \in SourceTables : P.tableCommitSeqMap[s] <= P.commitSeq
<1>1. NoMap \in [SourceTables -> 0..MaxInt64]
  BY NamesAssumption DEF NoMap, MaxInt64
<1>2. CASE AfterHandleBinlog(P) = P
  BY <1>2
<1>3. CASE AfterHandleBinlog(P) # P
  <2>1. PICK Q : Q = [P EXCEPT !.tableCommitSeqMap = NoMap, !.syncState = "DBIncrementalSync"]
    OBVIOUS
  <2>2. Q = AfterHandleBinlog(P) /\ \A s \in SourceTables : P.tableCommitSeqMap[s] <= P.commitSeq
    BY <1>3, <2>1 DEF AfterHandleBinlog
  <2>3. Q \in Progress
    BY <1>1, <2>1 DEF Progress
  <2>4. /\ Q.syncState = "DBIncrementalSync" /\ Q.subSyncState = P.subSyncState
        /\ Q.commitSeq = P.commitSeq /\ Q.prevCommitSeq = P.prevCommitSeq
        /\ Q.unknownCommitSeq = P.unknownCommitSeq /\ Q.snapshotSeq = P.snapshotSeq
        /\ Q.tableMapping = P.tableMapping /\ Q.tableCommitSeqMap = NoMap
        /\ Q.partialSyncData = P.partialSyncData
    BY <2>1 DEF Progress
  <2> QED
    BY <2>2, <2>3, <2>4
<1> QED
  BY <1>2, <1>3

\* The end of a binlog keeps the types.
LEMMA FinishTypes ==
    ASSUME Types, FinishBinlog
    PROVE  JobAfter
<1>1. /\ pc = "handled" /\ pc' = "idle" /\ target' = target
      /\ prog \in Progress /\ disk \in Progress /\ disk.prevCommitSeq = prog.prevCommitSeq
      /\ Places(prog, "handled") /\ Places(disk, "idle") /\ TargetOK(target) /\ N \in Nat
  BY SourceFacts DEF FinishBinlog, Types, JobOK, SourceOK
<1>2. IsIncrementalSync(prog)
  BY <1>1 DEF Places
<1>3. PICK P \in Progress :
        /\ P = AfterHandleBinlog(prog) /\ P.subSyncState = prog.subSyncState
        /\ P.syncState \in {"DBTablesIncrementalSync", "DBIncrementalSync"}
        /\ P.commitSeq = prog.commitSeq /\ P.prevCommitSeq = prog.prevCommitSeq
        /\ P.unknownCommitSeq = prog.unknownCommitSeq /\ P.snapshotSeq = prog.snapshotSeq
        /\ P.syncState = "DBIncrementalSync" => P.tableCommitSeqMap = NoMap
  <2>1. /\ prog.syncState \in {"DBTablesIncrementalSync", "DBIncrementalSync"}
        /\ prog.syncState = "DBIncrementalSync" => prog.tableCommitSeqMap = NoMap
    BY <1>1, <1>2 DEF Places, IsIncrementalSync
  <2> QED
    BY <1>1, <2>1, AfterFacts
<1>4. prog.prevCommitSeq \in Nat /\ prog.unknownCommitSeq \in Nat /\ prog.commitSeq \in Nat
  BY <1>1, ProgressFields
<1>5. IsIncrementalSync(P)
  BY <1>3 DEF IsIncrementalSync
<1>6. CASE IsDone
  <2>1. prog' = P /\ disk' = disk
    BY <1>3, <1>6 DEF FinishBinlog, Volatile
  <2>2. Places(P, "idle")
    BY <1>1, <1>2, <1>3, <1>4, <1>5 DEF Places, IsIncrementalSync
  <2> QED
    BY <1>1, <1>3, <2>1, <2>2 DEF JobAfter, JobOK
<1>7. CASE ~IsDone
  <2>1. PICK Q \in Progress :
          /\ Q = Done(P) /\ Q.syncState = P.syncState /\ Q.subSyncState = "Done"
          /\ Q.commitSeq = P.commitSeq /\ Q.prevCommitSeq = P.commitSeq
          /\ Q.unknownCommitSeq = P.unknownCommitSeq /\ Q.snapshotSeq = P.snapshotSeq
          /\ Q.tableCommitSeqMap = P.tableCommitSeqMap
          /\ Q.partialSyncData = P.partialSyncData
    BY DoneFacts
  <2>2. prog' = Q /\ disk' = Q
    BY <1>3, <1>7, <2>1 DEF FinishBinlog, Persist
  <2>3. IsIncrementalSync(Q)
    BY <1>5, <2>1 DEF IsIncrementalSync
  <2>4. Places(Q, "idle")
    BY <1>1, <1>2, <1>3, <1>4, <2>1, <2>3 DEF Places, IsIncrementalSync
  <2>5. JobOK(Q, Q, "idle")
    BY <2>1, <2>4, IdleOK
  <2> QED
    BY <1>1, <2>2, <2>5 DEF JobAfter
<1> QED
  BY <1>6, <1>7

-------------------------------------------------------------------------------
(* The snapshots. *)

\* What the end of a backup makes of the progress.
LEMMA TakenFacts ==
    ASSUME prog \in Progress, N \in Seqs
    PROVE  \E Q \in Progress :
             /\ Q = Taken /\ Q.syncState = prog.syncState /\ Q.subSyncState = "RestoreSnapshot"
             /\ Q.commitSeq = prog.commitSeq /\ Q.prevCommitSeq = prog.prevCommitSeq
             /\ Q.unknownCommitSeq = prog.unknownCommitSeq /\ Q.snapshotSeq = N
             /\ Q.tableCommitSeqMap = prog.tableCommitSeqMap /\ Q.tableMapping = prog.tableMapping
             /\ Q.partialSyncData = prog.partialSyncData
<1>1. PICK Q : Q = [prog EXCEPT !.subSyncState = "RestoreSnapshot", !.snapshotSeq = N]
  OBVIOUS
<1>2. Q = Taken
  BY <1>1 DEF Taken, N
<1>3. Q \in Progress
  BY <1>1 DEF Progress
<1>4. /\ Q.syncState = prog.syncState /\ Q.subSyncState = "RestoreSnapshot"
      /\ Q.commitSeq = prog.commitSeq /\ Q.prevCommitSeq = prog.prevCommitSeq
      /\ Q.unknownCommitSeq = prog.unknownCommitSeq /\ Q.snapshotSeq = N
      /\ Q.tableCommitSeqMap = prog.tableCommitSeqMap /\ Q.tableMapping = prog.tableMapping
      /\ Q.partialSyncData = prog.partialSyncData
  BY <1>1 DEF Progress
<1> QED
  BY <1>2, <1>3, <1>4

\* The end of a backup keeps the types: its marks are of binlogs in the log.
LEMMA BackupTypes ==
    ASSUME Types, BackupAll \/ BackupTable
    PROVE  JobAfter
<1>1. /\ prog \in Progress /\ TargetOK(target) /\ Places(prog, "idle") /\ pc = "idle"
      /\ N \in Nat /\ N \in Seqs
      /\ prog.subSyncState = "BeginCreateSnapshot"
      /\ prog.syncState = "DBFullSync" \/
           /\ prog.syncState = "DBPartialSync" /\ NameAt(PS.table, N) = PS.name
      /\ Persist(Taken) /\ pc' = pc /\ target' = target
  BY SourceFacts DEF Types, JobOK, SourceOK, BackupAll, BackupTable, AtSnapshot, NameNow, N
<1>2. PICK Q \in Progress :
        /\ Q = Taken /\ Q.syncState = prog.syncState /\ Q.subSyncState = "RestoreSnapshot"
        /\ Q.commitSeq = prog.commitSeq /\ Q.prevCommitSeq = prog.prevCommitSeq
        /\ Q.unknownCommitSeq = prog.unknownCommitSeq /\ Q.snapshotSeq = N
        /\ Q.partialSyncData = prog.partialSyncData
  BY <1>1, TakenFacts
<1>3. ~IsIncrementalSync(Q)
  BY <1>1, <1>2 DEF IsIncrementalSync
<1>4. Places(Q, "idle")
  BY <1>1, <1>2, <1>3 DEF Places, PS
<1>5. JobOK(Q, Q, "idle")
  BY <1>4, IdleOK
<1> QED
  BY <1>1, <1>2, <1>5 DEF JobAfter, Persist

\* The end of a snapshot: an incremental sync that has caught up with it.
LEMMA EndTypes ==
    ASSUME Types, pc = "idle", UNCHANGED pc, TargetOK(target'), NEW P \in Progress,
           NEW k \in Seqs, k <= N, P.unknownCommitSeq <= k,
           Persist(NextWithPersist(P, k, "DBTablesIncrementalSync", "Done"))
    PROVE  /\ JobAfter /\ prog' \in Progress
           /\ prog'.syncState = "DBTablesIncrementalSync"
           /\ prog'.commitSeq = k /\ prog'.prevCommitSeq = k
           /\ prog'.unknownCommitSeq = P.unknownCommitSeq
           /\ prog'.tableCommitSeqMap = P.tableCommitSeqMap
           /\ prog'.tableMapping = P.tableMapping
           /\ disk' = prog' /\ pc' = "idle"
<1>1. PICK st, sub :
        /\ st = "DBTablesIncrementalSync" /\ sub = "Done"
        /\ st \in {"DBFullSync", "DBPartialSync", "DBTablesIncrementalSync", "DBIncrementalSync"}
        /\ sub \in {"Done", "BeginCreateSnapshot", "RestoreSnapshot"}
  OBVIOUS
<1>2. PICK Q \in Progress :
        /\ Q = NextWithPersist(P, k, st, sub)
        /\ Q.syncState = st /\ Q.subSyncState = sub /\ Q.commitSeq = k
        /\ Q.prevCommitSeq = IF sub = "Done" THEN k ELSE P.prevCommitSeq
        /\ Q.unknownCommitSeq = P.unknownCommitSeq /\ Q.snapshotSeq = 0
        /\ Q.tableCommitSeqMap = P.tableCommitSeqMap /\ Q.tableMapping = P.tableMapping
        /\ Q.partialSyncData = P.partialSyncData
  BY <1>1, NextWithPersistFacts
<1>3. prog' = Q /\ disk' = Q /\ pc' = "idle"
  BY <1>1, <1>2 DEF Persist
<1>4. Q.syncState = "DBTablesIncrementalSync" /\ Q.subSyncState = "Done" /\ Q.prevCommitSeq = k
  BY <1>1, <1>2
<1>5. k \in Nat /\ N \in Nat /\ P.unknownCommitSeq \in Nat
  BY SourceFacts, ProgressFields, NamesAssumption DEF Types, SourceOK, Seqs
<1>6. Places(Q, "idle")
  BY <1>2, <1>4, <1>5 DEF Places, IsIncrementalSync
<1>7. JobOK(Q, Q, "idle")
  BY <1>6, IdleOK
<1> QED
  BY <1>2, <1>3, <1>4, <1>7 DEF JobAfter

\* What a full snapshot leaves: each table of it has an id of its own and its rows.
Restored(k, live, id) ==
    /\ k = prog.snapshotSeq /\ live = LiveAt(k) /\ live \subseteq SourceTables
    /\ TargetOK(target')
    /\ \A s \in live : id[s] \in TargetIds /\ id[s] \in DOMAIN target'
    /\ \A s, t \in live : id[s] = id[t] => s = t
    /\ \A s \in live : target'[id[s]] = Table(NameAt(s, k), RowsOf(s, k))
    /\ \E P \in Progress :
         /\ P.unknownCommitSeq = prog.unknownCommitSeq
         /\ P.tableMapping = [s \in SourceTables |-> IF s \in live THEN id[s] ELSE NoTarget]
         /\ P.tableCommitSeqMap = [s \in SourceTables |-> IF s \in live THEN k ELSE 0]
         /\ Persist(NextWithPersist(P, k, "DBTablesIncrementalSync", "Done"))

\* The restore of a full snapshot leaves what Restored says.
LEMMA RestoreAllStep ==
    ASSUME Types, RestoreAll
    PROVE  \E k \in 0..N : \E live, id : Restored(k, live, id)
<1>1. PICK k : k = prog.snapshotSeq
  OBVIOUS
<1>2. PICK live : live = LiveAt(k)
  OBVIOUS
<1>3. PICK new : new = {s \in live : ~Exists(NameAt(s, k))}
  OBVIOUS
<1>4. PICK id : id = [s \in live |-> IF s \in new THEN FreeId(Cardinality({r \in new : r < s}))
                                                 ELSE IdOf(NameAt(s, k))]
  OBVIOUS
<1>5. PICK restored : restored = [d \in Range(id) |->
                                    LET s == CHOOSE s \in live : id[s] = d
                                    IN Table(NameAt(s, k), RowsOf(s, k))]
  OBVIOUS
<1>6. PICK P : P = [prog EXCEPT !.tableMapping = [s \in SourceTables |->
                                                   IF s \in live THEN id[s] ELSE NoTarget],
                                !.tableCommitSeqMap = [s \in SourceTables |->
                                                         IF s \in live THEN k ELSE 0]]
  OBVIOUS
<1>7. /\ target' = Over(restored, target)
      /\ Persist(NextWithPersist(P, k, "DBTablesIncrementalSync", "Done"))
  BY <1>1, <1>2, <1>3, <1>4, <1>5, <1>6 DEF RestoreAll
<1>8. /\ prog \in Progress /\ SourceOK /\ TargetOK(target) /\ Places(prog, pc) /\ N \in Nat
      /\ N <= MaxSeq /\ MapsTyped
  BY SourceFacts, TypesFresh DEF Types, JobOK, SourceOK
<1>9. k \in 0..N /\ k \in Nat /\ k <= MaxSeq
  BY <1>1, <1>8, ProgressFields DEF Places
<1>10. PICK U : U = Over(restored, target)
  OBVIOUS
<1>11. live \subseteq SourceTables /\ DOMAIN id = live
  BY <1>2, <1>4 DEF LiveAt
<1>12. /\ \A s \in live : id[s] \in TargetIds /\ id[s] \in DOMAIN U
       /\ \A s, t \in live : id[s] = id[t] => s = t
       /\ \A s \in live : U[id[s]] = Table(NameAt(s, k), RowsOf(s, k))
       /\ TargetOK(U)
  <2>1. /\ new \subseteq live
        /\ \A s \in live : s \in new <=> ~Exists(NameAt(s, k))
    BY <1>3
  <2>2. /\ \A s \in new : id[s] = FreeId(Rank(new, s))
        /\ \A s \in live : s \notin new => id[s] = IdOf(NameAt(s, k))
    BY <1>4, <2>1 DEF Rank
  <2>3. DOMAIN restored = Range(id)
    BY <1>5
  <2>4. ASSUME NEW s \in live, \A t \in live : id[t] = id[s] => t = s
        PROVE  restored[id[s]] = Table(NameAt(s, k), RowsOf(s, k))
    <3>1. PICK d : d = id[s]
      OBVIOUS
    <3>2. d \in Range(id)
      BY <1>11, <3>1 DEF Range
    <3>3. (CHOOSE t \in live : id[t] = d) = s
      BY <2>4, <3>1
    <3>4. restored[d] = Table(NameAt(s, k), RowsOf(s, k))
      BY <1>5, <3>2, <3>3
    <3> QED
      BY <3>1, <3>4
  <2>5. /\ DOMAIN U = DOMAIN restored \cup DOMAIN target
        /\ \A d \in DOMAIN restored : U[d] = restored[d]
        /\ \A d \in DOMAIN target : d \notin DOMAIN restored => U[d] = target[d]
    BY <1>10 DEF Over
  <2>6. /\ SourceOK /\ TargetOK(target) /\ MapsTyped /\ k \in 0..N /\ live = LiveAt(k)
        /\ new \subseteq live /\ DOMAIN id = live /\ DOMAIN restored = Range(id)
    BY <1>2, <1>8, <1>9, <1>11, <2>1, <2>3
  <2>7. /\ \A s \in live : id[s] \in TargetIds /\ id[s] \in DOMAIN U
        /\ \A s, t \in live : id[s] = id[t] => s = t
        /\ \A s \in live : U[id[s]] = Table(NameAt(s, k), RowsOf(s, k))
        /\ TargetOK(U)
    BY <2>1, <2>2, <2>4, <2>5, <2>6, RestoreAllFacts, SMTT(40)
  <2> QED
    BY <2>7
<1>13. PICK m, c : /\ m = [s \in SourceTables |-> IF s \in live THEN id[s] ELSE NoTarget]
                   /\ c = [s \in SourceTables |-> IF s \in live THEN k ELSE 0]
  OBVIOUS
<1>14. m \in [SourceTables -> TargetIds \cup {NoTarget}]
  BY <1>12, <1>13
<1>15. c \in [SourceTables -> 0..MaxInt64]
  BY <1>9, <1>13, NamesAssumption DEF MaxInt64
<1>16. P = [prog EXCEPT !.tableMapping = m, !.tableCommitSeqMap = c]
  BY <1>6, <1>13
<1>17. /\ P \in Progress /\ P.unknownCommitSeq = prog.unknownCommitSeq
       /\ P.tableMapping = m /\ P.tableCommitSeqMap = c
  BY <1>8, <1>14, <1>15, <1>16 DEF Progress
<1>18. target' = U
  BY <1>7, <1>10
<1>19. \E p \in Progress :
          /\ p.unknownCommitSeq = prog.unknownCommitSeq
          /\ p.tableMapping = [s \in SourceTables |-> IF s \in live THEN id[s] ELSE NoTarget]
          /\ p.tableCommitSeqMap = [s \in SourceTables |-> IF s \in live THEN k ELSE 0]
          /\ Persist(NextWithPersist(p, k, "DBTablesIncrementalSync", "Done"))
  BY <1>7, <1>13, <1>17
<1>20. /\ TargetOK(target')
       /\ \A s \in live : id[s] \in TargetIds /\ id[s] \in DOMAIN target'
       /\ \A s, t \in live : id[s] = id[t] => s = t
       /\ \A s \in live : target'[id[s]] = Table(NameAt(s, k), RowsOf(s, k))
  BY <1>12, <1>18
<1> QED
  <2>1. Restored(k, live, id)
    BY <1>1, <1>2, <1>11, <1>19, <1>20 DEF Restored
  <2> QED
    BY <1>9, <2>1

\* The restore of a full snapshot keeps the types.
LEMMA RestoreAllTypes ==
    ASSUME Types, RestoreAll
    PROVE  JobAfter
<1>1. PICK k \in 0..N :
        /\ k = prog.snapshotSeq /\ TargetOK(target')
        /\ \E P \in Progress :
             /\ P.unknownCommitSeq = prog.unknownCommitSeq
             /\ Persist(NextWithPersist(P, k, "DBTablesIncrementalSync", "Done"))
  BY RestoreAllStep DEF Restored
<1>4. PICK P \in Progress :
        /\ P.unknownCommitSeq = prog.unknownCommitSeq
        /\ Persist(NextWithPersist(P, k, "DBTablesIncrementalSync", "Done"))
  BY <1>1
<1>2. /\ Places(prog, pc) /\ pc = "idle" /\ UNCHANGED pc /\ N \in Nat /\ N <= MaxSeq
      /\ prog.syncState = "DBFullSync" /\ prog.subSyncState = "RestoreSnapshot"
  BY SourceFacts DEF Types, JobOK, RestoreAll, AtSnapshot, SourceOK
<1>3. k \in Seqs /\ k <= N /\ P.unknownCommitSeq <= k
  BY <1>1, <1>2, <1>4, NamesAssumption DEF Places, Seqs
<1> QED
  BY <1>1, <1>2, <1>3, <1>4, EndTypes

\* A snapshot of a table is of one that has a name.
LEMMA PartialTyped ==
    ASSUME Types, prog.syncState = "DBPartialSync"
    PROVE  /\ prog \in Progress /\ PS \in Partial
           /\ PS.table \in SourceTables /\ PS.name \in Names /\ PS.replace \in BOOLEAN
           /\ prog.unknownCommitSeq <= prog.commitSeq /\ prog.prevCommitSeq <= prog.commitSeq
           /\ prog.commitSeq <= N /\ prog.commitSeq \in Seqs /\ prog.commitSeq \in Nat
           /\ prog.snapshotSeq \in 0..N /\ N \in Nat /\ N <= MaxSeq /\ pc = "idle"
<1>1. /\ prog \in Progress /\ Places(prog, pc) /\ N \in Nat /\ N <= MaxSeq
  BY SourceFacts DEF Types, JobOK, SourceOK
<1>2. PS # Nil /\ PS \in Partial \cup {Nil}
  BY <1>1, ProgressFields DEF Places, PS
<1>3. prog.snapshotSeq \in Nat /\ prog.commitSeq \in Nat /\ prog.commitSeq \in Seqs
  BY <1>1, ProgressFields DEF Progress
<1>4. ~IsIncrementalSync(prog)
  BY DEF IsIncrementalSync
<1> QED
  BY <1>1, <1>2, <1>3, <1>4 DEF Places, Partial

\* A table that was replaced makes a full sync, and keeps the types.
LEMMA NotMatchTypes ==
    ASSUME Types, BackupIdNotMatch
    PROVE  JobAfter
<1>1. /\ prog.syncState = "DBPartialSync" /\ NewSnapshot(prog.commitSeq) /\ UNCHANGED target
  BY DEF BackupIdNotMatch, AtSnapshot
<1>2. PICK k \in Seqs : k = prog.commitSeq
  BY <1>1, PartialTyped
<1>3. k <= N /\ prog.prevCommitSeq <= k /\ NewSnapshot(k)
  BY <1>1, <1>2, PartialTyped
<1> QED
  BY <1>1, <1>3, NewSnapshotTypes

\* A table that is gone is asked for under its new name or given up; both keep the types.
LEMMA NotFoundTypes ==
    ASSUME Types, BackupTableNotFound
    PROVE  JobAfter
<1>1. /\ prog.syncState = "DBPartialSync" /\ pc = "idle" /\ UNCHANGED target
  BY DEF BackupTableNotFound, AtSnapshot
<1>2. PICK s \in SourceTables : s = PS.table
  BY <1>1, PartialTyped
<1>3. CASE IsTableDropped(s)
  <2>1. PICK P : P = [prog EXCEPT !.tableCommitSeqMap[s] = MaxInt64]
    OBVIOUS
  <2>2. PICK m \in 0..MaxInt64 : m = MaxInt64
    BY NamesAssumption DEF MaxInt64
  <2>3. P = [prog EXCEPT !.tableCommitSeqMap[s] = m]
    BY <2>1, <2>2
  <2>4. P \in Progress /\ P.unknownCommitSeq = prog.unknownCommitSeq
    BY <1>1, <2>3, PartialTyped, MarkFacts
  <2>5. PICK k \in Seqs : k = prog.commitSeq
    BY <1>1, PartialTyped
  <2>6. k <= N /\ P.unknownCommitSeq <= k
    BY <1>1, <2>4, <2>5, PartialTyped
  <2>7. /\ Persist(NextWithPersist(P, k, "DBTablesIncrementalSync", "Done")) /\ UNCHANGED pc
    BY <1>2, <1>3, <2>1, <2>5 DEF BackupTableNotFound
  <2>8. TargetOK(target')
    BY <1>1 DEF Types
  <2> QED
    BY <1>1, <2>4, <2>6, <2>7, <2>8, EndTypes
<1>4. CASE ~IsTableDropped(s)
  <2>1. NewPartialSnapshot(s, NameNow(s), TRUE)
    BY <1>2, <1>4 DEF BackupTableNotFound
  <2>2. NameNow(s) \in Names
    <3>1. N \in 0..N /\ SourceTyped
      BY <1>1, PartialTyped DEF Types, SourceOK
    <3>2. NameAt(s, N) \in Names \cup {Nil}
      BY <3>1, SourceFacts
    <3> QED
      BY <1>4, <3>2 DEF NameNow, N, IsTableDropped
  <2>3. PICK n \in Names, yes \in BOOLEAN : n = NameNow(s) /\ yes = TRUE
    BY <2>2
  <2>4. NewPartialSnapshot(s, n, yes) /\ prog.unknownCommitSeq <= prog.commitSeq
    BY <1>1, <2>1, <2>3, PartialTyped
  <2> QED
    BY <1>1, <2>4, NewPartialSnapshotTypes
<1> QED
  BY <1>3, <1>4

\* What the snapshot of one table leaves.
RestoredTable(k, id, x) ==
    /\ k = prog.snapshotSeq /\ id \in TargetIds /\ TargetOK(target')
    /\ DOMAIN target' = {d \in DOMAIN target : target[d].name # PS.name} \cup {id}
    /\ x = Table(PS.name, RowsOf(PS.table, k)) /\ target'[id] = x
    /\ \A d \in DOMAIN target : d # id /\ target[d].name # PS.name => target'[d] = target[d]
    /\ \/ id \in DOMAIN target /\ target[id].name = PS.name
       \/ /\ id \notin DOMAIN target
          /\ \A s \in SourceTables : prog.tableMapping[s] # id /\ disk.tableMapping[s] # id
    /\ \E P \in Progress :
         /\ P.unknownCommitSeq = prog.unknownCommitSeq
         /\ P.tableMapping[PS.table] = id
         /\ \A s \in SourceTables : s # PS.table => P.tableMapping[s] = prog.tableMapping[s]
         /\ P.tableCommitSeqMap[PS.table] = k
         /\ \A s \in SourceTables :
               s # PS.table => P.tableCommitSeqMap[s] = prog.tableCommitSeqMap[s]
         /\ Persist(NextWithPersist(P, prog.commitSeq, "DBTablesIncrementalSync", "Done"))

\* The restore of one table leaves what RestoredTable says.
LEMMA RestoreTableStep ==
    ASSUME Types, RestoreTable
    PROVE  \E k \in 0..N : \E id, x : RestoredTable(k, id, x)
<1>1. /\ prog.syncState = "DBPartialSync"
  BY DEF RestoreTable, AtSnapshot
<1>2. /\ prog \in Progress /\ PS.table \in SourceTables /\ PS.name \in Names
      /\ prog.snapshotSeq \in 0..N /\ N \in Nat /\ N <= MaxSeq
  BY <1>1, PartialTyped
<1>3. PICK k, t, n : k = prog.snapshotSeq /\ t = PS.table /\ n = PS.name
  OBVIOUS
<1>4. PICK id : id = IF Exists(n) /\ ~PS.replace THEN IdOf(n) ELSE FreeId(0)
  OBVIOUS
<1>5. PICK rows, x : rows = RowsOf(t, k) /\ x = Table(n, rows)
  OBVIOUS
<1>6. PICK T : T = Without(n)
  OBVIOUS
<1>7. PICK U : U = Put(id, x, T)
  OBVIOUS
<1>8. PICK P : P = [prog EXCEPT !.tableMapping[t] = id, !.tableCommitSeqMap[t] = k]
  OBVIOUS
<1>9. /\ target' = U
      /\ Persist(NextWithPersist(P, prog.commitSeq, "DBTablesIncrementalSync", "Done"))
  BY <1>3, <1>4, <1>5, <1>6, <1>7, <1>8 DEF RestoreTable
<1>10. /\ TargetOK(T) /\ DOMAIN T = {d \in DOMAIN target : target[d].name # n}
       /\ \A d \in DOMAIN T : T[d] = target[d]
  <2>1. TargetOK(target)
    BY DEF Types
  <2> QED
    BY <1>6, <2>1, WithoutFacts
<1>11. \/ id \in DOMAIN target /\ target[id].name = n
       \/ /\ id \notin DOMAIN target /\ id \in TargetIds
          /\ \A s \in SourceTables : prog.tableMapping[s] # id /\ disk.tableMapping[s] # id
  <2>1. CASE Exists(n) /\ ~PS.replace
    BY <1>4, <2>1, IdOfFacts
  <2>2. CASE ~(Exists(n) /\ ~PS.replace)
    BY <1>4, <2>2, TypesFresh
  <2> QED
    BY <2>1, <2>2
<1>12. id \in TargetIds
  BY <1>11 DEF Types, TargetOK
<1>13. rows \in SUBSET Seqs
  <2>1. k \in Nat /\ k <= MaxSeq
    BY <1>2, <1>3, NamesAssumption
  <2>2. ASSUME NEW i \in 1..k PROVE i \in Seqs
    BY <2>1, NamesAssumption DEF Seqs
  <2> QED
    BY <1>5, <2>2 DEF RowsOf
<1>14. TargetOK(U)
  <2>1. \A d \in DOMAIN T : d # id => T[d].name # n
    BY <1>10
  <2>2. TargetOK(Put(id, Table(n, rows), T))
    BY <1>2, <1>3, <1>10, <1>12, <1>13, <2>1, PutOK
  <2> QED
    BY <1>5, <1>7, <2>2
<1>15. /\ DOMAIN U = DOMAIN T \cup {id} /\ U[id] = x
       /\ \A d \in DOMAIN T : d # id => U[d] = T[d]
  BY <1>7 DEF Put
<1>16. PICK Q : Q = [prog EXCEPT !.tableMapping[t] = id]
  OBVIOUS
<1>17. /\ Q \in Progress /\ Q.unknownCommitSeq = prog.unknownCommitSeq
       /\ Q.tableCommitSeqMap = prog.tableCommitSeqMap /\ Q.tableMapping[t] = id
       /\ \A s \in SourceTables : s # t => Q.tableMapping[s] = prog.tableMapping[s]
  <2>1. prog \in Progress /\ t \in SourceTables /\ id \in TargetIds \cup {NoTarget}
    BY <1>2, <1>3, <1>12
  <2>2. /\ Q \in Progress /\ Q.unknownCommitSeq = prog.unknownCommitSeq
        /\ Q.tableCommitSeqMap = prog.tableCommitSeqMap
    BY <1>16, <2>1, MapFacts
  <2>3. prog.tableMapping \in [SourceTables -> TargetIds \cup {NoTarget}]
    BY <2>1, ProgressFields
  <2>4. Q.tableMapping = [prog.tableMapping EXCEPT ![t] = id]
    BY <1>16, <2>1 DEF Progress
  <2> QED
    BY <2>1, <2>2, <2>3, <2>4
<1>18. P = [Q EXCEPT !.tableCommitSeqMap[t] = k]
  BY <1>2, <1>8, <1>16 DEF Progress
<1>19. k \in 0..MaxInt64
  BY <1>2, <1>3, NamesAssumption DEF MaxInt64
<1>20. /\ P \in Progress /\ P.unknownCommitSeq = Q.unknownCommitSeq
       /\ P.tableCommitSeqMap[t] = k /\ P.tableMapping = Q.tableMapping
       /\ \A s \in SourceTables : s # t => P.tableCommitSeqMap[s] = Q.tableCommitSeqMap[s]
  <2>1. Q \in Progress /\ t \in SourceTables
    BY <1>2, <1>3, <1>17
  <2>2. /\ P \in Progress /\ P.unknownCommitSeq = Q.unknownCommitSeq
        /\ P.tableMapping = Q.tableMapping
    BY <1>18, <1>19, <2>1, MarkFacts
  <2>3. Q.tableCommitSeqMap \in [SourceTables -> 0..MaxInt64]
    BY <2>1, ProgressFields
  <2>4. P.tableCommitSeqMap = [Q.tableCommitSeqMap EXCEPT ![t] = k]
    BY <1>18, <2>1 DEF Progress
  <2> QED
    BY <2>1, <2>2, <2>3, <2>4
<1>21. \E p \in Progress :
         /\ p.unknownCommitSeq = prog.unknownCommitSeq
         /\ p.tableMapping[PS.table] = id
         /\ \A s \in SourceTables : s # PS.table => p.tableMapping[s] = prog.tableMapping[s]
         /\ p.tableCommitSeqMap[PS.table] = k
         /\ \A s \in SourceTables :
               s # PS.table => p.tableCommitSeqMap[s] = prog.tableCommitSeqMap[s]
         /\ Persist(NextWithPersist(p, prog.commitSeq, "DBTablesIncrementalSync", "Done"))
  BY <1>3, <1>9, <1>17, <1>20
<1>22. /\ DOMAIN target' = {d \in DOMAIN target : target[d].name # PS.name} \cup {id}
       /\ target'[id] = x
       /\ \A d \in DOMAIN target : d # id /\ target[d].name # PS.name => target'[d] = target[d]
  BY <1>3, <1>9, <1>10, <1>15
<1>23. RestoredTable(k, id, x)
  BY <1>3, <1>5, <1>9, <1>11, <1>12, <1>14, <1>21, <1>22 DEF RestoredTable
<1> QED
  BY <1>2, <1>3, <1>23

\* The restore of one table keeps the types.
LEMMA RestoreTableTypes ==
    ASSUME Types, RestoreTable
    PROVE  JobAfter
<1>1. prog.syncState = "DBPartialSync" /\ pc = "idle" /\ UNCHANGED pc
  BY DEF RestoreTable, AtSnapshot
<1>2. TargetOK(target')
  BY RestoreTableStep DEF RestoredTable
<1>3. PICK P \in Progress :
        /\ P.unknownCommitSeq = prog.unknownCommitSeq
        /\ Persist(NextWithPersist(P, prog.commitSeq, "DBTablesIncrementalSync", "Done"))
  BY RestoreTableStep DEF RestoredTable
<1>4. PICK k \in Seqs : k = prog.commitSeq
  BY <1>1, PartialTyped
<1>5. /\ k <= N /\ P.unknownCommitSeq <= k
      /\ Persist(NextWithPersist(P, k, "DBTablesIncrementalSync", "Done"))
  BY <1>1, <1>3, <1>4, PartialTyped
<1> QED
  BY <1>1, <1>2, <1>5, EndTypes

-------------------------------------------------------------------------------
(* The environment. *)

\* A crash keeps the types: the row is a progress at rest.
LEMMA CrashTypes ==
    ASSUME Types, Crash
    PROVE  JobAfter
<1>1. /\ prog' = disk /\ disk' = disk /\ pc' = "idle" /\ target' = target
      /\ TargetOK(target) /\ disk \in Progress /\ Places(disk, "idle")
  BY DEF Crash, Types, JobOK
<1>2. JobOK(disk, disk, "idle")
  BY <1>1, IdleOK
<1> QED
  BY <1>1, <1>2 DEF JobAfter

\* A user who asks for a full sync leaves the types alone.
LEMMA FullSyncTypes ==
    ASSUME Types, FullSyncAsked
    PROVE  JobAfter
<1>1. NewSnapshot(prog.commitSeq) /\ UNCHANGED target /\ prog \in Progress /\ Places(prog, pc)
  BY DEF FullSyncAsked, Types, JobOK
<1>2. PICK k \in Seqs : k = prog.commitSeq
  BY <1>1 DEF Progress
<1>3. k <= N /\ prog.prevCommitSeq <= k /\ NewSnapshot(k)
  BY <1>1, <1>2 DEF Places
<1> QED
  BY <1>1, <1>3, NewSnapshotTypes

\* A place stays one when the log grows.
LEMMA PlacesGrow ==
    ASSUME SourceTyped, Grows, NEW P \in Progress, NEW h, Places(P, h)
    PROVE  Places(P, h)'
<1>1. N \in Nat /\ N' \in Nat /\ N <= N'
  BY SourceFacts DEF Grows
<1>2. P.commitSeq \in Nat /\ P.unknownCommitSeq \in Nat /\ P.snapshotSeq \in Nat
  BY ProgressFields
<1>3. /\ P.commitSeq <= N /\ P.unknownCommitSeq <= N /\ P.snapshotSeq <= N
  BY DEF Places
<1>4. P.snapshotSeq \in 0..N
  BY <1>1, <1>2, <1>3
<1>5. PICK k, t : k = P.snapshotSeq /\ t = P.partialSyncData.table
  OBVIOUS
<1>6. NameAt(t, k)' = NameAt(t, k)
  BY <1>4, <1>5, GrowsFacts
<1>7. NameAt(P.partialSyncData.table, P.snapshotSeq)'
        = NameAt(P.partialSyncData.table, P.snapshotSeq)
  BY <1>5, <1>6 DEF NameAt
<1>8. P.commitSeq <= N' /\ P.unknownCommitSeq <= N' /\ P.snapshotSeq <= N'
  BY <1>1, <1>2, <1>3
<1> QED
  BY <1>7, <1>8 DEF Places, IsIncrementalSync

-------------------------------------------------------------------------------
(* Every step keeps the types. *)

\* Nothing but a statement of a user touches the log.
LEMMA LiftTypes ==
    ASSUME Types, UNCHANGED <<log, names>>, JobAfter
    PROVE  Types'
<1>1. SourceOK' /\ Grows /\ SourceTyped
  BY SameSource DEF Types, SourceOK
<1>2. /\ TargetOK(target') /\ prog' \in Progress /\ disk' \in Progress
      /\ disk'.prevCommitSeq = prog'.prevCommitSeq
      /\ pc' \in {"idle", "handle", "handled"} /\ (pc' = "handle" => disk' = prog')
      /\ Places(prog', pc') /\ Places(disk', "idle")
  BY DEF JobAfter, JobOK
<1>3. PICK Q, D, h : Q = prog' /\ D = disk' /\ h = pc'
  OBVIOUS
<1>4. Places(Q, h)' /\ Places(D, "idle")'
  <2>1. PICK i : i = "idle"
    OBVIOUS
  <2>2. /\ Q \in Progress /\ Places(Q, h) /\ D \in Progress /\ Places(D, i)
    BY <1>2, <1>3, <2>1
  <2>3. Places(Q, h)'
    BY <1>1, <2>2, PlacesGrow
  <2>4. Places(D, i)'
    BY <1>1, <2>2, PlacesGrow
  <2> QED
    BY <2>1, <2>3, <2>4
<1>5. Places(prog, pc)' /\ Places(disk, "idle")'
  BY <1>3, <1>4 DEF Places, IsIncrementalSync, NameAt, N, NoMap
<1>6. TargetOK(target)'
  BY <1>2 DEF TargetOK, TargetIds, Seqs
<1>7. JobOK(prog, disk, pc)'
  BY <1>2, <1>5 DEF JobOK
<1> QED
  BY <1>1, <1>6, <1>7 DEF Types

\* Every step of the job keeps the types.
LEMMA JobTypes ==
    ASSUME Types, JobStep
    PROVE  JobAfter
<1>1. CASE StartHandle
  BY <1>1, StartTypes
<1>2. CASE Recover
  BY <1>2, RecoverTypes
<1>3. CASE SkipBinlog \/ HandleFails \/ ReplaceSkipped \/ StatementFails
  <2>1. pc = "handle" /\ UNCHANGED <<target, prog, disk>> /\ pc' \in {"idle", "handled"}
    BY <1>3 DEF SkipBinlog, HandleFails, ReplaceSkipped, StatementFails, Handles, Handled, Fails
  <2> QED
    BY <2>1, PassTypes
<1>4. CASE CreateExistingTable \/ ReplaceBySnapshot \/ RestoreChangedTable
           \/ SnapshotUnknownReplace
  BY <1>4, AskTypes
<1>5. CASE HandleUpsert
  BY <1>5, UpsertTypes
<1>6. CASE CreateTable
  BY <1>6, CreateTypes
<1>7. CASE DropTable
  BY <1>7, DropTypes
<1>8. CASE DropUnknownTable
  BY <1>8, DropUnknownTypes
<1>9. CASE RenameTable
  BY <1>9, RenameTypes
<1>10. CASE ReplaceTable
  BY <1>10, ReplaceTypes
<1>11. CASE FinishBinlog
  BY <1>11, FinishTypes
<1>12. CASE BackupAll \/ BackupTable
  BY <1>12, BackupTypes
<1>13. CASE RestoreAll
  BY <1>13, RestoreAllTypes
<1>14. CASE BackupIdNotMatch
  BY <1>14, NotMatchTypes
<1>15. CASE BackupTableNotFound
  BY <1>15, NotFoundTypes
<1>16. CASE RestoreTable
  BY <1>16, RestoreTableTypes
<1> QED
  BY <1>1, <1>2, <1>3, <1>4, <1>5, <1>6, <1>7, <1>8, <1>9, <1>10, <1>11, <1>12, <1>13, <1>14,
     <1>15, <1>16 DEF JobStep

\* A statement of a user keeps the types: the marks stay within the longer log.
LEMMA WriteTypes ==
    ASSUME Types, SourceWrites
    PROVE  Types'
<1>1. SourceOK' /\ Grows /\ SourceTyped
  BY WritesKeepSource DEF Types, SourceOK
<1>2. UNCHANGED <<target, prog, disk, pc>>
  BY DEF SourceWrites
<1>3. JobOK(prog, disk, pc) /\ TargetOK(target)
  BY DEF Types
<1>4. PICK Q, D, h, i : Q = prog /\ D = disk /\ h = pc /\ i = "idle"
  OBVIOUS
<1>5. Q \in Progress /\ D \in Progress /\ Places(Q, h) /\ Places(D, i)
  BY <1>3, <1>4 DEF JobOK
<1>6. Places(Q, h)'
  BY <1>1, <1>5, PlacesGrow
<1>7. Places(D, i)'
  BY <1>1, <1>5, PlacesGrow
<1>8. Places(prog, pc)' /\ Places(disk, "idle")'
  BY <1>2, <1>4, <1>6, <1>7 DEF Places, IsIncrementalSync, NameAt, N, NoMap
<1>9. JobOK(prog, disk, pc)' /\ TargetOK(target)'
  BY <1>2, <1>3, <1>8 DEF JobOK, TargetOK
<1> QED
  BY <1>1, <1>9 DEF Types

\* The types hold at the start.
LEMMA InitTypes ==
    ASSUME NamesInit
    PROVE  Types
<1>1. SourceOK
  BY InitSource
<1>2. /\ log = <<>> /\ names = <<InitialNames>>
      /\ target = [d \in {} |-> Table(Nil, {})]
      /\ disk = prog /\ pc = "idle"
  BY DEF NamesInit
<1>3. N = 0
  BY <1>2 DEF N
<1>4. TargetOK(target)
  BY <1>2 DEF TargetOK
<1>5. NoMap \in [SourceTables -> 0..MaxInt64] /\ 0 \in Seqs
  BY NamesAssumption DEF NoMap, MaxInt64, Seqs
<1>6. /\ prog.syncState = "DBFullSync" /\ prog.subSyncState = "BeginCreateSnapshot"
      /\ prog.commitSeq = 0 /\ prog.prevCommitSeq = 0 /\ prog.unknownCommitSeq = 0
      /\ prog.tableCommitSeqMap = NoMap /\ prog.snapshotSeq = 0
  BY DEF NamesInit
<1>7. prog \in Progress
  BY <1>5 DEF NamesInit, Progress
<1>8. Places(prog, "idle")
  BY <1>3, <1>6 DEF Places, IsIncrementalSync
<1>9. JobOK(prog, disk, pc)
  BY <1>2, <1>7, <1>8 DEF JobOK
<1> QED
  BY <1>1, <1>4, <1>9 DEF Types

\* Every step keeps the types.
LEMMA NextTypes ==
    ASSUME Types, [NamesNext]_nameVars
    PROVE  Types'
<1>1. CASE SourceWrites
  BY <1>1, WriteTypes
<1>2. CASE ~SourceWrites
  <2>1. UNCHANGED <<log, names>>
    BY <1>2, OthersKeepSource
  <2>2. JobAfter
    <3>1. CASE JobStep
      BY <3>1, JobTypes
    <3>2. CASE Crash
      BY <3>2, CrashTypes
    <3>3. CASE FullSyncAsked
      BY <3>3, FullSyncTypes
    <3>4. CASE UNCHANGED nameVars
      BY <3>4 DEF nameVars, Types, JobAfter
    <3> QED
      BY <1>2, <3>1, <3>2, <3>3, <3>4 DEF NamesNext, JobAction, Environment
  <2> QED
    BY <2>1, <2>2, LiftTypes
<1> QED
  BY <1>1, <1>2

\* The rest of the type invariant: the flag and the faults that are left.
Flags == strayed \in BOOLEAN /\ budget \in 0..MaxFaults

\* Every step keeps the flag a Boolean and the faults that are left a number.
LEMMA NextFlags ==
    ASSUME Flags, [NamesNext]_nameVars
    PROVE  Flags'
<1> DEFINE Spent == budget' = budget \/ (budget > 0 /\ budget' = budget - 1)
<1>1. budget' \in 0..MaxFaults
  <2>1. Spent
    <3>1. CASE HandleFails \/ CreateTable \/ DropTable \/ RenameTable \/ ReplaceTable
      <4>1. NoFault \/ Fault("rpc") \/ Fault("lostReply")
        BY <3>1 DEF HandleFails, CreateTable, DropTable, RenameTable, ReplaceTable, HandledOrLost
      <4> QED
        BY <4>1 DEF NoFault, Fault
    <3>2. CASE Crash \/ FullSyncAsked
      BY <3>2 DEF Crash, FullSyncAsked, Fault
    <3>3. CASE SourceWrites
      BY <3>3 DEF SourceWrites
    <3>4. CASE UNCHANGED nameVars
      BY <3>4 DEF nameVars
    <3>5. CASE \/ StartHandle \/ Recover \/ SkipBinlog \/ SnapshotUnknownReplace
               \/ HandleUpsert \/ CreateExistingTable \/ DropUnknownTable
               \/ ReplaceSkipped \/ ReplaceBySnapshot \/ StatementFails
               \/ RestoreChangedTable \/ FinishBinlog
      <4>1. UNCHANGED budget
        BY <3>5 DEF StartHandle, Recover, SkipBinlog, SnapshotUnknownReplace, HandleUpsert,
                    CreateExistingTable, DropUnknownTable, ReplaceSkipped, ReplaceBySnapshot,
                    StatementFails, RestoreChangedTable, FinishBinlog
      <4> QED
        BY <4>1
    <3>6. CASE \/ BackupAll \/ RestoreAll \/ BackupTable \/ BackupIdNotMatch
               \/ BackupTableNotFound \/ RestoreTable
      <4>1. UNCHANGED budget
        BY <3>6 DEF BackupAll, RestoreAll, BackupTable, BackupIdNotMatch, BackupTableNotFound,
                    RestoreTable
      <4> QED
        BY <4>1
    <3> HIDE DEF Spent
    <3> QED
      BY <3>1, <3>2, <3>3, <3>4, <3>5, <3>6 DEF NamesNext, JobAction, JobStep, Environment
  <2> QED
    BY <2>1, NamesAssumption DEF Flags
<1>2. strayed' \in BOOLEAN
  <2>1. CASE JobAction
    BY <2>1 DEF JobAction, Flags
  <2>2. CASE Environment
    BY <2>2 DEF Environment, Flags
  <2>3. CASE UNCHANGED nameVars
    BY <2>3 DEF nameVars, Flags
  <2> QED
    BY <2>1, <2>2, <2>3 DEF NamesNext
<1> QED
  BY <1>1, <1>2 DEF Flags

\* NamesTypeOK holds in every state of the job and of the two clusters.
THEOREM NamesTypesHold == NamesSpec => []NamesTypeOK
<1>1. ASSUME NamesInit
      PROVE  Types /\ Flags
  <2>1. Types
    BY <1>1, InitTypes
  <2>2. strayed = FALSE /\ budget = MaxFaults
    BY <1>1 DEF NamesInit
  <2>3. strayed \in BOOLEAN
    BY <2>2
  <2>4. MaxFaults \in Nat /\ budget = MaxFaults
    BY <2>2, NamesAssumption
  <2>5. budget \in 0..MaxFaults
    BY <2>4
  <2> QED
    BY <2>1, <2>3, <2>5 DEF Flags
<1>2. ASSUME Types, Flags, [NamesNext]_nameVars
      PROVE  Types' /\ Flags'
  BY <1>2, NextTypes, NextFlags
<1>3. ASSUME Types, Flags
      PROVE  NamesTypeOK
  <2>1. /\ log \in Seq(Binlog) /\ Len(log) <= MaxSeq
        /\ names \in Seq(NameMaps) /\ Len(names) = Len(log) + 1
    BY <1>3 DEF Types, SourceOK, SourceTyped
  <2>2. /\ DOMAIN target \subseteq TargetIds
        /\ \A d \in DOMAIN target : target[d] \in [name : Names, rows : SUBSET Seqs]
        /\ \A d, e \in DOMAIN target : target[d].name = target[e].name => d = e
    BY <1>3 DEF Types, TargetOK
  <2>3. /\ prog \in Progress /\ disk \in Progress
        /\ disk.prevCommitSeq = prog.prevCommitSeq
        /\ pc \in {"idle", "handle", "handled"}
    BY <1>3 DEF Types, JobOK
  <2>4. strayed \in BOOLEAN /\ budget \in 0..MaxFaults
    BY <1>3 DEF Flags
  <2> QED
    BY <2>1, <2>2, <2>3, <2>4 DEF NamesTypeOK
<1> QED
  BY <1>1, <1>2, <1>3, PTL DEF NamesSpec

-------------------------------------------------------------------------------
(* What a mapped table has. *)

\* Table s is not dropped from its k-th binlog on.
Alive(s, k) == \A j \in k..N : NameAt(s, j) # Nil

\* Table d is the source table s after k binlogs, or lacks rows of a table dropped since.
IsCopy(T, d, s, k) ==
    /\ d \in DOMAIN T /\ T[d].name = NameAt(s, k)
    /\ T[d].rows \subseteq RowsOf(s, k)
    /\ Alive(s, k) => T[d].rows = RowsOf(s, k)

\* The later of two marks.
Later(a, b) == IF a > b THEN a ELSE b

\* The binlog that the copy of each table is at, if no snapshot is ahead of it.
Base(P, h) ==
    IF h = "handled" \/ P.syncState = "DBPartialSync" THEN P.commitSeq ELSE P.prevCommitSeq

\* The copy of s is what s was after k binlogs, if s had a name then.
InPlace(T, P, s, k) == NameAt(s, k) = Nil \/ IsCopy(T, P.tableMapping[s], s, k)

\* The next binlog may be at the target, though its answer was lost.
Uncertain(P, h) ==
    /\ IsIncrementalSync(P) /\ h # "handled"
    /\ \/ P.unknownCommitSeq = P.prevCommitSeq + 1
       \/ h = "idle" /\ P.commitSeq # P.prevCommitSeq

\* What the target is when the binlog in doubt has taken effect on table s.
Half(T, P, s) ==
    \/ log[P.prevCommitSeq + 1].kind = "REPLACE_TABLE"
    \/ /\ log[P.prevCommitSeq + 1].table = s /\ P.tableCommitSeqMap[s] <= P.prevCommitSeq
       /\ \/ /\ log[P.prevCommitSeq + 1].kind = "DROP_TABLE"
             /\ P.tableMapping[s] # NoTarget /\ P.tableMapping[s] \notin DOMAIN T
             /\ \A d \in DOMAIN T : T[d].name # log[P.prevCommitSeq + 1].name
          \/ /\ log[P.prevCommitSeq + 1].kind = "RENAME_TABLE"
             /\ IsCopy(T, P.tableMapping[s], s, P.prevCommitSeq + 1)

\* The copy of s is in its place, is about to be restored, or is in doubt.
Good(T, P, h, s) ==
    \/ InPlace(T, P, s, Later(P.tableCommitSeqMap[s], Base(P, h)))
    \/ P.syncState = "DBPartialSync" /\ s = P.partialSyncData.table
    \/ Uncertain(P, h) /\ Half(T, P, s)

\* No two source tables share a table, and a table has rows of its own only.
Owned(T, m) == \A s \in SourceTables : m[s] \in DOMAIN T =>
    /\ \A t \in SourceTables : m[t] = m[s] => t = s
    /\ \A i \in T[m[s]].rows : i \in 1..N /\ log[i].table = s

\* What the progress P says of the tables T of the target is true.
Truth(T, P, h) ==
    /\ \A s \in SourceTables : P.tableCommitSeqMap[s] <= N
    /\ Owned(T, P.tableMapping)
    /\ P.syncState # "DBFullSync" => \A s \in SourceTables : Good(T, P, h, s)

\* A binlog leaves the names and the rows of other tables alone.
LEMMA OthersSame ==
    ASSUME SourceOK, NEW c \in 1..N, NEW s \in SourceTables, log[c].table # s,
           log[c].kind = "REPLACE_TABLE" => log[c].newTable # s
    PROVE  NameAt(s, c) = NameAt(s, c - 1)
<1>1. c \in Nat /\ (c - 1) + 1 = c /\ c \in 1..N + 1 /\ c + 1 \in 1..N + 1
  BY SourceFacts DEF SourceOK
<1>2. Follows(log[c], names[c], names[c + 1]) /\ names[c] \in NameMaps
  BY <1>1, SourceFacts DEF SourceOK
<1>3. PICK b, old, new : b = log[c] /\ old = names[c] /\ new = names[c + 1]
  OBVIOUS
<1>4. new[s] = old[s]
  BY <1>2, <1>3 DEF Follows, NameMaps
<1> QED
  BY <1>1, <1>3, <1>4 DEF NameAt

\* A binlog without rows of a table adds none to it.
LEMMA RowsSame ==
    ASSUME SourceOK, NEW c \in 1..N, NEW s \in SourceTables,
           log[c].table # s \/ log[c].kind # "UPSERT"
    PROVE  RowsOf(s, c) = RowsOf(s, c - 1)
<1>1. c \in Nat /\ N \in Nat
  BY SourceFacts DEF SourceOK
<1>2. ASSUME NEW i
      PROVE  i \in RowsOf(s, c) <=> i \in RowsOf(s, c - 1)
  <2>1. i \in 1..c <=> i = c \/ i \in 1..c - 1
    BY <1>1
  <2>2. c \notin 1..c - 1
    BY <1>1
  <2> QED
    BY <2>1, <2>2 DEF RowsOf
<1> QED
  BY <1>2

\* An upsert adds its row to its table.
LEMMA RowsAdded ==
    ASSUME SourceOK, NEW c \in 1..N, log[c].kind = "UPSERT", NEW s, log[c].table = s
    PROVE  RowsOf(s, c) = RowsOf(s, c - 1) \cup {c}
<1>1. c \in Nat /\ N \in Nat
  BY SourceFacts DEF SourceOK
<1>2. ASSUME NEW i
      PROVE  i \in RowsOf(s, c) <=> i \in RowsOf(s, c - 1) \/ i = c
  <2>1. i \in 1..c <=> i = c \/ i \in 1..c - 1
    BY <1>1
  <2> QED
    BY <2>1 DEF RowsOf
<1> QED
  BY <1>2

\* A table that has a name before a binlog and is not dropped after it is alive before it.
LEMMA AliveBefore ==
    ASSUME SourceOK, NEW c \in 1..N, NEW s \in SourceTables, NameAt(s, c - 1) # Nil, Alive(s, c)
    PROVE  Alive(s, c - 1)
<1>1. c \in Nat /\ N \in Nat
  BY SourceFacts DEF SourceOK
<1>2. \A j \in c - 1 .. N : j = c - 1 \/ j \in c..N
  BY <1>1
<1> QED
  BY <1>2 DEF Alive

\* A copy follows its table over a binlog that has no rows of it.
LEMMA CopyMoves ==
    ASSUME SourceOK, NEW c \in 1..N, NEW s \in SourceTables, NameAt(s, c - 1) # Nil,
           log[c].table # s \/ log[c].kind # "UPSERT",
           NEW T, NEW U, NEW d, IsCopy(T, d, s, c - 1),
           d \in DOMAIN U, U[d].name = NameAt(s, c), U[d].rows = T[d].rows
    PROVE  IsCopy(U, d, s, c)
<1>1. RowsOf(s, c) = RowsOf(s, c - 1)
  BY RowsSame
<1>2. Alive(s, c) => Alive(s, c - 1)
  BY AliveBefore
<1> QED
  BY <1>1, <1>2 DEF IsCopy

\* The copy of a table is one still when it is not touched.
LEMMA CopyStays ==
    ASSUME NEW T, NEW U, NEW d, NEW s, NEW k, IsCopy(T, d, s, k), d \in DOMAIN U, U[d] = T[d]
    PROVE  IsCopy(U, d, s, k)
BY DEF IsCopy

\* The copy of a table is in its place still when neither it nor its mapping is touched.
LEMMA InPlaceStays ==
    ASSUME NEW T, NEW U, NEW P, NEW Q, NEW s, NEW k, InPlace(T, P, s, k),
           Q.tableMapping[s] = P.tableMapping[s],
           P.tableMapping[s] \in DOMAIN T =>
             P.tableMapping[s] \in DOMAIN U /\ U[P.tableMapping[s]] = T[P.tableMapping[s]]
    PROVE  InPlace(U, Q, s, k)
<1>1. PICK d : d = P.tableMapping[s]
  OBVIOUS
<1>2. CASE IsCopy(T, d, s, k)
  <2>1. d \in DOMAIN T
    BY <1>2 DEF IsCopy
  <2>2. d \in DOMAIN U /\ U[d] = T[d]
    BY <1>1, <2>1
  <2>3. IsCopy(U, d, s, k)
    BY <1>2, <2>2, CopyStays
  <2> QED
    BY <1>1, <2>3 DEF InPlace
<1> QED
  BY <1>1, <1>2 DEF InPlace

\* The rows of an owned table stay its own when tables go, lose rows or change names.
LEMMA OwnedStays ==
    ASSUME NEW T, NEW U, NEW m, Owned(T, m),
           \A s \in SourceTables : m[s] \in DOMAIN U =>
             m[s] \in DOMAIN T /\ U[m[s]].rows = T[m[s]].rows
    PROVE  Owned(U, m)
BY DEF Owned

\* One source table gets another table, which is nobody's, or none.
LEMMA OwnedChanges ==
    ASSUME NEW U, NEW m, NEW s \in SourceTables, Owned(U, m), NEW w,
           \A t \in SourceTables : t # s => w[t] = m[t],
           w[s] \in DOMAIN U =>
             /\ \A t \in SourceTables : t # s => m[t] # w[s]
             /\ \A i \in U[w[s]].rows : i \in 1..N /\ log[i].table = s
    PROVE  Owned(U, w)
BY DEF Owned

-------------------------------------------------------------------------------
(* The handlers keep the copies. *)

\* What a step that leaves the log alone has to show.
TruthBefore == Truth(target, prog, pc) /\ Truth(target, disk, "idle")
TruthAfter == Truth(target', prog', pc') /\ Truth(target', disk', "idle")

\* The binlog in the handler is not about s, or s is ahead of it.
Untouched(s) ==
    \/ prog.commitSeq <= prog.tableCommitSeqMap[s]
    \/ B.table # s /\ (B.kind = "REPLACE_TABLE" => B.newTable # s)

\* In a handler the progress is at its binlog and the row right before it.
LEMMA HandleMarks ==
    ASSUME Types, pc = "handle"
    PROVE  /\ prog \in Progress /\ prog.commitSeq \in Nat /\ prog.prevCommitSeq \in Nat
           /\ prog.commitSeq \in 1..N /\ prog.commitSeq - 1 \in Nat
           /\ prog.prevCommitSeq = prog.commitSeq - 1 /\ prog.prevCommitSeq + 1 = prog.commitSeq
           /\ prog.commitSeq # prog.prevCommitSeq
           /\ IsIncrementalSync(prog) /\ prog.syncState # "DBPartialSync"
           /\ prog.syncState # "DBFullSync"
           /\ B = log[prog.commitSeq] /\ B = log[prog.prevCommitSeq + 1]
           /\ \A s \in SourceTables : prog.tableCommitSeqMap[s] \in Nat
<1>1. /\ prog \in Progress /\ IsIncrementalSync(prog) /\ prog.commitSeq \in 1..N
      /\ prog.commitSeq = prog.prevCommitSeq + 1
  BY HandleFacts
<1>2. prog.commitSeq \in Nat /\ prog.prevCommitSeq \in Nat
  BY <1>1, ProgressFields
<1>3. prog.tableCommitSeqMap \in [SourceTables -> 0..MaxInt64]
  BY <1>1, ProgressFields
<1>4. \A s \in SourceTables : prog.tableCommitSeqMap[s] \in 0..MaxInt64
  BY <1>3
<1>5. 0..MaxInt64 \subseteq Nat
  BY NamesAssumption DEF MaxInt64
<1>6. /\ prog.commitSeq - 1 \in Nat
      /\ prog.prevCommitSeq = prog.commitSeq - 1 /\ prog.prevCommitSeq + 1 = prog.commitSeq
      /\ prog.commitSeq # prog.prevCommitSeq
  BY <1>1, <1>2
<1> QED
  BY <1>1, <1>2, <1>4, <1>5, <1>6 DEF B, IsIncrementalSync

\* A table the binlog does not touch is in its place before it and after it.
LEMMA UntouchedInPlace ==
    ASSUME Types, pc = "handle", Truth(target, prog, "handle"),
           B.kind = "REPLACE_TABLE" => ~IsUnknown, NEW s \in SourceTables, Untouched(s)
    PROVE  /\ InPlace(target, prog, s, Later(prog.tableCommitSeqMap[s], prog.prevCommitSeq))
           /\ InPlace(target, prog, s, Later(prog.tableCommitSeqMap[s], prog.commitSeq))
<1>1. PICK c, p, t, h, d :
        /\ c = prog.commitSeq /\ p = prog.prevCommitSeq /\ t = prog.tableCommitSeqMap[s]
        /\ h = "handle" /\ d = prog.tableMapping[s]
  OBVIOUS
<1>2. /\ c \in 1..N /\ c \in Nat /\ p \in Nat /\ p = c - 1 /\ p + 1 = c /\ t \in Nat
      /\ IsIncrementalSync(prog)
      /\ prog.syncState # "DBPartialSync" /\ prog.syncState # "DBFullSync"
      /\ B = log[c] /\ B = log[prog.prevCommitSeq + 1] /\ SourceOK
  BY <1>1, HandleMarks DEF Types
<1>3. Good(target, prog, h, s)
  BY <1>1, <1>2 DEF Truth
<1>4. Base(prog, h) = p
  BY <1>1, <1>2 DEF Base
<1>5. c <= t \/ (B.table # s /\ (B.kind = "REPLACE_TABLE" => B.newTable # s))
  BY <1>1 DEF Untouched
<1>6. ~(Uncertain(prog, h) /\ Half(target, prog, s))
  <2>1. SUFFICES ASSUME Uncertain(prog, h), Half(target, prog, s)
                 PROVE  FALSE
    OBVIOUS
  <2>2. prog.unknownCommitSeq = prog.prevCommitSeq + 1
    BY <1>1, <2>1 DEF Uncertain
  <2>3. IsUnknown
    BY <1>1, <1>2, <2>2 DEF IsUnknown
  <2>4. B.table = s /\ t <= p
    BY <1>1, <1>2, <2>1, <2>3 DEF Half
  <2>5. ~(c <= t)
    BY <1>2, <2>4
  <2> QED
    BY <1>5, <2>4, <2>5
<1>7. InPlace(target, prog, s, Later(t, p))
  BY <1>1, <1>2, <1>3, <1>4, <1>6 DEF Good
<1>8. InPlace(target, prog, s, Later(t, c))
  <2>1. CASE c <= t
    <3>1. Later(t, p) = t /\ Later(t, c) = t
      BY <1>2, <2>1 DEF Later
    <3> QED
      BY <1>7, <3>1
  <2>2. CASE ~(c <= t)
    <3>1. Later(t, p) = p /\ Later(t, c) = c
      BY <1>2, <2>2 DEF Later
    <3>2. B.table # s /\ (B.kind = "REPLACE_TABLE" => B.newTable # s)
      BY <1>5, <2>2
    <3>3. NameAt(s, c) = NameAt(s, c - 1)
      BY <1>2, <3>2, OthersSame
    <3>4. InPlace(target, prog, s, c - 1)
      BY <1>2, <1>7, <3>1
    <3>5. CASE NameAt(s, c - 1) = Nil
      BY <3>1, <3>3, <3>5 DEF InPlace
    <3>6. CASE NameAt(s, c - 1) # Nil
      <4>1. IsCopy(target, d, s, c - 1)
        BY <1>1, <3>4, <3>6 DEF InPlace
      <4>2. d \in DOMAIN target /\ target[d].name = NameAt(s, c)
        BY <3>3, <4>1 DEF IsCopy
      <4>3. IsCopy(target, d, s, c)
        BY <1>2, <3>2, <3>6, <4>1, <4>2, CopyMoves
      <4> QED
        BY <1>1, <3>1, <4>3 DEF InPlace
    <3> QED
      BY <3>5, <3>6
  <2> QED
    BY <2>1, <2>2
<1> QED
  BY <1>1, <1>7, <1>8

\* A table that is in its place before the binlog is so for the row of the storage.
LEMMA DiskGood ==
    ASSUME Types, pc = "handle", NEW U, NEW s \in SourceTables,
           \/ InPlace(U, prog, s, Later(prog.tableCommitSeqMap[s], prog.prevCommitSeq))
           \/ Half(U, prog, s)
    PROVE  Good(U, prog, "idle", s)
<1>1. PICK i : i = "idle"
  OBVIOUS
<1>2. Base(prog, i) = prog.prevCommitSeq
  BY <1>1, HandleMarks DEF Base
<1>3. Uncertain(prog, i)
  BY <1>1, HandleMarks DEF Uncertain
<1>4. Good(U, prog, i, s)
  BY <1>2, <1>3 DEF Good
<1> QED
  BY <1>1, <1>4

\* A statement about other tables leaves s alone.
LEMMA OthersGood ==
    ASSUME Types, pc = "handle", Truth(target, prog, "handle"),
           B.kind = "REPLACE_TABLE" => ~IsUnknown, NEW s \in SourceTables, Untouched(s),
           NEW U, NEW Q, Q.tableMapping[s] = prog.tableMapping[s],
           prog.tableMapping[s] \in DOMAIN target =>
             /\ prog.tableMapping[s] \in DOMAIN U
             /\ U[prog.tableMapping[s]] = target[prog.tableMapping[s]]
    PROVE  /\ InPlace(U, Q, s, Later(prog.tableCommitSeqMap[s], prog.commitSeq))
           /\ Good(U, prog, "idle", s)
<1>1. PICK k, j : /\ k = Later(prog.tableCommitSeqMap[s], prog.commitSeq)
                  /\ j = Later(prog.tableCommitSeqMap[s], prog.prevCommitSeq)
  OBVIOUS
<1>2. InPlace(target, prog, s, k) /\ InPlace(target, prog, s, j)
  BY <1>1, UntouchedInPlace
<1>3. InPlace(U, Q, s, k)
  BY <1>2, InPlaceStays
<1>4. InPlace(U, prog, s, j)
  BY <1>2, InPlaceStays
<1> QED
  BY <1>1, <1>3, <1>4, DiskGood

\* A table that the binlog touches was in its place, or the binlog is half done.
LEMMA TouchedBefore ==
    ASSUME Types, pc = "handle", Truth(target, prog, "handle"), NEW s \in SourceTables,
           ~(prog.commitSeq <= prog.tableCommitSeqMap[s])
    PROVE  /\ Later(prog.tableCommitSeqMap[s], prog.commitSeq) = prog.commitSeq
           /\ Later(prog.tableCommitSeqMap[s], prog.prevCommitSeq) = prog.commitSeq - 1
           /\ prog.tableCommitSeqMap[s] <= prog.prevCommitSeq
           /\ \/ NameAt(s, prog.commitSeq - 1) = Nil
              \/ IsCopy(target, prog.tableMapping[s], s, prog.commitSeq - 1)
              \/ IsUnknown /\ Half(target, prog, s)
<1>1. PICK c, p, t, h :
        /\ c = prog.commitSeq /\ p = prog.prevCommitSeq /\ t = prog.tableCommitSeqMap[s]
        /\ h = "handle"
  OBVIOUS
<1>2. /\ c \in 1..N /\ c \in Nat /\ p \in Nat /\ p = c - 1 /\ p + 1 = c /\ t \in Nat
      /\ IsIncrementalSync(prog)
      /\ prog.syncState # "DBPartialSync" /\ prog.syncState # "DBFullSync"
  BY <1>1, HandleMarks
<1>3. Later(t, c) = c /\ Later(t, p) = c - 1 /\ t <= p
  BY <1>1, <1>2 DEF Later
<1>4. Good(target, prog, h, s)
  BY <1>1, <1>2 DEF Truth
<1>5. Base(prog, h) = p
  BY <1>1, <1>2 DEF Base
<1>6. Uncertain(prog, h) => IsUnknown
  BY <1>1, <1>2 DEF Uncertain, IsUnknown
<1> QED
  BY <1>1, <1>2, <1>3, <1>4, <1>5, <1>6 DEF Good, InPlace

\* The two ends of a handler: its effect is kept with the progress Q, or the answer was lost.
LEMMA HandlerTruth ==
    ASSUME Types, pc = "handle", Truth(target, prog, "handle"), NEW U, NEW Q,
           Q.syncState = prog.syncState, Q.commitSeq = prog.commitSeq,
           Q.tableCommitSeqMap = prog.tableCommitSeqMap,
           Owned(U, Q.tableMapping), Owned(U, prog.tableMapping),
           \A s \in SourceTables :
             /\ InPlace(U, Q, s, Later(prog.tableCommitSeqMap[s], prog.commitSeq))
             /\ Good(U, prog, "idle", s)
    PROVE  Truth(U, Q, "handled") /\ Truth(U, prog, "idle")
<1>1. PICK h : h = "handled"
  OBVIOUS
<1>2. Base(Q, h) = prog.commitSeq
  BY <1>1 DEF Base
<1>3. \A s \in SourceTables : Good(U, Q, h, s)
  BY <1>2 DEF Good
<1>4. Truth(U, Q, h)
  BY <1>3 DEF Truth
<1>5. Truth(U, prog, "idle")
  BY DEF Truth
<1> QED
  BY <1>1, <1>4, <1>5

\* A handler whose answer was lost leaves a progress at rest, with the binlog in doubt.
LEMMA LostTruth ==
    ASSUME Types, pc = "handle", NEW Q, HandledOrLost(Q),
           Truth(target', Q, "handled"), Truth(target', prog, "idle")
    PROVE  TruthAfter
<1>1. disk = prog
  BY HandleFacts
<1>2. CASE prog' = Q /\ disk' = disk /\ pc' = "handled"
  BY <1>1, <1>2 DEF TruthAfter
<1>3. CASE prog' = prog /\ disk' = disk /\ pc' = "idle"
  BY <1>1, <1>3 DEF TruthAfter
<1> QED
  BY <1>2, <1>3 DEF HandledOrLost, Volatile, Handled, Fails

\* A table is synced with the binlog when its mark is not before it.
LEMMA SyncedFacts ==
    ASSUME Types, pc = "handle", NEW s \in SourceTables
    PROVE  IsSynced(s) <=> prog.commitSeq <= prog.tableCommitSeqMap[s]
<1>1. /\ prog.commitSeq \in 1..N /\ N \in Nat /\ IsIncrementalSync(prog)
      /\ (prog.syncState = "DBIncrementalSync" => prog.tableCommitSeqMap = NoMap)
  BY HandleFacts, SourceFacts DEF Types, JobOK, Places, SourceOK
<1>2. CASE prog.syncState = "DBIncrementalSync"
  <2>1. prog.tableCommitSeqMap[s] = 0
    BY <1>1, <1>2 DEF NoMap
  <2>2. ~(prog.commitSeq <= 0)
    BY <1>1
  <2> QED
    BY <1>2, <2>1, <2>2 DEF IsSynced
<1>3. CASE prog.syncState = "DBTablesIncrementalSync"
  BY <1>3 DEF IsSynced
<1> QED
  BY <1>1, <1>2, <1>3 DEF IsIncrementalSync

\* The names around the binlog in the handler.
LEMMA NamesAround ==
    ASSUME Types, pc = "handle"
    PROVE  /\ B.kind = "UPSERT" =>
                NameAt(B.table, prog.commitSeq - 1) # Nil
                /\ NameAt(B.table, prog.commitSeq) = NameAt(B.table, prog.commitSeq - 1)
           /\ B.kind = "CREATE_TABLE" =>
                NameAt(B.table, prog.commitSeq - 1) = Nil
                /\ NameAt(B.table, prog.commitSeq) = B.name
                /\ RowsOf(B.table, prog.commitSeq) = {}
           /\ B.kind = "DROP_TABLE" =>
                NameAt(B.table, prog.commitSeq - 1) = B.name /\ B.name # Nil
                /\ NameAt(B.table, prog.commitSeq) = Nil
           /\ B.kind = "RENAME_TABLE" =>
                NameAt(B.table, prog.commitSeq - 1) = B.name /\ B.name # Nil
                /\ NameAt(B.table, prog.commitSeq) = B.newName /\ B.newName # B.name
           /\ B.kind = "REPLACE_TABLE" =>
                NameAt(B.table, prog.commitSeq - 1) = B.name /\ B.name # Nil
                /\ NameAt(B.newTable, prog.commitSeq - 1) = B.newName /\ B.newName # Nil
                /\ NameAt(B.table, prog.commitSeq) = (IF B.swap THEN B.newName ELSE Nil)
                /\ NameAt(B.newTable, prog.commitSeq) = B.name
                /\ B.newTable \in SourceTables /\ B.newTable # B.table
<1>1. /\ prog.commitSeq \in 1..N /\ N \in Nat /\ SourceOK /\ B = log[prog.commitSeq]
      /\ B \in Binlog /\ B.table \in SourceTables
      /\ Follows(B, names[prog.commitSeq], names[prog.commitSeq + 1])
  BY HandleFacts, HandleMarks, SourceFacts DEF Types, SourceOK
<1>2. PICK c, b : c = prog.commitSeq /\ b = B
  OBVIOUS
<1>3. c \in 1..N + 1 /\ (c - 1) + 1 = c
  BY <1>1, <1>2
<1>4. PICK old, new : old = names[c] /\ new = names[c + 1]
  OBVIOUS
<1>5. \A s : NameAt(s, c - 1) = old[s] /\ NameAt(s, c) = new[s]
  BY <1>3, <1>4 DEF NameAt
<1>6. old \in NameMaps /\ Follows(b, old, new) /\ b.table \in SourceTables
  BY <1>1, <1>2, <1>3, <1>4, SourceFacts DEF SourceOK
<1>7. DOMAIN old = SourceTables
  BY <1>6 DEF NameMaps
<1>8. b.kind = "CREATE_TABLE" => RowsOf(b.table, c) = {}
  BY <1>1, <1>2 DEF SourceOK
<1>9. /\ b.kind = "UPSERT" => old[b.table] # Nil /\ new[b.table] = old[b.table]
      /\ b.kind = "CREATE_TABLE" => old[b.table] = Nil /\ new[b.table] = b.name
  BY <1>6, <1>7 DEF Follows
<1>10. /\ b.kind = "DROP_TABLE" => old[b.table] = b.name /\ b.name # Nil /\ new[b.table] = Nil
       /\ b.kind = "RENAME_TABLE" => old[b.table] = b.name /\ b.name # Nil
                                     /\ new[b.table] = b.newName /\ b.newName # b.name
  BY <1>6, <1>7 DEF Follows
<1>11. b.kind = "REPLACE_TABLE" =>
          /\ old[b.table] = b.name /\ b.name # Nil
          /\ old[b.newTable] = b.newName /\ b.newName # Nil
          /\ b.newTable \in SourceTables /\ b.newTable # b.table
          /\ new = [old EXCEPT ![b.table] = IF b.swap THEN b.newName ELSE Nil,
                               ![b.newTable] = b.name]
  BY <1>6 DEF Follows
<1>12. b.kind = "REPLACE_TABLE" =>
          /\ new[b.table] = (IF b.swap THEN b.newName ELSE Nil) /\ new[b.newTable] = b.name
  BY <1>6, <1>7, <1>11
<1> QED
  BY <1>2, <1>5, <1>8, <1>9, <1>10, <1>11, <1>12

\* CREATE TABLE keeps the copies: its table gets one, empty and nobody's.
LEMMA CreateTruth ==
    ASSUME Types, TruthBefore, CreateTable
    PROVE  TruthAfter
<1>1. /\ pc = "handle" /\ B.kind = "CREATE_TABLE" /\ ~IsSynced(B.table)
      /\ HandledOrLost(Mapped(B.table, FreeId(0)))
  BY DEF CreateTable, Handles
<1>2. PICK s, d, c, Q, U : /\ s = B.table /\ d = FreeId(0) /\ c = prog.commitSeq
                           /\ Q = Mapped(s, d) /\ U = target'
  OBVIOUS
<1>3. /\ d \in TargetIds /\ d \notin DOMAIN target
      /\ \A r \in SourceTables : prog.tableMapping[r] # d
  BY <1>2, TypesFresh
<1>4. /\ DOMAIN U = DOMAIN target \cup {d} /\ U[d] = Table(B.name, {})
      /\ \A e \in DOMAIN target : U[e] = target[e]
  BY <1>2, CreateTarget
<1>5. prog \in Progress /\ s \in SourceTables
  BY <1>1, <1>2, HandleFacts
<1>6. Q = [prog EXCEPT !.tableMapping[s] = d]
  BY <1>2 DEF Mapped
<1>7. /\ Q.syncState = prog.syncState /\ Q.commitSeq = prog.commitSeq
      /\ Q.tableCommitSeqMap = prog.tableCommitSeqMap
  BY <1>3, <1>5, <1>6, MapFacts
<1>8. Q.tableMapping = [prog.tableMapping EXCEPT ![s] = d]
  BY <1>5, <1>6 DEF Progress
<1>9. DOMAIN prog.tableMapping = SourceTables
  BY <1>5 DEF Progress
<1>10. /\ Q.tableMapping[s] = d
       /\ \A r \in SourceTables : r # s => Q.tableMapping[r] = prog.tableMapping[r]
  BY <1>5, <1>8, <1>9
<1>11. Truth(target, prog, "handle")
  BY <1>1 DEF TruthBefore
<1>12. Owned(U, prog.tableMapping)
  <2>1. Owned(target, prog.tableMapping)
    BY <1>11 DEF Truth
  <2>2. \A r \in SourceTables : prog.tableMapping[r] \in DOMAIN U =>
          /\ prog.tableMapping[r] \in DOMAIN target
          /\ U[prog.tableMapping[r]].rows = target[prog.tableMapping[r]].rows
    BY <1>3, <1>4
  <2> QED
    BY <2>1, <2>2, OwnedStays
<1>13. Owned(U, Q.tableMapping)
  <2>1. U[d].rows = {}
    BY <1>4 DEF Table
  <2>2. PICK m, w : m = prog.tableMapping /\ w = Q.tableMapping
    OBVIOUS
  <2>3. Owned(U, m) /\ \A t \in SourceTables : t # s => w[t] = m[t]
    BY <1>10, <1>12, <2>2
  <2>4. w[s] = d /\ (\A t \in SourceTables : m[t] # d)
    BY <1>3, <1>10, <2>2
  <2>5. Owned(U, w)
    BY <1>5, <2>1, <2>3, <2>4, OwnedChanges
  <2> QED
    BY <2>2, <2>5
<1>14. ASSUME NEW r \in SourceTables
       PROVE  /\ InPlace(U, Q, r, Later(prog.tableCommitSeqMap[r], prog.commitSeq))
              /\ Good(U, prog, "idle", r)
  <2>1. CASE r # s
    <3>1. Untouched(r)
      BY <1>1, <1>2, <2>1 DEF Untouched
    <3>2. Q.tableMapping[r] = prog.tableMapping[r]
      BY <1>10, <2>1
    <3>3. prog.tableMapping[r] \in DOMAIN target =>
            /\ prog.tableMapping[r] \in DOMAIN U
            /\ U[prog.tableMapping[r]] = target[prog.tableMapping[r]]
      BY <1>4
    <3>4. B.kind = "REPLACE_TABLE" => ~IsUnknown
      BY <1>1
    <3> QED
      BY <1>1, <1>11, <3>1, <3>2, <3>3, <3>4, OthersGood
  <2>2. CASE r = s
    <3>1. ~(prog.commitSeq <= prog.tableCommitSeqMap[s])
      BY <1>1, <1>2, <1>5, SyncedFacts
    <3>2. /\ Later(prog.tableCommitSeqMap[s], prog.commitSeq) = c
          /\ Later(prog.tableCommitSeqMap[s], prog.prevCommitSeq) = c - 1
      BY <1>1, <1>2, <1>5, <1>11, <3>1, TouchedBefore
    <3>3. NameAt(s, c - 1) = Nil /\ NameAt(s, c) = B.name /\ RowsOf(s, c) = {}
      BY <1>1, <1>2, NamesAround
    <3>4. IsCopy(U, d, s, c)
      BY <1>4, <3>3 DEF IsCopy, Table
    <3>5. InPlace(U, Q, s, Later(prog.tableCommitSeqMap[s], prog.commitSeq))
      BY <1>10, <3>2, <3>4 DEF InPlace
    <3>6. InPlace(U, prog, s, Later(prog.tableCommitSeqMap[s], prog.prevCommitSeq))
      BY <3>2, <3>3 DEF InPlace
    <3>7. Good(U, prog, "idle", s)
      BY <1>1, <1>5, <3>6, DiskGood
    <3> QED
      BY <2>2, <3>5, <3>7
  <2> QED
    BY <2>1, <2>2
<1>15. Truth(U, Q, "handled") /\ Truth(U, prog, "idle")
  BY <1>1, <1>7, <1>11, <1>12, <1>13, <1>14, HandlerTruth
<1> QED
  BY <1>1, <1>2, <1>15, LostTruth

\* Another copy for one table.
LEMMA MappedFacts ==
    ASSUME prog \in Progress, NEW s \in SourceTables, NEW d \in TargetIds \cup {NoTarget},
           NEW Q, Q = Mapped(s, d)
    PROVE  /\ Q.syncState = prog.syncState /\ Q.commitSeq = prog.commitSeq
           /\ Q.tableCommitSeqMap = prog.tableCommitSeqMap
           /\ Q.tableMapping[s] = d
           /\ \A r \in SourceTables : r # s => Q.tableMapping[r] = prog.tableMapping[r]
<1>1. Q = [prog EXCEPT !.tableMapping[s] = d]
  BY DEF Mapped
<1>2. /\ Q.syncState = prog.syncState /\ Q.commitSeq = prog.commitSeq
      /\ Q.tableCommitSeqMap = prog.tableCommitSeqMap
  BY <1>1, MapFacts
<1>3. /\ Q.tableMapping = [prog.tableMapping EXCEPT ![s] = d]
      /\ DOMAIN prog.tableMapping = SourceTables
  BY <1>1 DEF Progress
<1> QED
  BY <1>2, <1>3

\* A table that exists has the name that its own source table has, or nobody has its name.
LEMMA NamedByItself ==
    ASSUME Types, NEW s \in SourceTables, NEW n, Exists(n), IdOf(n) = prog.tableMapping[s],
           Owned(target, prog.tableMapping)
    PROVE  \A r \in SourceTables : r # s /\ prog.tableMapping[r] \in DOMAIN target =>
              prog.tableMapping[r] # IdOf(n) /\ target[prog.tableMapping[r]].name # n
<1>1. IdOf(n) \in DOMAIN target /\ target[IdOf(n)].name = n
  BY IdOfFacts
<1>2. TargetOK(target)
  BY DEF Types
<1> QED
  BY <1>1, <1>2 DEF Owned, TargetOK

\* Nothing is mapped to NoTarget.
LEMMA NoTargetIsNone ==
    ASSUME NEW T, TargetOK(T)
    PROVE  NoTarget \notin DOMAIN T
BY IdsFinite DEF TargetOK

\* DROP TABLE keeps the copies: the table of that name is the copy of the dropped one.
LEMMA DropTruth ==
    ASSUME Types, TruthBefore, DropTable
    PROVE  TruthAfter
<1>1. /\ pc = "handle" /\ B.kind = "DROP_TABLE" /\ ~IsSynced(B.table)
      /\ IsMapped(B.table) /\ HandledOrLost(Mapped(B.table, NoTarget)) /\ target' = Without(B.name)
  BY DEF DropTable, Handles, Unmapped
<1>2. PICK s, d, c, Q, U, n, o : /\ s = B.table /\ d = prog.tableMapping[s] /\ c = prog.commitSeq
                                 /\ Q = Mapped(s, o) /\ U = target' /\ n = B.name /\ o = NoTarget
  OBVIOUS
<1>3. prog \in Progress /\ s \in SourceTables /\ TargetOK(target) /\ o \in TargetIds \cup {NoTarget}
  BY <1>1, <1>2, HandleFacts DEF Types
<1>4. /\ DOMAIN U = {e \in DOMAIN target : target[e].name # n}
      /\ \A e \in DOMAIN U : U[e] = target[e]
  BY <1>1, <1>2, <1>3, WithoutFacts
<1>5. /\ Q.syncState = prog.syncState /\ Q.commitSeq = prog.commitSeq
      /\ Q.tableCommitSeqMap = prog.tableCommitSeqMap
  BY <1>2, <1>3, MappedFacts
<1>6. /\ Q.tableMapping[s] = o
      /\ \A r \in SourceTables : r # s => Q.tableMapping[r] = prog.tableMapping[r]
  BY <1>2, <1>3, MappedFacts
<1>7. Truth(target, prog, "handle")
  BY <1>1 DEF TruthBefore
<1>8. Owned(target, prog.tableMapping)
  BY <1>7 DEF Truth
<1>9. d # NoTarget /\ (Exists(n) => IdOf(n) = d)
  <2>1. d # NoTarget
    BY <1>1, <1>2 DEF IsMapped
  <2>2. ~(prog.commitSeq <= prog.tableCommitSeqMap[s])
    BY <1>1, <1>2, <1>3, SyncedFacts
  <2>3. \/ NameAt(s, c - 1) = Nil
        \/ IsCopy(target, d, s, c - 1)
        \/ Half(target, prog, s)
    BY <1>1, <1>2, <1>3, <1>7, <2>2, TouchedBefore
  <2>4. NameAt(s, c - 1) = n /\ n # Nil
    BY <1>1, <1>2, NamesAround
  <2>5. CASE IsCopy(target, d, s, c - 1)
    <3>1. d \in DOMAIN target /\ target[d].name = n
      BY <2>4, <2>5 DEF IsCopy
    <3>2. IdOf(n) = d
      BY <1>3, <3>1, IdOfUnique
    <3> QED
      BY <2>1, <3>2
  <2>6. CASE Half(target, prog, s)
    <3>1. /\ log[prog.prevCommitSeq + 1].kind = "DROP_TABLE"
          /\ log[prog.prevCommitSeq + 1].name = n
      BY <1>1, <1>2, HandleMarks
    <3>2. ~Exists(n)
      BY <2>6, <3>1 DEF Half, Exists
    <3> QED
      BY <2>1, <3>2
  <2> QED
    BY <2>3, <2>4, <2>5, <2>6
<1>10. \A r \in SourceTables : r # s /\ prog.tableMapping[r] \in DOMAIN target =>
         target[prog.tableMapping[r]].name # n
  <2>1. CASE Exists(n)
    BY <1>2, <1>3, <1>8, <1>9, <2>1, NamedByItself
  <2>2. CASE ~Exists(n)
    BY <2>2 DEF Exists
  <2> QED
    BY <2>1, <2>2
<1>11. Owned(U, prog.tableMapping)
  <2>1. \A r \in SourceTables : prog.tableMapping[r] \in DOMAIN U =>
          /\ prog.tableMapping[r] \in DOMAIN target
          /\ U[prog.tableMapping[r]].rows = target[prog.tableMapping[r]].rows
    BY <1>4
  <2> QED
    BY <1>8, <2>1, OwnedStays
<1>12. Owned(U, Q.tableMapping)
  <2>1. PICK m, w : m = prog.tableMapping /\ w = Q.tableMapping
    OBVIOUS
  <2>2. Owned(U, m) /\ \A t \in SourceTables : t # s => w[t] = m[t]
    BY <1>6, <1>11, <2>1
  <2>3. w[s] \notin DOMAIN U
    BY <1>2, <1>3, <1>4, <1>6, <2>1, NoTargetIsNone
  <2>4. Owned(U, w)
    BY <1>3, <2>2, <2>3, OwnedChanges
  <2> QED
    BY <2>1, <2>4
<1>13. ASSUME NEW r \in SourceTables
       PROVE  /\ InPlace(U, Q, r, Later(prog.tableCommitSeqMap[r], prog.commitSeq))
              /\ Good(U, prog, "idle", r)
  <2>1. CASE r # s
    <3>1. Untouched(r)
      BY <1>1, <1>2, <2>1 DEF Untouched
    <3>2. Q.tableMapping[r] = prog.tableMapping[r]
      BY <1>6, <2>1
    <3>3. prog.tableMapping[r] \in DOMAIN target =>
            /\ prog.tableMapping[r] \in DOMAIN U
            /\ U[prog.tableMapping[r]] = target[prog.tableMapping[r]]
      BY <1>4, <1>10, <2>1
    <3>4. B.kind = "REPLACE_TABLE" => ~IsUnknown
      BY <1>1
    <3> QED
      BY <1>1, <1>7, <3>1, <3>2, <3>3, <3>4, OthersGood
  <2>2. CASE r = s
    <3>1. ~(prog.commitSeq <= prog.tableCommitSeqMap[s])
      BY <1>1, <1>2, <1>3, SyncedFacts
    <3>2. /\ Later(prog.tableCommitSeqMap[s], prog.commitSeq) = c
          /\ prog.tableCommitSeqMap[s] <= prog.prevCommitSeq
      BY <1>1, <1>2, <1>3, <1>7, <3>1, TouchedBefore
    <3>3. \/ NameAt(s, c - 1) = Nil
          \/ IsCopy(target, d, s, c - 1)
          \/ Half(target, prog, s)
      BY <1>1, <1>2, <1>3, <1>7, <3>1, TouchedBefore
    <3>4. NameAt(s, c - 1) = n /\ n # Nil /\ NameAt(s, c) = Nil
      BY <1>1, <1>2, NamesAround
    <3>5. InPlace(U, Q, s, Later(prog.tableCommitSeqMap[s], prog.commitSeq))
      BY <3>2, <3>4 DEF InPlace
    <3>6. d \notin DOMAIN U
      <4>1. CASE Exists(n)
        BY <1>4, <1>9, <4>1, IdOfFacts
      <4>2. CASE ~Exists(n)
        <5>1. Half(target, prog, s)
          BY <3>3, <3>4, <4>2 DEF IsCopy, Exists
        <5>2. log[prog.prevCommitSeq + 1].kind = "DROP_TABLE"
          BY <1>1, HandleMarks
        <5>3. d \notin DOMAIN target
          BY <1>2, <5>1, <5>2 DEF Half
        <5> QED
          BY <1>4, <5>3
      <4> QED
        BY <4>1, <4>2
    <3>7. Half(U, prog, s)
      <4>1. /\ log[prog.prevCommitSeq + 1].kind = "DROP_TABLE"
            /\ log[prog.prevCommitSeq + 1].table = s /\ log[prog.prevCommitSeq + 1].name = n
        BY <1>1, <1>2, HandleMarks
      <4>2. \A e \in DOMAIN U : U[e].name # n
        BY <1>4
      <4> QED
        BY <1>2, <1>9, <3>2, <3>6, <4>1, <4>2 DEF Half
    <3>8. Good(U, prog, "idle", s)
      BY <1>1, <1>3, <3>7, DiskGood
    <3> QED
      BY <2>2, <3>5, <3>8
  <2> QED
    BY <2>1, <2>2
<1>14. Truth(U, Q, "handled") /\ Truth(U, prog, "idle")
  BY <1>1, <1>5, <1>7, <1>11, <1>12, <1>13, HandlerTruth
<1> QED
  BY <1>1, <1>2, <1>14, LostTruth

\* A table without a copy is not dropped.
LEMMA DropUnknownTruth ==
    ASSUME Types, TruthBefore
    PROVE  ~DropUnknownTable
<1>1. SUFFICES ASSUME DropUnknownTable
               PROVE  FALSE
  OBVIOUS
<1>2. /\ pc = "handle" /\ B.kind = "DROP_TABLE" /\ ~IsSynced(B.table) /\ ~IsMapped(B.table)
  BY <1>1 DEF DropUnknownTable, Handles
<1>3. PICK s, d, c : s = B.table /\ d = prog.tableMapping[s] /\ c = prog.commitSeq
  OBVIOUS
<1>4. s \in SourceTables /\ TargetOK(target) /\ Truth(target, prog, "handle")
  BY <1>2, <1>3, HandleFacts DEF Types, TruthBefore
<1>5. d = NoTarget /\ d \notin DOMAIN target
  BY <1>2, <1>3, <1>4, NoTargetIsNone DEF IsMapped
<1>6. ~(prog.commitSeq <= prog.tableCommitSeqMap[s])
  BY <1>2, <1>3, <1>4, SyncedFacts
<1>7. \/ NameAt(s, c - 1) = Nil
      \/ IsCopy(target, d, s, c - 1)
      \/ Half(target, prog, s)
  BY <1>2, <1>3, <1>4, <1>6, TouchedBefore
<1>8. NameAt(s, c - 1) # Nil
  BY <1>2, <1>3, NamesAround
<1>9. Half(target, prog, s)
  BY <1>5, <1>7, <1>8 DEF IsCopy
<1>10. log[prog.prevCommitSeq + 1].kind = "DROP_TABLE"
  BY <1>2, HandleMarks
<1> QED
  BY <1>3, <1>5, <1>9, <1>10 DEF Half

\* Who owns what depends on the mapping of the source tables only.
LEMMA OwnedSame ==
    ASSUME NEW U, NEW m, Owned(U, m), NEW w, \A t \in SourceTables : w[t] = m[t]
    PROVE  Owned(U, w)
BY DEF Owned

\* A RENAME that is not at the target renames the copy of its table.
LEMMA RenameTruth ==
    ASSUME Types, TruthBefore, RenameTable
    PROVE  TruthAfter
<1>1. /\ pc = "handle" /\ B.kind = "RENAME_TABLE" /\ ~IsSynced(B.table)
      /\ ~Exists(B.newName) /\ HandledOrLost(Mapped(B.table, DestTableId(B.table)))
  BY DEF RenameTable, Handles, CanRename
<1>2. PICK s, d, c, Q, U, e : /\ s = B.table /\ d = prog.tableMapping[s] /\ c = prog.commitSeq
                              /\ Q = Mapped(s, d) /\ U = target' /\ e = IdOf(B.name)
  OBVIOUS
<1>3. prog \in Progress /\ s \in SourceTables /\ TargetOK(target)
  BY <1>1, <1>2, HandleFacts DEF Types
<1>4. /\ DOMAIN U = DOMAIN target
      /\ U[e].name = B.newName /\ U[e].rows = target[e].rows
      /\ \A f \in DOMAIN target : f # e => U[f] = target[f]
  BY <1>2, RenameTarget
<1>5. Truth(target, prog, "handle")
  BY <1>1 DEF TruthBefore
<1>6. Owned(target, prog.tableMapping)
  BY <1>5 DEF Truth
<1>7. ~(prog.commitSeq <= prog.tableCommitSeqMap[s])
  BY <1>1, <1>2, <1>3, SyncedFacts
<1>8. /\ Later(prog.tableCommitSeqMap[s], prog.commitSeq) = c
      /\ prog.tableCommitSeqMap[s] <= prog.prevCommitSeq
  BY <1>1, <1>2, <1>3, <1>5, <1>7, TouchedBefore
<1>9. \/ NameAt(s, c - 1) = Nil
      \/ IsCopy(target, d, s, c - 1)
      \/ Half(target, prog, s)
  BY <1>1, <1>2, <1>3, <1>5, <1>7, TouchedBefore
<1>10. NameAt(s, c - 1) = B.name /\ B.name # Nil /\ NameAt(s, c) = B.newName
  BY <1>1, <1>2, NamesAround
<1>11. c = prog.prevCommitSeq + 1 /\ c \in 1..N /\ B = log[c] /\ SourceOK
  BY <1>1, <1>2, HandleMarks DEF Types
<1>12. ~Half(target, prog, s)
  <2>1. SUFFICES ASSUME Half(target, prog, s)
                 PROVE  FALSE
    OBVIOUS
  <2>2. IsCopy(target, d, s, c)
    BY <1>1, <1>2, <1>11, <2>1 DEF Half
  <2> QED
    BY <1>1, <1>10, <2>2 DEF IsCopy, Exists
<1>13. IsCopy(target, d, s, c - 1)
  BY <1>9, <1>10, <1>12
<1>14. d \in DOMAIN target /\ target[d].name = B.name
  BY <1>10, <1>13 DEF IsCopy
<1>15. d = e /\ Exists(B.name)
  <2>1. PICK n : n = B.name
    OBVIOUS
  <2>2. Exists(n) /\ IdOf(n) = d
    BY <1>3, <1>14, <2>1, IdOfUnique
  <2> QED
    BY <1>2, <2>1, <2>2
<1>16. d # NoTarget /\ d \in TargetIds \cup {NoTarget}
  BY <1>3, <1>14, NoTargetIsNone DEF TargetOK
<1>17. DestTableId(s) = d
  BY <1>2, <1>16 DEF DestTableId, IsMapped
<1>18. /\ Q.syncState = prog.syncState /\ Q.commitSeq = prog.commitSeq
       /\ Q.tableCommitSeqMap = prog.tableCommitSeqMap
  BY <1>2, <1>3, <1>16, MappedFacts
<1>19. /\ Q.tableMapping[s] = d
       /\ \A r \in SourceTables : r # s => Q.tableMapping[r] = prog.tableMapping[r]
  BY <1>2, <1>3, <1>16, MappedFacts
<1>20. Owned(U, prog.tableMapping)
  <2>1. \A r \in SourceTables : prog.tableMapping[r] \in DOMAIN U =>
          /\ prog.tableMapping[r] \in DOMAIN target
          /\ U[prog.tableMapping[r]].rows = target[prog.tableMapping[r]].rows
    BY <1>4
  <2> QED
    BY <1>6, <2>1, OwnedStays
<1>21. Owned(U, Q.tableMapping)
  <2>1. PICK m, w : m = prog.tableMapping /\ w = Q.tableMapping
    OBVIOUS
  <2>2. Owned(U, m) /\ \A t \in SourceTables : w[t] = m[t]
    BY <1>2, <1>19, <1>20, <2>1
  <2>3. Owned(U, w)
    BY <2>2, OwnedSame
  <2> QED
    BY <2>1, <2>3
<1>22. \A r \in SourceTables : r # s /\ prog.tableMapping[r] \in DOMAIN target =>
         prog.tableMapping[r] # e
  BY <1>2, <1>3, <1>6, <1>14, <1>15 DEF Owned
<1>23. ASSUME NEW r \in SourceTables
       PROVE  /\ InPlace(U, Q, r, Later(prog.tableCommitSeqMap[r], prog.commitSeq))
              /\ Good(U, prog, "idle", r)
  <2>1. CASE r # s
    <3>1. Untouched(r)
      BY <1>1, <1>2, <2>1 DEF Untouched
    <3>2. Q.tableMapping[r] = prog.tableMapping[r]
      BY <1>19, <2>1
    <3>3. prog.tableMapping[r] \in DOMAIN target =>
            /\ prog.tableMapping[r] \in DOMAIN U
            /\ U[prog.tableMapping[r]] = target[prog.tableMapping[r]]
      BY <1>4, <1>22, <2>1
    <3>4. B.kind = "REPLACE_TABLE" => ~IsUnknown
      BY <1>1
    <3> QED
      BY <1>1, <1>5, <3>1, <3>2, <3>3, <3>4, OthersGood
  <2>2. CASE r = s
    <3>1. U[d].name = NameAt(s, c) /\ U[d].rows = target[d].rows /\ d \in DOMAIN U
      BY <1>4, <1>10, <1>14, <1>15
    <3>2. log[c].kind # "UPSERT" /\ NameAt(s, c - 1) # Nil
      BY <1>1, <1>10, <1>11
    <3>3. IsCopy(U, d, s, c)
      BY <1>3, <1>11, <1>13, <3>1, <3>2, CopyMoves
    <3>4. InPlace(U, Q, s, Later(prog.tableCommitSeqMap[s], prog.commitSeq))
      BY <1>8, <1>19, <3>3 DEF InPlace
    <3>5. Half(U, prog, s)
      BY <1>1, <1>2, <1>8, <1>11, <3>3 DEF Half
    <3>6. Good(U, prog, "idle", s)
      BY <1>1, <1>3, <3>5, DiskGood
    <3> QED
      BY <2>2, <3>4, <3>6
  <2> QED
    BY <2>1, <2>2
<1>24. Truth(U, Q, "handled") /\ Truth(U, prog, "idle")
  BY <1>1, <1>5, <1>18, <1>20, <1>21, <1>23, HandlerTruth
<1>25. HandledOrLost(Q)
  BY <1>1, <1>2, <1>17
<1> QED
  BY <1>1, <1>2, <1>24, <1>25, LostTruth

\* A RENAME that is skipped since the new name exists is at the target.
LEMMA CommittedRename ==
    ASSUME Types, TruthBefore, pc = "handle", IsRenameTableCommitted, ~NamesAnother,
           ~IsSynced(B.table)
    PROVE  IsCopy(target, prog.tableMapping[B.table], B.table, prog.commitSeq)
<1>1. B.kind = "RENAME_TABLE" /\ Exists(B.newName)
  BY DEF IsRenameTableCommitted
<1>2. PICK s, d, c, n : /\ s = B.table /\ d = prog.tableMapping[s] /\ c = prog.commitSeq
                        /\ n = B.newName
  OBVIOUS
<1>3. s \in SourceTables /\ TargetOK(target) /\ Truth(target, prog, "handle")
  BY <1>2, HandleFacts DEF Types, TruthBefore
<1>4. ~(prog.commitSeq <= prog.tableCommitSeqMap[s])
  BY <1>2, <1>3, SyncedFacts
<1>5. \/ NameAt(s, c - 1) = Nil
      \/ IsCopy(target, d, s, c - 1)
      \/ Half(target, prog, s)
  BY <1>2, <1>3, <1>4, TouchedBefore
<1>6. NameAt(s, c - 1) = B.name /\ B.name # Nil /\ B.newName # B.name
  BY <1>1, <1>2, NamesAround
<1>7. ~IsCopy(target, d, s, c - 1)
  <2>1. SUFFICES ASSUME IsCopy(target, d, s, c - 1)
                 PROVE  FALSE
    OBVIOUS
  <2>2. d \in DOMAIN target /\ target[d].name = B.name
    BY <1>6, <2>1 DEF IsCopy
  <2>3. d # NoTarget
    BY <1>3, <2>2, NoTargetIsNone
  <2>4. IdOf(n) = d
    BY <1>1, <1>2, <2>3 DEF NamesAnother, Misnames, IsMapped
  <2>5. target[d].name = n
    BY <1>1, <1>2, <2>4, IdOfFacts
  <2> QED
    BY <1>2, <1>6, <2>2, <2>5
<1>8. Half(target, prog, s)
  BY <1>5, <1>6, <1>7
<1>9. c = prog.prevCommitSeq + 1 /\ B = log[c]
  BY <1>2, HandleMarks
<1> QED
  BY <1>1, <1>2, <1>8, <1>9 DEF Half

\* A handler that skips its binlog keeps the copies when each is past the binlog.
LEMMA PassTruth ==
    ASSUME Types, TruthBefore, pc = "handle", UNCHANGED <<target, prog, disk>>, pc' = "handled",
           \A s \in SourceTables :
             InPlace(target, prog, s, Later(prog.tableCommitSeqMap[s], prog.commitSeq))
    PROVE  TruthAfter
<1>1. disk = prog /\ prog.syncState # "DBFullSync"
  BY HandleFacts, HandleMarks
<1>2. Truth(target, prog, "handle") /\ Truth(target, prog, "idle")
  BY <1>1 DEF TruthBefore
<1>3. \A s \in SourceTables : Good(target, prog, "idle", s)
  BY <1>1, <1>2 DEF Truth
<1>4. Owned(target, prog.tableMapping)
  BY <1>2 DEF Truth
<1>5. Truth(target, prog, "handled")
  BY <1>2, <1>3, <1>4, HandlerTruth
<1> QED
  BY <1>1, <1>2, <1>5 DEF TruthAfter

\* A binlog is skipped when its table is ahead of it, or its rename is at the target.
LEMMA SkipTruth ==
    ASSUME Types, TruthBefore, SkipBinlog, ~NamesAnother, ~FiltersHalf
    PROVE  TruthAfter
<1>1. /\ pc = "handle" /\ ~IsReplaceUnknown /\ (IsRenameTableCommitted \/ IsSynced(B.table))
      /\ UNCHANGED <<target, prog, disk>> /\ pc' = "handled"
  BY DEF SkipBinlog, Handled
<1>2. Truth(target, prog, "handle") /\ B.table \in SourceTables
  BY <1>1, HandleFacts DEF TruthBefore
<1>3. B.kind = "REPLACE_TABLE" => ~IsUnknown
  BY <1>1 DEF IsReplaceUnknown
<1>4. ASSUME NEW s \in SourceTables
      PROVE  InPlace(target, prog, s, Later(prog.tableCommitSeqMap[s], prog.commitSeq))
  <2>1. CASE Untouched(s)
    BY <1>1, <1>2, <1>3, <2>1, UntouchedInPlace
  <2>2. CASE ~Untouched(s)
    <3>1. ~(prog.commitSeq <= prog.tableCommitSeqMap[s]) /\ ~IsSynced(s)
      BY <1>1, <2>2, SyncedFacts DEF Untouched
    <3>2. s = B.table \/ (B.kind = "REPLACE_TABLE" /\ s = B.newTable)
      BY <2>2 DEF Untouched
    <3>3. IsRenameTableCommitted /\ s = B.table
      BY <1>1, <3>1, <3>2 DEF FiltersHalf, IsRenameTableCommitted
    <3>4. IsCopy(target, prog.tableMapping[B.table], B.table, prog.commitSeq)
      BY <1>1, <3>1, <3>3, CommittedRename
    <3>5. Later(prog.tableCommitSeqMap[s], prog.commitSeq) = prog.commitSeq
      BY <1>1, <1>2, <3>1, TouchedBefore
    <3> QED
      BY <3>3, <3>4, <3>5 DEF InPlace
  <2> QED
    BY <2>1, <2>2
<1> QED
  BY <1>1, <1>4, PassTruth

\* A REPLACE is skipped when both its tables are ahead of it.
LEMMA ReplaceSkippedTruth ==
    ASSUME Types, TruthBefore, ReplaceSkipped
    PROVE  TruthAfter
<1>1. /\ pc = "handle" /\ B.kind = "REPLACE_TABLE" /\ ~IsReplaceUnknown
      /\ IsSynced(B.newTable) /\ ~B.swap /\ ~IsSynced(B.table)
      /\ UNCHANGED <<target, prog, disk>> /\ pc' = "handled"
  BY DEF ReplaceSkipped, Handles, Handled
<1>2. Truth(target, prog, "handle") /\ B.table \in SourceTables
  BY <1>1, HandleFacts DEF TruthBefore
<1>3. B.kind = "REPLACE_TABLE" => ~IsUnknown
  BY <1>1 DEF IsReplaceUnknown
<1>4. ASSUME NEW s \in SourceTables
      PROVE  InPlace(target, prog, s, Later(prog.tableCommitSeqMap[s], prog.commitSeq))
  <2>1. CASE Untouched(s)
    BY <1>1, <1>2, <1>3, <2>1, UntouchedInPlace
  <2>2. CASE ~Untouched(s)
    <3>1. ~(prog.commitSeq <= prog.tableCommitSeqMap[s]) /\ ~IsSynced(s)
      BY <1>1, <2>2, SyncedFacts DEF Untouched
    <3>2. s = B.table
      BY <1>1, <2>2, <3>1 DEF Untouched
    <3>3. NameAt(s, prog.commitSeq) = Nil
      BY <1>1, <3>2, NamesAround
    <3>4. Later(prog.tableCommitSeqMap[s], prog.commitSeq) = prog.commitSeq
      BY <1>1, <1>2, <3>1, TouchedBefore
    <3> QED
      BY <3>3, <3>4 DEF InPlace
  <2> QED
    BY <2>1, <2>2
<1> QED
  BY <1>1, <1>4, PassTruth

\* A snapshot of the table of the binlog is asked for.
LEMMA AskTruth ==
    ASSUME Types, TruthBefore, pc = "handle", UNCHANGED target,
           NEW n \in Names, NEW replace \in BOOLEAN, NewPartialSnapshot(B.table, n, replace),
           B.kind = "REPLACE_TABLE" => ~IsUnknown /\ IsSynced(B.newTable)
    PROVE  TruthAfter
<1>1. PICK b : b = B.table
  OBVIOUS
<1>2. b \in SourceTables /\ prog \in Progress /\ Truth(target, prog, "handle")
  BY <1>1, HandleFacts DEF TruthBefore
<1>3. PICK Q \in Progress :
        /\ prog' = Q /\ disk' = Q /\ pc' = "idle"
        /\ Q.syncState = "DBPartialSync" /\ Q.commitSeq = prog.commitSeq
        /\ Q.tableCommitSeqMap = prog.tableCommitSeqMap
        /\ Q.tableMapping = prog.tableMapping /\ Q.partialSyncData.table = b
  BY <1>1, <1>2, NewPartialSnapshotFacts
<1>4. PICK i : i = "idle"
  OBVIOUS
<1>5. Base(Q, i) = prog.commitSeq
  BY <1>3 DEF Base
<1>6. ASSUME NEW s \in SourceTables
      PROVE  Good(target, Q, i, s)
  <2>1. CASE s = b
    BY <1>3, <2>1 DEF Good
  <2>2. CASE s # b
    <3>1. Untouched(s)
      BY <1>1, <2>2, SyncedFacts DEF Untouched
    <3>2. InPlace(target, prog, s, Later(prog.tableCommitSeqMap[s], prog.commitSeq))
      BY <1>2, <3>1, UntouchedInPlace
    <3>3. InPlace(target, Q, s, Later(Q.tableCommitSeqMap[s], Base(Q, i)))
      BY <1>3, <1>5, <3>2 DEF InPlace
    <3> QED
      BY <3>3 DEF Good
  <2> QED
    BY <2>1, <2>2
<1>7. Truth(target, Q, i)
  BY <1>2, <1>3, <1>6 DEF Truth
<1> QED
  BY <1>3, <1>4, <1>7 DEF TruthAfter

\* The handlers that ask for a snapshot of one table keep the copies.
LEMMA AskedTruth ==
    ASSUME Types, TruthBefore, CreateExistingTable \/ ReplaceBySnapshot \/ RestoreChangedTable
    PROVE  TruthAfter
<1>1. pc = "handle" /\ UNCHANGED target
  BY DEF CreateExistingTable, ReplaceBySnapshot, RestoreChangedTable, Handles
<1>2. CASE CreateExistingTable \/ RestoreChangedTable
  <2>1. /\ B.kind \in {"CREATE_TABLE", "RECOVER_INFO", "ALTER_JOB"}
        /\ NewPartialSnapshot(B.table, B.name, TRUE)
    BY <1>2 DEF CreateExistingTable, RestoreChangedTable, Handles
  <2>2. B.name \in Names
    BY <1>1, <2>1, BinlogNames
  <2>3. B.kind # "REPLACE_TABLE"
    BY <2>1
  <2>4. PICK n, x : n = B.name /\ x = TRUE
    OBVIOUS
  <2>5. n \in Names /\ x \in BOOLEAN /\ NewPartialSnapshot(B.table, n, x)
    BY <2>1, <2>2, <2>4
  <2> QED
    BY <1>1, <2>3, <2>5, AskTruth
<1>3. CASE ReplaceBySnapshot
  <2>1. /\ B.kind = "REPLACE_TABLE" /\ ~IsReplaceUnknown /\ IsSynced(B.newTable)
        /\ NewPartialSnapshot(B.table, B.newName, FALSE)
    BY <1>3 DEF ReplaceBySnapshot, Handles
  <2>2. B.newName \in Names
    BY <1>1, <2>1, BinlogNames
  <2>3. B.kind = "REPLACE_TABLE" => ~IsUnknown /\ IsSynced(B.newTable)
    BY <2>1 DEF IsReplaceUnknown
  <2>4. PICK n, x : n = B.newName /\ x = FALSE
    OBVIOUS
  <2>5. n \in Names /\ x \in BOOLEAN /\ NewPartialSnapshot(B.table, n, x)
    BY <2>1, <2>2, <2>4
  <2> QED
    BY <1>1, <2>3, <2>5, AskTruth
<1> QED
  BY <1>2, <1>3

\* A full sync starts from the mapping as it is, and looks at no name of it.
LEMMA SnapshotTruth ==
    ASSUME Types, TruthBefore, UNCHANGED target, NEW seq \in Seqs, NewSnapshot(seq)
    PROVE  TruthAfter
<1>1. prog \in Progress /\ Truth(target, prog, pc)
  BY DEF Types, JobOK, TruthBefore
<1>2. PICK Q \in Progress :
        /\ prog' = Q /\ disk' = Q /\ pc' = "idle" /\ Q.syncState = "DBFullSync"
        /\ Q.tableCommitSeqMap = prog.tableCommitSeqMap /\ Q.tableMapping = prog.tableMapping
  BY <1>1, NewSnapshotFacts
<1>3. Truth(target, Q, "idle")
  BY <1>1, <1>2 DEF Truth
<1> QED
  BY <1>2, <1>3 DEF TruthAfter

\* A REPLACE that is not in doubt finds the two copies under the two names.
LEMMA ReplaceBefore ==
    ASSUME Types, TruthBefore, ReplaceTable
    PROVE  /\ pc = "handle" /\ B.kind = "REPLACE_TABLE" /\ ~IsUnknown
           /\ B.table \in SourceTables /\ B.newTable \in SourceTables
           /\ Truth(target, prog, "handle")
           /\ ~(prog.commitSeq <= prog.tableCommitSeqMap[B.table])
           /\ ~(prog.commitSeq <= prog.tableCommitSeqMap[B.newTable])
           /\ IsCopy(target, prog.tableMapping[B.table], B.table, prog.commitSeq - 1)
           /\ IsCopy(target, prog.tableMapping[B.newTable], B.newTable, prog.commitSeq - 1)
           /\ prog.tableMapping[B.table] = IdOf(B.name)
           /\ prog.tableMapping[B.newTable] = IdOf(B.newName)
<1>1. /\ pc = "handle" /\ B.kind = "REPLACE_TABLE" /\ ~IsUnknown
      /\ ~IsSynced(B.table) /\ ~IsSynced(B.newTable)
  BY DEF ReplaceTable, Handles, IsReplaceUnknown
<1>2. PICK s, t, n, w, c : /\ s = B.table /\ t = B.newTable /\ n = B.name /\ w = B.newName
                           /\ c = prog.commitSeq
  OBVIOUS
<1>3. s \in SourceTables /\ Truth(target, prog, "handle") /\ TargetOK(target)
  BY <1>1, <1>2, HandleFacts DEF TruthBefore, Types
<1>4. /\ NameAt(s, c - 1) = n /\ n # Nil
      /\ NameAt(t, c - 1) = w /\ w # Nil /\ t \in SourceTables
  BY <1>1, <1>2, NamesAround
<1>5. /\ ~(prog.commitSeq <= prog.tableCommitSeqMap[s])
      /\ ~(prog.commitSeq <= prog.tableCommitSeqMap[t])
  BY <1>1, <1>2, <1>3, <1>4, SyncedFacts
<1>6. IsCopy(target, prog.tableMapping[s], s, c - 1)
  BY <1>1, <1>2, <1>3, <1>4, <1>5, TouchedBefore
<1>7. IsCopy(target, prog.tableMapping[t], t, c - 1)
  BY <1>1, <1>2, <1>3, <1>4, <1>5, TouchedBefore
<1>8. PICK d, e : d = prog.tableMapping[s] /\ e = prog.tableMapping[t]
  OBVIOUS
<1>9. /\ d \in DOMAIN target /\ target[d].name = n
      /\ e \in DOMAIN target /\ target[e].name = w
  BY <1>4, <1>6, <1>7, <1>8 DEF IsCopy
<1>10. IdOf(n) = d /\ IdOf(w) = e
  BY <1>3, <1>9, IdOfUnique
<1> QED
  BY <1>1, <1>2, <1>3, <1>4, <1>5, <1>6, <1>7, <1>8, <1>10

\* The binlog of a REPLACE is in doubt as a whole.
LEMMA ReplaceDisk ==
    ASSUME Types, pc = "handle", B.kind = "REPLACE_TABLE", NEW U, NEW s \in SourceTables
    PROVE  Good(U, prog, "idle", s)
<1>1. Half(U, prog, s)
  BY HandleMarks DEF Half
<1> QED
  BY <1>1, DiskGood

\* REPLACE WITH TABLE that swaps keeps the copies: they change names with their tables.
LEMMA SwapTruth ==
    ASSUME Types, TruthBefore, ReplaceTable, B.swap
    PROVE  TruthAfter
<1>1. PICK s, t, d, e, c, U, x :
        /\ s = B.table /\ t = B.newTable /\ d = prog.tableMapping[s] /\ e = prog.tableMapping[t]
        /\ c = prog.commitSeq /\ U = target' /\ x = "idle"
  OBVIOUS
<1>2. /\ pc = "handle" /\ B.kind = "REPLACE_TABLE" /\ ~IsUnknown /\ Truth(target, prog, "handle")
      /\ s \in SourceTables /\ t \in SourceTables
      /\ ~(prog.commitSeq <= prog.tableCommitSeqMap[s])
      /\ ~(prog.commitSeq <= prog.tableCommitSeqMap[t])
      /\ d = IdOf(B.name) /\ e = IdOf(B.newName)
  BY <1>1, ReplaceBefore
<1>3. IsCopy(target, d, s, c - 1) /\ IsCopy(target, e, t, c - 1)
  BY <1>1, ReplaceBefore
<1>4. /\ DOMAIN U = DOMAIN target /\ d # e /\ d \in DOMAIN target /\ e \in DOMAIN target
      /\ U[d].name = B.newName /\ U[d].rows = target[d].rows
      /\ U[e].name = B.name /\ U[e].rows = target[e].rows
      /\ \A f \in DOMAIN target : f # d /\ f # e => U[f] = target[f]
  BY <1>1, <1>2, SwapTarget
<1>5. /\ NameAt(s, c - 1) # Nil /\ NameAt(t, c - 1) # Nil
      /\ NameAt(s, c) = B.newName /\ NameAt(t, c) = B.name
  BY <1>1, <1>2, NamesAround
<1>6. Owned(target, prog.tableMapping)
  BY <1>2 DEF Truth
<1>7. Owned(U, prog.tableMapping)
  <2>1. \A r \in SourceTables : prog.tableMapping[r] \in DOMAIN U =>
          /\ prog.tableMapping[r] \in DOMAIN target
          /\ U[prog.tableMapping[r]].rows = target[prog.tableMapping[r]].rows
    BY <1>4
  <2> QED
    BY <1>6, <2>1, OwnedStays
<1>8. SourceOK /\ c \in 1..N /\ log[c].kind # "UPSERT"
  BY <1>1, <1>2, HandleMarks DEF Types
<1>9. IsCopy(U, d, s, c)
  BY <1>2, <1>3, <1>4, <1>5, <1>8, CopyMoves
<1>10. IsCopy(U, e, t, c)
  BY <1>2, <1>3, <1>4, <1>5, <1>8, CopyMoves
<1>11. ASSUME NEW r \in SourceTables
       PROVE  /\ InPlace(U, prog, r, Later(prog.tableCommitSeqMap[r], prog.commitSeq))
              /\ Good(U, prog, "idle", r)
  <2>1. CASE r # s /\ r # t
    <3>1. Untouched(r)
      BY <1>1, <2>1 DEF Untouched
    <3>2. prog.tableMapping[r] \in DOMAIN target =>
            /\ prog.tableMapping[r] \in DOMAIN U
            /\ U[prog.tableMapping[r]] = target[prog.tableMapping[r]]
      <4>1. s \in SourceTables /\ t \in SourceTables /\ d \in DOMAIN target /\ e \in DOMAIN target
        BY <1>2, <1>4
      <4>2. PICK m : m = prog.tableMapping
        OBVIOUS
      <4>3. m[s] = d /\ m[t] = e /\ Owned(target, m)
        BY <1>1, <1>6, <4>2
      <4>4. m[r] # d /\ m[r] # e
        BY <2>1, <4>1, <4>3 DEF Owned
      <4> QED
        BY <1>4, <4>2, <4>4
    <3> QED
      BY <1>2, <3>1, <3>2, OthersGood
  <2>2. CASE r = s \/ r = t
    <3>1. Later(prog.tableCommitSeqMap[r], prog.commitSeq) = c
      BY <1>1, <1>2, <2>2, TouchedBefore
    <3>2. IsCopy(U, prog.tableMapping[r], r, c)
      BY <1>1, <1>9, <1>10, <2>2
    <3>3. Good(U, prog, "idle", r)
      BY <1>2, ReplaceDisk
    <3> QED
      BY <3>1, <3>2, <3>3 DEF InPlace
  <2> QED
    BY <2>1, <2>2
<1>12. PICK Q : Q = prog
  OBVIOUS
<1>13. Truth(U, Q, "handled") /\ Truth(U, prog, "idle")
  BY <1>2, <1>7, <1>11, <1>12, HandlerTruth
<1>14. HandledOrLost(Q)
  BY <1>12 DEF ReplaceTable
<1> QED
  BY <1>1, <1>2, <1>13, <1>14, LostTruth

\* REPLACE WITH TABLE that drops keeps the copies: the new one takes the old one's name.
LEMMA ReplaceDropTruth ==
    ASSUME Types, TruthBefore, ReplaceTable, ~B.swap
    PROVE  TruthAfter
<1>1. PICK s, t, d, e, c, U, o, Q :
        /\ s = B.table /\ t = B.newTable /\ d = prog.tableMapping[s] /\ e = prog.tableMapping[t]
        /\ c = prog.commitSeq /\ U = target' /\ o = NoTarget /\ Q = Mapped(s, o)
  OBVIOUS
<1>2. /\ pc = "handle" /\ B.kind = "REPLACE_TABLE" /\ ~IsUnknown /\ Truth(target, prog, "handle")
      /\ s \in SourceTables /\ t \in SourceTables
      /\ ~(prog.commitSeq <= prog.tableCommitSeqMap[s])
      /\ ~(prog.commitSeq <= prog.tableCommitSeqMap[t])
      /\ d = IdOf(B.name) /\ e = IdOf(B.newName)
  BY <1>1, ReplaceBefore
<1>3. IsCopy(target, d, s, c - 1) /\ IsCopy(target, e, t, c - 1)
  BY <1>1, ReplaceBefore
<1>4. /\ DOMAIN U = DOMAIN target \ {d} /\ d # e /\ d \in DOMAIN target /\ e \in DOMAIN target
      /\ U[e].name = B.name /\ U[e].rows = target[e].rows
      /\ \A f \in DOMAIN target : f # d /\ f # e => U[f] = target[f]
  BY <1>1, <1>2, ReplaceTarget
<1>5. /\ NameAt(t, c - 1) # Nil /\ NameAt(s, c) = Nil /\ NameAt(t, c) = B.name /\ s # t
  BY <1>1, <1>2, NamesAround
<1>6. Owned(target, prog.tableMapping) /\ TargetOK(target) /\ prog \in Progress
  BY <1>2, HandleFacts DEF Truth, Types
<1>7. o \in TargetIds \cup {NoTarget} /\ o \notin DOMAIN U
  BY <1>1, <1>4, <1>6, NoTargetIsNone
<1>8. /\ Q.syncState = prog.syncState /\ Q.commitSeq = prog.commitSeq
      /\ Q.tableCommitSeqMap = prog.tableCommitSeqMap
  BY <1>1, <1>2, <1>6, <1>7, MappedFacts
<1>9. /\ Q.tableMapping[s] = o
      /\ \A r \in SourceTables : r # s => Q.tableMapping[r] = prog.tableMapping[r]
  BY <1>1, <1>2, <1>6, <1>7, MappedFacts
<1>10. Owned(U, prog.tableMapping)
  <2>1. \A r \in SourceTables : prog.tableMapping[r] \in DOMAIN U =>
          /\ prog.tableMapping[r] \in DOMAIN target
          /\ U[prog.tableMapping[r]].rows = target[prog.tableMapping[r]].rows
    BY <1>4
  <2> QED
    BY <1>6, <2>1, OwnedStays
<1>11. Owned(U, Q.tableMapping)
  <2>1. PICK m, w : m = prog.tableMapping /\ w = Q.tableMapping
    OBVIOUS
  <2>2. Owned(U, m) /\ (\A r \in SourceTables : r # s => w[r] = m[r]) /\ w[s] \notin DOMAIN U
    BY <1>7, <1>9, <1>10, <2>1
  <2>3. Owned(U, w)
    BY <1>2, <2>2, OwnedChanges
  <2> QED
    BY <2>1, <2>3
<1>12. SourceOK /\ c \in 1..N /\ log[c].kind # "UPSERT"
  BY <1>1, <1>2, HandleMarks DEF Types
<1>13. IsCopy(U, e, t, c)
  <2>1. e \in DOMAIN U
    BY <1>4
  <2> QED
    BY <1>2, <1>3, <1>4, <1>5, <1>12, <2>1, CopyMoves
<1>14. ASSUME NEW r \in SourceTables
       PROVE  /\ InPlace(U, Q, r, Later(prog.tableCommitSeqMap[r], prog.commitSeq))
              /\ Good(U, prog, "idle", r)
  <2>1. CASE r # s /\ r # t
    <3>1. Untouched(r)
      BY <1>1, <2>1 DEF Untouched
    <3>2. prog.tableMapping[r] \in DOMAIN target =>
            /\ prog.tableMapping[r] \in DOMAIN U
            /\ U[prog.tableMapping[r]] = target[prog.tableMapping[r]]
      <4>1. s \in SourceTables /\ t \in SourceTables /\ d \in DOMAIN target /\ e \in DOMAIN target
        BY <1>2, <1>4
      <4>2. PICK m : m = prog.tableMapping
        OBVIOUS
      <4>3. m[s] = d /\ m[t] = e /\ Owned(target, m)
        BY <1>1, <1>6, <4>2
      <4>4. m[r] # d /\ m[r] # e
        BY <2>1, <4>1, <4>3 DEF Owned
      <4> QED
        BY <1>4, <4>2, <4>4
    <3>3. Q.tableMapping[r] = prog.tableMapping[r]
      BY <1>9, <2>1
    <3> QED
      BY <1>2, <3>1, <3>2, <3>3, OthersGood
  <2>2. CASE r = s \/ r = t
    <3>1. Later(prog.tableCommitSeqMap[r], prog.commitSeq) = c
      BY <1>1, <1>2, <2>2, TouchedBefore
    <3>2. InPlace(U, Q, r, c)
      <4>1. CASE r = s
        BY <1>5, <4>1 DEF InPlace
      <4>2. CASE r = t
        BY <1>1, <1>5, <1>9, <1>13, <4>2 DEF InPlace
      <4> QED
        BY <2>2, <4>1, <4>2
    <3>3. Good(U, prog, "idle", r)
      BY <1>2, ReplaceDisk
    <3> QED
      BY <3>1, <3>2, <3>3
  <2> QED
    BY <2>1, <2>2
<1>15. Truth(U, Q, "handled") /\ Truth(U, prog, "idle")
  BY <1>2, <1>8, <1>10, <1>11, <1>14, HandlerTruth
<1>16. HandledOrLost(Q)
  BY <1>1 DEF ReplaceTable, Unmapped
<1> QED
  BY <1>1, <1>2, <1>15, <1>16, LostTruth

\* A progress without a binlog in doubt.
LEMMA SettledTruth ==
    ASSUME NEW U, NEW Q, NEW c, Q.commitSeq = c, Q.prevCommitSeq = c,
           \A s \in SourceTables : Q.tableCommitSeqMap[s] <= N,
           Owned(U, Q.tableMapping),
           \A s \in SourceTables : InPlace(U, Q, s, Later(Q.tableCommitSeqMap[s], c)), NEW h
    PROVE  Truth(U, Q, h)
<1>1. Base(Q, h) = c
  BY DEF Base
<1>2. \A s \in SourceTables : Good(U, Q, h, s)
  BY <1>1 DEF Good
<1> QED
  BY <1>2 DEF Truth

\* An upsert keeps the copies: the row goes to the copy of its table, or the table has it.
LEMMA UpsertTruth ==
    ASSUME Types, TruthBefore, HandleUpsert
    PROVE  TruthAfter
<1>1. PICK s, d, c, U, Q : /\ s = B.table /\ d = prog.tableMapping[s] /\ c = prog.commitSeq
                           /\ U = target' /\ Q = Mapped(s, d)
  OBVIOUS
<1>2. pc = "handle" /\ B.kind = "UPSERT" /\ ~IsSynced(s)
  BY <1>1 DEF HandleUpsert, Handles
<1>3. /\ prog \in Progress /\ s \in SourceTables /\ TargetOK(target)
      /\ Truth(target, prog, "handle")
  BY <1>1, <1>2, HandleFacts DEF Types, TruthBefore
<1>4. ~(prog.commitSeq <= prog.tableCommitSeqMap[s])
  BY <1>2, <1>3, SyncedFacts
<1>5. Later(prog.tableCommitSeqMap[s], prog.commitSeq) = c
  BY <1>1, <1>2, <1>3, <1>4, TouchedBefore
<1>6. \/ NameAt(s, c - 1) = Nil
      \/ IsCopy(target, d, s, c - 1)
      \/ Half(target, prog, s)
  BY <1>1, <1>2, <1>3, <1>4, TouchedBefore
<1>7. NameAt(s, c - 1) # Nil /\ NameAt(s, c) = NameAt(s, c - 1)
  BY <1>1, <1>2, NamesAround
<1>8. c = prog.prevCommitSeq + 1 /\ c \in 1..N /\ c \in Nat /\ B = log[c] /\ SourceOK
  BY <1>1, <1>2, HandleMarks DEF Types
<1>9. ~Half(target, prog, s)
  BY <1>2, <1>8 DEF Half
<1>10. IsCopy(target, d, s, c - 1)
  BY <1>6, <1>7, <1>9
<1>11. d \in DOMAIN target
  BY <1>10 DEF IsCopy
<1>12. d # NoTarget /\ d \in TargetIds \cup {NoTarget}
  BY <1>3, <1>11, NoTargetIsNone DEF TargetOK
<1>13. DestTableId(s) = d
  BY <1>1, <1>12 DEF DestTableId, IsMapped
<1>14. /\ target' = IF IsTableDropped(s) THEN target
                    ELSE [target EXCEPT ![d].rows = @ \cup {c}]
       /\ prog' = Done(Q) /\ disk' = Done(Q) /\ pc' = "handled"
  BY <1>1, <1>11, <1>12, <1>13 DEF HandleUpsert, Persist, Handled
<1>15. Q = [prog EXCEPT !.tableMapping[s] = d]
  BY <1>1 DEF Mapped
<1>16. Q \in Progress
  BY <1>3, <1>12, <1>15, MapFacts
<1>17. /\ Q.commitSeq = prog.commitSeq /\ Q.tableCommitSeqMap = prog.tableCommitSeqMap
       /\ \A r \in SourceTables : Q.tableMapping[r] = prog.tableMapping[r]
  BY <1>1, <1>3, <1>12, MappedFacts
<1>18. PICK R \in Progress :
         /\ R = Done(Q) /\ R.commitSeq = Q.commitSeq /\ R.prevCommitSeq = Q.commitSeq
         /\ R.tableCommitSeqMap = Q.tableCommitSeqMap /\ R.tableMapping = Q.tableMapping
  BY <1>16, DoneFacts
<1>19. /\ DOMAIN U = DOMAIN target /\ U[d].name = target[d].name
       /\ U[d].rows = (IF IsTableDropped(s) THEN target[d].rows ELSE target[d].rows \cup {c})
       /\ \A e \in DOMAIN target : e # d => U[e] = target[e]
  <2>1. CASE IsTableDropped(s)
    <3>1. U = target
      BY <1>1, <1>14, <2>1
    <3> QED
      BY <2>1, <3>1
  <2>2. CASE ~IsTableDropped(s)
    <3>1. U = [target EXCEPT ![d].rows = @ \cup {c}]
      BY <1>1, <1>14, <2>2
    <3>2. /\ DOMAIN U = DOMAIN target
          /\ U[d].name = target[d].name /\ U[d].rows = target[d].rows \cup {c}
          /\ \A e \in DOMAIN target : e # d => U[e] = target[e]
      <4>1. target[d] \in [name : Names, rows : SUBSET Seqs]
        BY <1>3, <1>11 DEF TargetOK
      <4>2. U[d] = [target[d] EXCEPT !.rows = @ \cup {c}]
        BY <1>11, <3>1
      <4>3. U[d].name = target[d].name /\ U[d].rows = target[d].rows \cup {c}
        BY <4>1, <4>2
      <4>4. DOMAIN U = DOMAIN target /\ \A e \in DOMAIN target : e # d => U[e] = target[e]
        BY <3>1
      <4> QED
        BY <4>3, <4>4
    <3> QED
      BY <2>2, <3>2
  <2> QED
    BY <2>1, <2>2
<1>20. RowsOf(s, c) = RowsOf(s, c - 1) \cup {c}
  BY <1>1, <1>2, <1>8, RowsAdded
<1>21. IsCopy(U, d, s, c)
  <2>1. target[d].rows \subseteq RowsOf(s, c - 1) /\ target[d].name = NameAt(s, c)
    BY <1>7, <1>10 DEF IsCopy
  <2>2. d \in DOMAIN U /\ U[d].name = NameAt(s, c) /\ U[d].rows \subseteq RowsOf(s, c)
    BY <1>11, <1>19, <1>20, <2>1
  <2>3. ASSUME Alive(s, c)
        PROVE  U[d].rows = RowsOf(s, c)
    <3>1. N \in c..N
      BY <1>8, SourceFacts DEF SourceOK
    <3>2. ~IsTableDropped(s)
      BY <2>3, <3>1 DEF Alive, IsTableDropped, NameNow, N
    <3>3. Alive(s, c - 1)
      BY <1>3, <1>7, <1>8, <2>3, AliveBefore
    <3>4. target[d].rows = RowsOf(s, c - 1)
      BY <1>10, <3>3 DEF IsCopy
    <3> QED
      BY <1>19, <1>20, <3>2, <3>4
  <2> QED
    BY <2>2, <2>3 DEF IsCopy
<1>22. PICK m, w : m = prog.tableMapping /\ w = R.tableMapping
  OBVIOUS
<1>23. /\ Owned(target, m) /\ m[s] = d /\ m[s] \in DOMAIN target
       /\ \A r \in SourceTables : w[r] = m[r]
  BY <1>1, <1>3, <1>11, <1>17, <1>18, <1>22 DEF Truth
<1>24. Owned(U, m)
  <2>1. ASSUME NEW r \in SourceTables, m[r] \in DOMAIN U
        PROVE  /\ \A t \in SourceTables : m[t] = m[r] => t = r
               /\ \A i \in U[m[r]].rows : i \in 1..N /\ log[i].table = r
    <3>1. m[r] \in DOMAIN target
      BY <1>19, <2>1
    <3>2. /\ \A t \in SourceTables : m[t] = m[r] => t = r
          /\ \A i \in target[m[r]].rows : i \in 1..N /\ log[i].table = r
      BY <1>23, <3>1 DEF Owned
    <3>3. CASE m[r] = d
      <4>1. r = s
        BY <1>3, <1>23, <3>2, <3>3
      <4>2. U[m[r]].rows \subseteq target[m[r]].rows \cup {c}
        BY <1>19, <3>3
      <4>3. log[c].table = s
        BY <1>1, <1>8
      <4> QED
        BY <1>8, <3>2, <4>1, <4>2, <4>3
    <3>4. CASE m[r] # d
      <4>1. U[m[r]] = target[m[r]]
        BY <1>19, <3>1, <3>4
      <4> QED
        BY <3>2, <4>1
    <3> QED
      BY <3>3, <3>4
  <2> QED
    BY <2>1 DEF Owned
<1>25. Owned(U, w)
  BY <1>23, <1>24, OwnedSame
<1>26. ASSUME NEW r \in SourceTables
       PROVE  InPlace(U, R, r, Later(prog.tableCommitSeqMap[r], prog.commitSeq))
  <2>1. CASE r # s
    <3>1. Untouched(r)
      BY <1>1, <1>2, <2>1 DEF Untouched
    <3>2. R.tableMapping[r] = prog.tableMapping[r]
      BY <1>17, <1>18
    <3>3. m[r] # d
      BY <1>3, <1>23, <2>1 DEF Owned
    <3>4. prog.tableMapping[r] \in DOMAIN target =>
            /\ prog.tableMapping[r] \in DOMAIN U
            /\ U[prog.tableMapping[r]] = target[prog.tableMapping[r]]
      BY <1>19, <1>22, <3>3
    <3>5. B.kind = "REPLACE_TABLE" => ~IsUnknown
      BY <1>2
    <3> QED
      BY <1>2, <1>3, <3>1, <3>2, <3>4, <3>5, OthersGood
  <2>2. CASE r = s
    BY <1>1, <1>3, <1>5, <1>17, <1>18, <1>21, <2>2 DEF InPlace
  <2> QED
    BY <2>1, <2>2
<1>27. /\ \A r \in SourceTables : R.tableCommitSeqMap[r] <= N
       /\ \A r \in SourceTables : InPlace(U, R, r, Later(R.tableCommitSeqMap[r], c))
       /\ R.commitSeq = c /\ R.prevCommitSeq = c /\ Owned(U, R.tableMapping)
  BY <1>1, <1>3, <1>17, <1>18, <1>22, <1>25, <1>26 DEF Truth
<1>28. PICK h, i : h = "handled" /\ i = "idle"
  OBVIOUS
<1>29. Truth(U, R, h) /\ Truth(U, R, i)
  BY <1>27, SettledTruth
<1> QED
  BY <1>1, <1>14, <1>18, <1>28, <1>29 DEF TruthAfter

-------------------------------------------------------------------------------
(* Between the handlers. *)

\* What a progress promises does not depend on the marks that only count the steps.
LEMMA GoodKept ==
    ASSUME NEW P, NEW Q, NEW T, NEW s, NEW h, NEW g, Good(T, P, h, s),
           Q.syncState = P.syncState, Q.partialSyncData = P.partialSyncData,
           Q.tableCommitSeqMap = P.tableCommitSeqMap, Q.tableMapping = P.tableMapping,
           Q.prevCommitSeq = P.prevCommitSeq, Base(Q, g) = Base(P, h),
           Uncertain(P, h) => Uncertain(Q, g)
    PROVE  Good(T, Q, g, s)
<1>1. Half(T, P, s) => Half(T, Q, s)
  BY DEF Half
<1> QED
  BY <1>1 DEF Good, InPlace

\* What a progress says of the copies does not depend on the marks that only count.
LEMMA TruthKept ==
    ASSUME NEW P, NEW Q, NEW T, NEW h, NEW g, Truth(T, P, h),
           Q.syncState = P.syncState, Q.partialSyncData = P.partialSyncData,
           Q.tableCommitSeqMap = P.tableCommitSeqMap, Q.tableMapping = P.tableMapping,
           Q.prevCommitSeq = P.prevCommitSeq, Base(Q, g) = Base(P, h),
           Uncertain(P, h) => Uncertain(Q, g)
    PROVE  Truth(T, Q, g)
<1>1. P.syncState # "DBFullSync" => \A s \in SourceTables : Good(T, Q, g, s)
  BY GoodKept DEF Truth
<1> QED
  BY <1>1 DEF Truth

\* The start of a binlog keeps the copies at the binlogs they are at.
LEMMA StartTruth ==
    ASSUME Types, TruthBefore, StartHandle
    PROVE  TruthAfter
<1>1. PICK Q : Q = [prog EXCEPT !.commitSeq = @ + 1]
  OBVIOUS
<1>2. /\ prog \in Progress /\ Truth(target, prog, "idle")
      /\ IsIncrementalSync(prog) /\ prog.prevCommitSeq = prog.commitSeq
      /\ prog.syncState # "DBPartialSync"
  BY DEF Types, JobOK, StartHandle, IsDone, TruthBefore, IsIncrementalSync
<1>3. /\ Q.syncState = prog.syncState /\ Q.prevCommitSeq = prog.prevCommitSeq
      /\ Q.unknownCommitSeq = prog.unknownCommitSeq
      /\ Q.tableCommitSeqMap = prog.tableCommitSeqMap /\ Q.tableMapping = prog.tableMapping
      /\ Q.partialSyncData = prog.partialSyncData
  BY <1>1, <1>2 DEF Progress
<1>4. PICK h, i : h = "handle" /\ i = "idle"
  OBVIOUS
<1>5. Base(prog, i) = prog.prevCommitSeq /\ Base(Q, i) = prog.prevCommitSeq
      /\ Base(Q, h) = prog.prevCommitSeq
  BY <1>2, <1>3, <1>4 DEF Base
<1>6. Uncertain(prog, i) => Uncertain(Q, i) /\ Uncertain(Q, h)
  BY <1>2, <1>3, <1>4 DEF Uncertain, IsIncrementalSync
<1>7. Truth(target, prog, i)
  BY <1>2, <1>4
<1>8. Truth(target, Q, i)
  BY <1>3, <1>5, <1>6, <1>7, TruthKept
<1>9. Truth(target, Q, h)
  BY <1>3, <1>5, <1>6, <1>7, TruthKept
<1>10. prog' = Q /\ disk' = Q /\ pc' = h /\ target' = target
  BY <1>1, <1>4 DEF StartHandle, Persist
<1> QED
  BY <1>4, <1>8, <1>9, <1>10 DEF TruthAfter

\* A binlog that is begun again after a failure is the one in doubt.
LEMMA RecoverTruth ==
    ASSUME Types, TruthBefore, Recover
    PROVE  TruthAfter
<1>1. /\ prog \in Progress /\ Places(prog, "idle") /\ pc = "idle" /\ Truth(target, prog, "idle")
      /\ IsIncrementalSync(prog) /\ prog.syncState # "DBPartialSync" /\ ~IsDone
  BY DEF Types, JobOK, Recover, TruthBefore, IsIncrementalSync
<1>2. PICK Q \in Progress :
        /\ Q = Rollback(prog) /\ Q.syncState = prog.syncState
        /\ Q.prevCommitSeq = prog.prevCommitSeq /\ Q.unknownCommitSeq = prog.commitSeq
        /\ Q.tableCommitSeqMap = prog.tableCommitSeqMap /\ Q.tableMapping = prog.tableMapping
        /\ Q.partialSyncData = prog.partialSyncData
  BY <1>1, RollbackFacts
<1>3. prog.commitSeq = prog.prevCommitSeq + 1
  <2>1. /\ prog.subSyncState = "Done" /\ prog.commitSeq <= prog.prevCommitSeq + 1
        /\ prog.prevCommitSeq <= prog.commitSeq
    BY <1>1 DEF Places
  <2>2. prog.prevCommitSeq # prog.commitSeq
    BY <1>1, <2>1 DEF IsDone
  <2>3. prog.prevCommitSeq \in Nat /\ prog.commitSeq \in Nat
    BY <1>1, ProgressFields
  <2> QED
    BY <2>1, <2>2, <2>3
<1>4. PICK i : i = "idle"
  OBVIOUS
<1>5. Base(prog, i) = prog.prevCommitSeq /\ Base(Q, i) = prog.prevCommitSeq
  BY <1>1, <1>2, <1>4 DEF Base
<1>6. Uncertain(Q, i)
  BY <1>1, <1>2, <1>3, <1>4 DEF Uncertain, IsIncrementalSync
<1>7. Truth(target, prog, i)
  BY <1>1, <1>4
<1>8. Truth(target, Q, i)
  BY <1>2, <1>5, <1>6, <1>7, TruthKept
<1>9. prog' = Q /\ disk' = Q /\ pc' = i /\ target' = target
  BY <1>1, <1>2, <1>4 DEF Recover, Persist
<1> QED
  BY <1>4, <1>8, <1>9 DEF TruthAfter

\* A handler that fails leaves the row to be read again.
LEMMA FailTruth ==
    ASSUME Types, TruthBefore, pc = "handle", UNCHANGED <<target, prog, disk>>, pc' = "idle"
    PROVE  TruthAfter
<1>1. disk = prog
  BY HandleFacts
<1> QED
  BY <1>1 DEF TruthBefore, TruthAfter

\* A crash leaves the row, which says no more than the target has.
LEMMA CrashTruth ==
    ASSUME TruthBefore, Crash
    PROVE  TruthAfter
BY DEF TruthBefore, TruthAfter, Crash

\* The end of a binlog keeps the copies, which are all past it.
LEMMA FinishTruth ==
    ASSUME Types, TruthBefore, FinishBinlog
    PROVE  TruthAfter
<1>1. /\ pc = "handled" /\ pc' = "idle" /\ target' = target
      /\ prog \in Progress /\ Places(prog, "handled")
      /\ Truth(target, prog, "handled") /\ Truth(target, disk, "idle")
  BY DEF FinishBinlog, Types, JobOK, TruthBefore
<1>2. IsIncrementalSync(prog)
  BY <1>1 DEF Places
<1>3. PICK P \in Progress :
        /\ P = AfterHandleBinlog(prog)
        /\ P.commitSeq = prog.commitSeq /\ P.prevCommitSeq = prog.prevCommitSeq
        /\ P.tableMapping = prog.tableMapping
        /\ \/ P = prog
           \/ /\ P.tableCommitSeqMap = NoMap
              /\ \A s \in SourceTables : prog.tableCommitSeqMap[s] <= prog.commitSeq
  <2>1. /\ prog.syncState \in {"DBTablesIncrementalSync", "DBIncrementalSync"}
        /\ prog.syncState = "DBIncrementalSync" => prog.tableCommitSeqMap = NoMap
    BY <1>1, <1>2 DEF Places, IsIncrementalSync
  <2> QED
    BY <1>1, <2>1, AfterFacts
<1>4. PICK c, h, i : c = prog.commitSeq /\ h = "handled" /\ i = "idle"
  OBVIOUS
<1>5. prog.syncState # "DBFullSync" /\ prog.syncState # "DBPartialSync" /\ c \in Nat
  BY <1>1, <1>2, <1>4, ProgressFields DEF IsIncrementalSync
<1>6. N \in Nat /\ \A s \in SourceTables : prog.tableCommitSeqMap[s] \in Nat
  <2>1. 0..MaxInt64 \subseteq Nat
    BY NamesAssumption DEF MaxInt64
  <2>2. prog.tableCommitSeqMap \in [SourceTables -> 0..MaxInt64]
    BY <1>1, ProgressFields
  <2>3. \A s \in SourceTables : prog.tableCommitSeqMap[s] \in 0..MaxInt64
    BY <2>2
  <2> QED
    BY <2>1, <2>3, SourceFacts DEF Types, SourceOK
<1>7. \A s \in SourceTables : InPlace(target, prog, s, Later(prog.tableCommitSeqMap[s], c))
  <2>1. Base(prog, h) = c /\ ~Uncertain(prog, h) /\ Truth(target, prog, h)
    BY <1>1, <1>4 DEF Base, Uncertain
  <2> QED
    BY <1>5, <2>1 DEF Truth, Good
<1>8. \A s \in SourceTables :
        /\ Later(P.tableCommitSeqMap[s], c) = Later(prog.tableCommitSeqMap[s], c)
        /\ P.tableCommitSeqMap[s] <= N
  <2>1. CASE P = prog
    BY <1>1, <2>1 DEF Truth
  <2>2. CASE /\ P.tableCommitSeqMap = NoMap
             /\ \A s \in SourceTables : prog.tableCommitSeqMap[s] <= prog.commitSeq
    <3>1. \A s \in SourceTables : P.tableCommitSeqMap[s] = 0 /\ prog.tableCommitSeqMap[s] <= c
      BY <1>4, <2>2 DEF NoMap
    <3>2. Later(0, c) = c
      BY <1>5 DEF Later
    <3>3. \A s \in SourceTables : Later(prog.tableCommitSeqMap[s], c) = c
      BY <1>5, <1>6, <3>1 DEF Later
    <3>4. 0 <= N
      BY <1>6
    <3> QED
      BY <3>1, <3>2, <3>3, <3>4
  <2> QED
    BY <1>3, <2>1, <2>2
<1>9. Owned(target, P.tableMapping)
  BY <1>1, <1>3 DEF Truth
<1>10. ASSUME NEW Q, Q.commitSeq = c, Q.prevCommitSeq = c,
              Q.tableMapping = P.tableMapping, Q.tableCommitSeqMap = P.tableCommitSeqMap
       PROVE  Truth(target, Q, i)
  <2>1. \A s \in SourceTables : InPlace(target, Q, s, Later(Q.tableCommitSeqMap[s], c))
    BY <1>3, <1>7, <1>8, <1>10 DEF InPlace
  <2>2. \A s \in SourceTables : Q.tableCommitSeqMap[s] <= N
    BY <1>8, <1>10
  <2>3. Owned(target, Q.tableMapping)
    BY <1>9, <1>10
  <2> QED
    BY <1>10, <2>1, <2>2, <2>3, SettledTruth
<1>11. CASE IsDone
  <2>1. prog' = P /\ disk' = disk
    BY <1>3, <1>11 DEF FinishBinlog, Volatile
  <2>2. P.commitSeq = c /\ P.prevCommitSeq = c
    BY <1>3, <1>4, <1>11 DEF IsDone
  <2>3. Truth(target, P, i)
    BY <1>10, <2>2
  <2> QED
    BY <1>1, <1>4, <2>1, <2>3 DEF TruthAfter
<1>12. CASE ~IsDone
  <2>1. PICK Q \in Progress :
          /\ Q = Done(P) /\ Q.commitSeq = P.commitSeq /\ Q.prevCommitSeq = P.commitSeq
          /\ Q.tableCommitSeqMap = P.tableCommitSeqMap /\ Q.tableMapping = P.tableMapping
    BY DoneFacts
  <2>2. prog' = Q /\ disk' = Q
    BY <1>3, <1>12, <2>1 DEF FinishBinlog, Persist
  <2>3. Truth(target, Q, i)
    BY <1>3, <1>4, <1>10, <2>1
  <2> QED
    BY <1>1, <1>4, <2>2, <2>3 DEF TruthAfter
<1> QED
  BY <1>11, <1>12

-------------------------------------------------------------------------------
(* The snapshots, and the whole step. *)

\* The end of a backup keeps the copies, which it does not touch.
LEMMA BackupTruth ==
    ASSUME Types, TruthBefore, BackupAll \/ BackupTable
    PROVE  TruthAfter
<1>1. /\ prog \in Progress /\ N \in Seqs /\ pc = "idle" /\ Truth(target, prog, "idle")
      /\ Persist(Taken) /\ pc' = pc /\ target' = target
  BY SourceFacts DEF Types, JobOK, SourceOK, BackupAll, BackupTable, AtSnapshot, TruthBefore
<1>2. PICK Q \in Progress :
        /\ Q = Taken /\ Q.syncState = prog.syncState
        /\ Q.commitSeq = prog.commitSeq /\ Q.prevCommitSeq = prog.prevCommitSeq
        /\ Q.unknownCommitSeq = prog.unknownCommitSeq
        /\ Q.tableCommitSeqMap = prog.tableCommitSeqMap /\ Q.tableMapping = prog.tableMapping
        /\ Q.partialSyncData = prog.partialSyncData
  BY <1>1, TakenFacts
<1>3. PICK i : i = "idle"
  OBVIOUS
<1>4. Base(Q, i) = Base(prog, i)
  BY <1>2 DEF Base
<1>5. Uncertain(prog, i) => Uncertain(Q, i)
  BY <1>2 DEF Uncertain, IsIncrementalSync
<1>6. Truth(target, prog, i)
  BY <1>1, <1>3
<1>7. Truth(target, Q, i)
  BY <1>2, <1>4, <1>5, <1>6, TruthKept
<1> QED
  BY <1>1, <1>2, <1>3, <1>7 DEF TruthAfter, Persist

\* A full sync rebuilds every table, whatever misled the job before it.
LEMMA RestoreAllTruth ==
    ASSUME Types, RestoreAll
    PROVE  TruthAfter
<1>1. PICK k \in 0..N : \E live, id : Restored(k, live, id)
  BY RestoreAllStep
<1>2. PICK live, id : Restored(k, live, id)
  BY <1>1
<1>3. /\ k = prog.snapshotSeq /\ live = LiveAt(k) /\ live \subseteq SourceTables
      /\ TargetOK(target')
      /\ \A s, t \in live : id[s] = id[t] => s = t
      /\ \A s \in live : /\ id[s] \in TargetIds /\ id[s] \in DOMAIN target'
                         /\ target'[id[s]] = Table(NameAt(s, k), RowsOf(s, k))
  BY <1>2 DEF Restored
<1>4. PICK P \in Progress :
        /\ P.unknownCommitSeq = prog.unknownCommitSeq
        /\ P.tableMapping = [s \in SourceTables |-> IF s \in live THEN id[s] ELSE NoTarget]
        /\ P.tableCommitSeqMap = [s \in SourceTables |-> IF s \in live THEN k ELSE 0]
        /\ Persist(NextWithPersist(P, k, "DBTablesIncrementalSync", "Done"))
  BY <1>2 DEF Restored
<1>5. /\ Places(prog, pc) /\ pc = "idle" /\ UNCHANGED pc /\ N \in Nat /\ N <= MaxSeq
      /\ prog.syncState = "DBFullSync" /\ prog.subSyncState = "RestoreSnapshot"
  BY SourceFacts DEF Types, JobOK, RestoreAll, AtSnapshot, SourceOK
<1>6. k \in Seqs /\ k <= N /\ P.unknownCommitSeq <= k /\ k \in Nat
  BY <1>1, <1>3, <1>4, <1>5, NamesAssumption DEF Places, Seqs
<1>7. PICK Q, U, i : Q = prog' /\ U = target' /\ i = "idle"
  OBVIOUS
<1>8. /\ Q.commitSeq = k /\ Q.prevCommitSeq = k
      /\ Q.tableCommitSeqMap = P.tableCommitSeqMap /\ Q.tableMapping = P.tableMapping
      /\ disk' = Q /\ pc' = i
  BY <1>3, <1>4, <1>5, <1>6, <1>7, EndTypes
<1>9. \A s \in SourceTables :
        /\ s \in live => Q.tableMapping[s] = id[s] /\ Q.tableCommitSeqMap[s] = k
        /\ s \notin live => Q.tableMapping[s] = NoTarget /\ Q.tableCommitSeqMap[s] = 0
  BY <1>4, <1>8
<1>10. NoTarget \notin DOMAIN U
  <2>1. TargetOK(U)
    BY <1>3, <1>7
  <2> QED
    BY <2>1, NoTargetIsNone
<1>11. Owned(U, Q.tableMapping)
  <2>1. PICK w : w = Q.tableMapping
    OBVIOUS
  <2>2. ASSUME NEW s \in SourceTables, w[s] \in DOMAIN U
        PROVE  /\ \A t \in SourceTables : w[t] = w[s] => t = s
               /\ \A j \in U[w[s]].rows : j \in 1..N /\ log[j].table = s
    <3>1. s \in live /\ w[s] = id[s]
      BY <1>9, <1>10, <2>1, <2>2
    <3>2. ASSUME NEW t \in SourceTables, w[t] = w[s]
          PROVE  t = s
      <4>1. t \in live /\ w[t] = id[t]
        BY <1>9, <1>10, <2>1, <2>2, <3>2
      <4> QED
        BY <1>3, <3>1, <3>2, <4>1
    <3>3. U[w[s]] = Table(NameAt(s, k), RowsOf(s, k))
      BY <1>3, <1>7, <3>1
    <3>4. U[w[s]].rows = RowsOf(s, k)
      BY <3>3 DEF Table
    <3>5. \A j \in RowsOf(s, k) : j \in 1..N /\ log[j].table = s
      BY <1>5, <1>6 DEF RowsOf
    <3> QED
      BY <3>2, <3>4, <3>5
  <2>3. Owned(U, w)
    BY <2>2 DEF Owned
  <2> QED
    BY <2>1, <2>3
<1>12. ASSUME NEW s \in SourceTables
       PROVE  /\ InPlace(U, Q, s, Later(Q.tableCommitSeqMap[s], k))
              /\ Q.tableCommitSeqMap[s] <= N
  <2>1. CASE s \in live
    <3>1. Later(k, k) = k
      BY DEF Later
    <3>2. PICK d : d = id[s]
      OBVIOUS
    <3>3. d \in DOMAIN U /\ U[d] = Table(NameAt(s, k), RowsOf(s, k))
      BY <1>3, <1>7, <2>1, <3>2
    <3>4. IsCopy(U, d, s, k)
      BY <3>3 DEF IsCopy, Table
    <3> QED
      BY <1>6, <1>9, <2>1, <3>1, <3>2, <3>4 DEF InPlace
  <2>2. CASE s \notin live
    <3>1. Later(0, k) = k /\ 0 <= N
      BY <1>5, <1>6 DEF Later
    <3>2. NameAt(s, k) = Nil
      BY <1>3, <2>2 DEF LiveAt
    <3> QED
      BY <1>9, <2>2, <3>1, <3>2 DEF InPlace
  <2> QED
    BY <2>1, <2>2
<1>13. Truth(U, Q, i)
  BY <1>8, <1>11, <1>12, SettledTruth
<1> QED
  BY <1>7, <1>8, <1>13 DEF TruthAfter

\* The table of a partial sync is asked for again, or is given up.
LEMMA NotFoundTruth ==
    ASSUME Types, TruthBefore, BackupTableNotFound
    PROVE  GivesUp \/ TruthAfter
<1>1. /\ prog.syncState = "DBPartialSync" /\ pc = "idle" /\ UNCHANGED target
      /\ prog \in Progress /\ Truth(target, prog, "idle")
  BY DEF BackupTableNotFound, AtSnapshot, Types, JobOK, TruthBefore
<1>2. PICK s \in SourceTables : s = PS.table
  BY <1>1, PartialTyped
<1>3. CASE IsTableDropped(s)
  <2>1. PICK P : P = [prog EXCEPT !.tableCommitSeqMap[s] = MaxInt64]
    OBVIOUS
  <2>2. PICK m \in 0..MaxInt64 : m = MaxInt64
    BY NamesAssumption DEF MaxInt64
  <2>3. P = [prog EXCEPT !.tableCommitSeqMap[s] = m]
    BY <2>1, <2>2
  <2>4. P \in Progress /\ P.unknownCommitSeq = prog.unknownCommitSeq
    BY <1>1, <2>3, MarkFacts
  <2>5. PICK k \in Seqs : k = prog.commitSeq
    BY <1>1, PartialTyped
  <2>6. k <= N /\ P.unknownCommitSeq <= k
    BY <1>1, <2>4, <2>5, PartialTyped
  <2>7. /\ Persist(NextWithPersist(P, k, "DBTablesIncrementalSync", "Done")) /\ UNCHANGED pc
    BY <1>2, <1>3, <2>1, <2>5 DEF BackupTableNotFound
  <2>8. TargetOK(target')
    BY <1>1 DEF Types
  <2>9. prog'.tableCommitSeqMap = P.tableCommitSeqMap
    BY <1>1, <2>4, <2>6, <2>7, <2>8, EndTypes
  <2>10. P.tableCommitSeqMap = [prog.tableCommitSeqMap EXCEPT ![s] = m]
         /\ DOMAIN prog.tableCommitSeqMap = SourceTables
    BY <1>1, <2>3 DEF Progress
  <2>11. P.tableCommitSeqMap[s] = MaxInt64
    BY <2>2, <2>10
  <2> QED
    BY <2>9, <2>11 DEF GivesUp
<1>4. CASE ~IsTableDropped(s)
  <2>1. NewPartialSnapshot(s, NameNow(s), TRUE)
    BY <1>2, <1>4 DEF BackupTableNotFound
  <2>2. NameNow(s) \in Names
    <3>1. N \in 0..N /\ SourceTyped
      BY <1>1, PartialTyped DEF Types, SourceOK
    <3>2. NameAt(s, N) \in Names \cup {Nil}
      BY <3>1, SourceFacts
    <3> QED
      BY <1>4, <3>2 DEF NameNow, N, IsTableDropped
  <2>3. PICK n \in Names, yes \in BOOLEAN : n = NameNow(s) /\ yes = TRUE
    BY <2>2
  <2>4. NewPartialSnapshot(s, n, yes)
    BY <2>1, <2>3
  <2>5. PICK Q \in Progress :
          /\ prog' = Q /\ disk' = Q /\ pc' = "idle"
          /\ Q.syncState = "DBPartialSync" /\ Q.commitSeq = prog.commitSeq
          /\ Q.tableCommitSeqMap = prog.tableCommitSeqMap
          /\ Q.tableMapping = prog.tableMapping /\ Q.partialSyncData.table = s
    BY <1>1, <2>4, NewPartialSnapshotFacts
  <2>6. PICK i : i = "idle"
    OBVIOUS
  <2>7. /\ Base(Q, i) = prog.commitSeq /\ Base(prog, i) = prog.commitSeq
        /\ ~Uncertain(prog, i) /\ prog.partialSyncData.table = s /\ Truth(target, prog, i)
    BY <1>1, <1>2, <2>5, <2>6 DEF Base, Uncertain, IsIncrementalSync, PS
  <2>8. ASSUME NEW r \in SourceTables
        PROVE  Good(target, Q, i, r)
    <3>1. Good(target, prog, i, r)
      BY <1>1, <2>7 DEF Truth
    <3> QED
      BY <2>5, <2>7, <3>1 DEF Good, InPlace
  <2>9. Truth(target, Q, i)
    BY <2>5, <2>7, <2>8 DEF Truth
  <2> QED
    BY <1>1, <2>5, <2>6, <2>9 DEF TruthAfter
<1> QED
  BY <1>3, <1>4

\* A restored table is a copy of its own source table, and takes the place of no other's.
LEMMA RestoreTableTruth ==
    ASSUME Types, TruthBefore, RestoreTable, ~ReplacesAnother
    PROVE  TruthAfter
<1>1. PICK k \in 0..N : \E id, x : RestoredTable(k, id, x)
  BY RestoreTableStep
<1>2. PICK id, x : RestoredTable(k, id, x)
  BY <1>1
<1>3. PICK s, n, c, m, i, Q, U :
        /\ s = PS.table /\ n = PS.name /\ c = prog.commitSeq /\ m = prog.tableMapping /\ i = "idle"
        /\ Q = prog' /\ U = target'
  OBVIOUS
<1>4. /\ k = prog.snapshotSeq /\ id \in TargetIds /\ TargetOK(U)
      /\ DOMAIN U = {d \in DOMAIN target : target[d].name # n} \cup {id}
      /\ x = Table(n, RowsOf(s, k)) /\ U[id] = x
      /\ \A d \in DOMAIN target : d # id /\ target[d].name # n => U[d] = target[d]
      /\ \/ id \in DOMAIN target /\ target[id].name = n
         \/ /\ id \notin DOMAIN target
            /\ \A r \in SourceTables : m[r] # id
  BY <1>2, <1>3 DEF RestoredTable
<1>5. PICK P \in Progress :
        /\ P.unknownCommitSeq = prog.unknownCommitSeq
        /\ P.tableMapping[s] = id
        /\ \A r \in SourceTables : r # s => P.tableMapping[r] = m[r]
        /\ P.tableCommitSeqMap[s] = k
        /\ \A r \in SourceTables : r # s => P.tableCommitSeqMap[r] = prog.tableCommitSeqMap[r]
        /\ Persist(NextWithPersist(P, c, "DBTablesIncrementalSync", "Done"))
  BY <1>2, <1>3 DEF RestoredTable
<1>6. /\ prog.syncState = "DBPartialSync" /\ pc = "idle" /\ UNCHANGED pc
      /\ prog.subSyncState = "RestoreSnapshot" /\ Places(prog, "idle")
      /\ Truth(target, prog, i) /\ TargetOK(target)
  BY <1>3 DEF RestoreTable, AtSnapshot, TruthBefore, Types, JobOK
<1>7. /\ s \in SourceTables /\ c \in Seqs /\ c <= N /\ c \in Nat /\ N \in Nat /\ k \in Nat
      /\ P.unknownCommitSeq <= c
  BY <1>1, <1>3, <1>5, <1>6, PartialTyped
<1>8. /\ Q.commitSeq = c /\ Q.prevCommitSeq = c
      /\ Q.tableCommitSeqMap = P.tableCommitSeqMap /\ Q.tableMapping = P.tableMapping
      /\ disk' = Q /\ pc' = i
  BY <1>3, <1>4, <1>5, <1>6, <1>7, EndTypes
<1>9. c <= k /\ NameAt(s, k) = n /\ k <= N
  BY <1>1, <1>3, <1>4, <1>6, <1>7 DEF Places, PS
<1>10. Later(k, c) = k
  BY <1>7, <1>9 DEF Later
<1>11. ASSUME NEW r \in SourceTables, r # s
       PROVE  /\ m[r] # id
              /\ m[r] \in DOMAIN target => m[r] \in DOMAIN U /\ U[m[r]] = target[m[r]]
  <2>1. ~(Exists(n) /\ m[r] = IdOf(n))
    BY <1>3, <1>6, <1>11 DEF ReplacesAnother, AtSnapshot
  <2>2. ~(m[r] \in DOMAIN target /\ target[m[r]].name = n)
    <3>1. PICK d : d = m[r]
      OBVIOUS
    <3>2. ASSUME d \in DOMAIN target, target[d].name = n
          PROVE  FALSE
      BY <1>6, <2>1, <3>1, <3>2, IdOfUnique
    <3> QED
      BY <3>1, <3>2
  <2>3. m[r] # id
    BY <1>4, <2>2
  <2> QED
    BY <1>4, <2>2, <2>3
<1>12. PICK w : w = Q.tableMapping
  OBVIOUS
<1>13. w[s] = id /\ \A r \in SourceTables : r # s => w[r] = m[r]
  BY <1>5, <1>8, <1>12
<1>14. U[id].name = n /\ U[id].rows = RowsOf(s, k) /\ id \in DOMAIN U
  BY <1>4 DEF Table
<1>15. Owned(U, w)
  <2>1. Owned(target, m)
    BY <1>3, <1>6 DEF Truth
  <2>2. ASSUME NEW r \in SourceTables, w[r] \in DOMAIN U
        PROVE  /\ \A t \in SourceTables : w[t] = w[r] => t = r
               /\ \A j \in U[w[r]].rows : j \in 1..N /\ log[j].table = r
    <3>1. CASE r = s
      <4>1. \A t \in SourceTables : w[t] = w[r] => t = r
        BY <1>11, <1>13, <3>1
      <4>2. \A j \in RowsOf(s, k) : j \in 1..N /\ log[j].table = s
        BY <1>7, <1>9 DEF RowsOf
      <4> QED
        BY <1>13, <1>14, <3>1, <4>1, <4>2
    <3>2. CASE r # s
      <4>1. w[r] = m[r] /\ m[r] # id
        BY <1>11, <1>13, <3>2
      <4>2. m[r] \in DOMAIN target
        BY <1>4, <2>2, <4>1
      <4>3. U[m[r]] = target[m[r]]
        BY <1>11, <3>2, <4>2
      <4>4. /\ \A t \in SourceTables : m[t] = m[r] => t = r
            /\ \A j \in target[m[r]].rows : j \in 1..N /\ log[j].table = r
        BY <2>1, <4>2 DEF Owned
      <4>5. \A t \in SourceTables : w[t] = w[r] => t = r
        BY <1>13, <4>1, <4>4
      <4> QED
        BY <4>1, <4>3, <4>4, <4>5
    <3> QED
      BY <3>1, <3>2
  <2> QED
    BY <2>2 DEF Owned
<1>16. ASSUME NEW r \in SourceTables
       PROVE  InPlace(U, Q, r, Later(Q.tableCommitSeqMap[r], c)) /\ Q.tableCommitSeqMap[r] <= N
  <2>1. CASE r = s
    <3>1. IsCopy(U, id, s, k)
      BY <1>9, <1>14 DEF IsCopy
    <3> QED
      BY <1>5, <1>8, <1>9, <1>10, <1>12, <1>13, <2>1, <3>1 DEF InPlace
  <2>2. CASE r # s
    <3>1. Base(prog, i) = c /\ ~Uncertain(prog, i) /\ prog.partialSyncData.table = s
      BY <1>3, <1>6 DEF Base, Uncertain, IsIncrementalSync, PS
    <3>2. Good(target, prog, i, r) /\ prog.tableCommitSeqMap[r] <= N
      BY <1>6 DEF Truth
    <3>3. PICK j : j = Later(prog.tableCommitSeqMap[r], c)
      OBVIOUS
    <3>4. InPlace(target, prog, r, j)
      BY <2>2, <3>1, <3>2, <3>3 DEF Good
    <3>5. Q.tableMapping[r] = prog.tableMapping[r]
      BY <1>3, <1>12, <1>13, <2>2
    <3>6. prog.tableMapping[r] \in DOMAIN target =>
            /\ prog.tableMapping[r] \in DOMAIN U
            /\ U[prog.tableMapping[r]] = target[prog.tableMapping[r]]
      BY <1>3, <1>11, <2>2
    <3>7. InPlace(U, Q, r, j)
      BY <3>4, <3>5, <3>6, InPlaceStays
    <3>8. Q.tableCommitSeqMap[r] = prog.tableCommitSeqMap[r]
      BY <1>5, <1>8, <2>2
    <3> QED
      BY <3>2, <3>3, <3>7, <3>8
  <2> QED
    BY <2>1, <2>2
<1>17. Truth(U, Q, i)
  BY <1>8, <1>12, <1>15, <1>16, SettledTruth
<1> QED
  BY <1>3, <1>8, <1>17 DEF TruthAfter

\* A copy stays one when the log grows.
LEMMA CopyGrows ==
    ASSUME SourceTyped, Grows, NEW T, NEW d, NEW s \in SourceTables, NEW k \in 0..N,
           IsCopy(T, d, s, k)
    PROVE  IsCopy(T, d, s, k)'
<1>1. N \in Nat /\ N' \in Nat /\ N <= N'
  BY SourceFacts DEF Grows
<1>2. NameAt(s, k)' = NameAt(s, k) /\ RowsOf(s, k)' = RowsOf(s, k)
  BY GrowsFacts
<1>3. ASSUME Alive(s, k)'
      PROVE  Alive(s, k)
  <2>1. ASSUME NEW j \in k..N
        PROVE  NameAt(s, j) # Nil
    <3>1. j \in 0..N /\ j \in k..N'
      BY <1>1
    <3>2. NameAt(s, j)' = NameAt(s, j)
      BY <3>1, GrowsFacts
    <3>3. NameAt(s, j)' # Nil
      BY <1>3, <3>1 DEF Alive
    <3> QED
      BY <3>2, <3>3
  <2> QED
    BY <2>1 DEF Alive
<1>4. /\ d \in DOMAIN T /\ T[d].name = NameAt(s, k) /\ T[d].rows \subseteq RowsOf(s, k)
      /\ Alive(s, k) => T[d].rows = RowsOf(s, k)
  BY DEF IsCopy
<1>5. /\ d \in DOMAIN T /\ T[d].name = NameAt(s, k)' /\ T[d].rows \subseteq RowsOf(s, k)'
      /\ Alive(s, k)' => T[d].rows = RowsOf(s, k)'
  BY <1>2, <1>3, <1>4
<1> QED
  BY <1>5 DEF IsCopy

\* A table has rows of its own still when the log grows.
LEMMA OwnedGrows ==
    ASSUME SourceTyped, Grows, NEW T, NEW m, Owned(T, m)
    PROVE  Owned(T, m)'
<1>1. N \in Nat /\ N' \in Nat /\ N <= N'
  BY SourceFacts DEF Grows
<1>2. \A j \in 1..N : j \in 1..N' /\ log'[j] = log[j]
  BY <1>1 DEF Grows
<1> QED
  BY <1>2 DEF Owned

\* The copy of a table is in its place still when the log grows.
LEMMA GoodGrows ==
    ASSUME SourceTyped, Grows, NEW T, NEW P \in Progress, NEW h, NEW s \in SourceTables,
           Places(P, h), P.tableCommitSeqMap[s] <= N, Good(T, P, h, s)
    PROVE  Good(T, P, h, s)'
<1>1. N \in Nat /\ N' \in Nat /\ N <= N'
  BY SourceFacts DEF Grows
<1>2. PICK k, d, p, t : /\ k = Later(P.tableCommitSeqMap[s], Base(P, h)) /\ d = P.tableMapping[s]
                        /\ p = P.prevCommitSeq /\ t = P.tableCommitSeqMap[s]
  OBVIOUS
<1>3. t \in Nat /\ t <= N
  <2>1. 0..MaxInt64 \subseteq Nat
    BY NamesAssumption DEF MaxInt64
  <2>2. P.tableCommitSeqMap \in [SourceTables -> 0..MaxInt64]
    BY ProgressFields
  <2>3. P.tableCommitSeqMap[s] \in 0..MaxInt64
    BY <2>2
  <2> QED
    BY <1>2, <2>1, <2>3
<1>4. /\ P.commitSeq \in Nat /\ p \in Nat /\ P.unknownCommitSeq \in Nat
      /\ P.commitSeq <= N /\ p <= P.commitSeq /\ P.unknownCommitSeq <= N
  BY <1>2, ProgressFields DEF Places
<1>5. Base(P, h) \in Nat /\ Base(P, h) <= N
  BY <1>1, <1>2, <1>4 DEF Base
<1>6. k \in 0..N
  BY <1>1, <1>2, <1>3, <1>5 DEF Later
<1>7. NameAt(s, k)' = NameAt(s, k)
  BY <1>6, GrowsFacts
<1>8. CASE InPlace(T, P, s, k)
  <2>1. NameAt(s, k)' = Nil \/ IsCopy(T, d, s, k)'
    BY <1>2, <1>6, <1>7, <1>8, CopyGrows DEF InPlace
  <2>2. InPlace(T, P, s, k)'
    BY <1>2, <2>1 DEF InPlace
  <2> QED
    BY <1>2, <2>2 DEF Good
<1>9. CASE P.syncState = "DBPartialSync" /\ s = P.partialSyncData.table
  BY <1>9 DEF Good
<1>10. CASE Uncertain(P, h) /\ Half(T, P, s)
  <2>1. p + 1 <= N
    <3>1. CASE P.unknownCommitSeq = p + 1
      BY <1>4, <3>1
    <3>2. CASE P.commitSeq # p
      BY <1>1, <1>4, <3>2
    <3> QED
      BY <1>2, <1>10, <3>1, <3>2 DEF Uncertain
  <2>2. p + 1 \in 1..N /\ p + 1 \in 0..N
    BY <1>1, <1>4, <2>1
  <2>3. log'[p + 1] = log[p + 1]
    BY <2>2 DEF Grows
  <2>4. IsCopy(T, d, s, p + 1) => IsCopy(T, d, s, p + 1)'
    BY <2>2, CopyGrows
  <2>5. Half(T, P, s)'
    BY <1>2, <1>10, <2>3, <2>4 DEF Half
  <2>6. Uncertain(P, h)'
    BY <1>10 DEF Uncertain, IsIncrementalSync
  <2> QED
    BY <2>5, <2>6 DEF Good
<1> QED
  BY <1>2, <1>8, <1>9, <1>10 DEF Good

\* What a progress says of the copies stays when the log grows.
LEMMA TruthGrows ==
    ASSUME SourceTyped, Grows, NEW T, NEW P \in Progress, NEW h, Places(P, h), Truth(T, P, h)
    PROVE  Truth(T, P, h)'
<1>1. N \in Nat /\ N' \in Nat /\ N <= N'
  BY SourceFacts DEF Grows
<1>2. \A s \in SourceTables : P.tableCommitSeqMap[s] <= N
  BY DEF Truth
<1>3. \A s \in SourceTables : P.tableCommitSeqMap[s] <= N'
  <2>1. 0..MaxInt64 \subseteq Nat
    BY NamesAssumption DEF MaxInt64
  <2>2. P.tableCommitSeqMap \in [SourceTables -> 0..MaxInt64]
    BY ProgressFields
  <2>3. ASSUME NEW s \in SourceTables
        PROVE  P.tableCommitSeqMap[s] <= N'
    <3>1. PICK t : t = P.tableCommitSeqMap[s]
      OBVIOUS
    <3>2. t \in 0..MaxInt64 /\ t <= N
      BY <1>2, <2>2, <3>1
    <3>3. t <= N'
      BY <1>1, <2>1, <3>2
    <3> QED
      BY <3>1, <3>3
  <2> QED
    BY <2>3
<1>4. PICK m : m = P.tableMapping
  OBVIOUS
<1>5. Owned(T, m)'
  BY <1>4, OwnedGrows DEF Truth
<1>6. Owned(T, P.tableMapping)'
  BY <1>4, <1>5 DEF Owned
<1>7. P.syncState # "DBFullSync" => \A s \in SourceTables : Good(T, P, h, s)'
  BY <1>2, GoodGrows DEF Truth
<1> QED
  BY <1>3, <1>6, <1>7 DEF Truth

\* The step of the log and the step of the job, together.
LEMMA LiftTruth ==
    ASSUME SourceTyped, Grows, NEW T, NEW P \in Progress, NEW D \in Progress, NEW h,
           Places(P, h), Places(D, "idle"), Truth(T, P, h), Truth(T, D, "idle"),
           T = target', P = prog', D = disk', h = pc'
    PROVE  TruthBefore'
<1>1. PICK i : i = "idle"
  OBVIOUS
<1>2. Truth(T, P, h)'
  BY TruthGrows
<1>3. Truth(T, D, i)'
  <2>1. Places(D, i) /\ Truth(T, D, i)
    BY <1>1
  <2> QED
    BY <2>1, TruthGrows
<1>4. Truth(target, prog, pc)'
  <2>1. /\ \A s \in SourceTables : prog'.tableCommitSeqMap[s] <= N'
        /\ Owned(target, prog.tableMapping)'
    BY <1>2 DEF Truth, Owned, N
  <2>2. ASSUME prog'.syncState # "DBFullSync", NEW s \in SourceTables
        PROVE  Good(target, prog, pc, s)'
    <3>1. Good(T, P, h, s)'
      BY <1>2, <2>2 DEF Truth
    <3> QED
      BY <3>1 DEF Good, Half, Uncertain, InPlace, Base, Later, IsCopy, Alive, IsIncrementalSync,
                  NameAt, RowsOf, N
  <2> QED
    BY <2>1, <2>2 DEF Truth
<1>5. Truth(target, disk, "idle")'
  <2>1. /\ \A s \in SourceTables : disk'.tableCommitSeqMap[s] <= N'
        /\ Owned(target, disk.tableMapping)'
    BY <1>3 DEF Truth, Owned, N
  <2>2. ASSUME disk'.syncState # "DBFullSync", NEW s \in SourceTables
        PROVE  Good(target, disk, "idle", s)'
    <3>1. Good(T, D, i, s)'
      BY <1>3, <2>2 DEF Truth
    <3> QED
      BY <1>1, <3>1 DEF Good, Half, Uncertain, InPlace, Base, Later, IsCopy, Alive,
                        IsIncrementalSync, NameAt, RowsOf, N
  <2> QED
    BY <2>1, <2>2 DEF Truth
<1> QED
  BY <1>4, <1>5 DEF TruthBefore

\* Nothing but the restore of a full sync ends one.
LEMMA OnlyRestoreAll ==
    ASSUME Types, JobStep, FullSyncEnds
    PROVE  RestoreAll
<1>1. /\ pc = "idle" /\ prog.syncState = "DBFullSync" /\ prog.subSyncState = "RestoreSnapshot"
  BY DEF FullSyncEnds, AtSnapshot
<1>2. ~IsIncrementalSync(prog)
  BY <1>1 DEF IsIncrementalSync
<1>3. /\ ~StartHandle /\ ~Recover /\ ~SkipBinlog /\ ~SnapshotUnknownReplace /\ ~HandleFails
      /\ ~FinishBinlog
  BY <1>1, <1>2 DEF StartHandle, Recover, SkipBinlog, SnapshotUnknownReplace, HandleFails,
                    FinishBinlog
<1>4. /\ ~HandleUpsert /\ ~CreateTable /\ ~CreateExistingTable /\ ~DropTable /\ ~DropUnknownTable
      /\ ~RenameTable /\ ~ReplaceSkipped /\ ~ReplaceBySnapshot /\ ~ReplaceTable
  BY <1>1 DEF HandleUpsert, CreateTable, CreateExistingTable, DropTable, DropUnknownTable,
              RenameTable, ReplaceSkipped, ReplaceBySnapshot, ReplaceTable, Handles
<1>5. ~StatementFails /\ ~RestoreChangedTable
  BY <1>1 DEF StatementFails, RestoreChangedTable, Handles
<1>6. /\ ~BackupAll /\ ~BackupTable /\ ~BackupIdNotMatch /\ ~BackupTableNotFound /\ ~RestoreTable
  BY <1>1 DEF BackupAll, BackupTable, BackupIdNotMatch, BackupTableNotFound, RestoreTable,
              AtSnapshot
<1> QED
  BY <1>3, <1>4, <1>5, <1>6 DEF JobStep

\* The steps that ask for a full sync keep the copies.
LEMMA AnySnapshotTruth ==
    ASSUME Types, TruthBefore, SnapshotUnknownReplace \/ BackupIdNotMatch \/ FullSyncAsked
    PROVE  TruthAfter
<1>1. prog \in Progress
  BY DEF Types, JobOK
<1>2. prog.commitSeq \in Seqs /\ prog.unknownCommitSeq \in Seqs
  BY <1>1 DEF Progress
<1>3. PICK c \in Seqs, u \in Seqs : c = prog.commitSeq /\ u = prog.unknownCommitSeq
  BY <1>2
<1>4. UNCHANGED target /\ (NewSnapshot(c) \/ NewSnapshot(u))
  BY <1>3 DEF SnapshotUnknownReplace, BackupIdNotMatch, FullSyncAsked
<1> QED
  BY <1>4, SnapshotTruth

\* A step of the job that no name misleads keeps the copies, and a full sync rebuilds them.
LEMMA JobTruth ==
    ASSUME Types, JobAction, ~strayed', ~strayed => TruthBefore
    PROVE  TruthAfter
<1>1. JobStep
  BY DEF JobAction
<1>2. CASE RestoreAll
  BY <1>2, RestoreAllTruth
<1>3. CASE ~RestoreAll
  <2>1. ~FullSyncEnds
    BY <1>1, <1>3, OnlyRestoreAll
  <2>2. /\ TruthBefore /\ ~ReplacesAnother /\ ~GivesUp /\ ~NamesAnother /\ ~FiltersHalf
    BY <2>1 DEF JobAction
  <2>3. CASE StartHandle
    BY <2>2, <2>3, StartTruth
  <2>4. CASE Recover
    BY <2>2, <2>4, RecoverTruth
  <2>5. CASE SkipBinlog
    BY <2>2, <2>5, SkipTruth
  <2>6. CASE HandleFails \/ StatementFails
    <3>1. pc = "handle" /\ UNCHANGED <<target, prog, disk>> /\ pc' = "idle"
      BY <2>6 DEF HandleFails, StatementFails, Handles, Fails
    <3> QED
      BY <2>2, <3>1, FailTruth
  <2>7. CASE SnapshotUnknownReplace \/ BackupIdNotMatch
    BY <2>2, <2>7, AnySnapshotTruth
  <2>8. CASE HandleUpsert
    BY <2>2, <2>8, UpsertTruth
  <2>9. CASE CreateTable
    BY <2>2, <2>9, CreateTruth
  <2>10. CASE CreateExistingTable \/ ReplaceBySnapshot \/ RestoreChangedTable
    BY <2>2, <2>10, AskedTruth
  <2>11. CASE DropTable
    BY <2>2, <2>11, DropTruth
  <2>12. CASE DropUnknownTable
    BY <2>2, <2>12, DropUnknownTruth
  <2>13. CASE RenameTable
    BY <2>2, <2>13, RenameTruth
  <2>14. CASE ReplaceSkipped
    BY <2>2, <2>14, ReplaceSkippedTruth
  <2>15. CASE ReplaceTable
    BY <2>2, <2>15, SwapTruth, ReplaceDropTruth
  <2>16. CASE FinishBinlog
    BY <2>2, <2>16, FinishTruth
  <2>17. CASE BackupAll \/ BackupTable
    BY <2>2, <2>17, BackupTruth
  <2>18. CASE BackupTableNotFound
    BY <2>2, <2>18, NotFoundTruth
  <2>19. CASE RestoreTable
    BY <2>2, <2>19, RestoreTableTruth
  <2> QED
    BY <1>1, <1>3, <2>3, <2>4, <2>5, <2>6, <2>7, <2>8, <2>9, <2>10, <2>11, <2>12, <2>13, <2>14,
       <2>15, <2>16, <2>17, <2>18, <2>19 DEF JobStep
<1> QED
  BY <1>2, <1>3

\* The inductive invariant.  The end of a full sync makes the second part true from the first.
NamesInv == Types /\ (~strayed => TruthBefore)

\* The invariant holds at the start: there is no table at the target yet.
LEMMA InitInv ==
    ASSUME NamesInit
    PROVE  NamesInv
<1>1. Types
  BY InitTypes
<1>2. prog = disk /\ pc = "idle" /\ prog.syncState = "DBFullSync"
  BY DEF NamesInit
<1>3. DOMAIN target = {} /\ prog.tableCommitSeqMap = NoMap
  BY DEF NamesInit
<1>4. Owned(target, prog.tableMapping)
  BY <1>3 DEF Owned
<1>5. 0 <= N
  BY <1>1, SourceFacts DEF Types, SourceOK
<1>6. Truth(target, prog, "idle")
  BY <1>2, <1>3, <1>4, <1>5 DEF Truth, NoMap
<1> QED
  BY <1>1, <1>2, <1>6 DEF NamesInv, TruthBefore

\* Every step keeps the invariant.
LEMMA NextInv ==
    ASSUME NamesInv, [NamesNext]_nameVars
    PROVE  NamesInv'
<1>1. Types /\ Types'
  BY NextTypes DEF NamesInv
<1>2. SourceTyped /\ Grows
  BY <1>1, NextSource DEF Types, SourceOK
<1>3. SUFFICES ASSUME ~strayed'
               PROVE  TruthBefore'
  BY <1>1 DEF NamesInv
<1>4. CASE SourceWrites /\ UNCHANGED strayed
  <2>1. UNCHANGED <<target, prog, disk, pc>> /\ TruthBefore
    BY <1>3, <1>4 DEF SourceWrites, NamesInv
  <2>2. PICK T, P, D, h : T = target' /\ P = prog' /\ D = disk' /\ h = pc'
    OBVIOUS
  <2>3. /\ P \in Progress /\ D \in Progress /\ Places(P, h) /\ Places(D, "idle")
        /\ Truth(T, P, h) /\ Truth(T, D, "idle")
    BY <1>1, <2>1, <2>2 DEF Types, JobOK, TruthBefore
  <2> QED
    BY <1>2, <2>2, <2>3, LiftTruth
<1>5. CASE \/ JobAction \/ UNCHANGED nameVars
           \/ (Crash \/ FullSyncAsked) /\ UNCHANGED strayed
  <2>1. JobAfter /\ TruthAfter
    <3>1. CASE JobAction
      <4>1. JobStep
        BY <3>1 DEF JobAction
      <4> QED
        BY <1>1, <1>3, <3>1, <4>1, JobTypes, JobTruth DEF NamesInv
    <3>2. CASE Crash /\ UNCHANGED strayed
      BY <1>1, <1>3, <3>2, CrashTypes, CrashTruth DEF NamesInv
    <3>3. CASE FullSyncAsked /\ UNCHANGED strayed
      BY <1>1, <1>3, <3>3, FullSyncTypes, AnySnapshotTruth DEF NamesInv
    <3>4. CASE UNCHANGED nameVars
      BY <1>1, <1>3, <3>4 DEF nameVars, Types, JobAfter, NamesInv, TruthBefore, TruthAfter
    <3> QED
      BY <1>5, <3>1, <3>2, <3>3, <3>4
  <2>2. PICK T, P, D, h : T = target' /\ P = prog' /\ D = disk' /\ h = pc'
    OBVIOUS
  <2>3. /\ P \in Progress /\ D \in Progress /\ Places(P, h) /\ Places(D, "idle")
        /\ Truth(T, P, h) /\ Truth(T, D, "idle")
    BY <2>1, <2>2 DEF JobAfter, JobOK, TruthAfter
  <2> QED
    BY <1>2, <2>2, <2>3, LiftTruth
<1> QED
  BY <1>4, <1>5 DEF NamesNext, Environment

\* OneSource holds whatever the two clusters do: until a name misleads the job (strayed), and again
\* after the next full sync, a copy has rows of its own source table only.
THEOREM RowsHaveOneSource == NamesSpec => []OneSource
<1>1. ASSUME NamesInv
      PROVE  OneSource
  <2>1. SUFFICES ASSUME ~strayed
                 PROVE  Owned(target, prog.tableMapping)
    BY DEF OneSource, Owned
  <2> QED
    BY <1>1, <2>1 DEF NamesInv, TruthBefore, Truth
<1> QED
  BY <1>1, InitInv, NextInv, PTL DEF NamesSpec

\* Mirror holds: a job that has caught up, and that no name has misled since the last full sync,
\* has every table of the source under its name and with its rows.
THEOREM CaughtUpIsMirror == NamesSpec => []Mirror
<1>1. ASSUME NamesInv
      PROVE  Mirror
  <2>1. SUFFICES ASSUME CaughtUp, ~strayed, NEW s \in LiveAt(Len(log))
                 PROVE  /\ IsMapped(s) \/ Exists(NameNow(s))
                        /\ CopyOf(s) \in DOMAIN target
                        /\ target[CopyOf(s)] = Table(NameNow(s), RowsOf(s, Len(log)))
    BY DEF Mirror
  <2>2. /\ prog \in Progress /\ Places(prog, "idle") /\ TargetOK(target) /\ N \in Nat
        /\ Truth(target, prog, "idle") /\ pc = "idle"
    BY <1>1, <2>1, SourceFacts DEF CaughtUp, NamesInv, Types, JobOK, TruthBefore, SourceOK
  <2>3. /\ IsIncrementalSync(prog) /\ prog.prevCommitSeq = prog.commitSeq /\ prog.commitSeq = N
        /\ prog.syncState # "DBFullSync" /\ prog.syncState # "DBPartialSync"
    BY <2>1 DEF CaughtUp, IsDone, IsIncrementalSync, N
  <2>4. s \in SourceTables /\ NameAt(s, N) # Nil
    BY <2>1 DEF LiveAt, N
  <2>5. PICK i, d, n, t : /\ i = "idle" /\ d = prog.tableMapping[s] /\ n = N
                          /\ t = prog.tableCommitSeqMap[s]
    OBVIOUS
  <2>6. Good(target, prog, i, s) /\ t <= n
    BY <2>2, <2>3, <2>4, <2>5 DEF Truth
  <2>7. Base(prog, i) = n
    BY <2>3, <2>5 DEF Base
  <2>8. ~Uncertain(prog, i)
    <3>1. prog.unknownCommitSeq \in Nat /\ prog.unknownCommitSeq <= N
      BY <2>2, ProgressFields DEF Places
    <3>2. prog.unknownCommitSeq # prog.prevCommitSeq + 1
      BY <2>2, <2>3, <3>1
    <3> QED
      BY <2>3, <3>2 DEF Uncertain
  <2>9. Later(t, n) = n
    <3>1. t \in 0..MaxInt64
      <4>1. prog.tableCommitSeqMap \in [SourceTables -> 0..MaxInt64]
        BY <2>2, ProgressFields
      <4> QED
        BY <2>4, <2>5, <4>1
    <3>2. t \in Nat /\ n \in Nat
      BY <2>2, <2>5, <3>1, NamesAssumption DEF MaxInt64
    <3> QED
      BY <2>6, <3>2 DEF Later
  <2>10. IsCopy(target, d, s, n)
    BY <2>3, <2>4, <2>5, <2>6, <2>7, <2>8, <2>9 DEF Good, InPlace
  <2>11. Alive(s, n)
    BY <2>2, <2>4, <2>5 DEF Alive
  <2>12. /\ d \in DOMAIN target /\ target[d].name = NameAt(s, n)
         /\ target[d].rows = RowsOf(s, n)
    BY <2>10, <2>11 DEF IsCopy
  <2>13. target[d] \in [name : Names, rows : SUBSET Seqs] /\ d # NoTarget
    BY <2>2, <2>12, NoTargetIsNone DEF TargetOK
  <2>14. target[d] = Table(NameAt(s, n), RowsOf(s, n))
    BY <2>12, <2>13 DEF Table
  <2>15. IsMapped(s) /\ CopyOf(s) = d
    BY <2>5, <2>13 DEF IsMapped, CopyOf
  <2>16. NameNow(s) = NameAt(s, n) /\ RowsOf(s, Len(log)) = RowsOf(s, n)
    BY <2>5 DEF NameNow, N
  <2> QED
    BY <2>12, <2>14, <2>15, <2>16
<1> QED
  BY <1>1, InitInv, NextInv, PTL DEF NamesSpec
===============================================================================
