---------------------------- MODULE ReadDirProofs ----------------------------
(***************************************************************************)
(* Proofs that a listing of the mount misses nothing and repeats no more   *)
(* than was committed meanwhile, for any number of promises and any order  *)
(* of their names.                                                         *)
(***************************************************************************)
EXTENDS ReadDir, FiniteSetTheorems, TLAPS

\* What a listing has still to give is behind its offset.
Ahead == listing = "Open" => \A m \in start \ listed : Index(m) >= offset

\* The offset is in the list, and there were no more entries than it has behind it.
Spent == offset <= Total /\ (given = 0 \/ given + 2 <= offset)

ListingInv == DirTypeOK /\ Ahead /\ Spent /\ ListingComplete

\* There are finitely many promises.
LEMMA IdsFinite ==
    ASSUME DirTypeOK
    PROVE  IsFiniteSet(PromiseIds) /\ promises \in SUBSET PromiseIds
  BY FS_Interval, NameAssumptions DEF PromiseIds, DirTypeOK

\* The list has no more entries than there can be.
LEMMA TotalBound ==
    ASSUME DirTypeOK
    PROVE  Total \in Nat /\ Total <= MaxPromises + 2
<1>1. IsFiniteSet(PromiseIds) /\ Cardinality(PromiseIds) = MaxPromises
  BY FS_Interval, NameAssumptions DEF PromiseIds
<1>2. promises \in SUBSET PromiseIds
  BY Zenon DEF DirTypeOK
<1>3. IsFiniteSet(promises) /\ Cardinality(promises) <= MaxPromises
  BY <1>1, <1>2, FS_Subset, Zenon
<1>4. Cardinality(promises) \in Nat
  BY <1>3, FS_CardinalityType, Zenon
<1> QED BY <1>3, <1>4, NameAssumptions DEF Total

\* Indices are numbers below Total.
LEMMA IndexBelow ==
    ASSUME DirTypeOK, NEW m \in promises
    PROVE  Index(m) \in Nat /\ Total \in Nat /\ Index(m) < Total
<1> DEFINE T == {n \in promises : Before(n, m)}
<1>1. IsFiniteSet(PromiseIds) /\ promises \in SUBSET PromiseIds
  BY Zenon, IdsFinite
<1>2. IsFiniteSet(promises)
  BY <1>1, FS_Subset, Zenon
<1>3. m \notin T /\ T \in SUBSET promises
  BY <1>1, NameAssumptions, Zenon
<1>4. IsFiniteSet(T) /\ Cardinality(T) <= Cardinality(promises) /\ (Cardinality(promises) = Cardinality(T) => promises = T)
  BY <1>2, <1>3, FS_Subset, Zenon
<1>5. Cardinality(T) \in Nat /\ Cardinality(promises) \in Nat
  BY <1>2, <1>4, FS_CardinalityType, Zenon
<1> QED BY <1>3, <1>4, <1>5 DEF Index, Total

\* A commit moves no promise towards the beginning.
LEMMA IndexGrows ==
    ASSUME DirTypeOK, DirTypeOK', promises \subseteq promises', NEW m \in promises
    PROVE  Index(m)' >= Index(m) /\ Index(m)' \in Nat /\ Index(m) \in Nat
<1> DEFINE T == {n \in promises : Before(n, m)}
           U == {n \in promises' : Before(n, m)}
<1>0. IsFiniteSet(PromiseIds)
  BY FS_Interval, NameAssumptions DEF PromiseIds
<1>1. IsFiniteSet(PromiseIds) /\ U \in SUBSET PromiseIds /\ T \in SUBSET U
  BY <1>0, Zenon DEF DirTypeOK
<1>2. IsFiniteSet(U)
  BY <1>1, FS_Subset, Zenon
<1>3. IsFiniteSet(T) /\ Cardinality(T) <= Cardinality(U)
  BY <1>1, <1>2, FS_Subset, Zenon
<1>4. Cardinality(T) \in Nat /\ Cardinality(U) \in Nat
  BY <1>2, <1>3, FS_CardinalityType, Zenon
<1> QED BY <1>3, <1>4 DEF Index

\* Promises in the order of their names are in the order of their indices.
LEMMA IndexOrder ==
    ASSUME DirTypeOK, NEW m \in promises, NEW n \in promises, Before(m, n)
    PROVE  Index(m) < Index(n)
<1> DEFINE T == {l \in promises : Before(l, m)}
           U == {l \in promises : Before(l, n)}
<1>1. IsFiniteSet(PromiseIds) /\ promises \in SUBSET PromiseIds
  BY Zenon, IdsFinite
<1>2. U \in SUBSET PromiseIds /\ T \in SUBSET U /\ m \in U /\ m \notin T
  BY Zenon, <1>1, NameAssumptions
<1>3. IsFiniteSet(U)
  BY <1>1, <1>2, FS_Subset, Zenon
<1>4. IsFiniteSet(T) /\ Cardinality(T) <= Cardinality(U) /\ (Cardinality(U) = Cardinality(T) => U = T)
  BY <1>2, <1>3, FS_Subset, Zenon
<1>5. Cardinality(T) \in Nat /\ Cardinality(U) \in Nat
  BY <1>3, <1>4, FS_CardinalityType, Zenon
<1> QED BY <1>2, <1>4, <1>5 DEF Index

\* Between two indices there are no more promises than numbers.
LEMMA Width ==
    ASSUME DirTypeOK, NEW lo \in Nat, NEW hi \in Nat, lo <= hi
    PROVE  LET S == {m \in promises : Index(m) >= lo /\ Index(m) < hi}
           IN  IsFiniteSet(S) /\ Cardinality(S) \in Nat /\ Cardinality(S) <= hi - lo
<1> DEFINE S == {m \in promises : Index(m) >= lo /\ Index(m) < hi}
           f == [m \in S |-> Index(m)]
<1>1. \A m \in S : m \in promises /\ Index(m) \in lo .. hi - 1
  BY IndexBelow
<1>2. \A m, n \in S : Index(m) = Index(n) => m = n
  <2> SUFFICES ASSUME NEW m \in S, NEW n \in S, Index(m) = Index(n), m # n PROVE FALSE
    BY Zenon
  <2>1. m \in promises /\ n \in promises /\ m \in PromiseIds /\ n \in PromiseIds
    BY Zenon DEF DirTypeOK
  <2>2. Before(m, n) \/ Before(n, m)
    BY Zenon, <2>1, NameAssumptions
  <2>3. Index(m) < Index(n) \/ Index(n) < Index(m)
    BY <2>1, <2>2, IndexOrder, Zenon
  <2>4. Index(m) \in Nat /\ Index(n) \in Nat
    BY <2>1, IndexBelow, Zenon
  <2> QED BY <2>3, <2>4
<1> HIDE DEF S
<1>3. f \in Injection(S, lo .. hi - 1)
  BY <1>1, <1>2, Zenon DEF Injection, IsInjective
<1>4. IsFiniteSet(lo .. hi - 1) /\ Cardinality(lo .. hi - 1) = hi - lo
  <2>1. lo \in Int /\ hi - 1 \in Int /\ (lo > hi - 1 => hi - lo = 0)
    OBVIOUS
  <2>2. /\ IsFiniteSet(lo .. hi - 1)
        /\ Cardinality(lo .. hi - 1) = IF lo > hi - 1 THEN 0 ELSE hi - 1 - lo + 1
    BY Zenon, <2>1, FS_Interval
  <2> QED BY <2>1, <2>2
<1> HIDE DEF f
<1>5. IsFiniteSet(S) /\ Cardinality(S) <= Cardinality(lo .. hi - 1)
  BY <1>3, <1>4, FS_Injection, ZenonT(60)
<1>6. Cardinality(S) \in Nat
  BY <1>5, FS_CardinalityType, Zenon
<1> QED BY <1>4, <1>5, <1>6, Zenon DEF S

\* Up to an index of the list there are all the promises that fit there.
LEMMA Front ==
    ASSUME DirTypeOK, NEW c \in Nat, c <= Total
    PROVE  LET S == {m \in promises : Index(m) < c}
           IN  IsFiniteSet(S) /\ Cardinality(S) \in Nat /\ c <= Cardinality(S) + 2
<1> DEFINE S == {m \in promises : Index(m) < c}
           T == {m \in promises : Index(m) >= c /\ Index(m) < Total}
<1>1. Total \in Nat
  BY TotalBound, Zenon
<1>2. IsFiniteSet(T) /\ Cardinality(T) \in Nat /\ Cardinality(T) <= Total - c
  BY <1>1, Width, Zenon
<1>3. IsFiniteSet(PromiseIds) /\ promises \in SUBSET PromiseIds
  BY Zenon, IdsFinite
<1>4. IsFiniteSet(promises) /\ Cardinality(promises) \in Nat
  BY <1>3, FS_Subset, FS_CardinalityType, Zenon
<1>5. S = promises \ T
  BY IndexBelow
<1>6. promises \cap T = T
  BY Zenon
<1> HIDE DEF S, T
<1>7. IsFiniteSet(S) /\ Cardinality(S) = Cardinality(promises) - Cardinality(T)
  <2>1. /\ IsFiniteSet(promises \ T)
        /\ Cardinality(promises \ T) = Cardinality(promises) - Cardinality(promises \cap T)
    BY Zenon, <1>4, FS_Difference
  <2> QED BY Zenon, <1>5, <1>6, <2>1
<1>8. Cardinality(S) \in Nat
  BY <1>7, FS_CardinalityType, Zenon
<1> QED BY <1>1, <1>2, <1>4, <1>7, <1>8 DEF Total, S

\* What the offset has behind it was listed or has been committed since.
LEMMA RepeatsFollow ==
    ASSUME ListingInv
    PROVE  RepeatsAreCommits
<1> SUFFICES ASSUME listing # "Closed" PROVE given - Cardinality(listed) <= Cardinality(promises \ start)
  BY Zenon DEF RepeatsAreCommits
<1> DEFINE S == {m \in promises : Index(m) < offset}
           N == promises \ start
<1>1. DirTypeOK /\ Ahead /\ Spent /\ ListingComplete
  BY Zenon DEF ListingInv
<1>2. offset \in Nat /\ given \in Nat /\ listing \in {"Open", "Done"} /\ listed \subseteq promises
  BY <1>1, NameAssumptions DEF DirTypeOK
<1>3. IsFiniteSet(S) /\ Cardinality(S) \in Nat /\ offset <= Cardinality(S) + 2
  BY <1>1, <1>2, Front, Zenon DEF Spent
<1>4. IsFiniteSet(PromiseIds) /\ listed \in SUBSET PromiseIds /\ N \in SUBSET PromiseIds
  BY <1>1, FS_Interval, NameAssumptions DEF PromiseIds, DirTypeOK
<1>5. IsFiniteSet(listed) /\ IsFiniteSet(N)
  BY <1>4, FS_Subset, Zenon
<1>6. S \subseteq listed \cup N
  <2> SUFFICES ASSUME NEW m \in S, m \in start, m \notin listed PROVE FALSE
    BY Zenon
  <2>1. listing = "Open"
    BY <1>1, <1>2, Zenon DEF ListingComplete
  <2>2. Index(m) >= offset /\ Index(m) < offset /\ Index(m) \in Nat
    BY <1>1, <2>1, IndexBelow, Zenon DEF Ahead
  <2> QED BY <1>2, <2>2
<1> HIDE DEF S, N
<1>7. /\ IsFiniteSet(listed \cup N) /\ IsFiniteSet(listed \cap N)
      /\ Cardinality(listed \cup N) = Cardinality(listed) + Cardinality(N) - Cardinality(listed \cap N)
  <2>1. listed \cap N \in SUBSET listed
    BY Zenon
  <2> QED BY <1>5, <2>1, FS_Union, FS_Subset, Zenon
<1>8. Cardinality(S) <= Cardinality(listed \cup N)
  <2>1. S \in SUBSET (listed \cup N)
    BY <1>6, Zenon
  <2> QED BY <1>7, <2>1, FS_Subset, Zenon
<1>9. /\ Cardinality(listed) \in Nat /\ Cardinality(N) \in Nat /\ Cardinality(listed \cap N) \in Nat
      /\ Cardinality(listed \cup N) \in Nat
  BY <1>5, <1>7, FS_CardinalityType, Zenon
<1>10. given <= Cardinality(S)
  BY <1>1, <1>2, <1>3 DEF Spent
<1>11. given - Cardinality(listed) <= Cardinality(N)
  BY <1>2, <1>3, <1>7, <1>8, <1>9, <1>10
<1> QED BY <1>11, Zenon DEF N

\* A call of readdir gives no more promises than it moves the offset.
LEMMA BatchFits ==
    ASSUME DirTypeOK, Spent, NEW k \in Nat \ {0}, NEW o \in Nat, offset < Total,
           o = IF offset + k < Total THEN offset + k ELSE Total
    PROVE  /\ given + Cardinality(Batch(k)) \in Nat
           /\ given + Cardinality(Batch(k)) = 0 \/ given + Cardinality(Batch(k)) + 2 <= o
<1> DEFINE lo == IF offset < 2 THEN 2 ELSE offset
           hi == IF o < 2 THEN 2 ELSE o
           S == {m \in promises : Index(m) >= lo /\ Index(m) < hi}
<1>1. offset \in Nat /\ given \in Nat /\ Total \in Nat
  BY TotalBound, NameAssumptions DEF DirTypeOK
<1>2. lo \in Nat /\ hi \in Nat /\ lo <= hi
  BY <1>1
<1>3. \A m \in promises : Index(m) \in Nat /\ Index(m) >= 2 /\ Index(m) < Total
  <2> SUFFICES ASSUME NEW m \in promises PROVE Index(m) \in Nat /\ Index(m) >= 2 /\ Index(m) < Total
    BY Zenon
  <2>1. Index(m) \in Nat /\ Index(m) < Total
    BY IndexBelow, Zenon
  <2>2. IsFiniteSet(PromiseIds) /\ promises \in SUBSET PromiseIds
    BY Zenon, IdsFinite
  <2>3. Cardinality({n \in promises : Before(n, m)}) \in Nat
    <3>1. {n \in promises : Before(n, m)} \in SUBSET PromiseIds
      BY Zenon, <2>2
    <3> QED BY <2>2, <3>1, FS_Subset, FS_CardinalityType, Zenon
  <2> QED BY <2>1, <2>3 DEF Index
<1>4. Batch(k) = S
  BY <1>1, <1>3 DEF Batch
<1>5. Cardinality(S) \in Nat /\ Cardinality(S) <= hi - lo
  BY <1>2, Width, Zenon
<1> HIDE DEF S
<1>6. given + 2 <= lo
  BY <1>1 DEF Spent
<1>7. given + Cardinality(S) + 2 <= hi
  BY <1>1, <1>2, <1>5, <1>6
<1> QED BY <1>1, <1>4, <1>5, <1>7

\* readdir keeps the invariant.
LEMMA ReadDirKeeps ==
    ASSUME ListingInv, NEW k \in Nat \ {0}, readdir(k)
    PROVE  ListingInv'
<1>1. /\ listing = "Open" /\ UNCHANGED <<promises, start>>
      /\ DirTypeOK /\ Ahead /\ Spent
      /\ Total \in Nat /\ Total <= MaxPromises + 2 /\ Total' = Total
  BY TotalBound, Zenon DEF ListingInv, readdir, Total
<1>2. CASE offset >= Total
  <2>1. listing' = "Done" /\ UNCHANGED <<offset, listed, given>>
    BY <1>2, Zenon DEF readdir
  <2>2. start \subseteq listed
    <3> SUFFICES ASSUME NEW m \in start, m \notin listed PROVE FALSE
      BY Zenon
    <3>1. Index(m) \in Nat /\ Index(m) < Total
      BY <1>1, IndexBelow, Zenon DEF DirTypeOK
    <3>2. Index(m) >= offset /\ offset \in Nat
      BY <1>1, NameAssumptions DEF Ahead, DirTypeOK
    <3> QED BY <1>1, <1>2, <3>1, <3>2
  <2> QED BY <1>1, <2>1, <2>2, Zenon DEF ListingInv, DirTypeOK, Ahead, Spent, ListingComplete
<1>3. CASE ~(offset >= Total)
  <2>1. /\ listed' = listed \cup Batch(k)
        /\ given' = given + Cardinality(Batch(k))
        /\ offset' = IF offset + k < Total THEN offset + k ELSE Total
        /\ listing' = listing
    BY <1>3, Zenon DEF readdir
  <2>2. /\ offset \in Nat /\ offset' \in Nat /\ offset' \in 0 .. MaxPromises + 2
        /\ offset' <= offset + k /\ offset' <= Total /\ offset < Total
    BY <1>1, <1>3, <2>1, NameAssumptions DEF DirTypeOK
  <2>3. given' \in Nat /\ (given' = 0 \/ given' + 2 <= offset')
    BY <1>1, <2>1, <2>2, BatchFits, Zenon
  <2>4. DirTypeOK'
    BY <1>1, <2>1, <2>2, <2>3, Zenon DEF DirTypeOK, Batch
  <2>5. ASSUME NEW m \in start, m \notin listed' PROVE Index(m)' >= offset'
    <3>1. m \in promises /\ Index(m) \in Nat /\ Index(m)' = Index(m)
      BY <1>1, IndexBelow, Zenon DEF DirTypeOK, Index
    <3>2. m \notin listed /\ m \notin Batch(k)
      BY <2>1, <2>5, Zenon
    <3>3. Index(m) >= offset
      BY <1>1, <3>2, Zenon DEF Ahead
    <3>4. Index(m) >= offset + k
      BY <2>2, <3>1, <3>2, <3>3 DEF Batch
    <3> QED BY <2>2, <3>1, <3>4
  <2>6. Ahead' /\ ListingComplete'
    BY <1>1, <2>1, <2>5, Zenon DEF Ahead, ListingComplete
  <2>7. Spent'
    BY <1>1, <2>2, <2>3, Zenon DEF Spent
  <2> QED BY <2>4, <2>6, <2>7, Zenon DEF ListingInv
<1> QED BY <1>2, <1>3, Zenon

\* A commit between two calls keeps the invariant.
LEMMA CommitKeeps ==
    ASSUME ListingInv, commit_promise
    PROVE  ListingInv'
<1>0. DirTypeOK /\ Ahead /\ Spent /\ ListingComplete
  BY Zenon DEF ListingInv
<1>1. promises \subseteq promises' /\ promises' \subseteq PromiseIds /\ UNCHANGED readerVars
  BY <1>0, Zenon DEF commit_promise, DirTypeOK
<1>2. DirTypeOK'
  BY <1>0, <1>1, Zenon DEF DirTypeOK, readerVars
<1>3. ASSUME NEW m \in start \ listed, listing = "Open" PROVE Index(m)' >= offset
  <2>1. m \in promises /\ Index(m)' >= Index(m) /\ Index(m)' \in Nat /\ Index(m) \in Nat
    BY <1>0, <1>1, <1>2, IndexGrows, Zenon DEF DirTypeOK
  <2>2. Index(m) >= offset /\ offset \in Nat
    BY <1>0, <1>3, NameAssumptions DEF Ahead, DirTypeOK
  <2> QED BY <2>1, <2>2
<1>4. Total <= Total' /\ Total \in Nat /\ Total' \in Nat
  <2>1. IsFiniteSet(PromiseIds) /\ promises' \in SUBSET PromiseIds /\ promises \in SUBSET promises'
    BY <1>1, FS_Interval, NameAssumptions DEF PromiseIds
  <2>2. IsFiniteSet(promises')
    BY <2>1, FS_Subset, Zenon
  <2>3. Cardinality(promises) <= Cardinality(promises') /\ IsFiniteSet(promises)
    BY <2>1, <2>2, FS_Subset, Zenon
  <2>4. Cardinality(promises) \in Nat /\ Cardinality(promises') \in Nat
    BY <2>2, <2>3, FS_CardinalityType, Zenon
  <2> QED BY <2>3, <2>4 DEF Total
<1>5. Spent'
  <2>1. offset \in Nat /\ offset' = offset /\ given' = given
    BY <1>0, <1>1, NameAssumptions DEF DirTypeOK, readerVars
  <2> QED BY <1>0, <1>4, <2>1 DEF Spent
<1>6. Ahead' /\ ListingComplete'
  BY <1>0, <1>1, <1>3, Zenon DEF Ahead, ListingComplete, readerVars
<1> QED BY <1>2, <1>5, <1>6, Zenon DEF ListingInv

\* The invariant holds in every state.
THEOREM ListingInvariant == Spec => []ListingInv
<1>1. Init => ListingInv
  <2> SUFFICES ASSUME Init PROVE ListingInv
    BY Zenon
  <2>1. DirTypeOK /\ Ahead /\ ListingComplete
    BY NameAssumptions DEF Init, DirTypeOK, Ahead, ListingComplete
  <2>2. Total \in Nat
    BY <2>1, TotalBound, Zenon
  <2> QED BY <2>1, <2>2 DEF Init, ListingInv, Spent
<1>2. ListingInv /\ [Next]_vars => ListingInv'
  <2> SUFFICES ASSUME ListingInv, [Next]_vars PROVE ListingInv'
    BY Zenon
  <2>0. DirTypeOK /\ Ahead /\ Spent /\ ListingComplete /\ Total \in Nat
    BY TotalBound, Zenon DEF ListingInv
  <2>1. CASE UNCHANGED vars
    <3>1. UNCHANGED <<promises, listing, offset, listed, given, start>>
      BY <2>1, Zenon DEF vars, readerVars
    <3>2. Total' = Total /\ \A m : Index(m)' = Index(m)
      BY <3>1, Zenon DEF Total, Index
    <3> QED BY <2>0, <3>1, <3>2, Zenon DEF ListingInv, DirTypeOK, Ahead, Spent, ListingComplete
  <2>2. CASE commit_promise
    BY Zenon, <2>2, CommitKeeps
  <2>3. CASE opendir
    <3>1. /\ promises' = promises /\ listing' = "Open" /\ offset' = 0 /\ start' = promises
          /\ listed' = {} /\ given' = 0
      BY <2>3, Zenon DEF opendir
    <3>2. \A m \in promises : Index(m)' = Index(m) /\ Index(m) \in Nat
      BY <2>0, <3>1, IndexBelow, Zenon DEF Index
    <3>3. DirTypeOK' /\ Ahead' /\ ListingComplete'
      BY <2>0, <3>1, <3>2, NameAssumptions DEF DirTypeOK, Ahead, ListingComplete
    <3>4. Spent'
      BY <2>0, <3>1 DEF Spent, Total
    <3> QED BY <3>3, <3>4, Zenon DEF ListingInv
  <2>4. ASSUME NEW k \in 1 .. Total, readdir(k) PROVE ListingInv'
    <3>1. k \in Nat \ {0}
      BY <2>0
    <3> QED BY Zenon, <2>4, <3>1, ReadDirKeeps
  <2> QED BY Zenon, <2>1, <2>2, <2>3, <2>4 DEF Next
<1> QED BY <1>1, <1>2, PTL DEF Spec

\* A listing misses nothing (PromiseFilesystem::readdir, Runtime::read_dir).
THEOREM ListingTheorem == Spec => []ListingComplete
<1>1. ListingInv => ListingComplete
  BY Zenon DEF ListingInv
<1> QED BY <1>1, ListingInvariant, PTL

\* A listing repeats no more than was committed while it was open
\* (PromiseFilesystem::readdir, Runtime::commit_promise).
THEOREM RepeatsTheorem == Spec => []RepeatsAreCommits
<1>1. ListingInv => RepeatsAreCommits
  BY RepeatsFollow, Zenon
<1> QED BY <1>1, ListingInvariant, PTL
=============================================================================
