--------------------------- MODULE HashMapProofs ---------------------------
(* The hash map is a correct map for every set of keys, every hash function *)
(* and every size, as long as the comparator is equality of keys.           *)
EXTENDS HashMap, FiniteSetTheorems, WellFoundedInduction, TLAPS

USE TableAssumption

\* What holds of integer and string keys (ox_hkeq compares their bytes).
KeysCompareByIdentity == Same = {<<k, k>> : k \in Keys}

\* The entries the table already names: all of them unless a rebuild is on.
Placed == IF place = 0 THEN Len(entries) ELSE place - 1

\* A probe for the key of entry s meets s before it meets a free bucket.
Reachable(s) ==
  \E i \in Probes :
    /\ buckets[BucketAt(entries[s].key, i)] = s
    /\ \A h \in 0 .. i - 1 : buckets[BucketAt(entries[s].key, h)] # 0

DistinctKeys ==
  \A i, j \in 1 .. Len(entries) : entries[i].key = entries[j].key => i = j

TableInv ==
  /\ buckets \in [0 .. nbuckets - 1 -> 0 .. Placed]
  /\ \A s \in 1 .. Placed : Reachable(s)
  /\ \A b, c \in 0 .. nbuckets - 1 : buckets[b] = buckets[c] /\ buckets[b] # 0 => b = c

LoadLimit == (nbuckets * 3) \div 4

SizeInv ==
  /\ nbuckets # 0 => nbuckets >= 2 /\ Len(entries) <= LoadLimit
  /\ nbuckets = 0 => entries = <<>> /\ place = 0
  /\ Len(entries) <= cap
  /\ place = 0 => pending = NoPair
  /\ pending # NoPair =>
       /\ Len(entries) + 1 <= LoadLimit /\ Len(entries) + 1 <= cap
       /\ \A i \in 1 .. Len(entries) : entries[i].key # pending[1]

Inv == TypeOK /\ DistinctKeys /\ TableInv /\ SizeInv /\ wild = FALSE

-----------------------------------------------------------------------------
(* Arithmetic of the probe path *)

\* Every nonempty set of naturals has a least element.
LEMMA LeastNat ==
  ASSUME NEW T, T \subseteq Nat, T # {}
  PROVE  \E m \in T : \A k \in T : m <= k
<1>1. IsWellFoundedOn(OpToRel(<, Nat), Nat)
  BY NatLessThanWellFounded
<1>2. PICK m \in T : \A k \in T : ~ (<<k, m>> \in OpToRel(<, Nat))
  BY <1>1, WFMin
<1>3. \A k \in T : ~ (k < m)
  BY <1>2 DEF OpToRel
<1> QED BY <1>3

\* A probe path stays inside the table and visits all of it.
LEMMA ProbePath ==
  ASSUME NEW k \in Keys, nbuckets \in Nat \ {0}
  PROVE  /\ \A i \in Probes : BucketAt(k, i) \in 0 .. nbuckets - 1
         /\ \A b \in 0 .. nbuckets - 1 : \E i \in Probes : BucketAt(k, i) = b
<1> DEFINE h == Hash[k] % nbuckets
<1>1. h \in 0 .. nbuckets - 1
  <2>1. Hash[k] \in Nat
    OBVIOUS
  <2> QED BY <2>1
<1>2. \A n \in 0 .. 2 * nbuckets - 1 : n % nbuckets = IF n < nbuckets THEN n ELSE n - nbuckets
  OBVIOUS
<1> HIDE DEF h
<1>3. \A i \in Probes : (h + i) % nbuckets = IF h + i < nbuckets THEN h + i ELSE h + i - nbuckets
  BY <1>1, <1>2 DEF Probes
<1>4. \A i \in Probes : BucketAt(k, i) = (h + i) % nbuckets
  BY DEF BucketAt, h
<1>5. \A i \in Probes : BucketAt(k, i) \in 0 .. nbuckets - 1
  BY <1>1, <1>3, <1>4 DEF Probes
<1>6. ASSUME NEW b \in 0 .. nbuckets - 1 PROVE \E i \in Probes : BucketAt(k, i) = b
  <2>1. CASE b >= h
    <3>1. b - h \in Probes /\ h + (b - h) = b
      BY <1>1, <2>1 DEF Probes
    <3> QED BY <1>3, <1>4, <3>1
  <2>2. CASE b < h
    <3>1. /\ b - h + nbuckets \in Probes /\ h + (b - h + nbuckets) - nbuckets = b
          /\ h + (b - h + nbuckets) >= nbuckets
      BY <1>1, <2>2 DEF Probes
    <3> QED BY <1>1, <1>3, <1>4, <3>1
  <2> QED BY <1>1, <2>1, <2>2
<1> QED BY <1>5, <1>6

\* Fewer placed entries than buckets leave a bucket free.
LEMMA FreeBucketExists ==
  ASSUME TypeOK, TableInv, Placed < nbuckets
  PROVE  \E b \in 0 .. nbuckets - 1 : buckets[b] = 0
<1> SUFFICES ASSUME \A b \in 0 .. nbuckets - 1 : buckets[b] # 0 PROVE FALSE
  OBVIOUS
<1>1. Placed \in Nat /\ nbuckets \in Nat
  BY DEF TypeOK, Placed
<1>2. buckets \in [0 .. nbuckets - 1 -> 1 .. Placed]
  <2>1. \A b \in 0 .. nbuckets - 1 : buckets[b] \in 1 .. Placed
    BY <1>1 DEF TableInv
  <2> QED BY <2>1 DEF TableInv
<1>3. /\ IsFiniteSet(0 .. nbuckets - 1) /\ Cardinality(0 .. nbuckets - 1) = nbuckets
      /\ IsFiniteSet(1 .. Placed) /\ Cardinality(1 .. Placed) = Placed
  BY <1>1, FS_Interval
<1>4. \E b, c \in 0 .. nbuckets - 1 : b # c /\ buckets[b] = buckets[c]
  <2> DEFINE S == 0 .. nbuckets - 1
             T == 1 .. Placed
  <2>1. /\ IsFiniteSet(S) /\ IsFiniteSet(T) /\ buckets \in [S -> T]
        /\ Cardinality(T) < Cardinality(S)
    BY <1>1, <1>2, <1>3
  <2> HIDE DEF S, T
  <2>2. \E b, c \in S : b # c /\ buckets[b] = buckets[c]
    BY <2>1, FS_PigeonHole
  <2> QED BY <2>2 DEF S
<1> QED BY <1>4 DEF TableInv

\* Then every probe path has a first free bucket.
LEMMA FirstFreeExists ==
  ASSUME TypeOK, TableInv, Placed < nbuckets, NEW k \in Keys
  PROVE  \E i \in Probes : IsFree(k, i) /\ \A h \in 0 .. i - 1 : ~IsFree(k, h)
<1> DEFINE T == {i \in Probes : IsFree(k, i)}
<1>0. nbuckets \in Nat \ {0}
  BY DEF TypeOK, Placed
<1>1. T # {}
  <2>1. PICK b \in 0 .. nbuckets - 1 : buckets[b] = 0
    BY FreeBucketExists
  <2>2. PICK i \in Probes : BucketAt(k, i) = b
    BY <1>0, ProbePath
  <2> QED BY <2>1, <2>2 DEF IsFree
<1>2. T \subseteq Nat
  BY DEF Probes
<1>3. PICK m \in T : \A i \in T : m <= i
  BY <1>1, <1>2, LeastNat
<1>4. \A h \in 0 .. m - 1 : h \in Probes /\ h \notin T
  BY <1>0, <1>2, <1>3 DEF Probes
<1> QED BY <1>3, <1>4

\* And so does every search have a first stop.
LEMMA FirstStopExists ==
  ASSUME TypeOK, TableInv, Placed < nbuckets, NEW k \in Keys
  PROVE  FirstStop(k) # {}
<1> DEFINE T == {i \in Probes : Stops(k, i)}
<1>0. nbuckets \in Nat \ {0}
  BY DEF TypeOK, Placed
<1>1. T # {}
  BY FirstFreeExists DEF Stops
<1>2. T \subseteq Nat
  BY DEF Probes
<1>3. PICK m \in T : \A i \in T : m <= i
  BY <1>1, <1>2, LeastNat
<1>4. \A h \in 0 .. m - 1 : h \in Probes /\ h \notin T
  BY <1>0, <1>2, <1>3 DEF Probes
<1> QED BY <1>3, <1>4 DEF FirstStop

-----------------------------------------------------------------------------
(* What a search finds *)

HasKey(k) == \E s \in 1 .. Len(entries) : entries[s].key = k

\* With every entry placed, a search for k ends at a bucket on k's path behind
\* used ones only: the bucket of k's entry if k has one, a free one if not.
LEMMA FindIsCorrect ==
  ASSUME KeysCompareByIdentity, TypeOK, DistinctKeys, TableInv,
         Placed = Len(entries), Len(entries) < nbuckets,
         NEW k \in Keys, NEW f \in Find(k)
  PROVE  /\ f.bucket \in 0 .. nbuckets - 1 /\ f.slot = buckets[f.bucket]
         /\ f.slot # 0 => f.slot \in 1 .. Len(entries) /\ entries[f.slot].key = k
         /\ f.slot = 0 => ~HasKey(k)
         /\ \E i \in Probes : /\ f.bucket = BucketAt(k, i)
                             /\ \A h \in 0 .. i - 1 : buckets[BucketAt(k, h)] # 0
<1>0. nbuckets \in Nat \ {0} /\ Len(entries) \in Nat
  BY DEF TypeOK
<1>1. PICK i \in FirstStop(k) :
        f = [bucket |-> BucketAt(k, i), slot |-> buckets[BucketAt(k, i)]]
  BY FirstStopExists DEF Find
<1>2. /\ i \in Probes /\ Stops(k, i) /\ \A h \in 0 .. i - 1 : ~Stops(k, h)
  BY <1>1 DEF FirstStop
<1>3. f.bucket = BucketAt(k, i) /\ f.slot = buckets[f.bucket]
  BY <1>1
<1>4. f.bucket \in 0 .. nbuckets - 1
  BY <1>0, <1>2, <1>3, ProbePath
<1>5. f.slot \in 0 .. Len(entries)
  BY <1>3, <1>4 DEF TableInv
<1>6. ASSUME f.slot # 0 PROVE entries[f.slot].key = k
  BY <1>2, <1>3, <1>6 DEF Stops, IsFree, KeysCompareByIdentity
<1>7. ASSUME f.slot = 0 PROVE ~HasKey(k)
  <2> SUFFICES ASSUME NEW s \in 1 .. Len(entries), entries[s].key = k PROVE FALSE
    BY DEF HasKey
  <2>1. Reachable(s)
    BY DEF TableInv
  <2>2. PICK j \in Probes : /\ buckets[BucketAt(k, j)] = s
                           /\ \A h \in 0 .. j - 1 : buckets[BucketAt(k, h)] # 0
    BY <2>1 DEF Reachable
  <2>3. Stops(k, j)
    BY <2>2 DEF Stops, KeysCompareByIdentity
  <2> s # 0 /\ buckets[BucketAt(k, i)] = 0
    BY <1>0, <1>3, <1>7
  <2>4. i # j
    BY <2>2
  <2>5. i \in Nat /\ j \in Nat
    BY <1>0, <1>2 DEF Probes
  <2>6. CASE i < j
    <3>1. i \in 0 .. j - 1
      BY <2>5, <2>6
    <3> QED BY <2>2, <3>1
  <2>7. CASE j < i
    BY <1>2, <2>3, <2>5, <2>7
  <2> QED BY <2>4, <2>5, <2>6, <2>7
<1>8. \A h \in 0 .. i - 1 : buckets[BucketAt(k, h)] # 0
  BY <1>2 DEF Stops, IsFree
<1> QED BY <1>2, <1>3, <1>4, <1>5, <1>6, <1>7, <1>8

-----------------------------------------------------------------------------
(* Growing *)

LEMMA GrownCapFits ==
  ASSUME TypeOK, SizeInv
  PROVE  GrownCap \in Nat /\ Len(entries) + 1 <= GrownCap
  BY DEF TypeOK, SizeInv, GrownCap

LEMMA LimitBelowTable ==
  ASSUME NEW n \in Nat, n >= 2
  PROVE  /\ (n * 3) \div 4 < n /\ (n * 3) \div 4 >= 1
         /\ (n * 3) \div 4 + 1 <= ((2 * n) * 3) \div 4
  OBVIOUS

\* A rebuild starts from an empty table, of which every claim holds.
LEMMA StartRebuildInv ==
  ASSUME NEW n \in Nat \ {0}, NEW pair, StartRebuild(n, pair)
  PROVE  TableInv' /\ place' = 1 /\ pending' = pair /\ nbuckets' = n
<1>1. Placed' = 0 /\ nbuckets' = n /\ buckets' = [b \in 0 .. n - 1 |-> 0]
  BY DEF StartRebuild, Placed
<1> QED BY <1>1 DEF TableInv, StartRebuild

\* One more entry named by the table: s, next in line, put in the first free
\* bucket of its path.
LEMMA PlaceOne ==
  ASSUME TypeOK, TableInv, nbuckets \in Nat \ {0}, NEW s, s = Placed + 1, Placed' = s,
         nbuckets' = nbuckets, NEW k \in Keys, NEW i \in Probes,
         buckets[BucketAt(k, i)] = 0,
         \A h \in 0 .. i - 1 : buckets[BucketAt(k, h)] # 0,
         buckets' = [buckets EXCEPT ![BucketAt(k, i)] = s],
         entries'[s].key = k,
         \A j \in 1 .. Placed : entries'[j].key = entries[j].key
  PROVE  TableInv'
<1> DEFINE B == BucketAt(k, i)
<1>0. Placed \in Nat /\ Probes' = Probes /\ Probes = 0 .. nbuckets - 1
  BY DEF TypeOK, Placed, Probes
<1>1. B \in 0 .. nbuckets - 1
  BY ProbePath
<1>2. \A q, j : BucketAt(q, j)' = BucketAt(q, j)
  BY DEF BucketAt
<1> HIDE DEF B
<1>3. /\ buckets' \in [0 .. nbuckets - 1 -> 0 .. s]
      /\ buckets'[B] = s
      /\ \A b \in 0 .. nbuckets - 1 : b # B => buckets'[b] = buckets[b]
      /\ \A b \in 0 .. nbuckets - 1 : buckets[b] # 0 => buckets'[b] = buckets[b]
  BY <1>0, <1>1 DEF B, TableInv
<1>4. \A b, c \in 0 .. nbuckets - 1 :
        buckets'[b] = buckets'[c] /\ buckets'[b] # 0 => b = c
  <2>1. \A b \in 0 .. nbuckets - 1 : buckets[b] # s
    BY <1>0 DEF TableInv
  <2> QED BY <1>1, <1>3, <2>1 DEF TableInv
<1>5. ASSUME NEW r \in 1 .. Placed PROVE Reachable(r)'
  <2>1. PICK j \in Probes :
          /\ buckets[BucketAt(entries[r].key, j)] = r
          /\ \A h \in 0 .. j - 1 : buckets[BucketAt(entries[r].key, h)] # 0
    BY DEF TableInv, Reachable
  <2>2. entries[r].key \in Keys /\ entries'[r].key = entries[r].key
    <3>1. r \in 1 .. Len(entries)
      BY DEF TypeOK, Placed
    <3>2. entries[r] \in Entry
      BY <3>1 DEF TypeOK
    <3> QED BY <3>2 DEF Entry
  <2>3. \A h \in 0 .. j : BucketAt(entries[r].key, h) \in 0 .. nbuckets - 1
    <3>1. \A h \in 0 .. j : h \in Probes
      BY <1>0
    <3> QED BY <2>2, <3>1, ProbePath
  <2>4. /\ buckets'[BucketAt(entries[r].key, j)] = r
        /\ \A h \in 0 .. j - 1 : buckets'[BucketAt(entries[r].key, h)] # 0
    BY <1>0, <1>3, <2>1, <2>3
  <2> QED BY <1>0, <1>2, <2>2, <2>4 DEF Reachable
<1>6. Reachable(s)'
  <2>1. \A h \in 0 .. i - 1 : BucketAt(k, h) \in 0 .. nbuckets - 1
    <3>1. \A h \in 0 .. i - 1 : h \in Probes
      BY <1>0
    <3> QED BY <3>1, ProbePath
  <2>2. \A h \in 0 .. i - 1 : buckets'[BucketAt(k, h)] # 0
    BY <1>3, <2>1
  <2>3. buckets'[BucketAt(entries'[s].key, i)] = s
    BY <1>3 DEF B
  <2>4. \A h \in 0 .. i - 1 : buckets'[BucketAt(entries'[s].key, h)] # 0
    BY <2>2
  <2> QED BY <1>0, <1>2, <2>3, <2>4 DEF Reachable
<1> QED BY <1>0, <1>3, <1>4, <1>5, <1>6 DEF TableInv

-----------------------------------------------------------------------------
(* The invariant *)

LEMMA InitInv == Init => Inv
<1> SUFFICES ASSUME Init PROVE Inv
  OBVIOUS
<1>1. entries = <<>> /\ Len(entries) = 0 /\ Placed = 0 /\ nbuckets = 0
  BY DEF Init, Placed
<1>2. buckets = [b \in {} |-> 0] /\ 0 .. nbuckets - 1 = {}
  BY <1>1 DEF Init
<1>3. \A S : buckets \in [0 .. nbuckets - 1 -> S]
  BY <1>2
<1>4. TypeOK
  <2>1. entries \in Seq(Entry) /\ cap \in Nat /\ nbuckets \in Nat /\ place \in 0 .. Len(entries) + 1
    BY <1>1 DEF Init
  <2>2. pending = NoPair /\ last \in CallsMade /\ wild \in BOOLEAN
    BY DEF Init, CallsMade
  <2> QED BY <1>3, <2>1, <2>2 DEF TypeOK
<1>5. DistinctKeys /\ SizeInv
  BY <1>1 DEF Init, DistinctKeys, SizeInv
<1>6. TableInv
  BY <1>1, <1>2, <1>3 DEF TableInv
<1> QED BY <1>4, <1>5, <1>6 DEF Init, Inv

\* What AddEntry does to the entries and the table, after a search that found
\* nothing and a growth that made room.
LEMMA AddEntryInv ==
  ASSUME KeysCompareByIdentity, Inv, Placed = Len(entries), place' = 0, nbuckets # 0,
         Len(entries) + 1 <= LoadLimit, Len(entries) + 1 <= cap', cap' \in Nat,
         NEW k \in Keys, NEW v \in Values, ~HasKey(k), NEW f \in Find(k),
         AddEntry(k, v, f.bucket), nbuckets' = nbuckets, pending' = NoPair,
         last' = <<"put", k, v>>
  PROVE  Inv'
<1> USE DEF Inv
<1>0. nbuckets \in Nat \ {0} /\ nbuckets >= 2 /\ Len(entries) \in Nat
      /\ LoadLimit \in Int /\ LoadLimit < nbuckets
  BY LimitBelowTable DEF TypeOK, SizeInv, LoadLimit
<1>1. /\ f.bucket \in 0 .. nbuckets - 1 /\ f.slot = buckets[f.bucket]
      /\ f.slot # 0 => f.slot \in 1 .. Len(entries) /\ entries[f.slot].key = k
      /\ \E i \in Probes : /\ f.bucket = BucketAt(k, i)
                          /\ \A h \in 0 .. i - 1 : buckets[BucketAt(k, h)] # 0
  <2>1. TypeOK /\ DistinctKeys /\ TableInv /\ Placed = Len(entries) /\ Len(entries) < nbuckets
    BY <1>0
  <2> QED BY <2>1, FindIsCorrect
<1>2. f.slot = 0
  BY <1>1 DEF HasKey
<1>3. /\ entries' = Append(entries, [key |-> k, val |-> v])
      /\ buckets' = [buckets EXCEPT ![f.bucket] = Len(entries) + 1]
      /\ wild' = FALSE
  <2>1. f.bucket # -1
    BY <1>0, <1>1
  <2> QED BY <2>1 DEF AddEntry
<1>4. /\ entries' \in Seq(Entry) /\ Len(entries') = Len(entries) + 1
      /\ entries'[Len(entries) + 1].key = k
      /\ \A j \in 1 .. Len(entries) : entries'[j] = entries[j]
  BY <1>3 DEF TypeOK, Entry
<1>5. Placed' = Len(entries) + 1
  BY <1>4 DEF Placed
<1>6. TableInv'
  <2>1. PICK i \in Probes : /\ f.bucket = BucketAt(k, i)
                           /\ \A h \in 0 .. i - 1 : buckets[BucketAt(k, h)] # 0
    BY <1>1
  <2> DEFINE s == Len(entries) + 1
  <2>2. TypeOK /\ TableInv /\ s = Placed + 1 /\ Placed' = s
    BY <1>5
  <2>3. buckets[BucketAt(k, i)] = 0 /\ buckets' = [buckets EXCEPT ![BucketAt(k, i)] = s]
    BY <1>1, <1>2, <1>3, <2>1
  <2>4. entries'[s].key = k /\ \A j \in 1 .. Placed : entries'[j].key = entries[j].key
    BY <1>4
  <2> HIDE DEF s
  <2> QED BY <1>0, <2>1, <2>2, <2>3, <2>4, PlaceOne
<1>7. DistinctKeys'
  <2>1. \A j \in 1 .. Len(entries) : entries'[j].key = entries[j].key /\ entries[j].key # k
    BY <1>4 DEF HasKey
  <2>2. \A i, j \in 1 .. Len(entries) : entries[i].key = entries[j].key => i = j
    BY DEF DistinctKeys
  <2> QED BY <1>0, <1>4, <2>1, <2>2 DEF DistinctKeys
<1>8. SizeInv'
  <2>1. LoadLimit' = LoadLimit
    BY DEF LoadLimit
  <2> QED BY <1>0, <1>4, <2>1 DEF SizeInv, TypeOK
<1>9. TypeOK'
  <2>1. buckets' \in [0 .. nbuckets' - 1 -> 0 .. Len(entries')]
    BY <1>4, <1>5, <1>6 DEF TableInv
  <2>2. nbuckets' \in Nat /\ place' \in 0 .. Len(entries') + 1
    BY <1>0, <1>4
  <2>4. wild' \in BOOLEAN
    BY <1>3
  <2>3. pending' = NoPair /\ last' \in CallsMade
    BY DEF CallsMade
  <2> QED BY <1>4, <2>1, <2>2, <2>3, <2>4 DEF TypeOK
<1> QED BY <1>3, <1>6, <1>7, <1>8, <1>9

LEMMA NextInv == ASSUME KeysCompareByIdentity PROVE Inv /\ [Next]_vars => Inv'
<1> SUFFICES ASSUME Inv, [Next]_vars PROVE Inv'
  OBVIOUS
<1> USE DEF Inv
<1>0. Len(entries) \in Nat /\ nbuckets \in Nat /\ LoadLimit \in Int
      /\ (nbuckets # 0 => Len(entries) < nbuckets)
  BY LimitBelowTable DEF TypeOK, SizeInv, LoadLimit
<1>1. ASSUME NEW k \in Keys, Get(k) PROVE Inv'
  <2>1. UNCHANGED <<entries, cap, nbuckets, buckets, place, pending, wild>>
    BY <1>1 DEF Get, table
  <2>2. last' \in CallsMade
    <3>1. CASE nbuckets = 0
      BY <1>1, <3>1 DEF Get, CallsMade
    <3>2. CASE nbuckets # 0
      <4>1. PICK f \in Find(k) :
              last' = <<"get", k, IF f.slot = 0 THEN Absent ELSE entries[f.slot].val>>
        BY <1>1, <3>2 DEF Get
      <4>2. f.slot # 0 => f.slot \in 1 .. Len(entries)
        BY <1>0, <1>1, <3>2, FindIsCorrect DEF Get, Ready, Placed
      <4>3. f.slot # 0 => entries[f.slot] \in Entry
        BY <4>2 DEF TypeOK
      <4>4. (IF f.slot = 0 THEN Absent ELSE entries[f.slot].val) \in Values \cup {Absent}
        BY <4>3 DEF Entry
      <4> QED BY <4>1, <4>4 DEF CallsMade
    <3> QED BY <3>1, <3>2
  <2> QED BY <2>1, <2>2, SMTT(30) DEF TypeOK, DistinctKeys, TableInv, SizeInv, Placed,
          Probes, Reachable, BucketAt, LoadLimit
<1>2. ASSUME NEW k \in Keys, NEW v \in Values, SetReplace(k, v) PROVE Inv'
  <2>1. PICK f \in Find(k) : /\ f.slot # 0
                            /\ entries' = [entries EXCEPT ![f.slot].val = v]
    BY <1>2 DEF SetReplace
  <2>2. f.slot \in 1 .. Len(entries)
    BY <1>0, <1>2, <2>1, FindIsCorrect DEF SetReplace, Ready, Placed
  <2>3. UNCHANGED <<cap, nbuckets, buckets, place, pending, wild>>
    BY <1>2 DEF SetReplace, table
  <2>0. last' \in CallsMade
    BY <1>2 DEF SetReplace, CallsMade
  <2>4. /\ entries' \in Seq(Entry) /\ Len(entries') = Len(entries)
        /\ \A s \in 1 .. Len(entries) : entries'[s].key = entries[s].key
    <3>1. entries \in Seq(Entry) /\ entries[f.slot] \in Entry
      BY <2>2 DEF TypeOK
    <3>2. [entries[f.slot] EXCEPT !.val = v] \in Entry
          /\ [entries[f.slot] EXCEPT !.val = v].key = entries[f.slot].key
      BY <3>1 DEF Entry
    <3>3. entries' = [entries EXCEPT ![f.slot] = [entries[f.slot] EXCEPT !.val = v]]
      BY <2>1
    <3> HIDE DEF Entry
    <3> QED BY <2>2, <3>1, <3>2, <3>3
  <2>5. TypeOK' /\ DistinctKeys' /\ SizeInv' /\ Placed' = Placed
    BY <1>0, <2>0, <2>3, <2>4, <1>2 DEF TypeOK, DistinctKeys, SizeInv, Placed, LoadLimit,
       SetReplace, Ready
  <2>6. TableInv'
    <3>1. Placed = Len(entries)
      BY <1>2 DEF SetReplace, Ready, Placed
    <3>2. \A s \in 1 .. Placed : Reachable(s)'
      <4> SUFFICES ASSUME NEW s \in 1 .. Placed PROVE Reachable(s)'
        OBVIOUS
      <4>1. Reachable(s) /\ entries'[s].key = entries[s].key
        BY <2>4, <3>1 DEF TableInv
      <4> QED BY <2>3, <4>1 DEF Reachable, BucketAt, Probes
    <3> QED BY <2>3, <2>5, <3>2 DEF TableInv
  <2> QED BY <2>3, <2>5, <2>6
<1>3. ASSUME NEW k \in Keys, NEW v \in Values, SetAppend(k, v) PROVE Inv'
  <2>1. PICK f \in Find(k) : f.slot = 0 /\ LoadFits /\ AddEntry(k, v, f.bucket)
    BY <1>3 DEF SetAppend
  <2>2. /\ nbuckets # 0 /\ place = 0 /\ cap' = GrownCap
        /\ last' = <<"put", k, v>> /\ UNCHANGED <<nbuckets, place, pending>>
    BY <1>3 DEF SetAppend, Ready
  <2>3. ~HasKey(k) /\ Placed = Len(entries)
    BY <1>0, <2>1, <2>2, FindIsCorrect DEF Placed
  <2>4. pending' = NoPair /\ place' = 0
    BY <2>2 DEF SizeInv
  <2> QED BY <2>1, <2>2, <2>3, <2>4, AddEntryInv, GrownCapFits DEF LoadFits, LoadLimit
<1>4. ASSUME NEW k \in Keys, NEW v \in Values, SetGrow(k, v) PROVE Inv'
  <2> DEFINE n == IF nbuckets = 0 THEN FirstBuckets ELSE 2 * nbuckets
  <2>1. /\ place = 0 /\ cap' = GrownCap /\ StartRebuild(n, <<k, v>>)
        /\ UNCHANGED <<entries, last, wild>>
    BY <1>4 DEF SetGrow, Ready
  <2>2. n \in Nat /\ n >= 2 /\ Len(entries) + 1 <= (n * 3) \div 4
    <3>1. CASE nbuckets = 0
      <4>1. Len(entries) = 0
        BY <3>1 DEF SizeInv
      <4> QED BY <3>1, <4>1, LimitBelowTable
    <3>2. CASE nbuckets # 0
      BY <1>0, <3>2, LimitBelowTable DEF SizeInv, LoadLimit
    <3> QED BY <3>1, <3>2
  <2>3. ~HasKey(k)
    <3>1. CASE nbuckets = 0
      BY <3>1 DEF SizeInv, HasKey
    <3>2. CASE nbuckets # 0
      <4>1. PICK f \in Find(k) : f.slot = 0
        BY <1>4, <3>2 DEF SetGrow
      <4> QED BY <1>0, <2>1, <3>2, <4>1, FindIsCorrect DEF Placed
    <3> QED BY <3>1, <3>2
  <2> HIDE DEF n
  <2>4. TableInv' /\ place' = 1 /\ pending' = <<k, v>> /\ nbuckets' = n
    BY <2>1, <2>2, StartRebuildInv
  <2>5. DistinctKeys'
    BY <2>1 DEF DistinctKeys
  <2>6. <<k, v>> # NoPair /\ <<k, v>> \in Keys \X Values
    OBVIOUS
  <2>7. SizeInv'
    BY <1>0, <2>1, <2>2, <2>3, <2>4, GrownCapFits DEF SizeInv, LoadLimit, HasKey
  <2>8. TypeOK'
    <3>1. buckets' \in [0 .. n - 1 -> 0 .. Len(entries)]
      BY <1>0, <2>1 DEF StartRebuild
    <3>2. cap' \in Nat /\ nbuckets' \in Nat
      BY <1>0, <2>1, <2>2, <2>4, GrownCapFits
    <3>3. buckets' \in [0 .. nbuckets' - 1 -> 0 .. Len(entries')]
      BY <2>1, <2>4, <3>1
    <3>4. entries' \in Seq(Entry) /\ last' \in CallsMade /\ wild' \in BOOLEAN
      BY <1>0, <2>1 DEF TypeOK
    <3>5. place' \in 0 .. Len(entries') + 1
      BY <2>4, <3>4
    <3>6. pending' \in (Keys \X Values) \cup {NoPair}
      BY <2>4, <2>6
    <3> QED BY <3>2, <3>3, <3>4, <3>5, <3>6 DEF TypeOK
  <2> QED BY <2>1, <2>4, <2>5, <2>7, <2>8
<1>5. ASSUME NEW k \in Keys, Delete(k) PROVE Inv'
  <2>1. PICK f \in Find(k) : f.slot # 0 /\ entries' = WithoutSlot(f.slot)
    BY <1>5 DEF Delete
  <2>2. /\ nbuckets # 0 /\ place = 0 /\ StartRebuild(nbuckets, NoPair)
        /\ UNCHANGED <<cap, wild>>
    BY <1>5 DEF Delete, Ready
  <2>0. last' \in CallsMade
    BY <1>5 DEF Delete, CallsMade
  <2>3. f.slot \in 1 .. Len(entries)
    BY <1>0, <2>1, <2>2, FindIsCorrect DEF Placed
  <2>4. /\ entries' \in Seq(Entry) /\ Len(entries') = Len(entries) - 1
        /\ \A i \in 1 .. Len(entries) - 1 :
             entries'[i] = IF i = f.slot THEN entries[Len(entries)] ELSE entries[i]
    BY <1>0, <2>1, <2>3 DEF WithoutSlot, TypeOK
  <2>5. TableInv' /\ place' = 1 /\ pending' = NoPair /\ nbuckets' = nbuckets
    BY <1>0, <2>2, StartRebuildInv
  <2>6. DistinctKeys'
    <3>1. Len(entries) \in Nat
      BY <1>0 DEF TypeOK
    <3>2. SUFFICES ASSUME NEW i \in 1 .. Len(entries'), NEW j \in 1 .. Len(entries'),
                          entries'[i].key = entries'[j].key
                   PROVE  i = j
      BY DEF DistinctKeys
    <3> DEFINE a == IF i = f.slot THEN Len(entries) ELSE i
               b == IF j = f.slot THEN Len(entries) ELSE j
    <3>3. /\ i \in 1 .. Len(entries) - 1 /\ j \in 1 .. Len(entries) - 1
          /\ a \in 1 .. Len(entries) /\ b \in 1 .. Len(entries)
      BY <2>4, <3>1
    <3>4. entries'[i] = entries[a] /\ entries'[j] = entries[b]
      BY <2>4, <3>3
    <3>5. a = b => i = j
      BY <3>1, <3>3
    <3> HIDE DEF a, b
    <3> QED
      BY <1>0, <3>2, <3>3, <3>4, <3>5 DEF DistinctKeys
  <2>7. SizeInv'
    BY <1>0, <2>2, <2>3, <2>4, <2>5 DEF SizeInv, LoadLimit, TypeOK
  <2>8. TypeOK'
    <3>1. buckets' \in [0 .. nbuckets - 1 -> 0 .. Len(entries')]
      BY <1>0, <2>2, <2>3, <2>4 DEF StartRebuild
    <3>2. pending' \in (Keys \X Values) \cup {NoPair} /\ wild' \in BOOLEAN
      BY <2>2, <2>5
    <3>3. cap' \in Nat /\ nbuckets' \in Nat /\ place' \in 0 .. Len(entries') + 1
      BY <1>0, <2>2, <2>3, <2>4, <2>5 DEF TypeOK
    <3> QED BY <2>0, <2>4, <2>5, <3>1, <3>2, <3>3 DEF TypeOK
  <2> QED BY <2>2, <2>5, <2>6, <2>7, <2>8
<1>6. ASSUME Clear PROVE Inv'
  <2>1. /\ entries' = <<>> /\ buckets' = [b \in 0 .. nbuckets - 1 |-> 0] /\ place = 0
        /\ last' \in CallsMade
        /\ UNCHANGED <<cap, nbuckets, place, pending, wild>>
    BY <1>6 DEF Clear, NoEntry, Ready, CallsMade
  <2>2. TypeOK' /\ DistinctKeys' /\ Placed' = 0
    BY <2>1 DEF TypeOK, DistinctKeys, Placed
  <2>3. TableInv'
    BY <2>1, <2>2 DEF TableInv
  <2>4. SizeInv'
    BY <1>0, <2>1, LimitBelowTable DEF SizeInv, LoadLimit, TypeOK
  <2> QED BY <2>1, <2>2, <2>3, <2>4
<1>7. ASSUME PlaceEntry PROVE Inv'
  <2> DEFINE k == entries[place].key
  <2>1. /\ place \in 1 .. Len(entries) /\ place' = place + 1
        /\ UNCHANGED <<entries, cap, nbuckets, pending, last, wild>>
    BY <1>7 DEF PlaceEntry
  <2>2. nbuckets # 0 /\ Placed = place - 1 /\ Placed < nbuckets /\ Placed' = place
    BY <1>0, <2>1 DEF Placed, SizeInv
  <2>3. k \in Keys
    <3>1. entries[place] \in Entry
      BY <2>1 DEF TypeOK
    <3> QED BY <3>1 DEF Entry
  <2>4. PICK i \in Probes : /\ IsFree(k, i) /\ \A h \in 0 .. i - 1 : ~IsFree(k, h)
                           /\ buckets' = [buckets EXCEPT ![BucketAt(k, i)] = place]
    <3>1. ~ \A i \in Probes : ~IsFree(k, i)
      BY <2>2, <2>3, FirstFreeExists
    <3> QED BY <1>7, <3>1 DEF PlaceEntry
  <2>5. TableInv'
    <3>1. /\ buckets[BucketAt(k, i)] = 0
          /\ \A h \in 0 .. i - 1 : buckets[BucketAt(k, h)] # 0
      BY <2>4 DEF IsFree
    <3>2. /\ TypeOK /\ TableInv /\ nbuckets \in Nat \ {0} /\ nbuckets' = nbuckets
          /\ place = Placed + 1 /\ Placed' = place
      BY <1>0, <2>1, <2>2
    <3>3. entries'[place].key = k /\ \A j \in 1 .. Placed : entries'[j].key = entries[j].key
      BY <2>1
    <3> HIDE DEF k
    <3> QED BY <2>3, <2>4, <3>1, <3>2, <3>3, PlaceOne
  <2>6. DistinctKeys' /\ SizeInv'
    BY <1>0, <2>1 DEF DistinctKeys, SizeInv, LoadLimit
  <2>7. TypeOK'
    <3>1. buckets' \in [0 .. nbuckets - 1 -> 0 .. Len(entries)]
      <4>1. buckets \in [0 .. nbuckets - 1 -> 0 .. Len(entries)] /\ place \in 0 .. Len(entries)
        BY <1>0, <2>1 DEF TypeOK
      <4> QED BY <2>4, <4>1
    <3> QED BY <1>0, <2>1, <3>1 DEF TypeOK
  <2> QED BY <2>1, <2>5, <2>6, <2>7
<1>8. ASSUME RebuildDone PROVE Inv'
  <2>1. /\ place = Len(entries) + 1 /\ place' = 0 /\ pending' = NoPair
        /\ UNCHANGED <<cap, nbuckets>>
    BY <1>8 DEF RebuildDone
  <2>2. nbuckets # 0 /\ Placed = Len(entries)
    BY <1>0, <2>1 DEF SizeInv, Placed
  <2>3. CASE pending = NoPair
    <3>1. UNCHANGED <<entries, buckets, last, wild>> /\ Placed' = Placed
      BY <1>8, <2>1, <2>2, <2>3 DEF RebuildDone, Placed
    <3> QED BY <1>0, <2>1, <3>1, SMTT(30) DEF TypeOK, DistinctKeys, TableInv, SizeInv,
            Probes, Reachable, BucketAt, LoadLimit
  <2>4. CASE pending # NoPair
    <3>1. pending \in Keys \X Values
      BY <2>4 DEF TypeOK
    <3>2. PICK f \in Find(pending[1]) : AddEntry(pending[1], pending[2], f.bucket)
      BY <1>8, <2>4 DEF RebuildDone
    <3>5. last' = <<"put", pending[1], pending[2]>>
      BY <1>8, <2>4 DEF RebuildDone
    <3>3. /\ Len(entries) + 1 <= LoadLimit /\ Len(entries) + 1 <= cap
          /\ ~HasKey(pending[1])
      BY <2>4 DEF SizeInv, HasKey
    <3>4. cap' \in Nat /\ Len(entries) + 1 <= cap'
      BY <2>1, <3>3 DEF TypeOK
    <3> QED BY <2>1, <2>2, <3>1, <3>2, <3>3, <3>4, <3>5, AddEntryInv
  <2> QED BY <2>3, <2>4
<1>9. CASE UNCHANGED vars
  BY <1>9, SMTT(30) DEF vars, table, TypeOK, DistinctKeys, TableInv, SizeInv, Placed, Probes,
     Reachable, BucketAt, LoadLimit
<1> QED BY <1>1, <1>2, <1>3, <1>4, <1>5, <1>6, <1>7, <1>8, <1>9 DEF Next, Set

LEMMA InvHolds == ASSUME KeysCompareByIdentity PROVE Spec => []Inv
<1>1. Inv /\ [Next]_vars => Inv'
  BY NextInv
<1> QED BY InitInv, <1>1, PTL DEF Spec

\* Every slot, bucket and size the table computes with is in range, whatever
\* the sequence of calls; rebuilds included.
THEOREM TypeCorrect == ASSUME KeysCompareByIdentity PROVE Spec => []TypeOK
<1>1. Inv => TypeOK
  BY DEF Inv
<1> QED BY InvHolds, <1>1, PTL

\* Neither the arrays nor the table of buckets is ever written past its end,
\* for every key set, hash function and initial size.
THEOREM TableIsNeverFull == ASSUME KeysCompareByIdentity PROVE Spec => []NeverFull
<1>1. Inv => NeverFull
  BY DEF Inv, SizeInv, NeverFull
<1> QED BY InvHolds, <1>1, PTL

\* No key ever has two entries.
THEOREM KeysAreUnique == ASSUME KeysCompareByIdentity PROVE Spec => []OneEntryPerKey
<1>1. Inv => OneEntryPerKey
  BY DEF Inv, DistinctKeys, OneEntryPerKey, KeysCompareByIdentity
<1> QED BY InvHolds, <1>1, PTL

-----------------------------------------------------------------------------
(* The table implements a map *)

Distinct(es) == \A i, j \in 1 .. Len(es) : es[i].key = es[j].key => i = j
Lacks(es, k) == \A i \in 1 .. Len(es) : es[i].key # k
Gives(es, k, v) == \/ \E i \in 1 .. Len(es) : es[i].key = k /\ es[i].val = v
                   \/ v = Absent /\ Lacks(es, k)
KeepsBut(es, fs, k) == \A i \in 1 .. Len(es) :
                         es[i].key # k => \E j \in 1 .. Len(fs) : fs[j] = es[i]

\* The value a sequence of entries gives a key is the one of the key's entry.
LEMMA ContentsAt ==
  ASSUME NEW es \in Seq(Entry), Distinct(es), NEW k \in Keys
  PROVE  /\ \A i \in 1 .. Len(es) : es[i].key = k => Contents(es)[k] = es[i].val
         /\ Lacks(es, k) => Contents(es)[k] = Absent
<1>1. ASSUME NEW i \in 1 .. Len(es), es[i].key = k PROVE Contents(es)[k] = es[i].val
  <2>1. Positions(es, k) = {i}
    BY <1>1 DEF Positions, Distinct
  <2>2. (CHOOSE j \in Positions(es, k) : TRUE) = i
    BY <2>1
  <2> QED BY <2>1, <2>2 DEF Contents
<1>2. ASSUME Lacks(es, k) PROVE Contents(es)[k] = Absent
  BY <1>2 DEF Positions, Contents, Lacks
<1> QED BY <1>1, <1>2

\* Two sequences of entries that differ in the value of one key only.
LEMMA ContentsExcept ==
  ASSUME NEW es \in Seq(Entry), NEW fs \in Seq(Entry), Distinct(es), Distinct(fs),
         NEW k \in Keys, NEW v,
         Gives(fs, k, v), KeepsBut(es, fs, k), KeepsBut(fs, es, k)
  PROVE  Contents(fs) = [Contents(es) EXCEPT ![k] = v]
<1>1. Contents(fs)[k] = v
  BY ContentsAt DEF Gives
<1>2. ASSUME NEW q \in Keys, q # k PROVE Contents(fs)[q] = Contents(es)[q]
  <2>1. CASE \E i \in 1 .. Len(es) : es[i].key = q
    <3>1. PICK i \in 1 .. Len(es) : es[i].key = q
      BY <2>1
    <3>2. PICK j \in 1 .. Len(fs) : fs[j] = es[i]
      BY <1>2, <3>1 DEF KeepsBut
    <3>3. Contents(es)[q] = es[i].val
      BY <3>1, ContentsAt
    <3>4. Contents(fs)[q] = fs[j].val
      BY <3>1, <3>2, ContentsAt
    <3> QED BY <3>2, <3>3, <3>4
  <2>2. CASE \A i \in 1 .. Len(es) : es[i].key # q
    <3>1. Lacks(fs, q)
      BY <1>2, <2>2 DEF Lacks, KeepsBut
    <3>2. Lacks(es, q)
      BY <2>2 DEF Lacks
    <3>3. Contents(fs)[q] = Absent
      BY <3>1, ContentsAt
    <3>4. Contents(es)[q] = Absent
      BY <3>2, ContentsAt
    <3> QED BY <3>3, <3>4
  <2> QED BY <2>1, <2>2
<1>3. /\ Contents(fs) = [q \in Keys |-> Contents(fs)[q]]
      /\ Contents(es) = [q \in Keys |-> Contents(es)[q]]
  BY DEF Contents
<1> QED BY <1>1, <1>2, <1>3

\* Every step of the table is a step of the map, or changes nothing of it.
LEMMA StepSimulation ==
  ASSUME KeysCompareByIdentity
  PROVE  Inv /\ Inv' /\ [Next]_vars =>
           [Store!StoreNext]_<<Contents(entries), last>>
<1> SUFFICES ASSUME Inv, Inv', [Next]_vars
             PROVE  [Store!StoreNext]_<<Contents(entries), last>>
  OBVIOUS
<1>0. /\ TypeOK /\ DistinctKeys /\ TableInv /\ Len(entries) \in Nat
      /\ entries \in Seq(Entry) /\ Distinct(entries)
      /\ entries' \in Seq(Entry) /\ Distinct(entries')
      /\ (nbuckets # 0 => Len(entries) < nbuckets)
  <2>1. LoadLimit \in Int /\ nbuckets \in Nat
    BY DEF Inv, TypeOK, LoadLimit
  <2>2. nbuckets # 0 => Len(entries) < nbuckets
    BY <2>1, LimitBelowTable DEF Inv, TypeOK, SizeInv, LoadLimit
  <2> QED BY <2>2 DEF Inv, TypeOK, DistinctKeys, Distinct
<1>1. ASSUME NEW k \in Keys, NEW f \in Find(k), nbuckets # 0, Placed = Len(entries)
      PROVE  /\ f.slot # 0 => f.slot \in 1 .. Len(entries) /\ entries[f.slot].key = k
             /\ f.slot = 0 => ~HasKey(k)
  BY <1>0, <1>1, FindIsCorrect
<1>2. ASSUME NEW k \in Keys, NEW v \in Values, ~HasKey(k), last' = <<"put", k, v>>,
             entries' = Append(entries, [key |-> k, val |-> v])
      PROVE  Store!Put(k, v)
  <2>1. /\ Len(entries') = Len(entries) + 1 /\ entries'[Len(entries) + 1] = [key |-> k, val |-> v]
        /\ \A i \in 1 .. Len(entries) : entries'[i] = entries[i]
    BY <1>0, <1>2
  <2>2. Gives(entries', k, v)
    BY <1>0, <2>1 DEF Gives
  <2>3. KeepsBut(entries, entries', k)
    BY <1>0, <2>1 DEF KeepsBut
  <2>4. KeepsBut(entries', entries, k)
    BY <1>0, <2>1 DEF KeepsBut
  <2>5. Contents(entries') = [Contents(entries) EXCEPT ![k] = v]
    BY <1>0, <2>2, <2>3, <2>4, ContentsExcept
  <2> QED BY <1>2, <2>5 DEF Store!Put
<1>3. ASSUME NEW k \in Keys, Get(k) PROVE Store!Look(k)
  <2>1. UNCHANGED entries
    BY <1>3 DEF Get
  <2>2. CASE nbuckets = 0
    <3>1. entries = <<>> /\ last' = <<"get", k, Absent>>
      BY <1>3, <2>2 DEF Get, Inv, SizeInv
    <3>2. Lacks(entries, k)
      BY <3>1 DEF Lacks
    <3>3. Contents(entries)[k] = Absent
      BY <1>0, <3>2, ContentsAt
    <3> QED BY <2>1, <3>1, <3>3 DEF Store!Look
  <2>3. CASE nbuckets # 0
    <3>1. PICK f \in Find(k) :
            last' = <<"get", k, IF f.slot = 0 THEN Absent ELSE entries[f.slot].val>>
      BY <1>3, <2>3 DEF Get
    <3>2. /\ f.slot # 0 => f.slot \in 1 .. Len(entries) /\ entries[f.slot].key = k
          /\ f.slot = 0 => ~HasKey(k)
      BY <1>1, <1>3, <2>3 DEF Get, Ready, Placed
    <3>3. CASE f.slot # 0
      <4>1. Contents(entries)[k] = entries[f.slot].val
        BY <1>0, <3>2, <3>3, ContentsAt
      <4> QED BY <2>1, <3>1, <3>3, <4>1 DEF Store!Look
    <3>4. CASE f.slot = 0
      <4>1. Lacks(entries, k)
        BY <3>2, <3>4 DEF Lacks, HasKey
      <4>2. Contents(entries)[k] = Absent
        BY <1>0, <4>1, ContentsAt
      <4> QED BY <2>1, <3>1, <3>4, <4>2 DEF Store!Look
    <3> QED BY <3>3, <3>4
  <2> QED BY <2>2, <2>3
<1>4. ASSUME NEW k \in Keys, NEW v \in Values, SetReplace(k, v) PROVE Store!Put(k, v)
  <2>1. PICK f \in Find(k) : f.slot # 0 /\ entries' = [entries EXCEPT ![f.slot].val = v]
    BY <1>4 DEF SetReplace
  <2>2. f.slot \in 1 .. Len(entries) /\ entries[f.slot].key = k
    BY <1>1, <1>4, <2>1 DEF SetReplace, Ready, Placed
  <2>3. entries[f.slot] \in [key : Keys, val : Values]
    <3>1. entries[f.slot] \in Entry
      BY <1>0, <2>2
    <3> QED BY <3>1 DEF Entry
  <2>4. entries'[f.slot].key = k /\ entries'[f.slot].val = v
    BY <1>0, <2>1, <2>2, <2>3
  <2>5. /\ Len(entries') = Len(entries)
        /\ \A i \in 1 .. Len(entries) : i # f.slot => entries'[i] = entries[i]
    BY <1>0, <2>1, <2>2
  <2>6. /\ KeepsBut(entries, entries', k) /\ KeepsBut(entries', entries, k)
        /\ Gives(entries', k, v)
    BY <1>0, <2>2, <2>4, <2>5 DEF KeepsBut, Gives
  <2>7. Contents(entries') = [Contents(entries) EXCEPT ![k] = v]
    BY <1>0, <2>6, ContentsExcept
  <2> QED BY <1>4, <2>7 DEF SetReplace, Store!Put
<1>5. ASSUME NEW k \in Keys, NEW v \in Values, SetAppend(k, v) PROVE Store!Put(k, v)
  <2>1. PICK f \in Find(k) : f.slot = 0 /\ AddEntry(k, v, f.bucket)
    BY <1>5 DEF SetAppend
  <2>2. ~HasKey(k)
    BY <1>1, <1>5, <2>1 DEF SetAppend, Ready, Placed
  <2> QED BY <1>2, <1>5, <2>1, <2>2 DEF SetAppend, AddEntry
<1>6. ASSUME NEW k \in Keys, Delete(k) PROVE Store!Remove(k)
  <2>1. PICK f \in Find(k) : f.slot # 0 /\ entries' = WithoutSlot(f.slot)
    BY <1>6 DEF Delete
  <2>2. f.slot \in 1 .. Len(entries) /\ entries[f.slot].key = k
    BY <1>1, <1>6, <2>1 DEF Delete, Ready, Placed
  <2>3. /\ Len(entries') = Len(entries) - 1
        /\ \A i \in 1 .. Len(entries) - 1 :
             entries'[i] = IF i = f.slot THEN entries[Len(entries)] ELSE entries[i]
    BY <1>0, <2>1, <2>2 DEF WithoutSlot
  <2>4. Gives(entries', k, Absent)
    BY <1>0, <2>2, <2>3 DEF DistinctKeys, Gives, Lacks
  <2>5. ASSUME NEW i \in 1 .. Len(entries), entries[i].key # k
        PROVE  \E j \in 1 .. Len(entries') : entries'[j] = entries[i]
    <3>1. i # f.slot
      BY <2>2, <2>5
    <3>2. CASE i = Len(entries)
      <4>1. f.slot \in 1 .. Len(entries')
        BY <2>2, <2>3, <3>1, <3>2
      <4>2. entries'[f.slot] = entries[i]
        BY <2>2, <2>3, <3>1, <3>2, <4>1
      <4> QED BY <4>1, <4>2
    <3>3. CASE i # Len(entries)
      <4>1. i \in 1 .. Len(entries') /\ entries'[i] = entries[i]
        BY <1>0, <2>3, <3>1, <3>3
      <4> QED BY <4>1
    <3> QED BY <3>2, <3>3
  <2>6. KeepsBut(entries', entries, k)
    BY <1>0, <2>3 DEF KeepsBut
  <2>8. KeepsBut(entries, entries', k)
    BY <2>5 DEF KeepsBut
  <2>7. Contents(entries') = [Contents(entries) EXCEPT ![k] = Absent]
    BY <1>0, <2>4, <2>6, <2>8, ContentsExcept
  <2> QED BY <1>6, <2>7 DEF Delete, Store!Remove
<1>7. ASSUME Clear PROVE Store!RemoveAll
  <2>1. entries' = <<>> /\ last' = <<"clear">>
    BY <1>7 DEF Clear, Cleared
  <2>2. Contents(entries') = [k \in Keys |-> Absent]
    BY <2>1 DEF Contents, Positions
  <2> QED BY <2>1, <2>2 DEF Store!RemoveAll
<1>8. ASSUME RebuildDone, pending # NoPair
      PROVE  \E k \in Keys, v \in Values : Store!Put(k, v)
  <2>1. pending[1] \in Keys /\ pending[2] \in Values
    BY <1>0, <1>8 DEF TypeOK
  <2>2. PICK f \in Find(pending[1]) : AddEntry(pending[1], pending[2], f.bucket)
    BY <1>8 DEF RebuildDone
  <2>3. ~HasKey(pending[1])
    BY <1>8 DEF Inv, SizeInv, HasKey
  <2>4. Store!Put(pending[1], pending[2])
    BY <1>2, <1>8, <2>1, <2>2, <2>3 DEF RebuildDone, AddEntry
  <2> QED BY <2>1, <2>4
<1>9. ASSUME \/ \E k \in Keys, v \in Values : SetGrow(k, v)
             \/ PlaceEntry
             \/ RebuildDone /\ pending = NoPair
             \/ UNCHANGED vars
      PROVE  UNCHANGED <<Contents(entries), last>>
  BY <1>9 DEF SetGrow, PlaceEntry, RebuildDone, vars
<1> QED BY <1>3, <1>4, <1>5, <1>6, <1>7, <1>8, <1>9 DEF Next, Set, Store!StoreNext

\* Whatever the keys, the hash function and the initial sizes, every lookup of
\* the table answers the last value set for its key: the table implements the
\* map of KeyValueStore.
THEOREM TableImplementsStore == ASSUME KeysCompareByIdentity PROVE Spec => ImplementsStore
<1>1. Init => Store!StoreInit
  BY DEF Init, Contents, Positions, Cleared, Store!StoreInit
<1>2. Inv /\ Inv' /\ [Next]_vars => [Store!StoreNext]_<<Contents(entries), last>>
  BY StepSimulation
<1> QED BY <1>1, <1>2, InvHolds, PTL DEF Spec, ImplementsStore, Store!StoreSpec
=============================================================================
