------------------------------ MODULE HashMap ------------------------------
(***************************************************************************)
(* The hash map of the embedded C runtime (ox_hmap, and ox_hset, which is  *)
(* the same table without values): entries in parallel arrays, and a table *)
(* of buckets, probed linearly, that holds 1-based indices into them.      *)
(* Deleting moves the last entry into the hole and rebuilds the table. A   *)
(* rebuild places one entry per step; no other call runs meanwhile.        *)
(***************************************************************************)
EXTENDS Integers, Sequences

CONSTANTS Keys, Values, Absent, NoPair,
          Hash,                   \* Hash[k]: the hash of the key's bytes
          Same,                   \* pairs of keys the comparator calls equal
          FirstCap, FirstBuckets  \* 8 entries and 16 buckets in the code

ASSUME TableAssumption ==
  /\ Hash \in [Keys -> Nat]
  /\ Same \subseteq Keys \X Keys
  /\ Absent \notin Values
  /\ NoPair \notin Keys \X Values
  /\ FirstCap \in Nat \ {0}
  /\ FirstBuckets \in Nat /\ FirstBuckets >= 2

VARIABLES entries,           \* the entries, in the order of the arrays
          cap,               \* how many entries the arrays have room for
          nbuckets, buckets, \* the table: index of an entry, 0 for empty
          place, pending,    \* a rebuild: next entry to place, pair to add after
          last,              \* the last call to take effect, and what a get returned
          wild               \* a bucket was written outside the table

Cleared == <<"clear">>

table == <<nbuckets, buckets>>
vars  == <<entries, cap, table, place, pending, last, wild>>

Init == /\ entries = <<>> /\ cap = 0
        /\ nbuckets = 0 /\ buckets = [b \in {} |-> 0]
        /\ place = 0 /\ pending = NoPair
        /\ last = Cleared /\ wild = FALSE

Ready   == place = 0
NoEntry == [b \in 0 .. nbuckets - 1 |-> 0]

-----------------------------------------------------------------------------
(* Probing *)

BucketAt(k, i) == ((Hash[k] % nbuckets) + i) % nbuckets

IsFree(k, i) == buckets[BucketAt(k, i)] = 0
Stops(k, i) == IsFree(k, i) \/ <<entries[buckets[BucketAt(k, i)]].key, k>> \in Same

Probes == 0 .. nbuckets - 1

FirstStop(k) == {i \in Probes : Stops(k, i) /\ \A h \in 0 .. i - 1 : ~Stops(k, h)}

\* ox_hmap_find: the first bucket on k's path that is empty or holds k, with
\* the entry it names (0 if none); bucket -1 when the whole table is passed.
Find(k) ==
  IF FirstStop(k) = {} THEN {[bucket |-> -1, slot |-> 0]}
  ELSE {[bucket |-> BucketAt(k, i), slot |-> buckets[BucketAt(k, i)]] : i \in FirstStop(k)}

-----------------------------------------------------------------------------
(* Growing and rebuilding *)


GrownCap == LET c == IF cap = 0 THEN FirstCap ELSE cap IN
            IF c <= Len(entries) + 1 THEN 2 * c ELSE c

LoadFitsFull == nbuckets > 0 /\ Len(entries) <= nbuckets  \* mutant: no load factor

LoadFits == Len(entries) + 1 <= (nbuckets * 3) \div 4

StartRebuild(n, pair) ==
  /\ nbuckets' = n
  /\ buckets' = [b \in 0 .. n - 1 |-> 0]
  /\ place' = 1
  /\ pending' = pair

\* mutant: an entry takes the first bucket of its path, free or not
PlaceEntryHome ==
  /\ place \in 1 .. Len(entries)
  /\ buckets' = [buckets EXCEPT ![BucketAt(entries[place].key, 0)] = place]
  /\ place' = place + 1
  /\ UNCHANGED <<entries, cap, nbuckets, pending, last, wild>>

\* One turn of the loop of ox_hmap_rehash; an entry that meets no free bucket
\* is left out of the table.
PlaceEntry ==
  /\ place \in 1 .. Len(entries)
  /\ LET k == entries[place].key IN
     \/ \E i \in Probes :
          /\ IsFree(k, i) /\ \A h \in 0 .. i - 1 : ~IsFree(k, h)
          /\ buckets' = [buckets EXCEPT ![BucketAt(k, i)] = place]
     \/ (\A i \in Probes : ~IsFree(k, i)) /\ UNCHANGED buckets
  /\ place' = place + 1
  /\ UNCHANGED <<entries, cap, nbuckets, pending, last, wild>>

AddEntry(k, v, b) ==
  /\ entries' = Append(entries, [key |-> k, val |-> v])
  /\ buckets' = IF b = -1 THEN buckets ELSE [buckets EXCEPT ![b] = Len(entries) + 1]
  /\ wild' = (wild \/ b = -1)

RebuildDone ==
  /\ place = Len(entries) + 1
  /\ place' = 0 /\ pending' = NoPair
  /\ \/ pending = NoPair /\ UNCHANGED <<entries, buckets, last, wild>>
     \/ /\ pending # NoPair
        /\ last' = <<"put", pending[1], pending[2]>>
        /\ \E f \in Find(pending[1]) : AddEntry(pending[1], pending[2], f.bucket)
  /\ UNCHANGED <<cap, nbuckets>>

-----------------------------------------------------------------------------
(* ox_hmap_set, in its three outcomes *)

SetReplace(k, v) ==
  /\ Ready /\ nbuckets # 0
  /\ \E f \in Find(k) : /\ f.slot # 0
                        /\ entries' = [entries EXCEPT ![f.slot].val = v]
  /\ last' = <<"put", k, v>>
  /\ UNCHANGED <<cap, table, place, pending, wild>>

SetAppend(k, v) ==
  /\ Ready /\ nbuckets # 0
  /\ \E f \in Find(k) : f.slot = 0 /\ LoadFits /\ AddEntry(k, v, f.bucket)
  /\ cap' = GrownCap
  /\ last' = <<"put", k, v>>
  /\ UNCHANGED <<nbuckets, place, pending>>

SetGrow(k, v) ==
  /\ Ready
  /\ nbuckets # 0 => ~LoadFits /\ \E f \in Find(k) : f.slot = 0
  /\ cap' = GrownCap
  /\ StartRebuild(IF nbuckets = 0 THEN FirstBuckets ELSE 2 * nbuckets, <<k, v>>)
  /\ UNCHANGED <<entries, last, wild>>

-----------------------------------------------------------------------------
Get(k) ==
  /\ Ready
  /\ \/ nbuckets = 0 /\ last' = <<"get", k, Absent>>
     \/ /\ nbuckets # 0
        /\ \E f \in Find(k) :
             last' = <<"get", k, IF f.slot = 0 THEN Absent ELSE entries[f.slot].val>>
  /\ UNCHANGED <<entries, cap, table, place, pending, wild>>

WithoutLast(s) == SubSeq(entries, 1, Len(entries) - 1)  \* mutant: hole not filled

\* The entry at slot s gives way to the last one.
WithoutSlot(s) ==
  LET n == Len(entries) IN
  [i \in 1 .. n - 1 |-> IF i = s THEN entries[n] ELSE entries[i]]

\* mutant: the hole is left to the old table, which is not rebuilt
DeleteNoRebuild(k) ==
  /\ Ready /\ nbuckets # 0
  /\ \E f \in Find(k) :
       /\ f.slot # 0
       /\ entries' = WithoutSlot(f.slot)
       /\ buckets' = [buckets EXCEPT ![f.bucket] = 0]
  /\ last' = <<"remove", k>>
  /\ UNCHANGED <<cap, nbuckets, place, pending, wild>>

Delete(k) ==
  /\ Ready /\ nbuckets # 0
  /\ \E f \in Find(k) : f.slot # 0 /\ entries' = WithoutSlot(f.slot)
  /\ StartRebuild(nbuckets, NoPair)
  /\ last' = <<"remove", k>>
  /\ UNCHANGED <<cap, wild>>

Clear ==
  /\ Ready
  /\ entries' = <<>> /\ buckets' = NoEntry
  /\ last' = Cleared
  /\ UNCHANGED <<cap, nbuckets, place, pending, wild>>

Set(k, v) == SetReplace(k, v) \/ SetAppend(k, v) \/ SetGrow(k, v)

Next == \/ \E k \in Keys : Get(k) \/ Delete(k) \/ \E v \in Values : Set(k, v)
        \/ Clear \/ PlaceEntry \/ RebuildDone

Spec == Init /\ [][Next]_vars

-----------------------------------------------------------------------------
(* Properties *)

Entry == [key : Keys, val : Values]
CallsMade == {Cleared} \cup ({"remove"} \X Keys)
             \cup ({"put", "get"} \X Keys \X (Values \cup {Absent}))

TypeOK ==
  /\ entries \in Seq(Entry)
  /\ cap \in Nat /\ nbuckets \in Nat
  /\ buckets \in [0 .. nbuckets - 1 -> 0 .. Len(entries)]
  /\ place \in 0 .. Len(entries) + 1
  /\ pending \in (Keys \X Values) \cup {NoPair}
  /\ last \in CallsMade
  /\ wild \in BOOLEAN

\* An append always finds room in the arrays and a bucket in the table: the
\* arrays and the table grow before they are full (ox_hmap_grow), so the
\* bucket index -1 "table full (should not happen under LF)" is never used.
NeverFull == ~wild /\ Len(entries) <= cap

\* No key has two entries, so iteration meets each key once (ox_hmap_set
\* looks the key up before it appends).
OneEntryPerKey ==
  \A i, j \in 1 .. Len(entries) :
    i # j => <<entries[i].key, entries[j].key>> \notin Same

\* Every lookup answers the last value set, across growth, rebuilding and the
\* moves of delete.
Positions(es, k) == {i \in 1 .. Len(es) : es[i].key = k}
Contents(es) == [k \in Keys |-> IF Positions(es, k) = {} THEN Absent
                                ELSE es[CHOOSE i \in Positions(es, k) : TRUE].val]
Store == INSTANCE KeyValueStore WITH store <- Contents(entries)
ImplementsStore == Store!StoreSpec

\* Entries that survive a call keep their relative order, which is the order
\* iteration shows.
SurvivorsKeepOrder ==
  [][\A i, j \in 1 .. Len(entries), g, h \in 1 .. Len(entries') :
       /\ i < j
       /\ entries[i].key = entries'[g].key
       /\ entries[j].key = entries'[h].key
       => g < h]_vars
=============================================================================
