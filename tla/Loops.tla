------------------------------- MODULE Loops -------------------------------
(***************************************************************************)
(* Foreach loops over containers that their bodies change: the code of     *)
(* genStmt for ForStmt and the containers of the runtime.  A container is  *)
(* the sequence of its entries <<key, value>>; in a vec, an array or a     *)
(* string the key only tells its elements apart.  The loop walks the first *)
(* container of `boxes'; the variable of the body's statements may name    *)
(* another one.                                                            *)
(***************************************************************************)
EXTENDS Integers, SequencesExt

CONSTANTS Word,       \* how many integers a word holds
          ArenaCap,   \* strings the arena's first block holds
          Fuel        \* bound: iterations watched

Maps == {"map", "hmap"}
Sets == {"set", "hset"}
Sorted == {"map", "set"}
Fresh == 9   \* the key of every element the body adds to a vec
Torn == 8

RECURSIVE Search(_, _, _, _), Iterate(_, _)
-----------------------------------------------------------------------------
\* ox_map_lb, ox_set_lb: how many keys come before k.
Search(b, k, lo, hi) ==
  IF lo >= hi THEN lo
  ELSE LET mid == lo + (hi - lo) \div 2 IN
       IF b[mid + 1][1] < k THEN Search(b, k, mid + 1, hi) ELSE Search(b, k, lo, mid)
LowerBound(b, k) == 1 + Search(b, k, 0, Len(b))

\* The position of k in a map or a set, 0 if it has none.
Slot(kind, b, k) ==
  IF kind \in Sorted
  THEN LET i == LowerBound(b, k) IN IF i <= Len(b) /\ b[i][1] = k THEN i ELSE 0
  ELSE SelectInSeq(b, LAMBDA e : e[1] = k)
AddEntry(kind, b, e) == IF kind \in Sorted THEN InsertAt(b, LowerBound(b, e[1]), e) ELSE Append(b, e)

MapSet(kind, b, e) == LET i == Slot(kind, b, e[1]) IN
  IF i = 0 THEN AddEntry(kind, b, e) ELSE [b EXCEPT ![i] = e]
SetInsert(kind, b, k) == IF Slot(kind, b, k) = 0 THEN AddEntry(kind, b, <<k, 0>>) ELSE b

\* A sorted sequence closes the gap, a hash table moves its last entry into it.
Delete(kind, b, k) == LET i == Slot(kind, b, k) IN
  IF i = 0 THEN b
  ELSE IF kind \in Sorted THEN RemoveAt(b, i) ELSE Front([b EXCEPT ![i] = Last(b)])

\* The typed accessors keep a bool in a slot of an int, but remove_at and
\* insert_at move elements by the width of the type, one byte (a slot is two
\* here); a slot whose bytes are not those of one element is torn.
Bytes(b) == [n \in 1 .. 2 * Len(b) |-> <<b[(n + 1) \div 2], n % 2>>]
Slots(bytes, len) ==
  [n \in 1 .. len |-> LET e == bytes[2 * n - 1][1] IN
     IF bytes[2 * n - 1] = <<e, 1>> /\ bytes[2 * n] = <<e, 0>> THEN e ELSE <<Torn, 0>>]
BytesWithout(b, i) == [n \in 1 .. 2 * Len(b) |-> Bytes(b)[IF n \in i + 1 .. Len(b) - 1 THEN n + 1 ELSE n]]
BytesWith(b, i, e) == LET old == Bytes(Append(b, <<Torn, 0>>)) IN
  [n \in 1 .. Len(old) |-> IF n = i + 1 THEN <<e, 1>> ELSE old[IF n \in i + 2 .. Len(b) + 1 THEN n - 1 ELSE n]]

VecRemove(kind, b, i) == IF kind = "bools" THEN Slots(BytesWithout(b, i), Len(b) - 1) ELSE RemoveAt(b, i + 1)
\* An index past the end is the end.
VecInsert(kind, b, k, e) == LET i == IF k > Len(b) THEN Len(b) ELSE k IN
  IF kind = "bools" THEN Slots(BytesWith(b, i, e), Len(b) + 1) ELSE InsertAt(b, i + 1, e)
VecPop(b) == IF b = <<>> THEN b ELSE Front(b)

-----------------------------------------------------------------------------
\* ox_arena_alloc: a full block is copied to one twice as large and freed.
Alloc(s) == IF s.used + 1 <= s.cap THEN [s EXCEPT !.used = @ + 1]
            ELSE [s EXCEPT !.cap = 2 * @, !.used = @ + 1, !.block = @ + 1]

\* Strings made in the first block are gone once there is a second.
Freed(j, s) == j.made /\ s.block > 1

\* c[k] = c[k2] = v: each element of an array has its address, but the pending
\* store of a vec or a map is one record, where the inner takes the outer's place.
Stored(j, places) == IF j.kind = "array" THEN Range(places) ELSE {Last(places)}

End(s, how) == [s EXCEPT !.ended = how]
Box(s) == s.boxes[s.on]
Log(s, st, to) == [s EXCEPT !.boxes[s.on] = to,
                            !.log = Append(@, [st |-> st, i |-> s.i, from |-> Box(s), to |-> to, walked |-> s.on = 1])]
\* Another container for the variable; the loop keeps the one it has.
Renew(s) == [s EXCEPT !.boxes = Append(@, <<<<Fresh, 0>>>>), !.on = Len(s.boxes) + 1]

Assign(j, b, ks) ==
  IF j.kind \in Maps THEN MapSet(j.kind, b, <<CHOOSE k \in ks : TRUE, 1>>)
  ELSE [i \in 1 .. Len(b) |-> IF i - 1 \in ks THEN <<b[i][1], 1>> ELSE b[i]]
\* A lookup compares keys; an index of a vec or an array is checked.
ReadsFreed(j, s, st) == /\ st.op \in {"set", "add", "delete"} /\ j.kind \in Maps \cup Sets
                        /\ \E e \in Range(Box(s)) : e[1] # Fresh
                        /\ Freed(j, s)
Outside(j, s, st) == /\ j.kind \notin Maps \cup Sets
                     /\ \/ st.op = "set" /\ \E k \in Stored(j, st.places) : k >= Len(Box(s))
                        \/ st.op = "remove" /\ st.k >= Len(Box(s))

\* genStmt, genBuiltin: one statement on the variable's container.
Do(j, s, st) == LET b == Box(s) IN
  CASE ReadsFreed(j, s, st) -> End(s, "freed")
    [] Outside(j, s, st) -> End(s, "trap")
    [] st.op = "break" -> End(s, "break")
    [] st.op = "continue" -> [s EXCEPT !.skip = TRUE]
    [] st.op = "build" -> Alloc(s)
    [] st.op = "renew" -> Renew(IF j.kind = "str" THEN Alloc(s) ELSE s)
    [] OTHER -> Log(s, st,
         CASE st.op = "set" -> Assign(j, b, Stored(j, st.places))
           [] st.op = "add" -> SetInsert(j.kind, b, st.k)
           [] st.op = "delete" -> Delete(j.kind, b, st.k)
           [] st.op = "clear" -> <<>>
           [] st.op = "push" -> Append(b, <<Fresh, 0>>)
           [] st.op = "insert" -> VecInsert(j.kind, b, st.k, <<Fresh, 0>>)
           [] st.op = "remove" -> VecRemove(j.kind, b, st.k)
           [] st.op = "pop" -> VecPop(b))

\* A statement under `if x == at', or on every iteration (0).
Stmt(j, s, st) ==
  IF s.ended # "no" \/ s.skip \/ st.at \notin {0, Last(s.seen).e[1]} THEN s ELSE Do(j, s, st)

-----------------------------------------------------------------------------
\* A word that is one too large is the least one.
Wrap(n) == ((n + Word \div 2) % Word) - Word \div 2
Current(j, s) == Wrap(j.lo + s.i)

\* Mutant: the length is read once, before the loop.
LengthAtStart(j, s) == Len(j.init)
Length(j, s) == Len(s.boxes[1])

\* The condition block of each form of loop.
More(j, s) ==
  IF j.kind = "range" THEN (IF j.incl THEN Current(j, s) <= j.hi ELSE Current(j, s) < j.hi)
  ELSE s.i < Length(j, s)

\* The load of the loop variables; the body reads the string it is given.
Visit(j, s) ==
  IF j.kind # "range" /\ (s.i >= Len(s.boxes[1]) \/ Freed(j, s))
  THEN End(s, IF Freed(j, s) THEN "freed" ELSE "trap")
  ELSE LET e == IF j.kind = "range" THEN <<Current(j, s), 0>> ELSE s.boxes[1][s.i + 1] IN
       [s EXCEPT !.seen = Append(@, [e |-> e, after |-> Len(s.log)]), !.skip = FALSE]

\* The length of a string is read from its text.
Iterate(j, s) ==
  IF s.ended # "no" THEN s
  ELSE IF j.kind = "str" /\ Freed(j, s) THEN End(s, "freed")
  ELSE IF ~More(j, s) THEN End(s, "done")
  ELSE IF s.i = Fuel THEN End(s, "running")
  ELSE LET after == FoldLeft(LAMBDA t, st : Stmt(j, t, st), Visit(j, s), j.body)
       IN Iterate(j, [after EXCEPT !.i = @ + 1])

\* A fixed array is copied before the loop; map_keys and set_to_vec copy the
\* keys into a vec that only the loop holds.
Spilled(j) == j.kind = "array"
Snapshot(j) == j.keys
Copied(j) == Spilled(j) \/ Snapshot(j)
Begin(j) == [boxes |-> IF Copied(j) THEN <<j.init, j.init>> ELSE <<j.init>>, on |-> IF Copied(j) THEN 2 ELSE 1,
             i |-> 0, seen |-> <<>>, skip |-> FALSE, ended |-> "no", log |-> <<>>,
             used |-> j.used, cap |-> ArenaCap, block |-> 1]
Run(j) == Iterate(j, Begin(j))
=============================================================================
