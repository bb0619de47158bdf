--------------------------- MODULE KeyValueStore ---------------------------
(***************************************************************************)
(* What a map of the Oxide runtime promises its callers, whatever table    *)
(* implements it: at most one value per key, and a lookup answers the last *)
(* value set.                                                              *)
(***************************************************************************)
CONSTANTS Keys, Values, Absent

VARIABLES store,  \* the value of each key, or Absent
          last    \* the last call, and what a lookup answered

StoreInit == store = [k \in Keys |-> Absent] /\ last = <<"clear">>

Put(k, v) == store' = [store EXCEPT ![k] = v] /\ last' = <<"put", k, v>>
Remove(k) == store' = [store EXCEPT ![k] = Absent] /\ last' = <<"remove", k>>
RemoveAll == store' = [k \in Keys |-> Absent] /\ last' = <<"clear">>
Look(k)   == UNCHANGED store /\ last' = <<"get", k, store[k]>>

StoreNext == \/ \E k \in Keys : Remove(k) \/ Look(k) \/ \E v \in Values : Put(k, v)
             \/ RemoveAll

StoreSpec == StoreInit /\ [][StoreNext]_<<store, last>>
=============================================================================
