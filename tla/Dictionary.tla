----------------------------- MODULE Dictionary -----------------------------
(***************************************************************************)
(* What hashmap.h promises: a finite map from keys to values.  A call      *)
(* returns the value the key had, or NULL.  hashmap_set may find no memory *)
(* and change nothing.                                                     *)
(***************************************************************************)
CONSTANTS Key, Value, NULL

VARIABLES contents,    \* the value of each key, or else NULL
          result       \* the last call, and the value it returned

vars == <<contents, result>>

Returned(call, key, value) == [call |-> call, key |-> key, value |-> value]

Init == contents = [k \in Key |-> NULL] /\ result = Returned("new", NULL, NULL)

Get(k) == /\ result' = Returned("get", k, contents[k])
          /\ UNCHANGED contents

Set(k, v) == /\ result' = Returned("set", k, contents[k])
             /\ contents' = [contents EXCEPT ![k] = v]

NoMemory(k) == /\ result' = Returned("failed", k, NULL)
               /\ UNCHANGED contents

Delete(k) == /\ result' = Returned("delete", k, contents[k])
             /\ contents' = [contents EXCEPT ![k] = NULL]

Clear == /\ contents' = [k \in Key |-> NULL]
         /\ UNCHANGED result

Next == \/ \E k \in Key : \/ Get(k) \/ Delete(k) \/ NoMemory(k)
                          \/ \E v \in Value : Set(k, v)
        \/ Clear

Spec == Init /\ [][Next]_vars
=============================================================================
