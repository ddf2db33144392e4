------------------------------ MODULE PdqIndex ------------------------------
(***************************************************************************)
(* What an index of PDQ hashes promises (the concept PdqRangeIndex and     *)
(* docs/api.md): a map from identifiers to hashes.  A known identifier,    *)
(* and no other, is refused as a duplicate; an insertion that fails for    *)
(* any reason changes nothing.                                             *)
(***************************************************************************)
CONSTANTS Id, Hash, None

VARIABLES map,     \* the hash of each identifier, or None
          call,    \* the record being inserted, or None
          result   \* how the last call ended

vars == <<map, call, result>>

Failure == {"duplicate", "length", "memory"}

Init == /\ map = [i \in Id |-> None]
        /\ call = None
        /\ result = "ok"

Invoke(i, h) ==
  /\ call = None
  /\ call' = [id |-> i, hash |-> h]
  /\ UNCHANGED <<map, result>>

Insert ==
  /\ call # None
  /\ map[call.id] = None
  /\ map' = [map EXCEPT ![call.id] = call.hash]
  /\ call' = None
  /\ result' = "ok"

Fail(reason) ==
  /\ call # None
  /\ reason = "duplicate" <=> map[call.id] # None
  /\ call' = None
  /\ result' = reason
  /\ UNCHANGED map

\* reserve, and copies.
Other ==
  /\ call = None
  /\ result' \in {"ok"} \cup Failure
  /\ UNCHANGED <<map, call>>

\* The index is assigned one built from records, or is moved from.
Assign ==
  /\ call = None
  /\ map' \in [Id -> Hash \cup {None}]
  /\ result' = "ok"
  /\ UNCHANGED call

Next == \/ \E i \in Id, h \in Hash : Invoke(i, h)
        \/ Insert
        \/ \E reason \in Failure : Fail(reason)
        \/ Other
        \/ Assign

Spec == Init /\ [][Next]_vars
=============================================================================
