---------------------------- MODULE ScanContract ----------------------------
(***************************************************************************)
(* What scan_media promises its caller (docs/api.md, "Errors and exact     *)
(* groups"): one call ends exactly once, either with a result that covers  *)
(* every file it enumerated, or with one error and no result.  It is       *)
(* cancelled only at the caller's request, it never returns more files     *)
(* than the budget, and it works on no file after it has ended.            *)
(***************************************************************************)
EXTENDS Naturals

CONSTANTS MaxFiles,   \* options.max_files
          Error       \* the errors a scan may end with, "canceled" among them

VARIABLES stop,       \* the caller has requested a stop
          total,      \* the number of distinct files enumerated
          finished,   \* the positions whose record is complete
          outcome     \* "pending", "result" or the error the call ended with

vars == <<stop, total, finished, outcome>>

Init == /\ stop \in BOOLEAN
        /\ total = 0
        /\ finished = {}
        /\ outcome = "pending"

RequestStop == /\ stop' = TRUE
               /\ UNCHANGED <<total, finished, outcome>>

Enumerate == /\ outcome = "pending"
             /\ finished = {}
             /\ total' = total + 1
             /\ UNCHANGED <<stop, finished, outcome>>

Finish(p) == /\ outcome = "pending"
             /\ finished' = finished \cup {p}
             /\ UNCHANGED <<stop, total, outcome>>

Return == /\ outcome = "pending"
          /\ total <= MaxFiles
          /\ finished = 0..total - 1
          /\ outcome' = "result"
          /\ UNCHANGED <<stop, total, finished>>

Throw(e) == /\ outcome = "pending"
            /\ e = "canceled" => stop
            /\ e = "budget" => total = MaxFiles /\ finished = {}
            /\ outcome' = e
            /\ UNCHANGED <<stop, total, finished>>

Next == \/ RequestStop
        \/ Enumerate
        \/ \E p \in 0..total - 1 : Finish(p)
        \/ Return
        \/ \E e \in Error : Throw(e)

Safety == Init /\ [][Next]_vars

\* The call ends, whatever happens.
Spec == Safety /\ <>(outcome # "pending")
=============================================================================
