----------------------------- MODULE AtomicCache -----------------------------
(***************************************************************************)
(* What a FingerprintCache promises to the threads that share it: load and *)
(* store act on one map at one instant between their call and their        *)
(* return.  A failed store changes nothing, a failed load says nothing,    *)
(* and a process that dies takes no entry with it.  Entries the disk or    *)
(* another program has damaged are reported, never returned.               *)
(***************************************************************************)
CONSTANTS Client, Key, Value,
          Missing,   \* no entry
          Damaged    \* an entry that does not hold a fingerprint of its key

VARIABLES map,    \* the entry of each key
          call    \* each client's call: what it asks, how far, what it got

vars == <<map, call>>

Phase  == {"idle", "called", "taken"}
Result == Value \cup {"none", "ok", "miss", "fail"}

Idle == [op |-> "load", key |-> CHOOSE k \in Key : TRUE,
         value |-> CHOOSE v \in Value : TRUE, phase |-> "idle",
         result |-> "none"]

Init == /\ map = [k \in Key |-> Missing]
        /\ call = [c \in Client |-> Idle]

Invoke(c, op, k, v) ==
  /\ call[c].phase = "idle"
  /\ call' = [call EXCEPT ![c] = [op |-> op, key |-> k, value |-> v,
                                  phase |-> "called", result |-> "none"]]
  /\ UNCHANGED map

Answer(entry) == CASE entry = Missing -> "miss"
                   [] entry = Damaged -> "fail"
                   [] OTHER           -> entry

Take(c, r) == call' = [call EXCEPT ![c] = [op |-> @.op, key |-> @.key, value |-> @.value,
                                           phase |-> "taken", result |-> r]]

Load(c) ==
  /\ call[c].phase = "called" /\ call[c].op = "load"
  /\ Take(c, Answer(map[call[c].key]))
  /\ UNCHANGED map

Store(c) ==
  /\ call[c].phase = "called" /\ call[c].op = "store"
  /\ map' = [map EXCEPT ![call[c].key] = call[c].value]
  /\ Take(c, "ok")

\* An input or output error, at any point of a load and before a store.
Refuse(c) ==
  /\ \/ call[c].phase = "called"
     \/ /\ call[c].phase = "taken"
        /\ call[c].op = "load"
  /\ Take(c, "fail")
  /\ UNCHANGED map

\* The caller has its answer.
Return(c) ==
  /\ call[c].phase = "taken"
  /\ call' = [call EXCEPT ![c] = Idle]
  /\ UNCHANGED map

\* The process dies and starts again.
Crash ==
  /\ call' = [c \in Client |-> Idle]
  /\ UNCHANGED map

\* The disk, or whoever else can write to the directory.
Disturb(k) ==
  /\ map' \in {[map EXCEPT ![k] = e] : e \in {Missing, Damaged}}
  /\ UNCHANGED call

Next == \/ \E c \in Client :
             \/ \E op \in {"load", "store"}, k \in Key, v \in Value :
                  Invoke(c, op, k, v)
             \/ Load(c) \/ Store(c) \/ Refuse(c) \/ Return(c)
        \/ Crash
        \/ \E k \in Key : Disturb(k)

Spec == Init /\ [][Next]_vars
=============================================================================
