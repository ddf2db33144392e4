---------------------------- MODULE ImageDecode ----------------------------
(***************************************************************************)
(* decode_image (src/image/decode.cpp) in several threads.  libvips has    *)
(* one buffer of messages for the whole process; a decode that fails among *)
(* others is tried again with the others kept out, and only then are its   *)
(* messages read.  Pixels are left out: what matters of an image is what   *)
(* libvips and the checks make of it.                                      *)
(***************************************************************************)
EXTENDS Naturals, FiniteSets

CONSTANTS Thread, Image,
          Nobody,    \* no thread
          Trouble,   \* the troubles an image may have (Troubles, below)
          MaxCalls   \* bound on the calls of a thread

(***************************************************************************)
(* An image may be refused by one of the checks of the header or of the    *)
(* pixels, be broken where libvips loads it or evaluates it, make libvips  *)
(* warn, or have a sample that cannot be toned.  "pool" warns in a thread  *)
(* of libvips' pool, which evaluates large images.                         *)
(***************************************************************************)
Troubles == {"none", "refused", "unloadable", "damaged", "warns", "pool", "nonfinite"}

ASSUME ImageAssumption ==
  /\ Nobody \notin Thread /\ Trouble \subseteq Troubles /\ MaxCalls \in Nat
  /\ IsFiniteSet(Thread) /\ IsFiniteSet(Image)

VARIABLES
  trouble,         \* of each image
  stop,            \* all the decodes are told to stop
  initialized,     \* libvips is
  readers, writer, \* who holds decoder_mutex, and how
  buffer,          \* images the messages in libvips' buffer are about
  isolated,        \* isolated_errors of each thread
  seen,            \* Warnings::seen_ of the decode of each thread
  pc, image,       \* where each thread is, and with which image
  outcome,         \* how its last call ended
  message,         \* images that the message of its error is about
  calls

lockVars   == <<readers, writer>>
vipsVars   == <<buffer, isolated, seen>>
answerVars == <<outcome, message>>
vars == <<trouble, stop, initialized, lockVars, vipsVars, pc, image, answerVars, calls>>

Native == {"prepare", "evaluate", "check"}

Init == /\ trouble \in [Image -> Trouble]
        /\ stop = FALSE
        /\ initialized = FALSE
        /\ readers = {} /\ writer = Nobody
        /\ buffer = {}
        /\ isolated = [t \in Thread |-> FALSE]
        /\ seen = [t \in Thread |-> FALSE]
        /\ pc = [t \in Thread |-> "idle"]
        /\ image \in [Thread -> Image]
        /\ outcome = [t \in Thread |-> "none"]
        /\ message = [t \in Thread |-> {}]
        /\ calls = [t \in Thread |-> 0]

Goto(t, p) == pc' = [pc EXCEPT ![t] = p]

RequestStop ==
  /\ ~stop /\ stop' = TRUE
  /\ UNCHANGED <<trouble, initialized, lockVars, vipsVars, pc, image, answerVars, calls>>

\* The call is answered, or decode_native ends by an exception that nothing
\* catches: the lock, the flag and the warnings go with it.
Answer(t, o, about) ==
  /\ outcome' = [outcome EXCEPT ![t] = o]
  /\ message' = [message EXCEPT ![t] = about]
  /\ Goto(t, "idle")
  /\ readers' = readers \ {t}
  /\ writer' = IF writer = t THEN Nobody ELSE writer
  /\ isolated' = [isolated EXCEPT ![t] = FALSE]

-----------------------------------------------------------------------------
(***************************************************************************)
(* decode_image                                                            *)
(***************************************************************************)

\* The file and the options are checked, which is left out.
Call(t, i) ==
  /\ pc[t] = "idle" /\ calls[t] < MaxCalls
  /\ calls' = [calls EXCEPT ![t] = @ + 1]
  /\ image' = [image EXCEPT ![t] = i]
  /\ IF stop
       THEN Answer(t, "canceled", {})
       ELSE /\ Goto(t, IF initialized THEN "shared" ELSE "initialize")
            /\ outcome' = [outcome EXCEPT ![t] = "none"]
            /\ message' = [message EXCEPT ![t] = {}]
            /\ UNCHANGED <<lockVars, isolated>>
  /\ UNCHANGED <<trouble, stop, initialized, buffer, seen>>

\* One thread initializes libvips; where it fails the next caller tries again.
Initialize(t) ==
  /\ pc[t] = "initialize"
  /\ \/ /\ initialized' = TRUE
        /\ Goto(t, "shared")
        /\ UNCHANGED <<lockVars, isolated, answerVars>>
     \/ /\ ~initialized
        /\ Answer(t, "uninitialized", {})
        /\ UNCHANGED initialized
  /\ UNCHANGED <<trouble, stop, buffer, seen, image, calls>>

\* decode_native begins: the stop is seen and warnings are noted anew.
Enter(t) == /\ Goto(t, "prepare")
            /\ seen' = [seen EXCEPT ![t] = FALSE]

LockShared(t) ==
  /\ pc[t] = "shared" /\ writer = Nobody
  /\ IF stop THEN Answer(t, "canceled", {}) /\ UNCHANGED seen
     ELSE /\ Enter(t) /\ readers' = readers \cup {t}
          /\ UNCHANGED <<writer, isolated, answerVars>>
  /\ UNCHANGED <<trouble, stop, initialized, buffer, image, calls>>

-----------------------------------------------------------------------------
(* Faulty variants, none of them part of the specification. *)

\* Messages of earlier decodes are left in the buffer.
LockExclusiveOnly(t) ==
  /\ pc[t] = "retry" /\ writer = Nobody /\ readers = {}
  /\ IF stop THEN Answer(t, "canceled", {}) /\ UNCHANGED <<buffer, seen>>
     ELSE /\ Enter(t) /\ writer' = t
          /\ isolated' = [isolated EXCEPT ![t] = TRUE]
          /\ UNCHANGED <<readers, buffer, answerVars>>
  /\ UNCHANGED <<trouble, stop, initialized, image, calls>>

\* Warnings are noted, and not looked at after the evaluation.
CheckNothing(t) ==
  /\ pc[t] = "check"
  /\ readers' = readers \ {t}
  /\ writer' = IF writer = t THEN Nobody ELSE writer
  /\ isolated' = [isolated EXCEPT ![t] = FALSE]
  /\ Goto(t, "luma")
  /\ UNCHANGED <<trouble, stop, initialized, buffer, seen, image, answerVars, calls>>

\* The lock of the first attempt is held while the other one is waited for.
ThrowHolding(t, about) ==
  IF isolated[t] THEN Answer(t, "error", about) /\ UNCHANGED seen
  ELSE /\ Goto(t, "retry")
       /\ UNCHANGED <<lockVars, isolated, seen, answerVars>>

-----------------------------------------------------------------------------
\* The retry: the flag isolates what fail says, and the buffer starts empty.
LockExclusive(t) ==
  /\ pc[t] = "retry" /\ writer = Nobody /\ readers = {}
  /\ IF stop THEN Answer(t, "canceled", {}) /\ UNCHANGED <<buffer, seen>>
     ELSE /\ Enter(t) /\ writer' = t
          /\ buffer' = {}
          /\ isolated' = [isolated EXCEPT ![t] = TRUE]
          /\ UNCHANGED <<readers, answerVars>>
  /\ UNCHANGED <<trouble, stop, initialized, image, calls>>

-----------------------------------------------------------------------------
(***************************************************************************)
(* decode_native                                                           *)
(***************************************************************************)

\* reject and fail.  The first attempt catches either, and releases its lock
\* before it asks for the other one.
Throw(t, about) ==
  IF isolated[t] THEN Answer(t, "error", about) /\ UNCHANGED seen
  ELSE /\ readers' = readers \ {t}
       /\ Goto(t, "retry")
       /\ UNCHANGED <<writer, isolated, seen, answerVars>>

\* libvips adds its message to the buffer, and fail reads all of it.
FailNative(t) ==
  /\ buffer' = buffer \cup {image[t]}
  /\ Throw(t, buffer')

\* Decodes of other threads that fail may make a good one fail too.
Disturbed(t) == \E u \in Thread \ {t} : pc[u] \in Native

\* The checks of dimensions and metadata, and of the format for the conversions.
RefusedByHeader(i) == trouble[i] = "refused"

\* A warning on the way is seen where the graph of operations is complete.
WarnedInHeader(i) == trouble[i] = "warns"

\* prepare_pixels: the header and the graph of operations.
Prepare(t) ==
  /\ pc[t] = "prepare"
  /\ \/ /\ ~RefusedByHeader(image[t]) /\ trouble[image[t]] # "unloadable"
        /\ Goto(t, "evaluate")
        /\ UNCHANGED <<lockVars, vipsVars, answerVars>>
     \/ /\ trouble[image[t]] = "unloadable" \/ Disturbed(t)
        /\ FailNative(t)
     \/ /\ RefusedByHeader(image[t]) \/ WarnedInHeader(image[t])
        /\ Throw(t, {}) /\ UNCHANGED buffer
  /\ UNCHANGED <<trouble, stop, initialized, image, calls>>

\* The pixels, row by row or by the pool of libvips; a warning is noted by the
\* thread that decodes, and only printed by another one.
Evaluate(t) ==
  /\ pc[t] = "evaluate"
  /\ \/ /\ ~stop /\ trouble[image[t]] # "damaged"
        /\ seen' = [seen EXCEPT ![t] = @ \/ trouble[image[t]] = "warns"]
        /\ Goto(t, "check")
        /\ UNCHANGED <<lockVars, buffer, isolated, answerVars>>
     \/ /\ trouble[image[t]] = "damaged" \/ Disturbed(t)
        /\ FailNative(t)
  /\ UNCHANGED <<trouble, stop, initialized, image, calls>>

\* warnings.check, and the lock is released with the pixels copied.
CheckWarnings(t) ==
  /\ pc[t] = "check"
  /\ IF seen[t] THEN Throw(t, {})
     ELSE /\ readers' = readers \ {t}
          /\ writer' = IF writer = t THEN Nobody ELSE writer
          /\ isolated' = [isolated EXCEPT ![t] = FALSE]
          /\ Goto(t, "luma")
          /\ UNCHANGED <<seen, answerVars>>
  /\ UNCHANGED <<trouble, stop, initialized, buffer, image, calls>>

\* read_luma, without a lock and without a retry; the stop is looked at last.
ReadLuma(t) ==
  /\ pc[t] = "luma"
  /\ \/ trouble[image[t]] = "nonfinite" /\ Answer(t, "error", {})
     \/ trouble[image[t]] # "nonfinite" /\ ~stop /\ Answer(t, "image", {})
  /\ UNCHANGED <<trouble, stop, initialized, buffer, seen, image, calls>>

\* check_cancelled, between any two rows; a decode inside libvips is killed by
\* cancel, and may say so in the buffer.
Cancelled(t) ==
  /\ stop /\ pc[t] \in {"evaluate", "luma"}
  /\ Answer(t, "canceled", {})
  /\ \/ UNCHANGED buffer
     \/ pc[t] = "evaluate" /\ buffer' = buffer \cup {image[t]}
  /\ UNCHANGED <<trouble, stop, initialized, seen, image, calls>>

\* std::bad_alloc is not caught, and not retried.
OutOfMemory(t) ==
  /\ pc[t] \in Native \cup {"luma"}
  /\ Answer(t, "memory", {})
  /\ UNCHANGED <<trouble, stop, initialized, buffer, seen, image, calls>>

Step(t) == \/ Initialize(t) \/ LockShared(t) \/ LockExclusive(t) \/ Prepare(t)
           \/ Evaluate(t) \/ CheckWarnings(t) \/ ReadLuma(t) \/ Cancelled(t)
           \/ OutOfMemory(t)

Quiet == (\A t \in Thread : pc[t] = "idle" /\ calls[t] = MaxCalls) /\ UNCHANGED vars

Next == \/ RequestStop
        \/ \E t \in Thread : Step(t) \/ \E i \in Image : Call(t, i)
        \/ Quiet

Spec == Init /\ [][Next]_vars /\ \A t \in Thread : WF_vars(Step(t))

-----------------------------------------------------------------------------
(***************************************************************************)
(* Properties.                                                             *)
(***************************************************************************)

\* docs/api.md: "diagnostics are associated with the correct file": an error
\* never carries a message about another image, and where libvips failed it
\* carries the one about its own.
OwnDiagnostics ==
  \A t \in Thread : outcome[t] = "error" =>
    message[t] = IF trouble[image[t]] \in {"unloadable", "damaged"} THEN {image[t]} ELSE {}

\* An image is decoded, or not, for what it is: failures of other decodes do
\* not reject a good one, nor let a bad one pass.
OwnVerdict ==
  \A t \in Thread :
    /\ outcome[t] = "image" => trouble[image[t]] \in {"none", "pool"}
    /\ outcome[t] = "error" => trouble[image[t]] \notin {"none", "pool"}

\* Every call is answered: no thread waits for ever for either kind of lock.
Returns == \A t \in Thread : pc[t] # "idle" ~> pc[t] = "idle"
=============================================================================
