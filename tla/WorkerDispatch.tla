--------------------------- MODULE WorkerDispatch ---------------------------
(***************************************************************************)
(* The worker-dispatch receiver (hosted/worker_dispatch.py).  A signed     *)
(* dispatch names a job, an action and a binding (lane, plan, payment and  *)
(* price labels).  The receiver reserves the job and action with a marker  *)
(* file created exclusively in its state directory, spawns the worker and  *)
(* returns a receipt; a dispatch that finds the marker gets a duplicate    *)
(* receipt instead, provided the marker carries the same binding.          *)
(*                                                                         *)
(* Several receiver processes may share the state directory.  Opening the  *)
(* marker, writing it, spawning and answering are separate steps, because  *)
(* the receiver can die, or a system call can fail, between any two.       *)
(***************************************************************************)
EXTENDS Naturals

CONSTANTS
  Keys,          \* (job, action) pairs that can be dispatched
  Bindings,      \* dispatch bindings a control plane may sign
  PaidBindings,  \* those naming the managed lane and payment status "paid"
  Receivers,     \* receiver processes sharing the state directory
  Faults,        \* which of "disk" (writing the marker fails), "spawn"
                 \* (Popen raises) and "crash" may happen
  MaxSpawns,     \* bound of the spawn counter, past which nothing is spawned
  NoMarker,      \* no marker file
  Partial,       \* a marker file without its content
  NoDispatch     \* an idle receiver

ASSUME BindingsAssumption  == PaidBindings \subseteq Bindings
ASSUME MarkerAssumption   == NoMarker \notin Bindings /\ Partial \notin Bindings
                             /\ NoMarker # Partial
ASSUME FaultsAssumption    == Faults \subseteq {"disk", "spawn", "crash"}
ASSUME MaxSpawnsAssumption == MaxSpawns \in Nat \ {0}

VARIABLES
  marker,    \* the marker file of each key
  work,      \* the dispatch each receiver is handling
  spawns,    \* how many workers were spawned per key
  receipts   \* receipts returned with accepted = TRUE

dispatchVars == <<marker, work, spawns, receipts>>

Dispatch == [key: Keys, binding: Bindings]

Work == [dispatch: Dispatch, phase: {"verify", "reserve", "write", "spawn", "answer",
                                     "duplicate", "refuse"}]

(* The binding a marker carries; created but not written, it is invalid    *)
(* JSON and carries none.                                                  *)
MarkerFile == Bindings \cup {NoMarker, Partial}

Receipt == [dispatch: Dispatch, duplicate: BOOLEAN]

TypeOK ==
  /\ marker \in [Keys -> MarkerFile]
  /\ work \in [Receivers -> Work \cup {NoDispatch}]
  /\ spawns \in [Keys -> 0..MaxSpawns]
  /\ receipts \subseteq Receipt

Init ==
  /\ marker = [k \in Keys |-> NoMarker]
  /\ work = [r \in Receivers |-> NoDispatch]
  /\ spawns = [k \in Keys |-> 0]
  /\ receipts = {}

-----------------------------------------------------------------------------

Phase(r, phase) == work[r] # NoDispatch /\ work[r].phase = phase

Goto(r, phase) == work' = [work EXCEPT ![r] = [@ EXCEPT !.phase = phase]]

Finish(r) == work' = [work EXCEPT ![r] = NoDispatch]

(* A POST arrives.                                                         *)
Receive(r, d) ==
  /\ work[r] = NoDispatch
  /\ work' = [work EXCEPT ![r] = [dispatch |-> d, phase |-> "verify"]]
  /\ UNCHANGED <<marker, spawns, receipts>>

verify_hosted_worker_dispatch(r) ==
  /\ Phase(r, "verify")
  /\ Goto(r, IF work[r].dispatch.binding \in PaidBindings THEN "reserve" ELSE "refuse")
  /\ UNCHANGED <<marker, spawns, receipts>>

(* Mutant: any readable marker matches.                                    *)
marker_readable(file, binding) == file \in Bindings

_dispatch_marker_matches(file, binding) == file = binding

(* Mutant: an unreadable marker is taken over.                             *)
take_over_partial_marker(r) ==
  LET d == work[r].dispatch
  IN /\ Phase(r, "reserve")
     /\ IF marker[d.key] \in {NoMarker, Partial}
        THEN /\ marker' = [marker EXCEPT ![d.key] = Partial]
             /\ Goto(r, "write")
        ELSE /\ UNCHANGED marker
             /\ Goto(r, IF _dispatch_marker_matches(marker[d.key], d.binding)
                        THEN "duplicate" ELSE "refuse")
     /\ UNCHANGED <<spawns, receipts>>

(* open(O_CREAT | O_EXCL): exactly one receiver creates the file.          *)
_reserve_dispatch(r) ==
  LET d == work[r].dispatch
  IN /\ Phase(r, "reserve")
     /\ IF marker[d.key] = NoMarker
        THEN /\ marker' = [marker EXCEPT ![d.key] = Partial]
             /\ Goto(r, "write")
        ELSE /\ UNCHANGED marker
             /\ Goto(r, IF _dispatch_marker_matches(marker[d.key], d.binding)
                        THEN "duplicate" ELSE "refuse")
     /\ UNCHANGED <<spawns, receipts>>

(* Mutant: the worker is forgotten.                                       *)
AnswerAfterMarker(r) ==
  /\ Phase(r, "write")
  /\ marker' = [marker EXCEPT ![work[r].dispatch.key] = work[r].dispatch.binding]
  /\ Goto(r, "answer")
  /\ UNCHANGED <<spawns, receipts>>

WriteMarker(r) ==
  /\ Phase(r, "write")
  /\ marker' = [marker EXCEPT ![work[r].dispatch.key] = work[r].dispatch.binding]
  /\ Goto(r, "spawn")
  /\ UNCHANGED <<spawns, receipts>>

(* OSError while the marker is opened, written or chmod-ed: whatever was   *)
(* written of it stays.                                                    *)
WriteFails(r) ==
  /\ "disk" \in Faults
  /\ \/ /\ Phase(r, "reserve") \/ Phase(r, "write")
        /\ UNCHANGED marker
     \/ /\ Phase(r, "write")
        /\ marker' = [marker EXCEPT ![work[r].dispatch.key] = work[r].dispatch.binding]
  /\ Goto(r, "refuse")
  /\ UNCHANGED <<spawns, receipts>>

_spawn_worker(r) ==
  /\ Phase(r, "spawn")
  /\ spawns[work[r].dispatch.key] < MaxSpawns
  /\ spawns' = [spawns EXCEPT ![work[r].dispatch.key] = @ + 1]
  /\ Goto(r, "answer")
  /\ UNCHANGED <<marker, receipts>>

(* Mutant: a failed spawn is answered like a success.                      *)
SpawnFailsSilently(r) ==
  /\ "spawn" \in Faults
  /\ Phase(r, "spawn")
  /\ Goto(r, "answer")
  /\ UNCHANGED <<marker, spawns, receipts>>

(* Popen raises; the exception leaves the handler as an HTTP 500.          *)
SpawnFails(r) ==
  /\ "spawn" \in Faults
  /\ Phase(r, "spawn")
  /\ Goto(r, "refuse")
  /\ UNCHANGED <<marker, spawns, receipts>>

accept_hosted_worker_dispatch(r) ==
  /\ (Phase(r, "answer") \/ Phase(r, "duplicate"))
  /\ receipts' = receipts \cup
       {[dispatch |-> work[r].dispatch, duplicate |-> Phase(r, "duplicate")]}
  /\ Finish(r)
  /\ UNCHANGED <<marker, spawns>>

Refuse(r) ==
  /\ Phase(r, "refuse")
  /\ Finish(r)
  /\ UNCHANGED <<marker, spawns, receipts>>

Crash(r) ==
  /\ "crash" \in Faults
  /\ work[r] # NoDispatch
  /\ Finish(r)
  /\ UNCHANGED <<marker, spawns, receipts>>

Step(r) ==
  \/ verify_hosted_worker_dispatch(r)
  \/ _reserve_dispatch(r)
  \/ WriteMarker(r)
  \/ _spawn_worker(r)
  \/ accept_hosted_worker_dispatch(r)
  \/ Refuse(r)

Next ==
  \/ \E r \in Receivers : \E d \in Dispatch : Receive(r, d)
  \/ \E r \in Receivers : Step(r) \/ WriteFails(r) \/ SpawnFails(r) \/ Crash(r)

Spec == Init /\ [][Next]_dispatchVars

-----------------------------------------------------------------------------

(* The cost guard: one worker per paid job and action, however often the   *)
(* dispatch is repeated and whichever step the receiver dies at.           *)
OneSpawn == \A k \in Keys : spawns[k] <= 1

(* No worker runs, and no receipt is given, on behalf of a binding that is *)
(* unpaid or differs from the binding the key was reserved for: the marker *)
(* a worker was spawned under, and every receipt, agree.                   *)
BoundToReservation ==
  /\ \A k \in Keys : spawns[k] > 0 => marker[k] \in PaidBindings
  /\ \A c \in receipts : marker[c.dispatch.key] = c.dispatch.binding

(* A receipt that is not a duplicate vouches for a running worker.         *)
ReceiptMeansSpawned ==
  \A c \in receipts : ~c.duplicate => spawns[c.dispatch.key] = 1

(* A key is reserved once its marker can be read; a marker that never gets *)
(* its content reserves nothing and, being there, keeps the key unused.    *)
Reserved == [k \in Keys |-> IF marker[k] = Partial THEN NoMarker ELSE marker[k]]

Once == INSTANCE SpawnOnce WITH None <- NoMarker, reserved <- Reserved

(* Whatever the receivers do between the create, the write, the spawn and  *)
(* the answer, and wherever they die, they only ever reserve a free key,   *)
(* spawn its worker once and vouch for it.                                 *)
ImplementsSpawnOnce == Once!Spec

=============================================================================
