------------------------------ MODULE SpawnOnce ------------------------------
(***************************************************************************)
(* What the worker-dispatch receivers promise together: a key is reserved  *)
(* for one paid binding and never for another, at most one worker is       *)
(* spawned for it, only after that, and a receipt names the binding the    *)
(* key is reserved for.  Neither a reservation, nor a spawn, nor a receipt *)
(* is ever taken back.                                                     *)
(***************************************************************************)
EXTENDS Naturals

CONSTANTS
  Keys,          \* what is spawned at most once
  PaidBindings,  \* the bindings a key may be reserved for
  None           \* no binding yet

VARIABLES
  reserved,  \* the binding each key is reserved for
  spawns,    \* how many workers were spawned per key
  receipts   \* the receipts given

Init ==
  /\ reserved = [k \in Keys |-> None]
  /\ spawns = [k \in Keys |-> 0]
  /\ receipts = {}

Reserve(k, binding) ==
  /\ reserved[k] = None
  /\ reserved' = [reserved EXCEPT ![k] = binding]
  /\ UNCHANGED <<spawns, receipts>>

Spawn(k) ==
  /\ reserved[k] # None /\ spawns[k] = 0
  /\ spawns' = [spawns EXCEPT ![k] = 1]
  /\ UNCHANGED <<reserved, receipts>>

(* A receipt that is not a duplicate answers for the worker.               *)
Vouch(k, duplicate) ==
  /\ reserved[k] # None
  /\ duplicate \/ spawns[k] = 1
  /\ receipts' = receipts \cup
       {[dispatch |-> [key |-> k, binding |-> reserved[k]], duplicate |-> duplicate]}
  /\ UNCHANGED <<reserved, spawns>>

Next ==
  \E k \in Keys :
    \/ \E binding \in PaidBindings : Reserve(k, binding)
    \/ Spawn(k)
    \/ \E duplicate \in BOOLEAN : Vouch(k, duplicate)

Spec == Init /\ [][Next]_<<reserved, spawns, receipts>>

=============================================================================
