----------------------------- MODULE MCDispatch -----------------------------
(* WorkerDispatch for TLC: a behaviour is calm, or has the faults. *)
EXTENDS WorkerDispatch

VARIABLE calm

MCInit == Init /\ calm \in BOOLEAN

MCNext ==
  /\ \/ \E r \in Receivers : Step(r) \/ \E d \in Dispatch : Receive(r, d)
     \/ ~calm /\ Next
  /\ UNCHANGED calm

MCSpec ==
  /\ MCInit /\ [][MCNext]_<<dispatchVars, calm>>
  /\ \A r \in Receivers : WF_<<dispatchVars, calm>>(Step(r) /\ UNCHANGED calm)

(* With no fault, a dispatched job gets its worker, also the one whose     *)
(* receipt said duplicate.                                                 *)
AcceptedGetsWorker ==
  \A k \in Keys : (calm /\ \E c \in receipts : c.dispatch.key = k) ~> spawns[k] = 1

=============================================================================
