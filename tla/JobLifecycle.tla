---------------------------- MODULE JobLifecycle ----------------------------
(***************************************************************************)
(* What the control plane promises about one hosted job, whatever the      *)
(* number of requests, retries and failures behind it: its durable         *)
(* snapshot moves only along the edges below, one operation at a time.     *)
(* Payment and progress are separate: a payment never moves the job, and   *)
(* progress never touches the payment.                                     *)
(*                                                                         *)
(* The edges are the guards and results of advance_hosted_launch_job,      *)
(* claim_hosted_launch_job and apply_hosted_worker_proof, written down as  *)
(* a relation on statuses instead of the functions of HostedJob.           *)
(***************************************************************************)
CONSTANTS Jobs, None

VARIABLES status, payment, managed

lifecycleVars == <<status, payment, managed>>

Init ==
  /\ status = [j \in Jobs |-> None]
  /\ payment = [j \in Jobs |-> None]
  /\ managed = [j \in Jobs |-> FALSE]

Create(j) ==
  /\ status[j] = None
  /\ status' = [status EXCEPT ![j] = "waiting_for_worker"]
  /\ \/ /\ managed' = [managed EXCEPT ![j] = TRUE]
        /\ payment' = [payment EXCEPT ![j] = "payment_required"]
     \/ /\ payment' = [payment EXCEPT ![j] = "not_required"]
        /\ UNCHANGED managed

Move(j, from, to) ==
  /\ status[j] \in from
  /\ status' = [status EXCEPT ![j] = to]
  /\ UNCHANGED <<payment, managed>>

Running == {"waiting_for_provider_gates", "worker_claimed", "proof_submitted"}

(* Managed work of any kind is started only on a paid job.                 *)
Funded(j) == managed[j] => payment[j] = "paid"

Start(j)    == Funded(j) /\ Move(j, {"waiting_for_worker"}, "waiting_for_provider_gates")
Stop(j)     == Move(j, {"waiting_for_worker"}, "stopped")
Rollback(j) == Funded(j) /\ Move(j, Running \cup {"complete"}, "rollback_requested")
Detonate(j) ==
  Funded(j) /\ Move(j, Running \cup {"complete", "rollback_requested"}, "detonation_requested")
Claim(j)    == Move(j, Running, "worker_claimed")
Prove(j)    ==
  \E to \in {"proof_submitted", "complete"} :
    Move(j, {"worker_claimed", "proof_submitted", "rollback_requested",
             "detonation_requested"}, to)

Charge(j) ==
  /\ managed[j] /\ status[j] # None
  /\ \E p \in {"checkout_pending", "paid"} : payment' = [payment EXCEPT ![j] = p]
  /\ UNCHANGED <<status, managed>>

Next ==
  \E j \in Jobs :
    \/ Create(j) \/ Start(j) \/ Stop(j) \/ Rollback(j) \/ Detonate(j)
    \/ Claim(j) \/ Prove(j) \/ Charge(j)

Spec == Init /\ [][Next]_lifecycleVars

=============================================================================
