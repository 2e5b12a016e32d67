------------------------------ MODULE HostedJob ------------------------------
(***************************************************************************)
(* The public hosted job record and the pure functions that change it      *)
(* (hosted/job.py).  A job is a frozen dataclass: every operation returns  *)
(* a new record, so each is an operator here and the server module decides *)
(* when it is applied and where the result is kept.                        *)
(*                                                                         *)
(* Abstractions: proof sentences, labels, hashes and the plan are left     *)
(* out; the payment receipt is kept as the payment status it implies,      *)
(* since hosted_job_payment_status refuses any other combination; a worker *)
(* proof payload keeps the set of evidence keys reported true and whether  *)
(* the artifact list and the BYO OCI bundle are complete.                  *)
(***************************************************************************)

Managed == "managed-fusekit-run"
ByoOci  == "bring-your-own-oci"
Lanes   == {Managed, ByoOci}

Statuses ==
  {"waiting_for_worker", "stopped", "waiting_for_provider_gates", "worker_claimed",
   "proof_submitted", "complete", "rollback_requested", "detonation_requested"}

PaymentStatuses == {"not_required", "payment_required", "checkout_pending", "paid"}

StepIds ==
  {"plan.approved", "worker.prepare", "provider.gates", "setup.execute",
   "proof.collect", "rollback.ready", "detonate.worker"}

StepStatuses == {"pending", "waiting", "running", "done"}

Job == [lane: Lanes, status: Statuses, payment: PaymentStatuses,
        steps: [StepIds -> StepStatuses]]

-----------------------------------------------------------------------------
(* Evidence keys of a worker proof. *)

CollectKeys ==
  {"live_url", "provider_verifiers", "dns_propagation", "retrieved_remote_artifacts",
   "run_record", "live_acceptance_report", "recording"}

ProofKeys == CollectKeys \cup {"rollback_metadata", "detonation_receipt"}

RollbackKeys == {"rollback_execution_receipt", "post_rollback_verification"}

DetonationKeys ==
  {"workspace_detonation_receipt", "scratch_state_destroyed",
   "provider_auth_session_closed", "redacted_public_proof_preserved"}

EvidenceKeys == ProofKeys \cup RollbackKeys \cup DetonationKeys

ProofPayload == [evidence: SUBSET EvidenceKeys, artifacts: BOOLEAN, byo: BOOLEAN]

-----------------------------------------------------------------------------
(* Creation and payment. *)

build_hosted_launch_job(lane) ==
  [lane    |-> lane,
   status  |-> "waiting_for_worker",
   payment |-> IF lane = Managed THEN "payment_required" ELSE "not_required",
   steps   |-> [s \in StepIds |-> IF s = "plan.approved" THEN "done" ELSE "pending"]]

(* Mutants: any receipt counts as paid; a payment restarts the job.        *)
receipt_always_paid(job, paid) == [job EXCEPT !.payment = "paid"]
receipt_restarts_job(job, paid) ==
  [job EXCEPT !.payment = IF paid THEN "paid" ELSE "checkout_pending",
              !.status  = "waiting_for_worker"]

(* paid: the receipt is a paid Checkout Session bound to this job.         *)
(* Any other receipt makes the job checkout_pending, whatever it was.      *)
with_hosted_job_payment_receipt(job, paid) ==
  [job EXCEPT
     !.payment = IF paid THEN "paid" ELSE "checkout_pending",
     !.steps   = [@ EXCEPT !["worker.prepare"] = IF paid THEN "waiting" ELSE "pending"]]

-----------------------------------------------------------------------------
(* Protected control-room actions. *)

Actions == {"start", "stop", "rollback", "detonate"}

InFlight ==
  {"waiting_for_provider_gates", "worker_claimed", "proof_submitted", "complete"}

(* Mutant: a run can still be stopped while its worker is at work.         *)
StopInFlight ==
  [start    |-> {"waiting_for_worker"},
   stop     |-> {"waiting_for_worker", "worker_claimed"},
   rollback |-> InFlight,
   detonate |-> InFlight \cup {"rollback_requested"}]

AdvanceFrom ==
  [start    |-> {"waiting_for_worker"},
   stop     |-> {"waiting_for_worker"},
   rollback |-> InFlight,
   detonate |-> InFlight \cup {"rollback_requested"}]

AdvanceTo ==
  [start    |-> "waiting_for_provider_gates",
   stop     |-> "stopped",
   rollback |-> "rollback_requested",
   detonate |-> "detonation_requested"]

AdvanceSteps ==
  [start    |-> {"worker.prepare", "provider.gates"},
   stop     |-> {"worker.prepare", "provider.gates"},
   rollback |-> {"rollback.ready"},
   detonate |-> {"detonate.worker"}]

CanAdvance(job, action) == job.status \in AdvanceFrom[action]

advance_hosted_launch_job(job, action) ==
  [job EXCEPT
     !.status = AdvanceTo[action],
     !.steps  = [s \in StepIds |-> IF s \in AdvanceSteps[action] THEN "waiting" ELSE @[s]]]

-----------------------------------------------------------------------------
(* Worker claim. *)

(* Mutant: only a job that was claimed before can be claimed.              *)
ReclaimOnly(job) == job.status = "worker_claimed"

CanClaim(job) ==
  job.status \notin {"waiting_for_worker", "stopped", "rollback_requested",
                     "detonation_requested", "complete"}

(* Mutant: a status nobody else knows.                                     *)
claim_unknown_status(job) == [job EXCEPT !.status = "claimed"]

claim_hosted_launch_job(job) ==
  [job EXCEPT
     !.status = "worker_claimed",
     !.steps  = [@ EXCEPT !["worker.prepare"] = "done",
                          !["provider.gates"] = "waiting",
                          !["setup.execute"]  = "waiting"]]

-----------------------------------------------------------------------------
(* Worker proof. *)

CanProve(job) ==
  job.status \in {"worker_claimed", "rollback_requested", "detonation_requested",
                  "proof_submitted"}

MaintenanceKeys(job) ==
  CASE job.status = "rollback_requested"   -> RollbackKeys
    [] job.status = "detonation_requested" -> DetonationKeys
    [] OTHER                               -> {}

(* Mutant: maintenance evidence is not asked for.                          *)
maintenance_always_ready(job, evidence) == TRUE

_maintenance_ready(job, evidence) == MaintenanceKeys(job) \subseteq evidence

CompletionReady(job, payload) ==
  /\ ProofKeys \subseteq payload.evidence
  /\ payload.artifacts
  /\ _maintenance_ready(job, payload.evidence)
  /\ job.lane = ByoOci => payload.byo

DoneOrWaiting(done) == IF done THEN "done" ELSE "waiting"

apply_hosted_worker_proof(job, payload) ==
  LET evidence == payload.evidence
      ready    == CompletionReady(job, payload)
      needs(s, keys) == job.status = s => keys \subseteq evidence
  IN [job EXCEPT
        !.status = IF ready THEN "complete" ELSE "proof_submitted",
        !.steps  =
          [@ EXCEPT
             !["provider.gates"] =
                DoneOrWaiting({"retrieved_remote_artifacts", "run_record"} \subseteq evidence),
             !["setup.execute"] = IF ready THEN "done" ELSE "running",
             !["proof.collect"] = DoneOrWaiting(CollectKeys \subseteq evidence),
             !["rollback.ready"] =
                DoneOrWaiting(/\ needs("rollback_requested", RollbackKeys)
                              /\ "rollback_metadata" \in evidence),
             !["detonate.worker"] =
                DoneOrWaiting(/\ needs("detonation_requested", DetonationKeys)
                              /\ "detonation_receipt" \in evidence)]]

(* What the public proof receipt reports as completion_ready. *)
_completion_ready(job) ==
  /\ job.status = "complete"
  /\ \A s \in {"proof.collect", "rollback.ready", "detonate.worker"} : job.steps[s] = "done"

=============================================================================
