----------------------------- MODULE MCHostedRun -----------------------------
(* Instances of HostedRun small enough for TLC: a behaviour is calm, or has *)
(* the faults.                                                              *)
EXTENDS HostedRun

(* The launch stops at a provider gate, or completes its proof.            *)
MCOutcomes ==
  {[evidence |-> {"rollback_metadata"}, artifacts |-> FALSE, byo |-> FALSE],
   [evidence |-> ProofKeys, artifacts |-> TRUE, byo |-> FALSE]}

MCPayloads == {}

VARIABLE calm

mcVars == <<runVars, calm>>

MCInit == InitRun /\ calm \in BOOLEAN

MCNext ==
  /\ CalmNext \/ (~calm /\ Faulty)
  /\ UNCHANGED calm

MCSpec == MCInit /\ [][MCNext]_mcVars

Calmly(step) == step /\ UNCHANGED calm

(* Handlers run to their end, worker commands terminate (a launch waits    *)
(* for people at the provider gates, who are assumed to show up), and a    *)
(* worker's connection is not overtaken for ever in the listen queue.      *)
Fairness ==
  /\ \A p \in Procs : WF_mcVars(Calmly(ServerSteps(p)))
  /\ \A p \in Procs : WF_mcVars(Calmly(\E r \in Receivers : CallReceiver(p, r)))
  /\ \A r \in Receivers : WF_mcVars(Calmly(ReceiverSteps(r)))
  /\ \A w \in Workers :
       WF_mcVars(Calmly(WorkerRuns(w))) /\ SF_mcVars(Calmly(WorkerCalls(w)))

MCFairSpec == MCSpec /\ Fairness

-----------------------------------------------------------------------------

(* Without faults a started managed job hears from its worker, unless the  *)
(* user asks for maintenance before.                                       *)
StartedGetsProof ==
  \A j \in Jobs :
    calm /\ IsManaged(j) /\ StatusOf(j) = "waiting_for_provider_gates"
      ~> StatusOf(j) \in {"proof_submitted", "complete", "rollback_requested",
                         "detonation_requested"}

(* A rollback the server accepted is carried out and reported.             *)
RollbackAnswered ==
  \A j \in Jobs :
    calm /\ IsManaged(j) /\ StatusOf(j) = "rollback_requested"
      ~> StatusOf(j) # "rollback_requested"

-----------------------------------------------------------------------------

(* States that differ only in what no guard and no property of the run     *)
(* reads (job steps, artifacts, envelopes and receipts sent) are one to TLC.*)
Shape(job) == IF job = NoJob THEN <<>> ELSE <<job.lane, job.status, job.payment>>

RunView ==
  << [j \in Jobs |-> Shape(store[j])],
     [p \in Procs |-> IF Idle(p) THEN <<>>
                      ELSE <<req[p].op, req[p].job, req[p].phase, Shape(req[p].next)>>],
     [p \in Procs |-> [j \in Jobs |-> Shape(cache[p][j])]],
     stripe, marker, work, spawns, calling, serving, pc, workspace, report, owed,
     asked, calm >>

=============================================================================
