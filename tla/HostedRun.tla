------------------------------ MODULE HostedRun ------------------------------
(***************************************************************************)
(* A managed hosted run end to end: the control plane (HostedServer), the  *)
(* worker-dispatch receiver (WorkerDispatch) and the workers it spawns     *)
(* (hosted/worker_client.py, hosted/worker.py).                            *)
(*                                                                         *)
(* The server calls the receiver while it holds a request, before it       *)
(* remembers the new status.  A worker talks back to the server: the start *)
(* worker claims the job, runs the launch and posts a proof; a maintenance *)
(* worker reads the job, checks that it still asks for this maintenance,   *)
(* runs the command and posts a proof.  An HTTP call a worker makes is     *)
(* answered when the server finished handling it; any answer but success   *)
(* raises in the worker and ends it.                                       *)
(*                                                                         *)
(* The commands a worker runs are outside this module: what they leave in  *)
(* the workspace is chosen from a small set.  BYO OCI jobs are dispatched  *)
(* to nobody, so here they get no worker.                                  *)
(***************************************************************************)
EXTENDS HostedServer, Naturals

CONSTANTS
  Receivers,      \* worker-dispatch receiver processes
  Outcomes,       \* workspaces a launch may leave behind, as proof payloads
  DispatchFaults, \* faults of the receiver, see WorkerDispatch
  RunFaults,      \* which of "timeout" (the server gives up on the receiver)
                  \* and "worker" (a worker dies) may happen
  MaxSpawns,      \* bound of WorkerDispatch's spawn counter
  NoMarker, Partial, NoDispatch,
  NoWorker,       \* the request comes from a browser or from Stripe
  NoProc          \* nobody waits for the receiver's answer

ASSUME OutcomesAssumption  == Outcomes \subseteq [evidence: SUBSET ProofKeys,
                                                  artifacts: BOOLEAN, byo: BOOLEAN]
ASSUME RunFaultsAssumption == RunFaults \subseteq {"timeout", "worker"}
ASSUME DispatchFaultsAssumption == DispatchFaults \subseteq {"disk", "spawn", "crash"}
ASSUME MaxSpawnsAssumption == MaxSpawns \in Nat \ {0}
ASSUME MarkerAssumption == NoMarker \notin PaymentStatuses /\ Partial \notin PaymentStatuses
                           /\ NoMarker # Partial

VARIABLES
  marker, work, spawns, receipts,  \* WorkerDispatch
  calling,    \* the server process each receiver has to answer
  serving,    \* the worker whose HTTP call a server process is handling
  pc,         \* where each worker is
  workspace,  \* what the launch left in the job's workspace
  report,     \* the proof a worker is about to post
  owed,       \* history: evidence the latest maintenance request still lacks
  asked       \* history: actions whose request the server remembered

DispatchActions == {"start", "rollback", "detonate"}

Workers == Jobs \X DispatchActions

JobOf(w)    == w[1]
ActionOf(w) == w[2]

D == INSTANCE WorkerDispatch WITH
  Keys <- Workers, Bindings <- PaymentStatuses, PaidBindings <- {"paid"},
  Faults <- DispatchFaults

serverVars   == vars
receiverVars == <<marker, work, spawns, receipts>>
workerVars   == <<pc, workspace, report>>
history      == <<owed, asked>>
runVars      == <<vars, receiverVars, calling, serving, workerVars, history>>

EmptyProof == [evidence |-> {}, artifacts |-> FALSE, byo |-> FALSE]

WorkerStates == {"unborn", "spawned", "calling", "running", "reporting", "posting", "exited"}

TypeOKRun ==
  /\ TypeOK
  /\ D!TypeOK
  /\ calling \in [Receivers -> Procs \cup {NoProc}]
  /\ serving \in [Procs -> Workers \cup {NoWorker}]
  /\ pc \in [Workers -> WorkerStates]
  /\ workspace \in [Jobs -> ProofPayload]
  /\ report \in [Workers -> ProofPayload]
  /\ owed \in [Jobs -> SUBSET EvidenceKeys]
  /\ asked \in [Jobs -> SUBSET DispatchActions]

InitRun ==
  /\ Init
  /\ D!Init
  /\ calling = [r \in Receivers |-> NoProc]
  /\ serving = [p \in Procs |-> NoWorker]
  /\ pc = [w \in Workers |-> "unborn"]
  /\ workspace = [j \in Jobs |-> EmptyProof]
  /\ report = [w \in Workers |-> EmptyProof]
  /\ owed = [j \in Jobs |-> {}]
  /\ asked = [j \in Jobs |-> {}]

-----------------------------------------------------------------------------
(* Browser and Stripe requests. *)

Browse(p, j) ==
  /\ \/ \E lane \in Lanes : _github_control_room_response(p, j, lane)
     \/ _hosted_job_response(p, j)
     \/ \E action \in Actions : _hosted_job_action_response(p, j, action)
     \/ _hosted_payment_checkout_response(p, j)
     \/ _hosted_payment_return_response(p, j)
     \/ _hosted_stripe_webhook_response(p, j)
  /\ UNCHANGED <<receiverVars, calling, serving, workerVars, history>>

Purchase(j) ==
  /\ Pay(j)
  /\ UNCHANGED <<receiverVars, calling, serving, workerVars, history>>

-----------------------------------------------------------------------------
(* Dispatch. *)

Waits(p) == \E r \in Receivers : calling[r] = p

(* The signed envelope reaches a receiver.                                 *)
CallReceiver(p, r) ==
  /\ ~Idle(p) /\ req[p].phase = "dispatch" /\ ~Waits(p)
  /\ D!Receive(r, [key |-> <<req[p].job, req[p].op>>, binding |-> req[p].next.payment])
  /\ calling' = [calling EXCEPT ![r] = p]
  /\ UNCHANGED <<serverVars, serving, workerVars, history>>

Reserve(r) ==
  /\ \/ D!verify_hosted_worker_dispatch(r) \/ D!_reserve_dispatch(r)
     \/ D!WriteMarker(r)
  /\ UNCHANGED <<serverVars, calling, serving, workerVars, history>>

ReceiverFails(r) ==
  /\ D!WriteFails(r) \/ D!SpawnFails(r)
  /\ UNCHANGED <<serverVars, calling, serving, workerVars, history>>

SpawnWorker(r) ==
  /\ D!_spawn_worker(r)
  /\ pc' = [pc EXCEPT ![work[r].dispatch.key] = "spawned"]
  /\ UNCHANGED <<serverVars, calling, serving, workspace, report, history>>

(* The receiver answers; the answer is lost if the server no longer waits. *)
Answer(r) ==
  /\ \/ /\ D!accept_hosted_worker_dispatch(r)
        /\ IF calling[r] = NoProc THEN UNCHANGED serverVars ELSE DispatchAccepted(calling[r])
     \/ /\ D!Refuse(r)
        /\ IF calling[r] = NoProc THEN UNCHANGED serverVars ELSE DispatchFailed(calling[r])
  /\ calling' = [calling EXCEPT ![r] = NoProc]
  /\ UNCHANGED <<serving, workerVars, history>>

(* The server stops waiting after 30 seconds; the receiver does not know.  *)
DispatchTimeout(p) ==
  /\ "timeout" \in RunFaults
  /\ Waits(p)
  /\ DispatchFailed(p)
  /\ calling' = [r \in Receivers |-> IF calling[r] = p THEN NoProc ELSE calling[r]]
  /\ UNCHANGED <<receiverVars, serving, workerVars, history>>

Alive(w) == pc[w] \notin {"unborn", "exited"}

(* The receiver's service restarts: systemd kills the whole control group, *)
(* the workers included.                                                   *)
ReceiverCrash(r) ==
  /\ D!Crash(r)
  /\ pc' = [w \in Workers |-> IF Alive(w) THEN "exited" ELSE pc[w]]
  /\ IF calling[r] = NoProc THEN UNCHANGED serverVars ELSE DispatchFailed(calling[r])
  /\ calling' = [calling EXCEPT ![r] = NoProc]
  /\ UNCHANGED <<serving, workspace, report, history>>

-----------------------------------------------------------------------------
(* Workers. *)

Exit(w) == pc' = [pc EXCEPT ![w] = "exited"]

(* A worker's request is handled by process p until p answers.             *)
Serve(p, w) ==
  /\ serving' = [serving EXCEPT ![p] = w]
  /\ pc' = [pc EXCEPT ![w] = IF pc[w] = "spawned" THEN "calling" ELSE "posting"]

ClaimJob(w, p) ==
  LET j == JobOf(w)
  IN /\ pc[w] = "spawned" /\ ActionOf(w) = "start"
     /\ Idle(p) /\ Known(j)
     /\ \/ _hosted_worker_claim_response(p, j) /\ Serve(p, w)
        \/ /\ ~CanClaim(_lookup_hosted_job(p, j))
           /\ Exit(w)
           /\ UNCHANGED <<serverVars, serving>>
     /\ UNCHANGED <<receiverVars, calling, workspace, report, history>>

(* prepare_hosted_worker_execution, the launch and the acceptance run.     *)
run_hosted_worker_once(w) ==
  /\ pc[w] = "running" /\ ActionOf(w) = "start"
  /\ \E outcome \in Outcomes :
       /\ workspace' = [workspace EXCEPT ![JobOf(w)] = outcome]
       /\ report' = [report EXCEPT ![w] = outcome]
  /\ pc' = [pc EXCEPT ![w] = "reporting"]
  /\ UNCHANGED <<serverVars, receiverVars, calling, serving, history>>

(* Mutant: any maintenance request will do.                                *)
ReadAnyRequest(w, p) ==
  LET status == _lookup_hosted_job(p, JobOf(w)).status
  IN /\ pc[w] = "spawned" /\ ActionOf(w) # "start"
     /\ _hosted_job_response(p, JobOf(w))
     /\ pc' = [pc EXCEPT ![w] =
                 IF status \in {"rollback_requested", "detonation_requested"}
                 THEN "running" ELSE "exited"]
     /\ UNCHANGED <<receiverVars, calling, serving, workspace, report, history>>

(* GET of the job; the status must ask for this worker's action.           *)
ReadJob(w, p) ==
  LET wanted == _lookup_hosted_job(p, JobOf(w)).status = AdvanceTo[ActionOf(w)]
  IN /\ pc[w] = "spawned" /\ ActionOf(w) # "start"
     /\ _hosted_job_response(p, JobOf(w))
     /\ pc' = [pc EXCEPT ![w] = IF wanted THEN "running" ELSE "exited"]
     /\ UNCHANGED <<receiverVars, calling, serving, workspace, report, history>>

(* Extra evidence of a maintenance command that exited with 0 or not.  No  *)
(* acceptance report carries the check post_rollback_verification asks for.*)
MaintenanceEvidence(action, ok, evidence) ==
  LET preserved == {"run_record", "retrieved_remote_artifacts", "live_acceptance_report"}
  IN IF action = "rollback"
     THEN IF ok /\ "rollback_metadata" \in evidence THEN {"rollback_execution_receipt"} ELSE {}
     ELSE IF ok /\ "detonation_receipt" \in evidence
          THEN IF preserved \subseteq evidence
               THEN DetonationKeys
               ELSE DetonationKeys \ {"redacted_public_proof_preserved"}
          ELSE {}

_run_hosted_worker_maintenance_once(w) ==
  LET found == workspace[JobOf(w)]
  IN /\ pc[w] = "running" /\ ActionOf(w) # "start"
     /\ \E ok \in BOOLEAN :
          report' = [report EXCEPT ![w] =
                       [found EXCEPT !.evidence =
                          @ \cup MaintenanceEvidence(ActionOf(w), ok, @)]]
     /\ pc' = [pc EXCEPT ![w] = "reporting"]
     /\ UNCHANGED <<serverVars, receiverVars, calling, serving, workspace, history>>

PostProof(w, p) ==
  LET j == JobOf(w)
  IN /\ pc[w] = "reporting"
     /\ Idle(p) /\ Known(j)
     /\ \/ _hosted_worker_proof_response(p, j, report[w]) /\ Serve(p, w)
        \/ /\ ~CanProve(_lookup_hosted_job(p, j))
           /\ Exit(w)
           /\ UNCHANGED <<serverVars, serving>>
     /\ UNCHANGED <<receiverVars, calling, workspace, report, history>>

WorkerDies(w) ==
  /\ "worker" \in RunFaults
  /\ pc[w] \in {"spawned", "running", "reporting"}
  /\ Exit(w)
  /\ UNCHANGED <<serverVars, receiverVars, calling, serving, workspace, report, history>>

-----------------------------------------------------------------------------
(* The server finishes a request. *)

(* Where the worker served by p goes when the request ended, well or not.  *)
Released(p, ok) ==
  /\ serving' = [serving EXCEPT ![p] = NoWorker]
  /\ pc' = [w \in Workers |->
              IF w # serving[p] \/ ~Alive(w) THEN pc[w]
              ELSE IF ok /\ pc[w] = "calling" THEN "running" ELSE "exited"]

(* A remembered maintenance request owes its evidence, a remembered proof  *)
(* pays with what it reports.                                              *)
OwedAfter(p, keys) ==
  CASE req[p].op = "rollback" -> RollbackKeys
    [] req[p].op = "detonate" -> DetonationKeys
    [] req[p].op = "proof"    -> keys \ report[serving[p]].evidence
    [] OTHER                  -> keys

(* A put that raised after it replaced the file is answered like one that  *)
(* failed: the worker gives up.                                            *)
RememberJob(p, answered) ==
  /\ Remember(p, answered)
  /\ owed' = [owed EXCEPT ![req[p].job] = OwedAfter(p, @)]
  /\ asked' = [asked EXCEPT ![req[p].job] = @ \cup ({req[p].op} \cap DispatchActions)]
  /\ Released(p, answered)
  /\ UNCHANGED <<receiverVars, calling, workspace, report>>

StoreFails(p) ==
  /\ RememberFails(p) \/ ArtifactFails(p)
  /\ Released(p, FALSE)
  /\ UNCHANGED <<receiverVars, calling, workspace, report, history>>

WriteArtifact(p) ==
  /\ put_managed_start_response(p) \/ put_stripe_webhook_receipt(p)
  /\ UNCHANGED <<receiverVars, calling, serving, workerVars, history>>

ServerCrash(p) ==
  /\ Crash(p)
  /\ Released(p, FALSE)
  /\ calling' = [r \in Receivers |-> IF calling[r] = p THEN NoProc ELSE calling[r]]
  /\ UNCHANGED <<receiverVars, workspace, report, history>>

-----------------------------------------------------------------------------

ServerSteps(p)   == RememberJob(p, TRUE) \/ WriteArtifact(p)
ReceiverSteps(r) == Reserve(r) \/ SpawnWorker(r) \/ Answer(r)
WorkerCalls(w)   == \E p \in Procs : ClaimJob(w, p) \/ ReadJob(w, p) \/ PostProof(w, p)
WorkerRuns(w)    == run_hosted_worker_once(w) \/ _run_hosted_worker_maintenance_once(w)

CalmNext ==
  \/ \E p \in Procs, j \in Jobs : Browse(p, j)
  \/ \E j \in Jobs : Purchase(j)
  \/ \E p \in Procs, r \in Receivers : CallReceiver(p, r)
  \/ \E r \in Receivers : ReceiverSteps(r)
  \/ \E w \in Workers : WorkerCalls(w) \/ WorkerRuns(w)
  \/ \E p \in Procs : ServerSteps(p)

Faulty ==
  \/ \E r \in Receivers : ReceiverFails(r) \/ ReceiverCrash(r)
  \/ \E w \in Workers : WorkerDies(w)
  \/ \E p \in Procs :
       StoreFails(p) \/ RememberJob(p, FALSE) \/ DispatchTimeout(p) \/ ServerCrash(p)

NextRun == CalmNext \/ Faulty

SpecRun == InitRun /\ [][NextRun]_runVars

-----------------------------------------------------------------------------

Busy(w) == pc[w] \in {"running", "reporting", "posting"}

(* No worker is ever spawned, and none works, for a job nobody paid for.   *)
WorkersPaid == \A w \in Workers : pc[w] # "unborn" => stripe[JobOf(w)] = "paid"

(* A worker spawned by a dispatch whose answer was lost finds the job      *)
(* unstarted or stopped and gives up: nothing runs for a job whose stored  *)
(* status says it was never started.                                       *)
WorkMeansStarted ==
  \A w \in Workers : Busy(w) => Known(JobOf(w)) /\ Started(store[JobOf(w)])

(* The server dispatches a worker before it remembers the request.  When   *)
(* that fails and the user is told so, the worker that was spawned never   *)
(* runs its commands: each worker at work has a request that was remembered.*)
WorkRequested == \A w \in Workers : Busy(w) => ActionOf(w) \in asked[JobOf(w)]

(* README: a rollback or detonation request stays incomplete until the     *)
(* worker reports the evidence of that very request.                       *)
RequestHonoured == \A j \in Jobs : Known(j) /\ store[j].status = "complete" => owed[j] = {}

StatusOf(j) == IF Known(j) THEN store[j].status ELSE "none"

IsManaged(j) == Known(j) /\ store[j].lane = Managed

=============================================================================
