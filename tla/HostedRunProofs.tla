--------------------------- MODULE HostedRunProofs ---------------------------
(***************************************************************************)
(* Proofs about HostedRun, for every number of server processes, receivers *)
(* and jobs, every launch outcome and every set of faults, except where a  *)
(* theorem names the deployment it is about.                               *)
(***************************************************************************)
EXTENDS HostedRun, HostedServerProofs

P == INSTANCE WorkerDispatchProofs WITH
  Keys <- Workers, Bindings <- PaymentStatuses, PaidBindings <- {"paid"},
  Faults <- DispatchFaults

(* What the theorems about the receivers assume of their constants.        *)
LEMMA DispatchAssumptions ==
  /\ {"paid"} \subseteq PaymentStatuses
  /\ NoMarker \notin PaymentStatuses /\ Partial \notin PaymentStatuses /\ NoMarker # Partial
  /\ DispatchFaults \subseteq {"disk", "spawn", "crash"}
  /\ MaxSpawns \in Nat \ {0}
  BY MarkerAssumption, DispatchFaultsAssumption, MaxSpawnsAssumption DEF PaymentStatuses

-----------------------------------------------------------------------------
(* Only what a worker can do is ever sent to the receiver.                 *)
Dispatchable ==
  \A p \in Procs : ~Idle(p) /\ req[p].phase = "dispatch" => req[p].op \in DispatchActions

LEMMA ServerStep ==
  ASSUME IInv, Dispatchable, ServerMoves
  PROVE  IInv' /\ Dispatchable' /\ StripeMonotone
  <1>1. ASSUME NEW p \in Procs, NEW j \in Jobs, Arrives(p, j)
        PROVE  IInv' /\ Dispatchable' /\ StripeMonotone
    <2>1. IInv'
      BY <1>1, TypeClick, TypeProof, SoundClick, SoundProof DEF IInv, Arrives
    <2>2. (NewRequest(p, j) \/ LookedUp(p, j)) /\ StripeMonotone
      BY <1>1, Arrived
    <2>3. Dispatchable'
      BY <2>2 DEF Dispatchable, NewRequest, LookedUp, Idle, DispatchActions, Actions
    <2> QED
      BY <2>1, <2>2, <2>3
  <1>2. ASSUME NEW p \in Procs, _remember_hosted_job(p) \/ Goes(p) \/ Crash(p)
        PROVE  IInv' /\ Dispatchable' /\ StripeMonotone
    <2>1. IInv'
      BY <1>2, TypeContinue, SoundContinue DEF IInv, Continue, Goes
    <2>2. CASE Crash(p)
      BY <2>1, <2>2, Crashed DEF Dispatchable, Idle, StripeMonotone
    <2>3. CASE _remember_hosted_job(p) \/ Goes(p)
      <3>1. Proceeds(p) /\ UNCHANGED stripe
        BY <2>3, Proceeded, Remembered
      <3> QED
        BY <2>1, <3>1 DEF Proceeds, Dispatchable, Idle, StripeMonotone
    <2> QED
      BY <1>2, <2>2, <2>3
  <1>3. ASSUME NEW j \in Jobs, Pay(j)
        PROVE  IInv' /\ Dispatchable' /\ StripeMonotone
    <2>1. IInv'
      BY <1>3, SoundPay, TypePay DEF IInv
    <2> QED
      BY <1>3, <2>1, ServerTypes DEF Pay, Dispatchable, Idle, StripeMonotone
  <1>4. CASE UNCHANGED vars
    <2>1. IInv'
      BY <1>4, InvStep
    <2> QED
      BY <1>4, <2>1 DEF vars, Dispatchable, Idle, StripeMonotone
  <1> QED
    BY <1>1, <1>2, <1>3, <1>4 DEF ServerMoves

-----------------------------------------------------------------------------
(* Types of the run. *)

RunTypes ==
  /\ calling \in [Receivers -> Procs \cup {NoProc}]
  /\ serving \in [Procs -> Workers \cup {NoWorker}]
  /\ pc \in [Workers -> WorkerStates]
  /\ workspace \in [Jobs -> ProofPayload]
  /\ report \in [Workers -> ProofPayload]
  /\ owed \in [Jobs -> SUBSET EvidenceKeys]
  /\ asked \in [Jobs -> SUBSET DispatchActions]

LEMMA WorkerType ==
  ASSUME NEW w \in Workers
  PROVE  JobOf(w) \in Jobs /\ ActionOf(w) \in DispatchActions /\ w = <<JobOf(w), ActionOf(w)>>
  BY DEF Workers, JobOf, ActionOf

(* What a receiver at work holds.                                          *)
LEMMA HeldDispatch ==
  ASSUME P!DispatchInv, NEW r \in Receivers, work[r] # NoDispatch
  PROVE  work[r].dispatch.key \in Workers /\ work[r].dispatch.binding \in PaymentStatuses
  BY DEF P!DispatchInv, P!TypeOK, P!Work, P!Dispatch

LEMMA SpawnedPaid ==
  ASSUME P!DispatchInv, NEW r \in Receivers, SpawnWorker(r)
  PROVE  /\ work[r] # NoDispatch /\ work[r].dispatch.binding = "paid"
         /\ work[r].dispatch.key \in Workers
         /\ pc' = [pc EXCEPT ![work[r].dispatch.key] = "spawned"]
  BY HeldDispatch
  DEF SpawnWorker, D!_spawn_worker, D!Phase, P!DispatchInv, P!HolderInv, P!Holds, P!Phase,
      P!BindingOf

LEMMA ReportType ==
  ASSUME NEW found \in ProofPayload, NEW w, NEW ok
  PROVE  [found EXCEPT !.evidence = @ \cup MaintenanceEvidence(ActionOf(w), ok, @)]
           \in ProofPayload
  <1>1. MaintenanceEvidence(ActionOf(w), ok, found.evidence) \subseteq EvidenceKeys
    BY DEF MaintenanceEvidence, EvidenceKeys, RollbackKeys, DetonationKeys
  <1> QED
    BY <1>1 DEF ProofPayload

LEMMA ReleasedType ==
  ASSUME RunTypes, NEW p \in Procs, NEW ok, Released(p, ok)
  PROVE  serving' \in [Procs -> Workers \cup {NoWorker}] /\ pc' \in [Workers -> WorkerStates]
  BY DEF RunTypes, Released, WorkerStates

LEMMA RunTypesInit == InitRun => RunTypes
  BY DEF InitRun, RunTypes, EmptyProof, ProofPayload, WorkerStates

LEMMA RunTypesStep ==
  ASSUME IInv, P!DispatchInv, RunTypes, [NextRun]_runVars
  PROVE  RunTypes'
  <1> USE DEF RunTypes
  <1>1. CASE UNCHANGED runVars
    BY <1>1 DEF runVars, workerVars, history
  <1>2. ASSUME NEW p \in Procs, NEW j \in Jobs, Browse(p, j)
        PROVE  RunTypes'
    BY <1>2 DEF Browse, workerVars, history
  <1>3. ASSUME NEW j \in Jobs, Purchase(j)
        PROVE  RunTypes'
    BY <1>3 DEF Purchase, workerVars, history
  <1>4. ASSUME NEW p \in Procs, NEW r \in Receivers, CallReceiver(p, r)
        PROVE  RunTypes'
    BY <1>4 DEF CallReceiver, workerVars, history
  <1>5. ASSUME NEW r \in Receivers, Reserve(r) \/ ReceiverFails(r)
        PROVE  RunTypes'
    BY <1>5 DEF Reserve, ReceiverFails, workerVars, history
  <1>6. ASSUME NEW r \in Receivers, SpawnWorker(r)
        PROVE  RunTypes'
    BY <1>6, SpawnedPaid DEF SpawnWorker, history, WorkerStates
  <1>7. ASSUME NEW r \in Receivers, Answer(r)
        PROVE  RunTypes'
    BY <1>7 DEF Answer, workerVars, history
  <1>8. ASSUME NEW r \in Receivers, ReceiverCrash(r)
        PROVE  RunTypes'
    BY <1>8 DEF ReceiverCrash, history, WorkerStates
  <1>9. ASSUME NEW p \in Procs, DispatchTimeout(p)
        PROVE  RunTypes'
    BY <1>9 DEF DispatchTimeout, workerVars, history
  <1>10. ASSUME NEW w \in Workers, NEW p \in Procs,
                ClaimJob(w, p) \/ ReadJob(w, p) \/ PostProof(w, p)
         PROVE  RunTypes'
    BY <1>10 DEF ClaimJob, ReadJob, PostProof, Serve, Exit, history, WorkerStates
  <1>11. ASSUME NEW w \in Workers, run_hosted_worker_once(w)
         PROVE  RunTypes'
    <2>1. Outcomes \subseteq ProofPayload
      BY OutcomesAssumption DEF ProofPayload, EvidenceKeys
    <2> QED
      BY <1>11, <2>1, WorkerType DEF run_hosted_worker_once, history, WorkerStates
  <1>12. ASSUME NEW w \in Workers, _run_hosted_worker_maintenance_once(w)
         PROVE  RunTypes'
    <2> DEFINE found == workspace[JobOf(w)]
    <2>1. found \in ProofPayload
      BY WorkerType
    <2>2. PICK ok \in BOOLEAN :
            report' = [report EXCEPT ![w] =
                         [found EXCEPT !.evidence =
                            @ \cup MaintenanceEvidence(ActionOf(w), ok, @)]]
      BY <1>12 DEF _run_hosted_worker_maintenance_once
    <2>3. report' \in [Workers -> ProofPayload]
      BY <2>1, <2>2, ReportType
    <2> QED
      BY <1>12, <2>3 DEF _run_hosted_worker_maintenance_once, history, WorkerStates
  <1>13. ASSUME NEW w \in Workers, WorkerDies(w)
         PROVE  RunTypes'
    BY <1>13 DEF WorkerDies, Exit, history, WorkerStates
  <1>14. ASSUME NEW p \in Procs, NEW answered \in BOOLEAN, RememberJob(p, answered)
         PROVE  RunTypes'
    <2>1. req[p].job \in Jobs
      BY <1>14, ServerTypes DEF RememberJob, _remember_hosted_job, Remember
    <2>2. \A keys \in SUBSET EvidenceKeys : OwedAfter(p, keys) \in SUBSET EvidenceKeys
      BY DEF OwedAfter, EvidenceKeys
    <2>3. owed' \in [Jobs -> SUBSET EvidenceKeys] /\ asked' \in [Jobs -> SUBSET DispatchActions]
      BY <1>14, <2>1, <2>2 DEF RememberJob
    <2>4. calling' = calling /\ workspace' = workspace /\ report' = report
      BY <1>14 DEF RememberJob
    <2> QED
      BY <1>14, <2>3, <2>4, ReleasedType DEF RememberJob
  <1>15. ASSUME NEW p \in Procs, StoreFails(p)
         PROVE  RunTypes'
    BY <1>15, ReleasedType DEF StoreFails, history
  <1>16. ASSUME NEW p \in Procs, WriteArtifact(p)
         PROVE  RunTypes'
    BY <1>16 DEF WriteArtifact, workerVars, history
  <1>17. ASSUME NEW p \in Procs, ServerCrash(p)
         PROVE  RunTypes'
    BY <1>17, ReleasedType DEF ServerCrash, history
  <1> QED
    BY <1>1, <1>2, <1>3, <1>4, <1>5, <1>6, <1>7, <1>8, <1>9, <1>10, <1>11, <1>12, <1>13, <1>14,
       <1>15, <1>16, <1>17
    DEF NextRun, CalmNext, Faulty, ReceiverSteps, WorkerCalls, WorkerRuns, ServerSteps

-----------------------------------------------------------------------------
(* A step of the run, seen by the server and by the receivers. *)

LEMMA RunServer ==
  ASSUME RunTypes, [NextRun]_runVars
  PROVE  \/ \E p \in Procs, answered \in BOOLEAN : RememberJob(p, answered)
         \/ /\ UNCHANGED asked
            /\ \/ \E p \in Procs, j \in Jobs : Arrives(p, j)
               \/ \E p \in Procs : Goes(p) \/ Crash(p)
               \/ (\E j \in Jobs : Pay(j)) \/ UNCHANGED serverVars
  <1> DEFINE moves == \/ \E p \in Procs, j \in Jobs : Arrives(p, j)
                      \/ \E p \in Procs : Goes(p) \/ Crash(p)
                      \/ (\E j \in Jobs : Pay(j)) \/ UNCHANGED serverVars
  <1>1. CASE UNCHANGED runVars
    BY <1>1 DEF runVars, serverVars, history
  <1>2. ASSUME NEW p \in Procs, NEW j \in Jobs, Browse(p, j)
        PROVE  moves /\ UNCHANGED asked
    BY <1>2 DEF Browse, Arrives, Click, history
  <1>3. ASSUME NEW j \in Jobs, Purchase(j)
        PROVE  moves /\ UNCHANGED asked
    BY <1>3 DEF Purchase, history
  <1>4. ASSUME NEW r \in Receivers, Answer(r) \/ ReceiverCrash(r)
        PROVE  moves /\ UNCHANGED asked
    BY <1>4 DEF RunTypes, Answer, ReceiverCrash, Goes, history
  <1>5. ASSUME NEW p \in Procs,
               DispatchTimeout(p) \/ StoreFails(p) \/ WriteArtifact(p) \/ ServerCrash(p)
        PROVE  moves /\ UNCHANGED asked
    BY <1>5 DEF DispatchTimeout, StoreFails, WriteArtifact, ServerCrash, Goes, history
  <1>6. ASSUME NEW w \in Workers, NEW p \in Procs,
               ClaimJob(w, p) \/ ReadJob(w, p) \/ PostProof(w, p)
        PROVE  moves /\ UNCHANGED asked
    <2>1. JobOf(w) \in Jobs /\ report[w] \in ProofPayload
      BY WorkerType DEF RunTypes
    <2> QED
      BY <1>6, <2>1 DEF ClaimJob, ReadJob, PostProof, Arrives, Click, history
  <1>7. ASSUME NEW p \in Procs, NEW r \in Receivers, CallReceiver(p, r)
        PROVE  moves /\ UNCHANGED asked
    BY <1>7 DEF CallReceiver, history
  <1>8. ASSUME NEW r \in Receivers, Reserve(r) \/ SpawnWorker(r) \/ ReceiverFails(r)
        PROVE  moves /\ UNCHANGED asked
    BY <1>8 DEF Reserve, SpawnWorker, ReceiverFails, history
  <1>9. ASSUME NEW w \in Workers,
               \/ run_hosted_worker_once(w) \/ _run_hosted_worker_maintenance_once(w)
               \/ WorkerDies(w)
        PROVE  moves /\ UNCHANGED asked
    BY <1>9 DEF run_hosted_worker_once, _run_hosted_worker_maintenance_once, WorkerDies, history
  <1> HIDE DEF moves
  <1>10. \/ \E p \in Procs, answered \in BOOLEAN : RememberJob(p, answered)
         \/ moves /\ UNCHANGED asked
    BY <1>1, <1>2, <1>3, <1>4, <1>5, <1>6, <1>7, <1>8, <1>9
    DEF NextRun, CalmNext, Faulty, ReceiverSteps, WorkerCalls, WorkerRuns, ServerSteps, moves
  <1> QED
    BY <1>10 DEF moves

LEMMA RunServerMoves ==
  ASSUME RunTypes, [NextRun]_runVars
  PROVE  ServerMoves
  BY RunServer DEF RememberJob, _remember_hosted_job, ServerMoves, serverVars

(* The receivers keep to their module, and a dispatch they work on is one  *)
(* the server sent when it was received.                                   *)
KeepsDispatches ==
  \A r \in Receivers :
    work'[r] # NoDispatch => work[r] # NoDispatch /\ work'[r].dispatch = work[r].dispatch

Called(p, r) ==
  /\ ~Idle(p) /\ req[p].phase = "dispatch"
  /\ work[r] = NoDispatch
  /\ work'[r].dispatch = [key |-> <<req[p].job, req[p].op>>, binding |-> req[p].next.payment]
  /\ \A q \in Receivers : q # r => work'[q] = work[q]

LEMMA CallStep ==
  ASSUME IInv, Dispatchable, P!DispatchInv,
         NEW p \in Procs, NEW r \in Receivers, CallReceiver(p, r)
  PROVE  P!Next /\ Called(p, r) /\ UNCHANGED serverVars
  <1> DEFINE d == [key |-> <<req[p].job, req[p].op>>, binding |-> req[p].next.payment]
  <1>1. /\ ~Idle(p) /\ req[p].phase = "dispatch" /\ work[r] = NoDispatch
        /\ work' = [work EXCEPT ![r] = [dispatch |-> d, phase |-> "verify"]]
        /\ UNCHANGED <<marker, spawns, receipts>> /\ UNCHANGED serverVars
    BY DEF CallReceiver, D!Receive
  <1>2. d \in P!Dispatch
    <2>1. req[p].job \in Jobs /\ req[p].op \in DispatchActions /\ req[p].next \in Job
      BY <1>1, ServerTypes DEF Dispatchable
    <2> QED
      BY <2>1 DEF P!Dispatch, Workers, Job
  <1>3. work \in [Receivers -> P!Work \cup {NoDispatch}]
    BY DEF P!DispatchInv, P!TypeOK
  <1> HIDE DEF d
  <1>4. P!Next
    BY <1>1, <1>2 DEF P!Next, P!Receive
  <1> QED
    BY <1>1, <1>3, <1>4 DEF Called, d

LEMMA KeptBy ==
  ASSUME P!DispatchInv, NEW r \in Receivers,
         \/ P!Finish(r)
         \/ work[r] # NoDispatch /\ \E phase : P!Goto(r, phase)
  PROVE  KeepsDispatches
  <1>1. work \in [Receivers -> P!Work \cup {NoDispatch}]
    BY DEF P!DispatchInv, P!TypeOK
  <1>2. CASE P!Finish(r)
    BY <1>1, <1>2 DEF P!Finish, KeepsDispatches
  <1>3. ASSUME work[r] # NoDispatch, NEW phase, P!Goto(r, phase)
        PROVE  KeepsDispatches
    <2>1. work[r] \in P!Work
      BY <1>1, <1>3
    <2>2. /\ work'[r].dispatch = work[r].dispatch
          /\ \A q \in Receivers : q # r => work'[q] = work[q]
      BY <1>1, <1>3, <2>1, DispatchAssumptions, P!GotoMoves
    <2> QED
      BY <1>3, <2>2 DEF KeepsDispatches
  <1> QED
    BY <1>2, <1>3

LEMMA ReceiverKeeps ==
  ASSUME P!DispatchInv, NEW r \in Receivers,
         P!Step(r) \/ P!WriteFails(r) \/ P!SpawnFails(r) \/ P!Crash(r)
  PROVE  P!Next /\ KeepsDispatches
  <1>1. \/ P!Finish(r)
        \/ work[r] # NoDispatch /\ \E phase : P!Goto(r, phase)
    BY DEF P!Step, P!verify_hosted_worker_dispatch, P!_reserve_dispatch, P!WriteMarker,
           P!_spawn_worker, P!accept_hosted_worker_dispatch, P!Refuse, P!WriteFails,
           P!SpawnFails, P!Crash, P!Phase
  <1> QED
    BY <1>1, KeptBy DEF P!Next

LEMMA ReceiverMoves ==
  ASSUME NEW r \in Receivers,
         Reserve(r) \/ SpawnWorker(r) \/ Answer(r) \/ ReceiverFails(r) \/ ReceiverCrash(r)
  PROVE  P!Step(r) \/ P!WriteFails(r) \/ P!SpawnFails(r) \/ P!Crash(r)
  BY DEF Reserve, SpawnWorker, Answer, ReceiverFails, ReceiverCrash,
         D!verify_hosted_worker_dispatch, D!_reserve_dispatch, D!WriteMarker,
         D!_spawn_worker, D!accept_hosted_worker_dispatch, D!Refuse, D!WriteFails,
         D!SpawnFails, D!Crash, D!Phase, D!Goto, D!Finish, D!_dispatch_marker_matches,
         P!Step, P!verify_hosted_worker_dispatch, P!_reserve_dispatch, P!WriteMarker,
         P!_spawn_worker, P!accept_hosted_worker_dispatch, P!Refuse, P!WriteFails,
         P!SpawnFails, P!Crash, P!Phase, P!Goto, P!Finish, P!_dispatch_marker_matches

LEMMA RunReceivers ==
  ASSUME IInv, Dispatchable, P!DispatchInv, [NextRun]_runVars
  PROVE  /\ P!DispatchInv' /\ [P!Next]_(P!dispatchVars)
         /\ \/ KeepsDispatches
            \/ \E p \in Procs, r \in Receivers : Called(p, r) /\ UNCHANGED serverVars
  <1>1. ASSUME NEW p \in Procs, NEW r \in Receivers, CallReceiver(p, r)
        PROVE  P!Next /\ Called(p, r) /\ UNCHANGED serverVars
    BY <1>1, CallStep
  <1>2. ASSUME NEW r \in Receivers,
               Reserve(r) \/ SpawnWorker(r) \/ Answer(r) \/ ReceiverFails(r) \/ ReceiverCrash(r)
        PROVE  P!Next /\ KeepsDispatches
    BY <1>2, ReceiverMoves, ReceiverKeeps
  <1>3. \/ UNCHANGED receiverVars
        \/ \E p \in Procs, r \in Receivers : CallReceiver(p, r)
        \/ \E r \in Receivers :
             Reserve(r) \/ SpawnWorker(r) \/ Answer(r) \/ ReceiverFails(r) \/ ReceiverCrash(r)
    BY DEF NextRun, CalmNext, Faulty, ReceiverSteps, WorkerCalls, WorkerRuns, ServerSteps,
           Browse, Purchase, DispatchTimeout, ClaimJob, ReadJob, PostProof,
           run_hosted_worker_once, _run_hosted_worker_maintenance_once, WorkerDies,
           RememberJob, StoreFails, WriteArtifact, ServerCrash, runVars
  <1>4. UNCHANGED receiverVars \/ P!Next
    BY <1>1, <1>2, <1>3
  <1>5. [P!Next]_(P!dispatchVars)
    BY <1>4 DEF P!dispatchVars, receiverVars
  <1>6. P!DispatchInv'
    BY <1>5, DispatchAssumptions, P!DispatchStep
  <1> QED
    BY <1>1, <1>2, <1>3, <1>5, <1>6 DEF KeepsDispatches, receiverVars

-----------------------------------------------------------------------------
(* Paid work.  The receiver trusts the binding a dispatch carries; that it *)
(* speaks the truth is the server's invariant, at the time of the call.    *)

DispatchesPaid ==
  \A r \in Receivers :
    work[r] # NoDispatch /\ work[r].dispatch.binding = "paid"
      => stripe[JobOf(work[r].dispatch.key)] = "paid"

RunInv ==
  /\ IInv /\ Dispatchable /\ P!DispatchInv /\ RunTypes
  /\ DispatchesPaid /\ WorkersPaid

(* Only a spawn gives birth to a worker.                                   *)
LEMMA OnlySpawned ==
  ASSUME RunTypes, P!DispatchInv, [NextRun]_runVars, NEW w \in Workers,
         pc[w] = "unborn", pc'[w] # "unborn"
  PROVE  \E r \in Receivers : SpawnWorker(r) /\ w = work[r].dispatch.key
  <1>1. ASSUME NEW r \in Receivers, SpawnWorker(r)
        PROVE  w = work[r].dispatch.key
    BY <1>1, SpawnedPaid DEF RunTypes
  <1>2. \/ \E r \in Receivers : SpawnWorker(r)
        \/ pc'[w] = pc[w]
        \/ \E v \in Workers : pc[v] # "unborn" /\ \E s : pc' = [pc EXCEPT ![v] = s]
        \/ \E p \in Procs : Released(p, TRUE) \/ Released(p, FALSE)
        \/ \E r \in Receivers : ReceiverCrash(r)
    BY DEF NextRun, CalmNext, Faulty, ReceiverSteps, WorkerCalls, WorkerRuns, ServerSteps,
           Browse, Purchase, CallReceiver, Reserve, Answer, ReceiverFails, DispatchTimeout,
           ClaimJob, ReadJob, PostProof, Serve, Exit, run_hosted_worker_once,
           _run_hosted_worker_maintenance_once, WorkerDies, RememberJob, StoreFails,
           WriteArtifact, ServerCrash, runVars, workerVars
  <1> QED
    BY <1>1, <1>2 DEF RunTypes, Released, ReceiverCrash, Alive

LEMMA RunInit == InitRun => RunInv
  <1> SUFFICES ASSUME InitRun
               PROVE  RunInv
    OBVIOUS
  <1>1. IInv
    BY InvInit DEF InitRun
  <1>2. P!Init
    BY DEF InitRun, D!Init, P!Init
  <1>3. P!DispatchInv
    BY <1>2, DispatchAssumptions, P!DispatchInit
  <1>4. Dispatchable /\ DispatchesPaid /\ WorkersPaid
    BY <1>2 DEF InitRun, Init, P!Init, Dispatchable, Idle, DispatchesPaid, WorkersPaid
  <1> QED
    BY <1>1, <1>3, <1>4, RunTypesInit DEF RunInv

LEMMA DispatchesPaidStep ==
  ASSUME RunInv, StripeMonotone,
         \/ KeepsDispatches
         \/ \E p \in Procs, r \in Receivers : Called(p, r) /\ UNCHANGED serverVars
  PROVE  DispatchesPaid'
  <1>1. CASE KeepsDispatches
    <2>1. ASSUME NEW r \in Receivers, work'[r] # NoDispatch, work'[r].dispatch.binding = "paid"
          PROVE  stripe'[JobOf(work'[r].dispatch.key)] = "paid"
      <3>1. work[r] # NoDispatch /\ work'[r].dispatch = work[r].dispatch
        BY <1>1, <2>1 DEF KeepsDispatches
      <3>2. /\ stripe[JobOf(work[r].dispatch.key)] = "paid"
            /\ JobOf(work[r].dispatch.key) \in Jobs
        BY <2>1, <3>1, HeldDispatch, WorkerType DEF RunInv, DispatchesPaid
      <3> QED
        BY <3>1, <3>2 DEF StripeMonotone
    <2> QED
      BY <2>1 DEF DispatchesPaid, JobOf
  <1>2. ASSUME NEW p \in Procs, NEW r \in Receivers, Called(p, r), UNCHANGED serverVars
        PROVE  DispatchesPaid'
    <2>1. req[p].next.payment = "paid" => stripe[req[p].job] = "paid"
      BY <1>2 DEF Called, RunInv, IInv, SnapshotsSound, Sound
    <2>2. stripe' = stripe
      BY <1>2 DEF serverVars, vars
    <2> QED
      BY <1>2, <2>1, <2>2 DEF Called, RunInv, DispatchesPaid, JobOf
  <1> QED
    BY <1>1, <1>2

LEMMA RunStep == RunInv /\ [NextRun]_runVars => RunInv'
  <1> SUFFICES ASSUME RunInv, [NextRun]_runVars
               PROVE  RunInv'
    OBVIOUS
  <1>1. IInv' /\ Dispatchable' /\ StripeMonotone
    BY RunServerMoves, ServerStep DEF RunInv
  <1>2. RunTypes'
    BY RunTypesStep DEF RunInv
  <1>3. /\ P!DispatchInv'
        /\ DispatchesPaid'
    BY <1>1, RunReceivers, DispatchesPaidStep DEF RunInv
  <1>4. ASSUME NEW w \in Workers, pc'[w] # "unborn"
        PROVE  stripe'[JobOf(w)] = "paid"
    <2>1. stripe[JobOf(w)] = "paid"
      BY <1>4, OnlySpawned, SpawnedPaid DEF RunInv, WorkersPaid, DispatchesPaid
    <2> QED
      BY <1>1, <2>1, WorkerType DEF StripeMonotone
  <1> QED
    BY <1>1, <1>2, <1>3, <1>4 DEF RunInv, WorkersPaid, JobOf

(* The inductive invariant of a hosted run, for any number of processes.   *)
THEOREM RunInvariance == SpecRun => []RunInv
  BY RunInit, RunStep, PTL DEF SpecRun

(* Every variable of the server, the receivers and the workers has its type*)
(* in every behaviour.                                                     *)
THEOREM RunTypeCorrect == SpecRun => []TypeOKRun
  <1>1. RunInv => TypeOKRun
    <2>1. P!DispatchInv => D!TypeOK
      BY DEF P!DispatchInv, P!TypeOK, P!Work, P!Dispatch, P!MarkerFile, P!Receipt, D!TypeOK,
             D!Work, D!Dispatch, D!MarkerFile, D!Receipt
    <2> QED
      BY <2>1 DEF RunInv, IInv, RunTypes, TypeOKRun
  <1> QED
    BY <1>1, RunInvariance, PTL

(* No worker is ever spawned for a job Stripe was not paid for, whatever   *)
(* fails and however often a dispatch is repeated.                         *)
THEOREM NoUnpaidWorker == SpecRun => []WorkersPaid
  <1>1. RunInv => WorkersPaid
    BY DEF RunInv
  <1> QED
    BY <1>1, RunInvariance, PTL

(* The server, its retries and timeouts, and the workers it gets, leave    *)
(* the receivers' promise whole: seen from their state directory the whole *)
(* run only reserves a free job and action for a paid binding, spawns its  *)
(* worker once and vouches for it.                                         *)
THEOREM SpawnOnceKeptInRun == SpecRun => D!ImplementsSpawnOnce
  <1>1. InitRun => RunInv /\ P!Once!Init
    <2>1. InitRun => P!Init
      BY DEF InitRun, D!Init, P!Init
    <2> QED
      BY <2>1, RunInit, DispatchAssumptions, P!OnceInit
  <1>2. RunInv /\ [NextRun]_runVars =>
          RunInv' /\ [P!Once!Next]_<<P!Reserved, spawns, receipts>>
    BY RunStep, RunReceivers, DispatchAssumptions, P!OnceStep DEF RunInv
  <1>3. /\ P!Once!Init <=> D!Once!Init
        /\ [P!Once!Next]_<<P!Reserved, spawns, receipts>>
             <=> [D!Once!Next]_<<D!Reserved, spawns, receipts>>
    BY DEF D!Once!Init, D!Once!Next, D!Once!Reserve, D!Once!Spawn, D!Once!Vouch, D!Reserved,
           P!Once!Init, P!Once!Next, P!Once!Reserve, P!Once!Spawn, P!Once!Vouch, P!Reserved
  <1> QED
    BY <1>1, <1>2, <1>3, PTL DEF SpecRun, D!ImplementsSpawnOnce, D!Once!Spec

-----------------------------------------------------------------------------
(* Requested work.  A dispatch reaches a worker before the server remembers *)
(* the request, so a worker may live for a request nobody was promised.  It *)
(* goes to work only if a copy of the job says that it was asked for, and   *)
(* no copy says so before the request was remembered: a long-lived cache    *)
(* keeps a snapshot whose put failed, hence the hypothesis.                 *)

(* What a copy of a job tells was asked for.                               *)
Asks(job, actions) ==
  /\ Started(job) => "start" \in actions
  /\ job.status = "rollback_requested" => "rollback" \in actions
  /\ job.status = "detonation_requested" => "detonate" \in actions

SnapshotsAsked ==
  /\ \A j \in Jobs : Known(j) => Asks(store[j], asked[j])
  /\ \A p \in Procs, j \in Jobs : cache[p][j] # NoJob => Asks(cache[p][j], asked[j])
  /\ \A p \in Procs : ~Idle(p) =>
       Asks(req[p].next, asked[req[p].job] \cup ({req[p].op} \cap DispatchActions))

Engaged(w) == pc[w] = "calling" \/ Busy(w)

EngagedAsked == \A w \in Workers : Engaged(w) => ActionOf(w) \in asked[JobOf(w)]

RequestsInv == SnapshotsAsked /\ EngagedAsked

LEMMA AsksMore ==
  ASSUME NEW job, NEW few, NEW many, Asks(job, few), few \subseteq many
  PROVE  Asks(job, many)
  BY DEF Asks

LEMMA DerivedAsks ==
  ASSUME NEW job, NEW next, NEW op, NEW actions, Asks(job, actions), Edge(job, op, next)
  PROVE  Asks(next, actions \cup ({op} \cap DispatchActions))
  BY EdgeStarts DEF Asks, DispatchActions

(* The job a worker looks up sends it to work.                             *)
Wanted(w, p) ==
  LET job == _lookup_hosted_job(p, JobOf(w))
  IN /\ Known(JobOf(w)) /\ Started(job)
     /\ ActionOf(w) = "start" \/ job.status = AdvanceTo[ActionOf(w)]

LEMMA ReleasedEngaged ==
  ASSUME RunTypes, NEW p \in Procs, NEW ok, Released(p, ok), NEW w \in Workers, Engaged(w)'
  PROVE  Engaged(w)
  BY DEF RunTypes, Released, Engaged, Busy

LEMMA ClaimEngages ==
  ASSUME NEW w \in Workers, NEW p \in Procs, ClaimJob(w, p), Engaged(w)', ~Engaged(w), RunTypes
  PROVE  Wanted(w, p) /\ UNCHANGED <<store, asked>>
  <1>1. \/ _hosted_worker_claim_response(p, JobOf(w))
        \/ pc'[w] = "exited"
    BY DEF ClaimJob, RunTypes, Exit
  <1>2. _hosted_worker_claim_response(p, JobOf(w))
    BY <1>1 DEF Engaged, Busy
  <1> QED
    BY <1>2 DEF _hosted_worker_claim_response, CanClaim, Started, Wanted, ClaimJob, history

LEMMA ReadEngages ==
  ASSUME NEW w \in Workers, NEW p \in Procs, ReadJob(w, p), Engaged(w)', RunTypes
  PROVE  Wanted(w, p) /\ UNCHANGED <<store, asked>>
  <1>1. _lookup_hosted_job(p, JobOf(w)).status = AdvanceTo[ActionOf(w)]
    BY DEF ReadJob, RunTypes, Engaged, Busy
  <1>2. ActionOf(w) \in {"rollback", "detonate"} /\ Known(JobOf(w))
        /\ UNCHANGED <<store, asked>>
    BY WorkerType DEF ReadJob, _hosted_job_response, DispatchActions, history
  <1> QED
    BY <1>1, <1>2 DEF Wanted, Started, AdvanceTo

LEMMA OtherWorker ==
  ASSUME RunTypes, NEW v \in Workers, NEW w \in Workers, NEW state,
         pc' = [pc EXCEPT ![v] = state], Engaged(w)', ~Engaged(w)
  PROVE  v = w
  BY DEF RunTypes, Engaged, Busy

LEMMA EngagedStep ==
  ASSUME RunTypes, P!DispatchInv, [NextRun]_runVars, NEW w \in Workers, Engaged(w)'
  PROVE  \/ Engaged(w)
         \/ \E p \in Procs : Wanted(w, p) /\ UNCHANGED <<store, asked>>
  <1> SUFFICES ASSUME ~Engaged(w)
               PROVE  \E p \in Procs : Wanted(w, p) /\ UNCHANGED <<store, asked>>
    OBVIOUS
  <1>1. ASSUME NEW v \in Workers, NEW p \in Procs, ClaimJob(v, p) \/ ReadJob(v, p)
        PROVE  \E q \in Procs : Wanted(w, q) /\ UNCHANGED <<store, asked>>
    <2>1. v = w
      BY <1>1, OtherWorker DEF ClaimJob, ReadJob, Serve, Exit
    <2> QED
      BY <1>1, <2>1, ClaimEngages, ReadEngages
  <1>2. ASSUME NEW p \in Procs, Released(p, TRUE) \/ Released(p, FALSE)
        PROVE  FALSE
    BY <1>2, ReleasedEngaged
  <1>3. ASSUME NEW r \in Receivers, SpawnWorker(r) \/ ReceiverCrash(r)
        PROVE  FALSE
    BY <1>3, SpawnedPaid DEF ReceiverCrash, RunTypes, Engaged, Busy
  <1>4. ASSUME NEW v \in Workers,
               \/ run_hosted_worker_once(v) \/ _run_hosted_worker_maintenance_once(v)
               \/ WorkerDies(v)
               \/ \E p \in Procs : PostProof(v, p)
        PROVE  FALSE
    <2>1. v = w
      BY <1>4, OtherWorker
      DEF run_hosted_worker_once, _run_hosted_worker_maintenance_once, WorkerDies, PostProof,
          Serve, Exit
    <2> QED
      BY <1>4, <2>1
      DEF run_hosted_worker_once, _run_hosted_worker_maintenance_once, WorkerDies, PostProof,
          Serve, Exit, RunTypes, Engaged, Busy
  <1>5. CASE UNCHANGED pc
    BY <1>5 DEF Engaged, Busy
  <1> QED
    BY <1>1, <1>2, <1>3, <1>4, <1>5
    DEF NextRun, CalmNext, Faulty, ReceiverSteps, WorkerCalls, WorkerRuns, ServerSteps,
        Browse, Purchase, CallReceiver, Reserve, Answer, ReceiverFails, DispatchTimeout,
        RememberJob, StoreFails, WriteArtifact, ServerCrash, runVars, workerVars

LEMMA LookupAsks ==
  ASSUME SnapshotsAsked, NEW p \in Procs, NEW j \in Jobs, Known(j)
  PROVE  Asks(_lookup_hosted_job(p, j), asked[j])
  BY DEF SnapshotsAsked, _lookup_hosted_job

LEMMA ArrivedAsks ==
  ASSUME IInv, SnapshotsAsked, NEW p \in Procs, NEW j \in Jobs, Arrives(p, j),
         UNCHANGED asked
  PROVE  SnapshotsAsked'
  <1> DEFINE job == _lookup_hosted_job(p, j)
  <1>1. (NewRequest(p, j) \/ LookedUp(p, j)) /\ UNCHANGED store
    BY Arrived
  <1>2. Known(j) => Asks(job, asked[j])
    BY LookupAsks
  <1>3. ASSUME NEW q \in Procs, NEW i \in Jobs, cache'[q][i] # NoJob
        PROVE  Asks(cache'[q][i], asked[i])
    BY <1>2, <1>3, ArrivedCache DEF SnapshotsAsked
  <1>4. ASSUME NEW q \in Procs, req'[q] # NoRequest
        PROVE  Asks(req'[q].next,
                    asked[req'[q].job] \cup ({req'[q].op} \cap DispatchActions))
    <2>1. CASE req'[q] = req[q]
      BY <1>4, <2>1 DEF SnapshotsAsked, Idle
    <2>2. CASE q = p /\ NewRequest(p, j)
      <3>0. \A lane \in Lanes : build_hosted_launch_job(lane).status = "waiting_for_worker"
        BY DEF build_hosted_launch_job
      <3>1. /\ req'[p].job = j
            /\ \/ req'[p].next.status = "waiting_for_worker"
               \/ Known(j) /\ Edge(job, req'[p].op, req'[p].next)
        BY <2>2, <3>0 DEF NewRequest
      <3>2. CASE req'[p].next.status = "waiting_for_worker"
        BY <2>2, <3>2 DEF Started, Asks
      <3>3. CASE Known(j) /\ Edge(job, req'[p].op, req'[p].next)
        BY <1>2, <2>2, <3>1, <3>3, DerivedAsks
      <3> QED
        BY <3>1, <3>2, <3>3
    <2> QED
      BY <1>1, <2>1, <2>2 DEF NewRequest, LookedUp
  <1> QED
    BY <1>1, <1>3, <1>4 DEF SnapshotsAsked, Known, Idle, Asks, Started

LEMMA RememberAsks ==
  ASSUME IInv, RunTypes, SnapshotsAsked, NEW p \in Procs,
         NEW answered \in BOOLEAN, RememberJob(p, answered)
  PROVE  SnapshotsAsked' /\ \A j \in Jobs : asked[j] \subseteq asked'[j]
  <1> DEFINE j    == req[p].job
             next == req[p].next
  <1>1. _remember_hosted_job(p) /\ Proceeds(p) /\ ~Idle(p) /\ j \in Jobs
    BY Remembered, ServerTypes DEF RememberJob, _remember_hosted_job, Proceeds
  <1>2. /\ \A i \in Jobs : asked[i] \subseteq asked'[i]
        /\ asked'[j] = asked[j] \cup ({req[p].op} \cap DispatchActions)
    BY <1>1 DEF RememberJob, RunTypes
  <1>3. Asks(next, asked'[j])
    BY <1>1, <1>2 DEF SnapshotsAsked
  <1>4. ASSUME NEW i \in Jobs, store'[i] # NoJob
        PROVE  Asks(store'[i], asked'[i])
    <2>1. store'[i] = IF i = j THEN next ELSE store[i]
      BY <1>1, RememberedCache
    <2> QED
      BY <1>2, <1>3, <1>4, <2>1, AsksMore DEF SnapshotsAsked, Known
  <1>5. ASSUME NEW q \in Procs, NEW i \in Jobs, cache'[q][i] # NoJob
        PROVE  Asks(cache'[q][i], asked'[i])
    <2>1. cache'[q][i] = IF q = p /\ i = j /\ p \in LongLived THEN next ELSE cache[q][i]
      BY <1>1, RememberedCache
    <2> QED
      BY <1>2, <1>3, <1>5, <2>1, AsksMore DEF SnapshotsAsked
  <1>6. ASSUME NEW q \in Procs, req'[q] # NoRequest
        PROVE  Asks(req'[q].next,
                    asked'[req'[q].job] \cup ({req'[q].op} \cap DispatchActions))
    <2>1. /\ req[q] # NoRequest /\ req'[q].next = req[q].next
          /\ req'[q].job = req[q].job /\ req'[q].op = req[q].op
      BY <1>1, <1>6 DEF Proceeds, Idle
    <2>2. req[q].job \in Jobs
      BY <2>1, ServerTypes DEF Idle
    <2>3. Asks(req[q].next, asked[req[q].job] \cup ({req[q].op} \cap DispatchActions))
      BY <2>1 DEF SnapshotsAsked, Idle
    <2>4. asked[req[q].job] \cup ({req[q].op} \cap DispatchActions)
            \subseteq asked'[req[q].job] \cup ({req[q].op} \cap DispatchActions)
      BY <1>2, <2>2
    <2> QED
      BY <2>1, <2>3, <2>4, AsksMore
  <1> QED
    BY <1>2, <1>4, <1>5, <1>6 DEF SnapshotsAsked, Known, Idle, Asks, Started

LEMMA ProceedsAsks ==
  ASSUME SnapshotsAsked, NEW p \in Procs, Proceeds(p), UNCHANGED <<store, cache, asked>>
  PROVE  SnapshotsAsked'
  BY DEF SnapshotsAsked, Proceeds, Known, Idle, Asks, Started

LEMMA CrashAsks ==
  ASSUME IInv, SnapshotsAsked, NEW p \in Procs, Crash(p), UNCHANGED asked
  PROVE  SnapshotsAsked'
  BY Crashed DEF SnapshotsAsked, Known, Idle, Asks, Started

LEMMA RequestsStep ==
  FaithfulCaches /\ RunInv /\ RequestsInv /\ [NextRun]_runVars => RequestsInv'
  <1> SUFFICES ASSUME FaithfulCaches, RunInv, RequestsInv, [NextRun]_runVars
               PROVE  RequestsInv'
    OBVIOUS
  <1>0. IInv /\ RunTypes /\ P!DispatchInv /\ SnapshotsAsked
    BY DEF RunInv, RequestsInv
  <1> DEFINE Held == SnapshotsAsked' /\ \A j \in Jobs : asked[j] \subseteq asked'[j]
  <1>1. Held
    <2>1. ASSUME NEW p \in Procs, NEW answered \in BOOLEAN, RememberJob(p, answered)
          PROVE  Held
      BY <1>0, <2>1, RememberAsks
    <2>2. ASSUME UNCHANGED asked, NEW p \in Procs, NEW j \in Jobs, Arrives(p, j)
          PROVE  Held
      BY <1>0, <2>2, ArrivedAsks
    <2>3. ASSUME UNCHANGED asked, NEW p \in Procs, Goes(p) \/ Crash(p)
          PROVE  Held
      BY <1>0, <2>3, GoesQuietly, ProceedsAsks, CrashAsks
    <2>4. CASE UNCHANGED asked /\ ((\E j \in Jobs : Pay(j)) \/ UNCHANGED serverVars)
      BY <1>0, <2>4
      DEF Pay, serverVars, vars, SnapshotsAsked, Known, Idle, Asks, Started
    <2> HIDE DEF Held
    <2> QED
      BY <1>0, <2>1, <2>2, <2>3, <2>4, RunServer
  <1>2. ASSUME NEW w \in Workers, Engaged(w)'
        PROVE  ActionOf(w) \in asked'[JobOf(w)]
    <2>1. JobOf(w) \in Jobs /\ ActionOf(w) \in DispatchActions
      BY WorkerType
    <2>2. CASE Engaged(w)
      BY <1>1, <2>1, <2>2 DEF RequestsInv, EngagedAsked
    <2>3. ASSUME NEW p \in Procs, Wanted(w, p)
          PROVE  ActionOf(w) \in asked[JobOf(w)]
      <3>1. Asks(_lookup_hosted_job(p, JobOf(w)), asked[JobOf(w)])
        BY <1>0, <2>1, <2>3, LookupAsks DEF Wanted
      <3> QED
        BY <2>1, <2>3, <3>1 DEF Wanted, Asks, AdvanceTo, DispatchActions
    <2> QED
      BY <1>0, <1>1, <1>2, <2>1, <2>2, <2>3, EngagedStep
  <1> QED
    BY <1>1, <1>2 DEF RequestsInv, EngagedAsked, JobOf, ActionOf

LEMMA RequestsInit == InitRun => RequestsInv
  BY DEF InitRun, Init, EmptyCache, RequestsInv, SnapshotsAsked, EngagedAsked, Known, Idle,
         Engaged, Busy

(* Every worker at work has a request the server remembered, so that the   *)
(* user was told of it: for any number of server processes, with or without*)
(* a long-lived cache, provided a failed put leaves no snapshot in one.    *)
THEOREM WorkIsRequested ==
  ASSUME FaithfulCaches
  PROVE  SpecRun => []WorkRequested
  <1>1. InitRun => RunInv /\ RequestsInv
    BY RunInit, RequestsInit
  <1>2. (RunInv /\ RequestsInv) /\ [NextRun]_runVars => (RunInv /\ RequestsInv)'
    BY RunStep, RequestsStep
  <1>3. RunInv /\ RequestsInv => WorkRequested
    BY DEF RequestsInv, EngagedAsked, WorkRequested, Engaged
  <1> QED
    BY <1>1, <1>2, <1>3, PTL DEF SpecRun

-----------------------------------------------------------------------------
(* Started work.  With a single process no request is overtaken by another *)
(* one between its lookup and its put, so the store never takes back the   *)
(* start of a job.                                                         *)

NextStarted ==
  \A p \in Procs :
    ~Idle(p) /\ Known(req[p].job) /\ Started(store[req[p].job]) => Started(req[p].next)

EngagedStarted ==
  \A w \in Workers : Engaged(w) => Known(JobOf(w)) /\ Started(store[JobOf(w)])

StartedInv == NoCache /\ CacheFresh /\ NextStarted /\ EngagedStarted

(* A start that is in the store stays there.                               *)
StartsStay ==
  \A j \in Jobs : Known(j) /\ Started(store[j]) => Known(j)' /\ Started(store'[j])

LEMMA ArrivedStarted ==
  ASSUME IInv, CacheFresh, NextStarted, NEW p \in Procs, NEW j \in Jobs, Arrives(p, j)
  PROVE  NextStarted' /\ UNCHANGED store
  <1>1. (NewRequest(p, j) \/ LookedUp(p, j)) /\ store' = store
    BY Arrived
  <1>2. ASSUME NEW q \in Procs, req'[q] # NoRequest,
               store[req'[q].job] # NoJob, Started(store[req'[q].job])
        PROVE  Started(req'[q].next)
    <2>1. CASE req'[q] = req[q]
      BY <1>2, <2>1 DEF NextStarted, Idle, Known
    <2>2. CASE q = p /\ NewRequest(p, j)
      <3>1. req'[p].job = j /\ Edge(store[j], req'[p].op, req'[p].next)
        BY <1>2, <2>2, FreshLookup DEF NewRequest, Known
      <3> QED
        BY <1>2, <2>2, <3>1, EdgeStarts
    <2> QED
      BY <1>1, <2>1, <2>2 DEF NewRequest, LookedUp
  <1> QED
    BY <1>1, <1>2 DEF NextStarted, Known, Idle, Started

LEMMA RememberStarted ==
  ASSUME OneProcess, IInv, NextStarted, NEW p \in Procs, _remember_hosted_job(p)
  PROVE  NextStarted' /\ StartsStay
  <1> DEFINE j    == req[p].job
             next == req[p].next
  <1>1. ~Idle(p) /\ Proceeds(p) /\ next # NoJob
    BY Remembered, ServerTypes, NoJobAssumption DEF Proceeds
  <1>2. \A i \in Jobs : store'[i] = IF i = j THEN next ELSE store[i]
    BY RememberedCache
  <1>3. Known(j) /\ Started(store[j]) => Started(next)
    BY <1>1 DEF NextStarted
  <1>4. ASSUME NEW q \in Procs, req'[q] # NoRequest, Started(store'[req'[q].job])
        PROVE  Started(req'[q].next)
    <2>1. req'[q].job = j /\ req'[q].next = next
      BY <1>1, <1>4 DEF Proceeds, OneProcess
    <2>2. j \in Jobs
      BY <1>1, ServerTypes
    <2> QED
      BY <1>2, <1>4, <2>1, <2>2
  <1>5. StartsStay
    BY <1>1, <1>2, <1>3 DEF StartsStay, Known, Started
  <1> QED
    BY <1>4, <1>5 DEF NextStarted, Known, Idle, Started

LEMMA ProceedsStarted ==
  ASSUME NextStarted, NEW p \in Procs, Proceeds(p), UNCHANGED store
  PROVE  NextStarted'
  BY DEF NextStarted, Proceeds, Known, Idle, Started

LEMMA CrashStarted ==
  ASSUME IInv, NextStarted, NEW p \in Procs, Crash(p)
  PROVE  NextStarted' /\ UNCHANGED store
  BY Crashed DEF NextStarted, Known, Idle, Started

LEMMA StartedStep ==
  ASSUME FaithfulCaches, OneProcess, RunInv, StartedInv, [NextRun]_runVars
  PROVE  StartedInv'
  <1>0. IInv /\ RunTypes /\ P!DispatchInv /\ NoCache /\ CacheFresh /\ NextStarted
    BY DEF RunInv, StartedInv
  <1>3. NoCache' /\ CacheFresh'
    BY <1>0, RunServerMoves, NoCacheStep, CacheFreshStep
  <1> DEFINE Held == NextStarted' /\ StartsStay
  <1>1. Held
    <2>1. UNCHANGED store => StartsStay
      BY DEF StartsStay, Known, Started
    <2>2. ASSUME NEW p \in Procs, NEW answered \in BOOLEAN, RememberJob(p, answered)
          PROVE  Held
      BY <1>0, <2>2, RememberStarted DEF RememberJob, _remember_hosted_job
    <2>3. ASSUME NEW p \in Procs, NEW j \in Jobs, Arrives(p, j)
          PROVE  Held
      BY <1>0, <2>1, <2>3, ArrivedStarted
    <2>4. ASSUME NEW p \in Procs, Goes(p) \/ Crash(p)
          PROVE  Held
      BY <1>0, <2>1, <2>4, GoesQuietly, ProceedsStarted, CrashStarted
    <2>5. CASE (\E j \in Jobs : Pay(j)) \/ UNCHANGED serverVars
      BY <1>0, <2>1, <2>5
      DEF Pay, serverVars, vars, NextStarted, Known, Idle, Started
    <2> HIDE DEF Held
    <2> QED
      BY <1>0, <2>2, <2>3, <2>4, <2>5, RunServer
  <1>2. ASSUME NEW w \in Workers, Engaged(w)'
        PROVE  Known(JobOf(w))' /\ Started(store'[JobOf(w)])
    <2>1. JobOf(w) \in Jobs
      BY WorkerType
    <2>2. CASE Engaged(w)
      BY <1>1, <2>1, <2>2 DEF StartedInv, EngagedStarted, StartsStay
    <2>3. ASSUME NEW p \in Procs, Wanted(w, p), UNCHANGED <<store, asked>>
          PROVE  Known(JobOf(w))' /\ Started(store'[JobOf(w)])
      BY <1>0, <2>1, <2>3, FreshLookup DEF Wanted, Known, JobOf
    <2> QED
      BY <1>0, <1>2, <2>2, <2>3, EngagedStep
  <1> QED
    BY <1>1, <1>2, <1>3 DEF StartedInv, EngagedStarted, JobOf, Started

LEMMA StartedInit == InitRun => StartedInv
  BY DEF InitRun, Init, EmptyCache, StartedInv, NoCache, CacheFresh, NextStarted, EngagedStarted, Idle,
         Engaged, Busy

(* No worker is at work for a job whose stored status says that it was     *)
(* never started or was stopped, in the deployment with one server process.*)
THEOREM WorkIsStarted ==
  ASSUME FaithfulCaches, OneProcess
  PROVE  SpecRun => []WorkMeansStarted
  <1> DEFINE Inv == RunInv /\ StartedInv
  <1>1. InitRun => Inv
    BY RunInit, StartedInit
  <1>2. Inv /\ [NextRun]_runVars => Inv'
    BY RunStep, StartedStep
  <1>3. Inv => WorkMeansStarted
    BY DEF StartedInv, EngagedStarted, WorkMeansStarted, Engaged
  <1> QED
    BY <1>1, <1>2, <1>3, PTL DEF SpecRun

-----------------------------------------------------------------------------
(* The life cycle, end to end. *)

(* With workers that call back, receivers that lose answers and every other*)
(* fault of a hosted run, each durable write of the single server process  *)
(* is still one legal operation on the job.                                *)
THEOREM LifecycleKeptInRun ==
  ASSUME OneProcess, FaithfulCaches
  PROVE  SpecRun => ImplementsLifecycle
  <1>1. InitRun => RunInv /\ LifecycleInv /\ Lifecycle!Init
    BY RunInit, LifecycleInvInit, LifecycleInit DEF InitRun
  <1>2. (RunInv /\ LifecycleInv) /\ [NextRun]_runVars =>
          (RunInv /\ LifecycleInv)' /\ [Lifecycle!Next]_(Lifecycle!lifecycleVars)
    BY RunStep, RunServerMoves, LifecycleInvStep, LifecycleStep DEF RunInv
  <1> QED
    BY <1>1, <1>2, PTL DEF SpecRun, ImplementsLifecycle, Lifecycle!Spec

=============================================================================
