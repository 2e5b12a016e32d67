-------------------------- MODULE HostedServerProofs --------------------------
(***************************************************************************)
(* Proofs about HostedServer, for every set of jobs and processes, every   *)
(* set of payloads, both cache lifetimes and every set of faults.          *)
(***************************************************************************)
EXTENDS HostedServer, TLAPS

-----------------------------------------------------------------------------
(* The operations of HostedJob return jobs. *)

LEMMA BuildIsJob ==
  ASSUME NEW lane \in Lanes
  PROVE  build_hosted_launch_job(lane) \in Job
  BY DEF Lanes, Managed, ByoOci, build_hosted_launch_job, Job, Statuses, PaymentStatuses,
         StepIds, StepStatuses

LEMMA PaymentIsJob ==
  ASSUME NEW job \in Job, NEW paid \in BOOLEAN
  PROVE  with_hosted_job_payment_receipt(job, paid) \in Job
  BY DEF with_hosted_job_payment_receipt, Job, PaymentStatuses, StepIds, StepStatuses

LEMMA AdvanceIsJob ==
  ASSUME NEW job \in Job, NEW action \in Actions
  PROVE  advance_hosted_launch_job(job, action) \in Job
  <1>1. AdvanceTo[action] \in Statuses
    BY DEF Actions, AdvanceTo, Statuses
  <1>2. [s \in StepIds |-> IF s \in AdvanceSteps[action] THEN "waiting" ELSE job.steps[s]]
          \in [StepIds -> StepStatuses]
    BY DEF Job, StepStatuses
  <1> QED
    BY <1>1, <1>2 DEF advance_hosted_launch_job, Job

LEMMA ClaimIsJob ==
  ASSUME NEW job \in Job
  PROVE  claim_hosted_launch_job(job) \in Job
  BY DEF claim_hosted_launch_job, Job, Statuses, StepIds, StepStatuses

LEMMA ProofIsJob ==
  ASSUME NEW job \in Job, NEW payload
  PROVE  apply_hosted_worker_proof(job, payload) \in Job
  BY DEF apply_hosted_worker_proof, DoneOrWaiting, Job, Statuses, StepIds, StepStatuses

-----------------------------------------------------------------------------
(* Type correctness. *)

LEMMA LookupIsJob ==
  ASSUME TypeOK, NEW p \in Procs, NEW j \in Jobs, Known(j)
  PROVE  _lookup_hosted_job(p, j) \in Job
  BY DEF TypeOK, Known, _lookup_hosted_job

LEMMA CachedType ==
  ASSUME TypeOK, NEW p \in Procs, NEW j \in Jobs, NEW job \in Job
  PROVE  Cached(p, j, job) \in [Procs -> [Jobs -> Job \cup {NoJob}]]
  BY DEF TypeOK, Cached

LEMMA AcceptType ==
  ASSUME TypeOK, NEW p \in Procs, NEW j \in Jobs, NEW op \in Ops, NEW phase \in Phases,
         NEW next \in Job, Accept(p, j, op, phase, next)
  PROVE  /\ cache' \in [Procs -> [Jobs -> Job \cup {NoJob}]]
         /\ req' \in [Procs -> Request \cup {NoRequest}]
  BY LookupIsJob, CachedType DEF TypeOK, Accept, Request

LEMMA TypeInit == Init => TypeOK
  BY DEF Init, TypeOK, EmptyCache

LEMMA TypeClick ==
  ASSUME TypeOK, NEW p \in Procs, NEW j \in Jobs, Click(p, j)
  PROVE  TypeOK'
  <1> DEFINE job == _lookup_hosted_job(p, j)
  <1>1. ASSUME NEW lane \in Lanes, _github_control_room_response(p, j, lane)
        PROVE  TypeOK'
    <2>1. [op |-> "create", job |-> j, phase |-> "remember",
           next |-> build_hosted_launch_job(lane)] \in Request
      BY BuildIsJob DEF Request, Ops, Phases
    <2> QED
      BY <1>1, <2>1 DEF TypeOK, _github_control_room_response
  <1>2. CASE _hosted_job_response(p, j)
    <2>1. job \in Job
      BY <1>2, LookupIsJob DEF _hosted_job_response
    <2> QED
      BY <1>2, <2>1, CachedType DEF TypeOK, _hosted_job_response
  <1>3. ASSUME NEW action \in Actions, _hosted_job_action_response(p, j, action)
        PROVE  TypeOK'
    <2> DEFINE next  == advance_hosted_launch_job(job, action)
               phase == IF Dispatches(job, action) THEN "dispatch" ELSE "remember"
    <2>1. next \in Job
      BY <1>3, LookupIsJob, AdvanceIsJob DEF _hosted_job_action_response
    <2>2. action \in Ops /\ phase \in Phases
      BY DEF Ops, Phases
    <2>3. Accept(p, j, action, phase, next)
      BY <1>3 DEF _hosted_job_action_response
    <2>4. [job |-> j, action |-> action, payment |-> next.payment] \in Envelope
      BY <2>1 DEF Job, Envelope
    <2>5. envelopes' \subseteq Envelope
      BY <1>3, <2>4 DEF _hosted_job_action_response, TypeOK
    <2> HIDE DEF next, phase
    <2> QED
      BY <1>3, <2>1, <2>2, <2>3, <2>5, AcceptType DEF TypeOK, _hosted_job_action_response
  <1>4. CASE _hosted_payment_checkout_response(p, j)
    <2>1. with_hosted_job_payment_receipt(job, FALSE) \in Job
      BY <1>4, LookupIsJob, PaymentIsJob DEF _hosted_payment_checkout_response
    <2>2. "checkout" \in Ops /\ "remember" \in Phases
      BY DEF Ops, Phases
    <2> QED
      BY <1>4, <2>1, <2>2, AcceptType DEF TypeOK, _hosted_payment_checkout_response
  <1>5. ASSUME NEW op \in {"payment_return", "payment_webhook"}, ApplyPayment(p, j, op)
        PROVE  TypeOK'
    <2>1. with_hosted_job_payment_receipt(job, TRUE) \in Job
      BY <1>5, LookupIsJob, PaymentIsJob DEF ApplyPayment
    <2>2. op \in Ops /\ "remember" \in Phases
      BY DEF Ops, Phases
    <2> QED
      BY <1>5, <2>1, <2>2, AcceptType DEF TypeOK, ApplyPayment
  <1>6. CASE _hosted_worker_claim_response(p, j)
    <2>1. claim_hosted_launch_job(job) \in Job
      BY <1>6, LookupIsJob, ClaimIsJob DEF _hosted_worker_claim_response
    <2>2. "claim" \in Ops /\ "remember" \in Phases
      BY DEF Ops, Phases
    <2> QED
      BY <1>6, <2>1, <2>2, AcceptType DEF TypeOK, _hosted_worker_claim_response
  <1> QED
    BY <1>1, <1>2, <1>3, <1>4, <1>5, <1>6
    DEF Click, _hosted_payment_return_response, _hosted_stripe_webhook_response

LEMMA TypeProof ==
  ASSUME TypeOK, NEW p \in Procs, NEW j \in Jobs, NEW payload,
         _hosted_worker_proof_response(p, j, payload)
  PROVE  TypeOK'
  <1> DEFINE next == apply_hosted_worker_proof(_lookup_hosted_job(p, j), payload)
  <1>1. next \in Job
    BY LookupIsJob, ProofIsJob DEF _hosted_worker_proof_response
  <1>2. "proof" \in Ops /\ "remember" \in Phases
    BY DEF Ops, Phases
  <1> QED
    BY <1>1, <1>2, AcceptType DEF TypeOK, _hosted_worker_proof_response

LEMMA TypeContinue ==
  ASSUME TypeOK, NEW p \in Procs, Continue(p)
  PROVE  TypeOK'
  <1>1. ~Idle(p) => req[p] \in Request
    BY DEF TypeOK, Idle
  <1>2. CASE DispatchAccepted(p)
    BY <1>1, <1>2 DEF TypeOK, DispatchAccepted, Request, Phases
  <1>3. CASE DispatchFailed(p)
    BY <1>3 DEF TypeOK, DispatchFailed
  <1>4. CASE _remember_hosted_job(p)
    <2>1. req[p].job \in Jobs /\ req[p].next \in Job
      BY <1>1, <1>4 DEF _remember_hosted_job, Remember, Request
    <2>2. [req[p] EXCEPT !.phase = "artifact"] \in Request
      BY <1>1, <1>4 DEF _remember_hosted_job, Remember, Request, Phases
    <2> QED
      BY <1>4, <2>1, <2>2, CachedType DEF TypeOK, _remember_hosted_job, Remember
  <1>5. CASE RememberFails(p)
    <2>1. req[p].job \in Jobs /\ req[p].next \in Job
      BY <1>1, <1>5 DEF RememberFails, Request
    <2> QED
      BY <1>5, <2>1, CachedType DEF TypeOK, RememberFails
  <1>6. CASE put_managed_start_response(p)
    BY <1>1, <1>6 DEF TypeOK, put_managed_start_response, Request
  <1>7. CASE put_stripe_webhook_receipt(p)
    BY <1>1, <1>7 DEF TypeOK, put_stripe_webhook_receipt, Request
  <1>8. CASE ArtifactFails(p)
    BY <1>8 DEF TypeOK, ArtifactFails
  <1>9. CASE Crash(p)
    BY <1>9 DEF TypeOK, Crash, EmptyCache
  <1> QED
    BY <1>2, <1>3, <1>4, <1>5, <1>6, <1>7, <1>8, <1>9 DEF Continue

LEMMA TypePay ==
  ASSUME TypeOK, NEW j \in Jobs, Pay(j)
  PROVE  TypeOK'
  BY DEF TypeOK, Pay

LEMMA TypeStep == TypeOK /\ [Next]_vars => TypeOK'
  <1> SUFFICES ASSUME TypeOK, [Next]_vars
               PROVE  TypeOK'
    OBVIOUS
  <1>1. CASE UNCHANGED vars
    BY <1>1 DEF TypeOK, vars
  <1> QED
    BY <1>1, TypePay, TypeClick, TypeProof, TypeContinue DEF Next, Receive

(* The server's state has its type in every behaviour.                     *)
THEOREM TypeCorrect == Spec => []TypeOK
  BY TypeInit, TypeStep, PTL DEF Spec

-----------------------------------------------------------------------------
(* Safety.  MoneyBeforeWork and CompleteMeansProven speak of what a        *)
(* snapshot looks like; neither survives a step alone.  A snapshot that is *)
(* about to be started must already be known to be paid for, so the        *)
(* invariant ties the payment status itself to Stripe.                     *)

Proven(s) ==
  /\ _completion_ready(s)
  /\ s.steps["provider.gates"] = "done" /\ s.steps["setup.execute"] = "done"

Sound(s, session) ==
  /\ s.payment = "paid" => session = "paid"
  /\ s.lane = Managed /\ Started(s) => session = "paid"
  /\ s.status = "complete" => Proven(s)

SnapshotsSound ==
  /\ \A j \in Jobs : Known(j) => Sound(store[j], stripe[j])
  /\ \A p \in Procs, j \in Jobs : cache[p][j] # NoJob => Sound(cache[p][j], stripe[j])
  /\ \A p \in Procs : ~Idle(p) => Sound(req[p].next, stripe[req[p].job])

IInv == TypeOK /\ SnapshotsSound /\ EnvelopesPaid

(* A payment is never taken back.                                          *)
StripeMonotone == \A j \in Jobs : stripe[j] = "paid" => stripe'[j] = "paid"

LEMMA BuildIsSound ==
  ASSUME NEW lane \in Lanes, NEW session
  PROVE  Sound(build_hosted_launch_job(lane), session)
  BY DEF Sound, Started, build_hosted_launch_job

LEMMA PaymentIsSound ==
  ASSUME NEW job \in Job, NEW session, Sound(job, session),
         NEW paid \in BOOLEAN, paid => session = "paid"
  PROVE  Sound(with_hosted_job_payment_receipt(job, paid), session)
  BY DEF Sound, Started, Proven, _completion_ready, with_hosted_job_payment_receipt, Job,
         StepIds

(* What the payment gate let through is a job that was paid, or one no     *)
(* worker is dispatched for and that stays unstarted.                      *)
LEMMA AdvanceIsFunded ==
  ASSUME NEW job \in Job, NEW action \in Actions,
         CanAdvance(job, action), ~_dispatch_action_requires_managed_payment(job, action)
  PROVE  job.lane # Managed \/ action = "stop" \/ job.payment = "paid"
  BY DEF Actions, CanAdvance, _dispatch_action_requires_managed_payment, AdvanceFrom,
         _managed_payment_required, PaymentGatedStatuses, InFlight

LEMMA AdvanceIsSound ==
  ASSUME NEW job \in Job, NEW session, Sound(job, session), NEW action \in Actions,
         CanAdvance(job, action), ~_dispatch_action_requires_managed_payment(job, action)
  PROVE  Sound(advance_hosted_launch_job(job, action), session)
  <1> DEFINE next == advance_hosted_launch_job(job, action)
  <1>1. next.lane = job.lane /\ next.payment = job.payment /\ next.status = AdvanceTo[action]
    BY DEF advance_hosted_launch_job, Job
  <1>2. next.status # "complete" /\ (action = "stop" => ~Started(next))
    BY <1>1 DEF Actions, AdvanceTo, Started
  <1>3. job.lane # Managed \/ action = "stop" \/ session = "paid"
    BY AdvanceIsFunded DEF Sound
  <1> QED
    BY <1>1, <1>2, <1>3 DEF Sound

LEMMA ClaimIsSound ==
  ASSUME NEW job \in Job, NEW session, Sound(job, session), CanClaim(job)
  PROVE  Sound(claim_hosted_launch_job(job), session)
  BY DEF Sound, Started, CanClaim, claim_hosted_launch_job, Job

LEMMA ProofIsSound ==
  ASSUME NEW job \in Job, NEW session, Sound(job, session), NEW payload, CanProve(job)
  PROVE  Sound(apply_hosted_worker_proof(job, payload), session)
  <1> DEFINE next == apply_hosted_worker_proof(job, payload)
  <1>1. next.lane = job.lane /\ next.payment = job.payment
    BY DEF apply_hosted_worker_proof, Job
  <1>2. Started(job)
    BY DEF CanProve, Started
  <1>3. ASSUME next.status = "complete"
        PROVE  Proven(next)
    <2>1. CompletionReady(job, payload)
      BY <1>3 DEF apply_hosted_worker_proof, Job
    <2>2. ProofKeys \subseteq payload.evidence
      BY <2>1 DEF CompletionReady
    <2>3. /\ job.status = "rollback_requested" => RollbackKeys \subseteq payload.evidence
          /\ job.status = "detonation_requested" => DetonationKeys \subseteq payload.evidence
      BY <2>1 DEF CompletionReady, _maintenance_ready, MaintenanceKeys
    <2>4. CollectKeys \subseteq payload.evidence
      BY <2>2 DEF ProofKeys
    <2>5. {"retrieved_remote_artifacts", "run_record"} \subseteq payload.evidence
          /\ "rollback_metadata" \in payload.evidence
          /\ "detonation_receipt" \in payload.evidence
      BY <2>2 DEF ProofKeys, CollectKeys
    <2>6. \A s \in StepIds \ {"plan.approved", "worker.prepare"} : next.steps[s] = "done"
      BY <2>1, <2>3, <2>4, <2>5 DEF apply_hosted_worker_proof, DoneOrWaiting, Job, StepIds
    <2> QED
      BY <1>3, <2>6 DEF Proven, _completion_ready, StepIds
  <1> QED
    BY <1>1, <1>2, <1>3 DEF Sound

LEMMA LookupIsSound ==
  ASSUME IInv, NEW p \in Procs, NEW j \in Jobs, Known(j)
  PROVE  Sound(_lookup_hosted_job(p, j), stripe[j])
  BY DEF IInv, SnapshotsSound, _lookup_hosted_job

LEMMA SoundLater ==
  ASSUME NEW job, NEW old, NEW new, Sound(job, old), old = "paid" => new = "paid"
  PROVE  Sound(job, new)
  BY DEF Sound

(* A step that only changes Stripe, or nothing a snapshot is kept in.      *)
LEMMA SoundUnchanged ==
  ASSUME IInv, StripeMonotone, UNCHANGED <<cache, store, req>>
  PROVE  SnapshotsSound'
  <1>1. ASSUME NEW j \in Jobs, Known(j)
        PROVE  Sound(store[j], stripe'[j])
    BY <1>1, SoundLater DEF IInv, SnapshotsSound, StripeMonotone
  <1>2. ASSUME NEW p \in Procs, NEW j \in Jobs, cache[p][j] # NoJob
        PROVE  Sound(cache[p][j], stripe'[j])
    BY <1>2, SoundLater DEF IInv, SnapshotsSound, StripeMonotone
  <1>3. ASSUME NEW p \in Procs, ~Idle(p)
        PROVE  Sound(req[p].next, stripe'[req[p].job])
    <2>1. req[p].job \in Jobs
      BY <1>3 DEF IInv, TypeOK, Idle, Request
    <2> QED
      BY <1>3, <2>1, SoundLater DEF IInv, SnapshotsSound, StripeMonotone
  <1> QED
    BY <1>1, <1>2, <1>3 DEF SnapshotsSound, Known, Idle, Sound, Proven, _completion_ready,
                            Started

LEMMA AcceptIsSound ==
  ASSUME IInv, NEW p \in Procs, NEW j \in Jobs, NEW op, NEW phase, NEW next,
         Accept(p, j, op, phase, next), Sound(next, stripe[j]),
         StripeMonotone, UNCHANGED store
  PROVE  SnapshotsSound'
  <1> USE DEF SnapshotsSound
  <1>0. Sound(_lookup_hosted_job(p, j), stripe[j])
    BY LookupIsSound DEF Accept
  <1>1. ASSUME NEW i \in Jobs, Known(i)'
        PROVE  Sound(store'[i], stripe'[i])
    BY <1>1, SoundLater DEF IInv, StripeMonotone, Known
  <1>2. ASSUME NEW q \in Procs, NEW i \in Jobs, cache'[q][i] # NoJob
        PROVE  Sound(cache'[q][i], stripe'[i])
    <2>1. \/ cache'[q][i] = cache[q][i]
          \/ i = j /\ cache'[q][i] = _lookup_hosted_job(p, j)
      BY DEF Accept, Cached, IInv, TypeOK
    <2>2. Sound(cache'[q][i], stripe[i])
      BY <1>0, <1>2, <2>1 DEF IInv
    <2> QED
      BY <2>2, SoundLater DEF StripeMonotone
  <1>3. ASSUME NEW q \in Procs, ~Idle(q)'
        PROVE  Sound(req'[q].next, stripe'[req'[q].job])
    <2>1. req'[q].job \in Jobs /\ Sound(req'[q].next, stripe[req'[q].job])
      BY <1>3 DEF Accept, IInv, TypeOK, Idle, Request
    <2> QED
      BY <2>1, SoundLater DEF StripeMonotone
  <1> QED
    BY <1>1, <1>2, <1>3 DEF Sound, Proven, _completion_ready, Started

LEMMA SoundClick ==
  ASSUME IInv, NEW p \in Procs, NEW j \in Jobs, Click(p, j)
  PROVE  SnapshotsSound' /\ EnvelopesPaid'
  <1> DEFINE job == _lookup_hosted_job(p, j)
             held == Known(j) => job \in Job /\ Sound(job, stripe[j])
  <1>h. held
    BY LookupIsJob, LookupIsSound DEF IInv
  <1>1. ASSUME NEW lane \in Lanes, _github_control_room_response(p, j, lane)
        PROVE  SnapshotsSound' /\ EnvelopesPaid'
    <2>1. Sound(build_hosted_launch_job(lane), stripe[j])
      BY BuildIsSound
    <2>2. \A q \in Procs : ~(req'[q] = NoRequest) =>
            Sound(req'[q].next, stripe[req'[q].job])
      BY <1>1, <2>1 DEF _github_control_room_response, IInv, TypeOK, SnapshotsSound, Idle
    <2>3. UNCHANGED <<cache, store, stripe, envelopes>>
      BY <1>1 DEF _github_control_room_response
    <2> QED
      BY <2>2, <2>3 DEF IInv, SnapshotsSound, EnvelopesPaid, Known, Idle
  <1>2. CASE _hosted_job_response(p, j)
    <2>1. \A q \in Procs, i \in Jobs :
            \/ cache'[q][i] = cache[q][i]
            \/ i = j /\ cache'[q][i] = job
      BY <1>2 DEF _hosted_job_response, Cached, IInv, TypeOK
    <2>2. UNCHANGED <<store, req, stripe, envelopes>> /\ Known(j)
      BY <1>2 DEF _hosted_job_response
    <2> QED
      BY <1>h, <2>1, <2>2 DEF IInv, SnapshotsSound, EnvelopesPaid, Known, Idle
  <1>3. ASSUME NEW action \in Actions, _hosted_job_action_response(p, j, action)
        PROVE  SnapshotsSound' /\ EnvelopesPaid'
    <2> DEFINE next == advance_hosted_launch_job(job, action)
    <2>1. /\ Known(j) /\ CanAdvance(job, action)
          /\ ~_dispatch_action_requires_managed_payment(job, action)
          /\ Accept(p, j, action, IF Dispatches(job, action) THEN "dispatch" ELSE "remember",
                    next)
          /\ UNCHANGED <<store, stripe>>
      BY <1>3 DEF _hosted_job_action_response
    <2>2. job \in Job /\ Sound(job, stripe[j])
      BY <1>h, <2>1
    <2>3. Sound(next, stripe[j])
      BY <2>1, <2>2, AdvanceIsSound
    <2>4. SnapshotsSound'
      <3> HIDE DEF next, job
      <3> QED
        BY <2>1, <2>3, AcceptIsSound DEF StripeMonotone
    <2>5. Dispatches(job, action) => next.payment = "paid" /\ stripe[j] = "paid"
      <3>1. Dispatches(job, action) => job.lane = Managed /\ action # "stop"
        BY <2>2 DEF Dispatches, Job, Lanes
      <3>2. Dispatches(job, action) => job.payment = "paid"
        BY <2>1, <2>2, <3>1, AdvanceIsFunded
      <3>3. next.payment = job.payment
        BY <2>2 DEF advance_hosted_launch_job, Job
      <3> QED
        BY <2>2, <3>2, <3>3 DEF Sound
    <2>6. \A e \in envelopes' :
            \/ e \in envelopes
            \/ Dispatches(job, action) /\ e.job = j /\ e.payment = next.payment
      BY <1>3 DEF _hosted_job_action_response
    <2> QED
      BY <2>1, <2>4, <2>5, <2>6 DEF IInv, EnvelopesPaid
  <1>4. CASE _hosted_payment_checkout_response(p, j)
    <2> DEFINE next == with_hosted_job_payment_receipt(job, FALSE)
    <2>1. /\ Known(j) /\ Accept(p, j, "checkout", "remember", next)
          /\ UNCHANGED <<store, envelopes>>
      BY <1>4 DEF _hosted_payment_checkout_response
    <2>2. Sound(next, stripe[j])
      BY <1>h, <2>1, PaymentIsSound
    <2>3. StripeMonotone
      BY <1>4 DEF _hosted_payment_checkout_response, StripeMonotone, IInv, TypeOK
    <2> HIDE DEF next
    <2> QED
      BY <2>1, <2>2, <2>3, AcceptIsSound DEF IInv, EnvelopesPaid, StripeMonotone, TypeOK,
                                             Envelope
  <1>5. ASSUME NEW op, ApplyPayment(p, j, op)
        PROVE  SnapshotsSound' /\ EnvelopesPaid'
    <2> DEFINE next == with_hosted_job_payment_receipt(job, TRUE)
    <2>1. /\ Known(j) /\ stripe[j] = "paid" /\ Accept(p, j, op, "remember", next)
          /\ UNCHANGED <<store, stripe, envelopes>>
      BY <1>5 DEF ApplyPayment
    <2>2. Sound(next, stripe[j])
      BY <1>h, <2>1, PaymentIsSound
    <2> HIDE DEF next
    <2> QED
      BY <2>1, <2>2, AcceptIsSound DEF IInv, EnvelopesPaid, StripeMonotone
  <1>6. CASE _hosted_worker_claim_response(p, j)
    <2> DEFINE next == claim_hosted_launch_job(job)
    <2>1. /\ Known(j) /\ CanClaim(job) /\ Accept(p, j, "claim", "remember", next)
          /\ UNCHANGED <<store, stripe, envelopes>>
      BY <1>6 DEF _hosted_worker_claim_response
    <2>2. Sound(next, stripe[j])
      BY <1>h, <2>1, ClaimIsSound
    <2> HIDE DEF next
    <2> QED
      BY <2>1, <2>2, AcceptIsSound DEF IInv, EnvelopesPaid, StripeMonotone
  <1> QED
    BY <1>1, <1>2, <1>3, <1>4, <1>5, <1>6
    DEF Click, _hosted_payment_return_response, _hosted_stripe_webhook_response

LEMMA SoundProof ==
  ASSUME IInv, NEW p \in Procs, NEW j \in Jobs, NEW payload,
         _hosted_worker_proof_response(p, j, payload)
  PROVE  SnapshotsSound' /\ EnvelopesPaid'
  <1> DEFINE job  == _lookup_hosted_job(p, j)
             next == apply_hosted_worker_proof(job, payload)
  <1>1. /\ Known(j) /\ CanProve(job) /\ Accept(p, j, "proof", "remember", next)
        /\ UNCHANGED <<store, stripe, envelopes>>
    BY DEF _hosted_worker_proof_response
  <1>2. Sound(next, stripe[j])
    BY <1>1, LookupIsJob, LookupIsSound, ProofIsSound DEF IInv
  <1> HIDE DEF next
  <1> QED
    BY <1>1, <1>2, AcceptIsSound DEF IInv, EnvelopesPaid, StripeMonotone

LEMMA SoundContinue ==
  ASSUME IInv, NEW p \in Procs, Continue(p)
  PROVE  SnapshotsSound' /\ EnvelopesPaid'
  <1> USE DEF IInv, SnapshotsSound, EnvelopesPaid, Known, Idle
  <1>r. /\ UNCHANGED <<stripe, envelopes>>
        /\ req[p] # NoRequest =>
             /\ req[p] \in Request /\ req[p].job \in Jobs
             /\ Sound(req[p].next, stripe[req[p].job])
    BY DEF TypeOK, Request, Continue, DispatchAccepted, DispatchFailed,
           _remember_hosted_job, Remember, RememberFails, put_managed_start_response, put_stripe_webhook_receipt,
           ArtifactFails, Crash
  <1>1. CASE DispatchAccepted(p)
    BY <1>1, <1>r DEF TypeOK, DispatchAccepted, Request
  <1>2. CASE UNCHANGED <<cache, store>> /\ req' = [req EXCEPT ![p] = NoRequest]
    BY <1>2, <1>r DEF TypeOK
  <1>3. CASE _remember_hosted_job(p) \/ RememberFails(p)
    <2> DEFINE r       == req[p]
               written == [r EXCEPT !.phase = "artifact"]
    <2>1. /\ r # NoRequest
          /\ cache' = Cached(p, r.job, r.next)
          /\ store' = store \/ store' = [store EXCEPT ![r.job] = r.next]
          /\ \/ req' = [req EXCEPT ![p] = NoRequest]
             \/ req' = [req EXCEPT ![p] = written]
      BY <1>3 DEF _remember_hosted_job, Remember, RememberFails
    <2>2. \A i \in Jobs : store'[i] # NoJob => Sound(store'[i], stripe[i])
      BY <1>r, <2>1 DEF TypeOK
    <2>3. \A q \in Procs, i \in Jobs : cache'[q][i] # NoJob => Sound(cache'[q][i], stripe[i])
      BY <1>r, <2>1 DEF TypeOK, Cached
    <2>4. \A q \in Procs : req'[q] # NoRequest => Sound(req'[q].next, stripe[req'[q].job])
      <3>1. written.next = r.next /\ written.job = r.job
        BY <1>r, <2>1 DEF Request
      <3> HIDE DEF written
      <3>2. \A q \in Procs : req'[q] \in {req[q], NoRequest} \/ (q = p /\ req'[q] = written)
        BY <2>1 DEF TypeOK
      <3> QED
        BY <1>r, <2>1, <3>1, <3>2
    <2> QED
      BY <1>r, <2>2, <2>3, <2>4
  <1>4. CASE Crash(p)
    BY <1>4, <1>r DEF Crash, TypeOK, EmptyCache
  <1> QED
    BY <1>1, <1>2, <1>3, <1>4 DEF Continue, DispatchFailed, put_managed_start_response,
                                 put_stripe_webhook_receipt, ArtifactFails

LEMMA InvInit == Init => IInv
  BY TypeInit DEF Init, EmptyCache, IInv, SnapshotsSound, EnvelopesPaid, Known, Idle

LEMMA SoundPay ==
  ASSUME IInv, NEW j \in Jobs, Pay(j)
  PROVE  SnapshotsSound' /\ EnvelopesPaid'
  <1>1. StripeMonotone /\ UNCHANGED <<cache, store, req, envelopes>>
    BY DEF Pay, StripeMonotone, IInv, TypeOK
  <1> QED
    BY <1>1, SoundUnchanged DEF IInv, TypeOK, Envelope, EnvelopesPaid, StripeMonotone

LEMMA InvStep == IInv /\ [Next]_vars => IInv'
  <1> SUFFICES ASSUME IInv, [Next]_vars
               PROVE  SnapshotsSound' /\ EnvelopesPaid'
    BY TypeStep DEF IInv
  <1>1. CASE UNCHANGED vars
    BY <1>1, SoundUnchanged DEF vars, IInv, EnvelopesPaid, StripeMonotone
  <1> QED
    BY <1>1, SoundPay, SoundClick, SoundProof, SoundContinue DEF Next, Receive

(* The inductive invariant of every server behaviour.                      *)
THEOREM Invariance == Spec => []IInv
  BY InvInit, InvStep, PTL DEF Spec

LEMMA SnapshotIsSound ==
  ASSUME IInv, NEW j \in Jobs, NEW s \in Snapshots(j)
  PROVE  Sound(s, stripe[j])
  BY DEF IInv, SnapshotsSound, Snapshots, Known, Idle

(* Whatever the interleaving of checkouts, payments, clicks and crashes,   *)
(* no copy of a managed job is past its start before Stripe was paid.      *)
THEOREM PaidBeforeStarted == Spec => []MoneyBeforeWork
  <1>1. IInv => MoneyBeforeWork
    BY SnapshotIsSound DEF MoneyBeforeWork, Sound
  <1> QED
    BY <1>1, Invariance, PTL

(* Every envelope sent to the dispatch receiver is for a paid job and says *)
(* so: the two lists of statuses, in the payment gate and in               *)
(* advance_hosted_launch_job, agree on all a worker can be dispatched for. *)
THEOREM PaidBeforeDispatched == Spec => []EnvelopesPaid
  <1>1. IInv => EnvelopesPaid
    BY DEF IInv
  <1> QED
    BY <1>1, Invariance, PTL

(* A job that is complete in some copy has every step proven in that copy. *)
THEOREM ProvenWhenComplete == Spec => []CompleteMeansProven
  <1>1. IInv => CompleteMeansProven
    BY SnapshotIsSound DEF CompleteMeansProven, Sound, Proven
  <1> QED
    BY <1>1, Invariance, PTL

-----------------------------------------------------------------------------
(* The steps of the server, seen from the request: it arrives (a worker    *)
(* may post any proof), or goes on.                                        *)

Arrives(p, j) ==
  \/ Click(p, j)
  \/ \E payload \in ProofPayload : _hosted_worker_proof_response(p, j, payload)

LEMMA ServerTypes ==
  ASSUME IInv
  PROVE  /\ cache \in [Procs -> [Jobs -> Job \cup {NoJob}]]
         /\ store \in [Jobs -> Job \cup {NoJob}]
         /\ req \in [Procs -> Request \cup {NoRequest}]
         /\ stripe \in [Jobs -> {"none", "open", "paid"}]
         /\ \A p \in Procs : ~Idle(p) => /\ req[p] \in Request /\ req[p].op \in Ops
                                         /\ req[p].job \in Jobs /\ req[p].next \in Job
  BY DEF IInv, TypeOK, Idle, Request

(* The effect of an operation on a job, as a relation between what was     *)
(* looked up and the snapshot to remember.                                 *)
Edge(job, op, next) ==
  /\ next.lane = job.lane
  /\ \/ /\ op \in {"checkout", "payment_return", "payment_webhook"}
        /\ next.status = job.status /\ next.payment \in {"checkout_pending", "paid"}
     \/ /\ next.payment = job.payment
        /\ \/ /\ op \in Actions /\ job.status \in AdvanceFrom[op] /\ next.status = AdvanceTo[op]
              /\ job.lane # Managed \/ op = "stop" \/ job.payment = "paid"
           \/ /\ op = "claim" /\ job.status \in InFlight \ {"complete"}
              /\ next.status = "worker_claimed"
           \/ /\ op = "proof"
              /\ job.status \in {"worker_claimed", "proof_submitted", "rollback_requested",
                                 "detonation_requested"}
              /\ next.status \in {"proof_submitted", "complete"}

(* A new request of p on j: a new job, or an operation on the job that was *)
(* looked up.                                                              *)
NewRequest(p, j) ==
  /\ Idle(p) /\ req' \in [Procs -> Request \cup {NoRequest}]
  /\ req'[p] \in Request /\ req'[p].job = j /\ \A q \in Procs : q # p => req'[q] = req[q]
  /\ req'[p].phase # "artifact"
  /\ req'[p].phase = "dispatch" => req'[p].op \in Actions \ {"stop"}
  /\ \/ /\ ~Known(j) /\ UNCHANGED cache
        /\ req'[p].op = "create" /\ req'[p].phase = "remember"
        /\ \E lane \in Lanes : req'[p].next = build_hosted_launch_job(lane)
     \/ /\ Known(j) /\ cache' = Cached(p, j, _lookup_hosted_job(p, j))
        /\ Edge(_lookup_hosted_job(p, j), req'[p].op, req'[p].next)
        /\ req'[p].op \in {"checkout", "payment_return", "payment_webhook"}
             => _lookup_hosted_job(p, j).lane = Managed \/ stripe[j] = "paid"

LookedUp(p, j) ==
  Known(j) /\ cache' = Cached(p, j, _lookup_hosted_job(p, j)) /\ UNCHANGED req

LEMMA AcceptNew ==
  ASSUME IInv, NEW p \in Procs, NEW j \in Jobs, NEW op \in Ops, NEW phase \in Phases,
         NEW next \in Job, Accept(p, j, op, phase, next),
         phase # "artifact", phase = "dispatch" => op \in Actions \ {"stop"},
         Edge(_lookup_hosted_job(p, j), op, next),
         op \in {"checkout", "payment_return", "payment_webhook"}
           => _lookup_hosted_job(p, j).lane = Managed \/ stripe[j] = "paid"
  PROVE  NewRequest(p, j)
  <1> DEFINE r == [op |-> op, job |-> j, phase |-> phase, next |-> next]
  <1>1. /\ r \in Request /\ r.job = j /\ r.op = op /\ r.phase = phase /\ r.next = next
    BY DEF Request
  <1>2. /\ Idle(p) /\ Known(j) /\ req' = [req EXCEPT ![p] = r]
        /\ cache' = Cached(p, j, _lookup_hosted_job(p, j))
    BY DEF Accept
  <1> HIDE DEF r
  <1>3. /\ req' \in [Procs -> Request \cup {NoRequest}]
        /\ req'[p] = r /\ \A q \in Procs : q # p => req'[q] = req[q]
    BY <1>1, <1>2, ServerTypes
  <1> QED
    BY <1>1, <1>2, <1>3 DEF NewRequest

LEMMA EdgeAdvance ==
  ASSUME NEW job \in Job, NEW action \in Actions, CanAdvance(job, action),
         ~_dispatch_action_requires_managed_payment(job, action)
  PROVE  Edge(job, action, advance_hosted_launch_job(job, action))
  <1> DEFINE next == advance_hosted_launch_job(job, action)
  <1>1. next.status = AdvanceTo[action] /\ next.lane = job.lane /\ next.payment = job.payment
    BY DEF advance_hosted_launch_job, Job
  <1>2. job.lane # Managed \/ action = "stop" \/ job.payment = "paid"
    BY AdvanceIsFunded
  <1> QED
    BY <1>1, <1>2 DEF Edge, CanAdvance

LEMMA EdgePayment ==
  ASSUME NEW job \in Job, NEW op \in {"checkout", "payment_return", "payment_webhook"},
         NEW paid \in BOOLEAN
  PROVE  Edge(job, op, with_hosted_job_payment_receipt(job, paid))
  BY DEF Edge, with_hosted_job_payment_receipt, Job

LEMMA EdgeClaim ==
  ASSUME NEW job \in Job, CanClaim(job)
  PROVE  Edge(job, "claim", claim_hosted_launch_job(job))
  BY DEF Edge, CanClaim, InFlight, Statuses, claim_hosted_launch_job, Job

LEMMA EdgeProof ==
  ASSUME NEW job \in Job, NEW payload, CanProve(job)
  PROVE  Edge(job, "proof", apply_hosted_worker_proof(job, payload))
  BY DEF Edge, CanProve, apply_hosted_worker_proof, Job

(* Only a checkout tells Stripe of a job, and only of a managed one.       *)
StripeTold(p, j) ==
  \/ UNCHANGED stripe
  \/ /\ Known(j) /\ _lookup_hosted_job(p, j).lane = Managed
     /\ \A i \in Jobs \ {j} : stripe'[i] = stripe[i]

LEMMA Arrived ==
  ASSUME IInv, NEW p \in Procs, NEW j \in Jobs, Arrives(p, j)
  PROVE  /\ NewRequest(p, j) \/ LookedUp(p, j)
         /\ UNCHANGED <<store, startResponse>> /\ StripeMonotone /\ StripeTold(p, j)
  <1> DEFINE job   == _lookup_hosted_job(p, j)
             quiet == UNCHANGED <<store, startResponse, stripe>>
  <1>0. Known(j) => job \in Job
    BY LookupIsJob DEF IInv
  <1>1. ASSUME NEW lane \in Lanes, _github_control_room_response(p, j, lane)
        PROVE  NewRequest(p, j) /\ quiet
    <2> DEFINE next == build_hosted_launch_job(lane)
               r    == [op |-> "create", job |-> j, phase |-> "remember", next |-> next]
    <2>1. next \in Job
      BY BuildIsJob
    <2>2. /\ r \in Request /\ r.job = j /\ r.phase = "remember" /\ r.op = "create"
          /\ r.next = next
      BY <2>1 DEF Request, Ops, Phases
    <2>3. /\ Idle(p) /\ ~Known(j) /\ req' = [req EXCEPT ![p] = r] /\ cache' = cache
          /\ quiet
      BY <1>1 DEF _github_control_room_response, Fresh, Known
    <2>4. \E l \in Lanes : next = build_hosted_launch_job(l)
      OBVIOUS
    <2> HIDE DEF next, r
    <2>5. /\ req' \in [Procs -> Request \cup {NoRequest}]
          /\ req'[p] = r /\ \A q \in Procs : q # p => req'[q] = req[q]
      BY <2>2, <2>3, ServerTypes
    <2> QED
      BY <2>2, <2>3, <2>4, <2>5 DEF NewRequest
  <1>2. CASE _hosted_job_response(p, j)
    BY <1>2 DEF _hosted_job_response, LookedUp, StripeMonotone, StripeTold
  <1>3. ASSUME NEW action \in Actions, _hosted_job_action_response(p, j, action)
        PROVE  NewRequest(p, j) /\ quiet
    <2> DEFINE next  == advance_hosted_launch_job(job, action)
               phase == IF Dispatches(job, action) THEN "dispatch" ELSE "remember"
    <2>1. /\ Known(j) /\ CanAdvance(job, action) /\ Accept(p, j, action, phase, next)
          /\ ~_dispatch_action_requires_managed_payment(job, action)
          /\ quiet
      BY <1>3 DEF _hosted_job_action_response
    <2>2. next \in Job /\ Edge(job, action, next)
      BY <1>0, <2>1, AdvanceIsJob, EdgeAdvance
    <2>3. /\ action \in Ops /\ phase \in Phases /\ phase # "artifact"
          /\ phase = "dispatch" => action \in Actions \ {"stop"}
          /\ action \notin {"checkout", "payment_return", "payment_webhook"}
      BY DEF Ops, Phases, Dispatches, Actions
    <2> HIDE DEF next, phase, job
    <2> QED
      BY <2>1, <2>2, <2>3, AcceptNew DEF job
  <1>4. ASSUME NEW op \in Ops, NEW next \in Job, Accept(p, j, op, "remember", next),
               Edge(job, op, next),
               op \in {"checkout", "payment_return", "payment_webhook"}
                 => job.lane = Managed \/ stripe[j] = "paid"
        PROVE  NewRequest(p, j)
    <2>1. "remember" \in Phases
      BY DEF Phases
    <2> HIDE DEF job
    <2> QED
      BY <1>4, <2>1, AcceptNew DEF job
  <1>5. CASE _hosted_payment_checkout_response(p, j)
    <2> DEFINE next == with_hosted_job_payment_receipt(job, FALSE)
    <2>1. /\ Known(j) /\ job.lane = Managed /\ Accept(p, j, "checkout", "remember", next)
          /\ UNCHANGED <<store, startResponse>>
      BY <1>5 DEF _hosted_payment_checkout_response
    <2>2. next \in Job /\ Edge(job, "checkout", next) /\ "checkout" \in Ops
      BY <1>0, <2>1, PaymentIsJob, EdgePayment DEF Ops
    <2>3. StripeMonotone /\ \A i \in Jobs \ {j} : stripe'[i] = stripe[i]
      BY <1>5, ServerTypes DEF _hosted_payment_checkout_response, StripeMonotone
    <2> HIDE DEF next
    <2> QED
      BY <1>4, <2>1, <2>2, <2>3 DEF StripeTold
  <1>6. ASSUME NEW op \in {"payment_return", "payment_webhook"}, ApplyPayment(p, j, op)
        PROVE  NewRequest(p, j) /\ quiet
    <2> DEFINE next == with_hosted_job_payment_receipt(job, TRUE)
    <2>1. /\ Known(j) /\ stripe[j] = "paid" /\ Accept(p, j, op, "remember", next)
          /\ quiet
      BY <1>6 DEF ApplyPayment
    <2>2. next \in Job /\ Edge(job, op, next) /\ op \in Ops
      BY <1>0, <2>1, PaymentIsJob, EdgePayment DEF Ops
    <2> HIDE DEF next
    <2> QED
      BY <1>4, <2>1, <2>2
  <1>7. CASE _hosted_worker_claim_response(p, j)
    <2> DEFINE next == claim_hosted_launch_job(job)
    <2>1. /\ Known(j) /\ CanClaim(job) /\ Accept(p, j, "claim", "remember", next)
          /\ quiet
      BY <1>7 DEF _hosted_worker_claim_response
    <2>2. next \in Job /\ Edge(job, "claim", next) /\ "claim" \in Ops
      BY <1>0, <2>1, ClaimIsJob, EdgeClaim DEF Ops
    <2> HIDE DEF next
    <2> QED
      BY <1>4, <2>1, <2>2 DEF StripeMonotone, StripeTold
  <1>8. ASSUME NEW payload \in ProofPayload, _hosted_worker_proof_response(p, j, payload)
        PROVE  NewRequest(p, j) /\ quiet
    <2> DEFINE next == apply_hosted_worker_proof(job, payload)
    <2>1. /\ Known(j) /\ CanProve(job) /\ Accept(p, j, "proof", "remember", next)
          /\ quiet
      BY <1>8 DEF _hosted_worker_proof_response
    <2>2. next \in Job /\ Edge(job, "proof", next) /\ "proof" \in Ops
      BY <1>0, <2>1, ProofIsJob, EdgeProof DEF Ops
    <2> HIDE DEF next
    <2> QED
      BY <1>4, <2>1, <2>2
  <1> QED
    BY <1>1, <1>2, <1>3, <1>5, <1>6, <1>7, <1>8
    DEF Arrives, Click, _hosted_payment_return_response, _hosted_stripe_webhook_response,
        StripeMonotone, StripeTold

(* A request that goes on keeps its snapshot; it ends, or has an artifact  *)
(* to write after it was remembered.                                       *)
Proceeds(p) ==
  /\ ~Idle(p) /\ req' \in [Procs -> Request \cup {NoRequest}]
  /\ \A q \in Procs : q # p => req'[q] = req[q]
  /\ \/ req'[p] = NoRequest
     \/ /\ req'[p].op = req[p].op /\ req'[p].job = req[p].job /\ req'[p].next = req[p].next
        /\ \/ req[p].phase = "dispatch" /\ req'[p].phase = "remember"
           \/ req[p].phase = "remember" /\ req'[p].phase = "artifact"

LEMMA PhaseStep ==
  ASSUME IInv, NEW p \in Procs, ~Idle(p), NEW phase,
         \/ req[p].phase = "dispatch" /\ phase = "remember"
         \/ req[p].phase = "remember" /\ phase = "artifact",
         req' = [req EXCEPT ![p] = [@ EXCEPT !.phase = phase]]
  PROVE  Proceeds(p)
  <1> DEFINE r == [req[p] EXCEPT !.phase = phase]
  <1>1. /\ r \in Request /\ r.op = req[p].op /\ r.job = req[p].job /\ r.next = req[p].next
        /\ r.phase = phase
    BY ServerTypes DEF Request, Phases
  <1>2. req' = [req EXCEPT ![p] = r]
    OBVIOUS
  <1> HIDE DEF r
  <1> QED
    BY <1>1, <1>2, ServerTypes DEF Proceeds

LEMMA EndStep ==
  ASSUME IInv, NEW p \in Procs, ~Idle(p), req' = [req EXCEPT ![p] = NoRequest]
  PROVE  Proceeds(p)
  BY ServerTypes DEF Proceeds

(* Whatever a request does but being remembered.                           *)
Goes(p) ==
  \/ DispatchAccepted(p) \/ DispatchFailed(p)
  \/ RememberFails(p) \/ ArtifactFails(p)
  \/ put_managed_start_response(p) \/ put_stripe_webhook_receipt(p)

LEMMA Remembered ==
  ASSUME IInv, NEW p \in Procs, _remember_hosted_job(p)
  PROVE  /\ Proceeds(p) /\ UNCHANGED <<stripe, startResponse>> /\ req[p].phase = "remember"
         /\ cache' = Cached(p, req[p].job, req[p].next)
         /\ store' = [store EXCEPT ![req[p].job] = req[p].next]
  BY PhaseStep, EndStep DEF _remember_hosted_job, Remember

LEMMA Proceeded ==
  ASSUME IInv, NEW p \in Procs, Goes(p)
  PROVE  /\ Proceeds(p) /\ UNCHANGED <<stripe, store>>
         /\ req'[p] # NoRequest => req'[p].phase = "remember"
         /\ UNCHANGED cache \/ RememberFails(p)
         /\ \/ UNCHANGED startResponse
            \/ /\ req[p].phase = "artifact" /\ req[p].op = "start"
               /\ startResponse' = startResponse \cup {req[p].job}
  <1>1. CASE DispatchAccepted(p)
    <2>1. Proceeds(p)
      BY <1>1, PhaseStep DEF DispatchAccepted
    <2> QED
      BY <1>1, <2>1 DEF DispatchAccepted, Proceeds
  <1>2. CASE \/ DispatchFailed(p) \/ RememberFails(p) \/ put_managed_start_response(p)
             \/ put_stripe_webhook_receipt(p) \/ ArtifactFails(p)
    <2>1. Proceeds(p) /\ req'[p] = NoRequest
      BY <1>2, EndStep, ServerTypes
      DEF DispatchFailed, RememberFails, put_managed_start_response,
          put_stripe_webhook_receipt, ArtifactFails
    <2> QED
      BY <1>2, <2>1
      DEF DispatchFailed, RememberFails, put_managed_start_response,
          put_stripe_webhook_receipt, ArtifactFails
  <1> QED
    BY <1>1, <1>2 DEF Goes

ServerMoves ==
  \/ \E p \in Procs, j \in Jobs : Arrives(p, j)
  \/ \E p \in Procs : _remember_hosted_job(p) \/ Goes(p) \/ Crash(p)
  \/ (\E j \in Jobs : Pay(j)) \/ UNCHANGED vars

LEMMA ServerNext ==
  ASSUME [Next]_vars
  PROVE  ServerMoves
  <1>1. ASSUME NEW p \in Procs, NEW j \in Jobs, Receive(p, j)
        PROVE  Arrives(p, j)
    BY <1>1, PayloadsAssumption DEF Receive, Arrives
  <1> QED
    BY <1>1 DEF ServerMoves, Next, Continue, Goes

-----------------------------------------------------------------------------
(* A single process.  No request is overtaken by another one between its   *)
(* lookup and its put, so what it remembers is what it looked up with one  *)
(* operation applied.  A cache that outlives a request keeps a snapshot    *)
(* whose put failed, and later operations build on it: where the store is  *)
(* to be the truth, caches are short-lived or puts succeed.                *)

OneProcess == \A p, q \in Procs : p = q

FaithfulCaches == LongLived = {} \/ "store" \notin Faults

NoCache == \A p \in Procs \ LongLived, j \in Jobs : cache[p][j] = NoJob

CacheFresh ==
  \A p \in Procs, j \in Jobs : cache[p][j] # NoJob => Known(j) /\ cache[p][j] = store[j]

LEMMA CachedAt ==
  ASSUME TypeOK, NEW p \in Procs, NEW j \in Jobs, NEW job, NEW q \in Procs, NEW i \in Jobs
  PROVE  Cached(p, j, job)[q][i] =
           IF q = p /\ i = j /\ p \in LongLived THEN job ELSE cache[q][i]
  BY DEF TypeOK, Cached

LEMMA FreshLookup ==
  ASSUME CacheFresh, NEW p \in Procs, NEW j \in Jobs
  PROVE  _lookup_hosted_job(p, j) = store[j]
  BY DEF CacheFresh, _lookup_hosted_job

(* With faithful caches a request that goes on, but is not remembered,     *)
(* changes no copy of a job.                                               *)
LEMMA GoesQuietly ==
  ASSUME IInv, FaithfulCaches, NEW p \in Procs, Goes(p)
  PROVE  Proceeds(p) /\ UNCHANGED <<store, cache>>
  BY Proceeded DEF FaithfulCaches, RememberFails, Cached

(* What an arriving request leaves in the caches.                          *)
LEMMA ArrivedCache ==
  ASSUME IInv, NEW p \in Procs, NEW j \in Jobs, Arrives(p, j), NEW q \in Procs, NEW i \in Jobs
  PROVE  \/ cache'[q][i] = cache[q][i]
         \/ q = p /\ i = j /\ p \in LongLived /\ Known(j)
            /\ cache'[q][i] = _lookup_hosted_job(p, j)
  <1>1. cache' = cache \/ (Known(j) /\ cache' = Cached(p, j, _lookup_hosted_job(p, j)))
    BY Arrived DEF NewRequest, LookedUp
  <1> QED
    BY <1>1, CachedAt DEF IInv

LEMMA RememberedCache ==
  ASSUME IInv, NEW p \in Procs, _remember_hosted_job(p), NEW q \in Procs, NEW i \in Jobs
  PROVE  /\ cache'[q][i] = IF q = p /\ i = req[p].job /\ p \in LongLived
                           THEN req[p].next ELSE cache[q][i]
         /\ store'[i] = IF i = req[p].job THEN req[p].next ELSE store[i]
  <1>1. req[p].job \in Jobs
    BY ServerTypes DEF _remember_hosted_job, Remember
  <1> QED
    BY <1>1, Remembered, CachedAt, ServerTypes DEF IInv

LEMMA Crashed ==
  ASSUME IInv, NEW p \in Procs, Crash(p)
  PROVE  /\ \A q \in Procs, j \in Jobs : cache'[q][j] = NoJob \/ cache'[q][j] = cache[q][j]
         /\ \A q \in Procs : req'[q] = NoRequest \/ req'[q] = req[q]
         /\ UNCHANGED <<store, stripe, startResponse>>
  BY ServerTypes DEF Crash, EmptyCache

LEMMA NoCacheStep ==
  ASSUME IInv, NoCache, ServerMoves
  PROVE  NoCache'
  <1> SUFFICES ASSUME NEW q \in Procs \ LongLived, NEW i \in Jobs
               PROVE  cache'[q][i] = NoJob
    BY DEF NoCache
  <1>1. cache[q][i] = NoJob
    BY DEF NoCache
  <1>2. ASSUME NEW p \in Procs, Goes(p)
        PROVE  cache'[q][i] = NoJob
    <2>1. cache' = cache \/ (req[p].job \in Jobs /\ cache' = Cached(p, req[p].job, req[p].next))
      BY <1>2, Proceeded, ServerTypes DEF RememberFails
    <2> QED
      BY <1>1, <2>1, CachedAt DEF IInv
  <1>3. ASSUME NEW p \in Procs, NEW j \in Jobs, Arrives(p, j)
        PROVE  cache'[q][i] = NoJob
    BY <1>1, <1>3, ArrivedCache
  <1>4. ASSUME NEW p \in Procs, _remember_hosted_job(p) \/ Crash(p)
        PROVE  cache'[q][i] = NoJob
    BY <1>1, <1>4, RememberedCache, Crashed
  <1> QED
    BY <1>1, <1>2, <1>3, <1>4 DEF ServerMoves, Pay, vars

LEMMA CacheFreshStep ==
  ASSUME OneProcess, FaithfulCaches, IInv, NoCache, CacheFresh, ServerMoves
  PROVE  CacheFresh'
  <1> SUFFICES ASSUME NEW q \in Procs, NEW i \in Jobs, cache'[q][i] # NoJob
               PROVE  store'[i] # NoJob /\ cache'[q][i] = store'[i]
    BY DEF CacheFresh, Known
  <1>1. cache[q][i] # NoJob => store[i] # NoJob /\ cache[q][i] = store[i]
    BY DEF CacheFresh, Known
  <1>2. ASSUME NEW p \in Procs, NEW j \in Jobs, Arrives(p, j)
        PROVE  store'[i] # NoJob /\ cache'[q][i] = store'[i]
    <2>1. store' = store
      BY <1>2, Arrived
    <2> QED
      BY <1>1, <1>2, <2>1, ArrivedCache, FreshLookup DEF Known
  <1>3. ASSUME NEW p \in Procs, _remember_hosted_job(p)
        PROVE  store'[i] # NoJob /\ cache'[q][i] = store'[i]
    <2>1. q = p
      BY DEF OneProcess
    <2> QED
      BY <1>1, <1>3, <2>1, RememberedCache DEF NoCache
  <1>4. ASSUME NEW p \in Procs, Goes(p) \/ Crash(p)
        PROVE  store'[i] # NoJob /\ cache'[q][i] = store'[i]
    BY <1>1, <1>4, GoesQuietly, Crashed
  <1> QED
    BY <1>1, <1>2, <1>3, <1>4 DEF ServerMoves, Pay, vars

-----------------------------------------------------------------------------
(* The managed-start artifact.  Once a start was remembered, each copy of  *)
(* the job is started, and an operation on a started job gives one.        *)

Begun(j) ==
  \/ j \in startResponse
  \/ \E p \in Procs : ~Idle(p) /\ req[p].phase = "artifact" /\ req[p].op = "start"
                      /\ req[p].job = j

StartsJob == \A p \in Procs : ~Idle(p) /\ req[p].op = "start" => Started(req[p].next)

BegunStarted ==
  \A j \in Jobs : Begun(j) =>
    /\ Known(j) /\ Started(store[j])
    /\ \A p \in Procs : cache[p][j] # NoJob => Started(cache[p][j])
    /\ \A p \in Procs : ~Idle(p) /\ req[p].job = j => Started(req[p].next)

ArtifactInv == NoCache /\ StartsJob /\ BegunStarted

(* No other process holds a copy of a job.                                 *)
Alone(p) == \A q \in Procs : q # p => Idle(q) /\ \A j \in Jobs : cache[q][j] = NoJob

LEMMA EdgeStarts ==
  ASSUME NEW job, NEW op, NEW next, Edge(job, op, next)
  PROVE  /\ Started(job) \/ op = "start" => Started(next)
         /\ Started(next) => Started(job) \/ op = "start"
         /\ next.status = "rollback_requested" => job.status = next.status \/ op = "rollback"
         /\ next.status = "detonation_requested" => job.status = next.status \/ op = "detonate"
  BY DEF Edge, Started, Actions, AdvanceFrom, AdvanceTo, InFlight

LEMMA StartsJobStep ==
  ASSUME IInv, StartsJob, ServerMoves
  PROVE  StartsJob'
  <1> SUFFICES ASSUME NEW q \in Procs, req'[q] # NoRequest, req'[q].op = "start"
               PROVE  Started(req'[q].next)
    BY DEF StartsJob, Idle, Started
  <1>1. CASE req'[q] = req[q]
    BY <1>1 DEF StartsJob, Idle
  <1>2. ASSUME NEW j \in Jobs, NewRequest(q, j)
        PROVE  Started(req'[q].next)
    BY <1>2, EdgeStarts DEF NewRequest
  <1>3. CASE Proceeds(q)
    BY <1>3 DEF Proceeds, StartsJob
  <1>4. ASSUME NEW p \in Procs, NEW j \in Jobs, Arrives(p, j)
        PROVE  Started(req'[q].next)
    BY <1>1, <1>2, <1>4, Arrived DEF NewRequest, LookedUp
  <1>5. ASSUME NEW p \in Procs, _remember_hosted_job(p) \/ Goes(p) \/ Crash(p)
        PROVE  Started(req'[q].next)
    BY <1>1, <1>3, <1>5, Remembered, Proceeded, Crashed DEF Proceeds
  <1> QED
    BY <1>1, <1>4, <1>5 DEF ServerMoves, Pay, vars

LEMMA ArrivedBegun ==
  ASSUME IInv, BegunStarted, NEW p \in Procs, NEW j \in Jobs, Arrives(p, j)
  PROVE  BegunStarted'
  <1>1. (NewRequest(p, j) \/ LookedUp(p, j)) /\ UNCHANGED <<store, startResponse>>
    BY Arrived
  <1> SUFFICES ASSUME NEW i \in Jobs, Begun(i)'
               PROVE  /\ store'[i] # NoJob /\ Started(store'[i])
                      /\ \A q \in Procs : cache'[q][i] # NoJob => Started(cache'[q][i])
                      /\ \A q \in Procs : req'[q] # NoRequest /\ req'[q].job = i
                                            => Started(req'[q].next)
    BY DEF BegunStarted, Known, Idle, Started
  <1>2. Begun(i)
    BY <1>1 DEF Begun, NewRequest, LookedUp, Idle
  <1>3. Known(i) /\ Started(store[i])
    BY <1>2 DEF BegunStarted
  <1>4. \A q \in Procs : Started(_lookup_hosted_job(q, i))
    BY <1>2 DEF BegunStarted, _lookup_hosted_job
  <1>5. \A q \in Procs : cache'[q][i] # NoJob => Started(cache'[q][i])
    BY <1>2, <1>4, ArrivedCache DEF BegunStarted
  <1>6. ASSUME NEW q \in Procs, req'[q] # NoRequest, req'[q].job = i
        PROVE  Started(req'[q].next)
    <2>1. CASE req'[q] = req[q]
      BY <1>2, <1>6, <2>1 DEF BegunStarted, Idle
    <2>2. CASE q = p /\ NewRequest(p, j)
      BY <1>3, <1>4, <1>6, <2>2, EdgeStarts DEF NewRequest
    <2> QED
      BY <1>1, <2>1, <2>2 DEF NewRequest, LookedUp
  <1> QED
    BY <1>1, <1>3, <1>5, <1>6 DEF Known

LEMMA RememberedBegun ==
  ASSUME IInv, NoCache, StartsJob, BegunStarted,
         NEW p \in Procs, _remember_hosted_job(p), Alone(p)
  PROVE  BegunStarted'
  <1> DEFINE j    == req[p].job
             next == req[p].next
  <1>1. ~Idle(p) /\ req[p] # NoRequest /\ next # NoJob
    BY ServerTypes, NoJobAssumption DEF _remember_hosted_job, Remember, Idle
  <1>2. Proceeds(p) /\ req[p].phase = "remember" /\ UNCHANGED startResponse
    BY Remembered
  <1> SUFFICES ASSUME NEW i \in Jobs, Begun(i)'
               PROVE  /\ store'[i] # NoJob /\ Started(store'[i])
                      /\ \A q \in Procs : cache'[q][i] # NoJob => Started(cache'[q][i])
                      /\ \A q \in Procs : req'[q] # NoRequest /\ req'[q].job = i
                                            => Started(req'[q].next)
    BY DEF BegunStarted, Known, Idle, Started
  <1>3. Begun(i) \/ (i = j /\ req[p].op = "start")
    BY <1>2 DEF Begun, Proceeds, Idle
  <1>4. i = j => Started(next)
    BY <1>1, <1>3 DEF BegunStarted, StartsJob
  <1>5. store'[i] # NoJob /\ Started(store'[i])
    BY <1>1, <1>3, <1>4, RememberedCache DEF BegunStarted, Known
  <1>6. ASSUME NEW q \in Procs, cache'[q][i] # NoJob
        PROVE  Started(cache'[q][i])
    <2>1. q = p
      BY <1>6, RememberedCache DEF Alone
    <2> QED
      BY <1>3, <1>4, <1>6, <2>1, RememberedCache DEF NoCache, BegunStarted
  <1>7. ASSUME NEW q \in Procs, req'[q] # NoRequest, req'[q].job = i
        PROVE  Started(req'[q].next)
    <2>1. q = p
      BY <1>2, <1>7 DEF Proceeds, Alone, Idle
    <2> QED
      BY <1>2, <1>4, <1>7, <2>1 DEF Proceeds
  <1> QED
    BY <1>5, <1>6, <1>7

LEMMA GoneBegun ==
  ASSUME IInv, BegunStarted, NEW p \in Procs, Goes(p)
  PROVE  BegunStarted'
  <1>1. /\ ~Idle(p) /\ Proceeds(p) /\ UNCHANGED store /\ req[p].job \in Jobs
        /\ req'[p] # NoRequest => req'[p].phase = "remember"
        /\ UNCHANGED cache \/ cache' = Cached(p, req[p].job, req[p].next)
        /\ \/ UNCHANGED startResponse
           \/ /\ req[p].phase = "artifact" /\ req[p].op = "start"
              /\ startResponse' = startResponse \cup {req[p].job}
    BY Proceeded, ServerTypes DEF Proceeds, RememberFails
  <1> SUFFICES ASSUME NEW i \in Jobs, Begun(i)'
               PROVE  /\ store[i] # NoJob /\ Started(store[i])
                      /\ \A q \in Procs : cache'[q][i] # NoJob => Started(cache'[q][i])
                      /\ \A q \in Procs : req'[q] # NoRequest /\ req'[q].job = i
                                            => Started(req'[q].next)
    BY <1>1 DEF BegunStarted, Known, Idle, Started
  <1>2. Begun(i)
    BY <1>1 DEF Begun, Proceeds, Idle
  <1>3. ASSUME NEW q \in Procs, cache'[q][i] # NoJob
        PROVE  Started(cache'[q][i])
    <2>1. \/ cache'[q][i] = cache[q][i]
          \/ i = req[p].job /\ cache'[q][i] = req[p].next
      BY <1>1, CachedAt DEF IInv
    <2> QED
      BY <1>1, <1>2, <1>3, <2>1 DEF BegunStarted
  <1>4. ASSUME NEW q \in Procs, req'[q] # NoRequest, req'[q].job = i
        PROVE  Started(req'[q].next)
    BY <1>1, <1>2, <1>4 DEF Proceeds, BegunStarted, Idle
  <1> QED
    BY <1>2, <1>3, <1>4 DEF BegunStarted, Known

LEMMA ArtifactStep ==
  ASSUME IInv, ArtifactInv, ServerMoves,
         \A p \in Procs : _remember_hosted_job(p) => Alone(p)
  PROVE  ArtifactInv'
  <1>1. NoCache' /\ StartsJob'
    BY NoCacheStep, StartsJobStep DEF ArtifactInv
  <1>2. ASSUME NEW p \in Procs, Crash(p)
        PROVE  BegunStarted'
    BY <1>2, Crashed DEF ArtifactInv, BegunStarted, Begun, Known, Idle, Started
  <1>3. ASSUME UNCHANGED <<cache, store, req, startResponse>>
        PROVE  BegunStarted'
    BY <1>3 DEF ArtifactInv, BegunStarted, Begun, Known, Idle, Started
  <1>4. BegunStarted'
    BY <1>2, <1>3, ArrivedBegun, RememberedBegun, GoneBegun DEF ArtifactInv, ServerMoves, Pay, vars
  <1> QED
    BY <1>1, <1>4 DEF ArtifactInv

LEMMA ArtifactInit == Init => ArtifactInv
  BY DEF Init, EmptyCache, ArtifactInv, NoCache, StartsJob, BegunStarted, Begun, Idle

(* The managed-start artifact of a single process never speaks of a job    *)
(* that looks unstarted in the store, whatever its cache keeps, whichever  *)
(* put fails and whenever it dies.                                         *)
THEOREM ArtifactTrue ==
  ASSUME OneProcess
  PROVE  Spec => []ArtifactMeansStarted
  <1>1. Init => IInv /\ ArtifactInv
    BY InvInit, ArtifactInit
  <1>2. (IInv /\ ArtifactInv) /\ [Next]_vars => (IInv /\ ArtifactInv)'
    BY InvStep, ServerNext, ArtifactStep DEF OneProcess, Alone
  <1>3. IInv /\ ArtifactInv => ArtifactMeansStarted
    BY DEF IInv, TypeOK, ArtifactInv, BegunStarted, Begun, ArtifactMeansStarted
  <1> QED
    BY <1>1, <1>2, <1>3, PTL DEF Spec

-----------------------------------------------------------------------------
(* The life cycle.  A pending request holds the next snapshot of the       *)
(* stored job, so that remembering it is one operation on the durable job; *)
(* nothing else writes the store.                                          *)

PaymentOps == {"checkout", "payment_return", "payment_webhook"}

PendingOperation(r) ==
  \/ /\ ~Known(r.job) /\ r.op = "create"
     /\ \E lane \in Lanes : r.next = build_hosted_launch_job(lane)
  \/ /\ Known(r.job) /\ Edge(store[r.job], r.op, r.next)
     /\ r.op \in PaymentOps => store[r.job].lane = Managed

OperationsPending ==
  \A p \in Procs : ~Idle(p) /\ req[p].phase # "artifact" => PendingOperation(req[p])

(* Stripe knows managed jobs only.                                         *)
ManagedCharged == \A j \in Jobs : stripe[j] # "none" => Known(j) /\ store[j].lane = Managed

LifecycleInv == NoCache /\ CacheFresh /\ OperationsPending /\ ManagedCharged

LEMMA PendingStep ==
  ASSUME OneProcess, FaithfulCaches, IInv, LifecycleInv, ServerMoves
  PROVE  OperationsPending'
  <1> SUFFICES ASSUME NEW q \in Procs, req'[q] # NoRequest, req'[q].phase # "artifact"
               PROVE  PendingOperation(req[q])'
    BY DEF OperationsPending, Idle
  <1>1. req[q] # NoRequest /\ req[q].phase # "artifact" => PendingOperation(req[q])
    BY DEF LifecycleInv, OperationsPending, Idle
  <1>2. CASE UNCHANGED store /\ req'[q] = req[q]
    BY <1>1, <1>2 DEF PendingOperation, Known
  <1>3. ASSUME NEW j \in Jobs, NewRequest(q, j), UNCHANGED store
        PROVE  PendingOperation(req[q])'
    <2>1. _lookup_hosted_job(q, j) = store[j] /\ (stripe[j] = "paid" => store[j].lane = Managed)
      BY FreshLookup DEF LifecycleInv, ManagedCharged
    <2> QED
      BY <1>3, <2>1 DEF NewRequest, PendingOperation, Known, PaymentOps
  <1>4. ASSUME NEW p \in Procs, NEW j \in Jobs, Arrives(p, j)
        PROVE  PendingOperation(req[q])'
    <2>1. q = p /\ UNCHANGED store /\ (NewRequest(p, j) \/ LookedUp(p, j))
      BY <1>4, Arrived DEF OneProcess
    <2> QED
      BY <1>2, <1>3, <2>1 DEF LookedUp
  <1>5. ASSUME NEW p \in Procs, _remember_hosted_job(p)
        PROVE  PendingOperation(req[q])'
    <2>1. q = p
      BY DEF OneProcess
    <2> QED
      BY <1>5, <2>1, Remembered DEF Proceeds
  <1>6. ASSUME NEW p \in Procs, Goes(p)
        PROVE  PendingOperation(req[q])'
    <2>1. q = p
      BY DEF OneProcess
    <2>2. /\ UNCHANGED store /\ req[q] # NoRequest /\ req[q].phase # "artifact"
          /\ req'[q].op = req[q].op /\ req'[q].job = req[q].job /\ req'[q].next = req[q].next
      BY <1>6, <2>1, GoesQuietly DEF Proceeds, Idle
    <2> QED
      BY <1>1, <2>2 DEF PendingOperation, Known
  <1> QED
    BY <1>2, <1>4, <1>5, <1>6, Crashed DEF ServerMoves, Pay, vars

(* What a request remembers is the next snapshot of the stored job.        *)
LEMMA RememberedNext ==
  ASSUME IInv, OperationsPending, NEW p \in Procs, _remember_hosted_job(p)
  PROVE  /\ PendingOperation(req[p]) /\ req[p].job \in Jobs /\ req[p].next \in Job
         /\ store' = [store EXCEPT ![req[p].job] = req[p].next] /\ UNCHANGED stripe
  BY Remembered, ServerTypes DEF OperationsPending, Proceeds

LEMMA ChargedStep ==
  ASSUME OneProcess, FaithfulCaches, IInv, LifecycleInv, ServerMoves
  PROVE  ManagedCharged'
  <1> SUFFICES ASSUME NEW i \in Jobs, stripe'[i] # "none"
               PROVE  store'[i] # NoJob /\ store'[i].lane = Managed
    BY DEF ManagedCharged, Known
  <1>1. stripe[i] # "none" => store[i] # NoJob /\ store[i].lane = Managed
    BY DEF LifecycleInv, ManagedCharged, Known
  <1>2. ASSUME NEW p \in Procs, NEW j \in Jobs, Arrives(p, j)
        PROVE  store'[i] # NoJob /\ store'[i].lane = Managed
    BY <1>1, <1>2, Arrived, FreshLookup DEF StripeTold, LifecycleInv, Known
  <1>3. ASSUME NEW p \in Procs, _remember_hosted_job(p)
        PROVE  store'[i] # NoJob /\ store'[i].lane = Managed
    <2>1. /\ PendingOperation(req[p]) /\ req[p].next \in Job /\ UNCHANGED stripe
          /\ store' = [store EXCEPT ![req[p].job] = req[p].next]
      BY <1>3, RememberedNext DEF LifecycleInv
    <2>2. CASE i = req[p].job
      BY <1>1, <2>1, <2>2, ServerTypes, NoJobAssumption DEF PendingOperation, Known, Edge
    <2> QED
      BY <1>1, <2>1, <2>2, ServerTypes
  <1>4. ASSUME NEW p \in Procs, Goes(p) \/ Crash(p)
        PROVE  store'[i] # NoJob /\ store'[i].lane = Managed
    BY <1>1, <1>4, Proceeded, Crashed
  <1>5. ASSUME NEW j \in Jobs, Pay(j)
        PROVE  store'[i] # NoJob /\ store'[i].lane = Managed
    BY <1>1, <1>5, ServerTypes DEF Pay
  <1> QED
    BY <1>1, <1>2, <1>3, <1>4, <1>5 DEF ServerMoves, vars

LEMMA LifecycleInvStep ==
  ASSUME OneProcess, FaithfulCaches, IInv, LifecycleInv, ServerMoves
  PROVE  LifecycleInv'
  BY NoCacheStep, CacheFreshStep, PendingStep, ChargedStep DEF LifecycleInv

LEMMA LifecycleInvInit == Init => LifecycleInv
  BY DEF Init, EmptyCache, LifecycleInv, NoCache, CacheFresh, OperationsPending,
         ManagedCharged, Idle

(* One put is one operation of the life cycle.                             *)
LEMMA PutIsOperation ==
  ASSUME IInv, NEW r \in Request, PendingOperation(r), store' = [store EXCEPT ![r.job] = r.next]
  PROVE  Lifecycle!Next
  <1> DEFINE j    == r.job
             next == r.next
             job  == store[j]
  <1>1. j \in Jobs /\ next \in Job /\ next # NoJob /\ store \in [Jobs -> Job \cup {NoJob}]
    BY ServerTypes, NoJobAssumption DEF Request
  <1>2. /\ StoredStatus' = [StoredStatus EXCEPT ![j] = next.status]
        /\ StoredPayment' = [StoredPayment EXCEPT ![j] = next.payment]
        /\ StoredManaged' = [StoredManaged EXCEPT ![j] = (next.lane = Managed)]
    BY <1>1 DEF StoredStatus, StoredPayment, StoredManaged, Known
  <1>3. CASE ~Known(j)
    <2>1. StoredStatus[j] = NoJob /\ StoredManaged[j] = FALSE
      BY <1>1, <1>3 DEF StoredStatus, StoredManaged
    <2>2. PICK lane \in Lanes : next = build_hosted_launch_job(lane)
      BY <1>3 DEF PendingOperation
    <2>3. /\ next.status = "waiting_for_worker" /\ next.lane = lane
          /\ next.payment = IF lane = Managed THEN "payment_required" ELSE "not_required"
      BY <2>2 DEF build_hosted_launch_job
    <2>4. lane # Managed => StoredManaged' = StoredManaged
      BY <1>2, <2>1, <2>3 DEF StoredManaged
    <2>5. Lifecycle!Create(j)
      BY <1>2, <2>1, <2>3, <2>4 DEF Lifecycle!Create
    <2> QED
      BY <1>1, <2>5 DEF Lifecycle!Next
  <1>4. CASE Known(j)
    <2>1. /\ StoredStatus[j] = job.status /\ StoredPayment[j] = job.payment
          /\ StoredManaged[j] = (job.lane = Managed) /\ job \in Job
      BY <1>1, <1>4 DEF StoredStatus, StoredPayment, StoredManaged, Known
    <2>2. Edge(job, r.op, next) /\ (r.op \in PaymentOps => job.lane = Managed)
      BY <1>4 DEF PendingOperation
    <2>3. StoredManaged' = StoredManaged
      BY <1>2, <2>1, <2>2 DEF StoredManaged, Edge
    <2>4. CASE r.op \in PaymentOps
      <3>1. next.status = job.status /\ next.payment \in {"checkout_pending", "paid"}
        BY <2>2, <2>4 DEF Edge, PaymentOps, Actions
      <3>2. StoredStatus' = StoredStatus /\ StoredStatus[j] # NoJob
        BY <1>2, <2>1, <3>1, NoJobAssumption DEF StoredStatus, Job
      <3>3. Lifecycle!Charge(j)
        BY <1>2, <2>1, <2>2, <2>3, <2>4, <3>1, <3>2 DEF Lifecycle!Charge
      <3> QED
        BY <1>1, <3>3 DEF Lifecycle!Next
    <2>5. CASE r.op \notin PaymentOps
      <3>1. next.payment = job.payment
        BY <2>2, <2>5 DEF Edge, PaymentOps
      <3>2. StoredPayment' = StoredPayment
        BY <1>2, <2>1, <3>1 DEF StoredPayment
      <3> DEFINE Moves(from, to) == Lifecycle!Move(j, from, to)
      <3>3. ASSUME NEW from, job.status \in from
            PROVE  Moves(from, next.status)
        BY <1>2, <2>1, <2>3, <3>2, <3>3 DEF Lifecycle!Move
      <3>4. CASE r.op \in Actions
        <4>1. /\ job.status \in AdvanceFrom[r.op] /\ next.status = AdvanceTo[r.op]
              /\ job.lane # Managed \/ r.op = "stop" \/ job.payment = "paid"
          BY <2>2, <3>4 DEF Edge, Actions
        <4>2. r.op # "stop" => Lifecycle!Funded(j)
          BY <2>1, <4>1 DEF Lifecycle!Funded
        <4>3. CASE r.op = "start"
          BY <1>1, <3>3, <4>1, <4>2, <4>3
          DEF Lifecycle!Next, Lifecycle!Start, AdvanceFrom, AdvanceTo
        <4>4. CASE r.op = "stop"
          BY <1>1, <3>3, <4>1, <4>4
          DEF Lifecycle!Next, Lifecycle!Stop, AdvanceFrom, AdvanceTo
        <4>5. CASE r.op = "rollback"
          <5>1. Lifecycle!Rollback(j)
            BY <3>3, <4>1, <4>2, <4>5
            DEF Lifecycle!Rollback, Lifecycle!Running, AdvanceFrom, AdvanceTo, InFlight
          <5> QED
            BY <1>1, <5>1 DEF Lifecycle!Next
        <4>6. CASE r.op = "detonate"
          <5>1. Lifecycle!Detonate(j)
            BY <3>3, <4>1, <4>2, <4>6
            DEF Lifecycle!Detonate, Lifecycle!Running, AdvanceFrom, AdvanceTo, InFlight
          <5> QED
            BY <1>1, <5>1 DEF Lifecycle!Next
        <4> QED
          BY <3>4, <4>3, <4>4, <4>5, <4>6 DEF Actions
      <3>5. CASE r.op = "claim"
        <4>1. job.status \in InFlight \ {"complete"} /\ next.status = "worker_claimed"
          BY <2>2, <3>5 DEF Edge, Actions
        <4>2. Lifecycle!Claim(j)
          BY <3>3, <4>1 DEF Lifecycle!Claim, Lifecycle!Running, InFlight
        <4> QED
          BY <1>1, <4>2 DEF Lifecycle!Next
      <3>6. CASE r.op = "proof"
        <4>1. /\ job.status \in {"worker_claimed", "proof_submitted", "rollback_requested",
                                 "detonation_requested"}
              /\ next.status \in {"proof_submitted", "complete"}
          BY <2>2, <3>6 DEF Edge, Actions
        <4>2. Lifecycle!Prove(j)
          BY <3>3, <4>1 DEF Lifecycle!Prove
        <4> QED
          BY <1>1, <4>2 DEF Lifecycle!Next
      <3> QED
        BY <2>2, <2>5, <3>4, <3>5, <3>6 DEF Edge, PaymentOps
    <2> QED
      BY <2>4, <2>5
  <1> QED
    BY <1>3, <1>4

LEMMA LifecycleStep ==
  ASSUME OneProcess, FaithfulCaches, IInv, LifecycleInv, ServerMoves
  PROVE  [Lifecycle!Next]_(Lifecycle!lifecycleVars)
  <1>1. CASE UNCHANGED store
    BY <1>1 DEF Lifecycle!lifecycleVars, StoredStatus, StoredPayment, StoredManaged, Known
  <1>2. ASSUME NEW p \in Procs, _remember_hosted_job(p)
        PROVE  Lifecycle!Next
    <2>1. req[p] \in Request
      BY <1>2, ServerTypes DEF _remember_hosted_job, Remember
    <2> QED
      BY <1>2, <2>1, RememberedNext, PutIsOperation DEF LifecycleInv
  <1> QED
    BY <1>1, <1>2, Arrived, Proceeded, Crashed DEF ServerMoves, Pay, vars

LEMMA LifecycleInit == Init => Lifecycle!Init
  BY DEF Init, Lifecycle!Init, StoredStatus, StoredPayment, StoredManaged, Known

(* With one process, and either a cache per request or puts that succeed,  *)
(* the server implements the life cycle of a job: every durable write is   *)
(* one legal operation on the durable job.                                 *)
THEOREM LifecycleKept ==
  ASSUME OneProcess, FaithfulCaches
  PROVE  Spec => ImplementsLifecycle
  <1>1. Init => IInv /\ LifecycleInv /\ Lifecycle!Init
    BY InvInit, LifecycleInvInit, LifecycleInit
  <1>2. (IInv /\ LifecycleInv) /\ [Next]_vars =>
          (IInv /\ LifecycleInv)' /\ [Lifecycle!Next]_(Lifecycle!lifecycleVars)
    BY InvStep, ServerNext, LifecycleInvStep, LifecycleStep
  <1> QED
    BY <1>1, <1>2, PTL DEF Spec, ImplementsLifecycle, Lifecycle!Spec

=============================================================================
