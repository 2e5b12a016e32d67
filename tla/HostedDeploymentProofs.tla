------------------------ MODULE HostedDeploymentProofs ------------------------
(***************************************************************************)
(* Proofs about HostedDeployment, for every set of jobs, processes and     *)
(* payloads, every deployment over a store or without one, every set of    *)
(* faults and any number of tokens, of any age, presented in any order.    *)
(***************************************************************************)
EXTENDS HostedDeployment, HostedServerProofs

-----------------------------------------------------------------------------
(* The invariant.  A snapshot may be old, but what it claims stays true:   *)
(* Stripe does not take a payment back, and an envelope stays sent.        *)

StartSent(j, sent) == \E e \in sent : e.job = j /\ e.action = "start"

OnRecord(s, j, sent) == s.lane = Managed /\ Started(s) => StartSent(j, sent)

StartsRecorded ==
  /\ \A j \in Jobs : Known(j) => OnRecord(store[j], j, envelopes)
  /\ \A p \in Procs, j \in Jobs : cache[p][j] # NoJob => OnRecord(cache[p][j], j, envelopes)
  /\ \A p \in Procs : ~Idle(p) => OnRecord(req[p].next, req[p].job, envelopes)
  /\ \A t \in tokens : OnRecord(t.snapshot, t.job, envelopes)

TokensSound == \A t \in tokens : Sound(t.snapshot, stripe[t.job])

CopiesInv ==
  IInv /\ tokens \subseteq Token /\ TokensSound /\ StartsRecorded /\ MaintenanceFollowsStart

(* Only the processes of the deployment run.                               *)
OthersQuiet ==
  \A q \in Procs \ deployment.procs : Idle(q) /\ \A j \in Jobs : cache[q][j] = NoJob

Single == \A p, q \in deployment.procs : p = q

ArtifactHolds ==
  IF deployment.durable THEN Single => ArtifactInv ELSE startResponse = {}

DeployedInv ==
  CopiesInv /\ deployment \in Deployments /\ OthersQuiet /\ ArtifactHolds

-----------------------------------------------------------------------------
(* Operations keep what is on record. *)

LEMMA OnRecordLater ==
  ASSUME NEW s, NEW j, NEW sent, NEW later, sent \subseteq later, OnRecord(s, j, sent)
  PROVE  OnRecord(s, j, later)
  BY DEF OnRecord, StartSent

LEMMA OperationRecorded ==
  ASSUME NEW job, NEW op, NEW next, Edge(job, op, next), NEW j, NEW sent,
         OnRecord(job, j, sent),
         op = "start" /\ next.lane = Managed => StartSent(j, sent)
  PROVE  OnRecord(next, j, sent)
  <1>1. next.lane = job.lane
    BY DEF Edge
  <1> QED
    BY <1>1, EdgeStarts DEF OnRecord

LEMMA BuildRecorded ==
  ASSUME NEW lane \in Lanes, NEW j, NEW sent
  PROVE  OnRecord(build_hosted_launch_job(lane), j, sent)
  BY DEF OnRecord, Started, build_hosted_launch_job

(* Maintenance is dispatched only of a managed job that was started.       *)
LEMMA MaintenanceFromStarted ==
  ASSUME NEW job \in Job, NEW action \in {"rollback", "detonate"}, CanAdvance(job, action)
  PROVE  Started(job)
  BY DEF CanAdvance, AdvanceFrom, InFlight, Started

LEMMA DispatchIsManaged ==
  ASSUME NEW job \in Job, NEW action, Dispatches(job, action)
  PROVE  job.lane = Managed
  BY DEF Dispatches, Job, Lanes

LEMMA EnvelopeFollowsStart ==
  ASSUME MaintenanceFollowsStart, NEW job \in Job, NEW j \in Jobs, NEW action \in Actions,
         NEW payment, OnRecord(job, j, envelopes), CanAdvance(job, action),
         Dispatches(job, action),
         envelopes' = envelopes \cup {[job |-> j, action |-> action, payment |-> payment]}
  PROVE  MaintenanceFollowsStart'
  <1>1. SUFFICES ASSUME NEW e \in envelopes', e.action \in {"rollback", "detonate"}
                 PROVE  \E s \in envelopes' : s.job = e.job /\ s.action = "start"
    BY DEF MaintenanceFollowsStart
  <1>2. CASE e \in envelopes
    BY <1>1, <1>2 DEF MaintenanceFollowsStart
  <1>3. CASE e.job = j /\ e.action = action
    <2>1. StartSent(j, envelopes)
      BY <1>1, <1>3, MaintenanceFromStarted, DispatchIsManaged DEF OnRecord
    <2> QED
      BY <1>3, <2>1 DEF StartSent
  <1> QED
    BY <1>1, <1>2, <1>3

-----------------------------------------------------------------------------
(* The server over its store. *)

(* What an arriving request may send to the receiver.                      *)
Sends(p, j) ==
  \/ /\ UNCHANGED envelopes
     /\ req' = req \/ req'[p].op # "start" \/ req'[p].next.lane # Managed
  \/ \E action \in Actions, payment \in PaymentStatuses :
       /\ Known(j) /\ CanAdvance(_lookup_hosted_job(p, j), action)
       /\ Dispatches(_lookup_hosted_job(p, j), action)
       /\ req'[p].op = action
       /\ envelopes' = envelopes \cup {[job |-> j, action |-> action, payment |-> payment]}

LEMMA ActionSends ==
  ASSUME IInv, NEW p \in Procs, NEW j \in Jobs, NEW action \in Actions,
         _hosted_job_action_response(p, j, action)
  PROVE  Sends(p, j)
  <1> DEFINE job   == _lookup_hosted_job(p, j)
             next  == advance_hosted_launch_job(job, action)
             phase == IF Dispatches(job, action) THEN "dispatch" ELSE "remember"
             r     == [op |-> action, job |-> j, phase |-> phase, next |-> next]
  <1>1. /\ Known(j) /\ CanAdvance(job, action)
        /\ req' = [req EXCEPT ![p] = r]
        /\ envelopes' = IF Dispatches(job, action)
                        THEN envelopes \cup
                               {[job |-> j, action |-> action, payment |-> next.payment]}
                        ELSE envelopes
    BY DEF _hosted_job_action_response, Accept
  <1>2. job \in Job /\ next \in Job
    BY <1>1, LookupIsJob, AdvanceIsJob DEF IInv
  <1>3. r.op = action /\ r.next = next
    OBVIOUS
  <1>4. next.lane = job.lane
    BY <1>2 DEF advance_hosted_launch_job, Job
  <1>5. req'[p] = r
    BY <1>1, ServerTypes
  <1>6. CASE Dispatches(job, action)
    <2>1. next.payment \in PaymentStatuses
      BY <1>2 DEF Job
    <2> HIDE DEF r, next
    <2> QED
      BY <1>1, <1>3, <1>5, <1>6, <2>1 DEF Sends
  <1>7. CASE ~Dispatches(job, action)
    <2>1. action # "start" \/ next.lane # Managed
      BY <1>2, <1>4, <1>7 DEF Dispatches, Managed, ByoOci
    <2> HIDE DEF r, job, next
    <2> QED
      BY <1>1, <1>3, <1>5, <1>7, <2>1 DEF Sends
  <1> QED
    BY <1>6, <1>7

LEMMA ArrivalSends ==
  ASSUME IInv, NEW p \in Procs, NEW j \in Jobs, Arrives(p, j)
  PROVE  Sends(p, j)
  <1>1. CASE _hosted_job_response(p, j)
    BY <1>1 DEF _hosted_job_response, Sends
  <1>2. ASSUME NEW lane \in Lanes, _github_control_room_response(p, j, lane)
        PROVE  Sends(p, j)
    BY <1>2, ServerTypes DEF _github_control_room_response, Sends
  <1>3. ASSUME NEW op, op # "start", NEW phase, NEW next, Accept(p, j, op, phase, next),
               UNCHANGED envelopes
        PROVE  Sends(p, j)
    BY <1>3, ServerTypes DEF Accept, Sends
  <1>4. CASE _hosted_payment_checkout_response(p, j)
    BY <1>3, <1>4 DEF _hosted_payment_checkout_response
  <1>5. ASSUME NEW op \in {"payment_return", "payment_webhook"}, ApplyPayment(p, j, op)
        PROVE  Sends(p, j)
    BY <1>3, <1>5 DEF ApplyPayment
  <1>6. CASE _hosted_worker_claim_response(p, j)
    BY <1>3, <1>6 DEF _hosted_worker_claim_response
  <1>7. ASSUME NEW payload \in ProofPayload, _hosted_worker_proof_response(p, j, payload)
        PROVE  Sends(p, j)
    BY <1>3, <1>7 DEF _hosted_worker_proof_response
  <1> QED
    BY <1>1, <1>2, <1>4, <1>5, <1>6, <1>7, ActionSends
    DEF Arrives, Click, _hosted_payment_return_response, _hosted_stripe_webhook_response

(* Every snapshot after a step is an old copy, or about to be remembered   *)
(* and on record; envelopes stay sent.                                     *)
LEMMA CopiesRecorded ==
  ASSUME StartsRecorded, UNCHANGED tokens, envelopes \subseteq envelopes',
         \A j \in Jobs : store'[j] # NoJob => OnRecord(store'[j], j, envelopes'),
         \A p \in Procs, j \in Jobs :
           cache'[p][j] # NoJob => OnRecord(cache'[p][j], j, envelopes'),
         \A p \in Procs : req'[p] # NoRequest => OnRecord(req'[p].next, req'[p].job, envelopes')
  PROVE  StartsRecorded'
  <1>1. \A t \in tokens : OnRecord(t.snapshot, t.job, envelopes')
    BY OnRecordLater DEF StartsRecorded
  <1> QED
    BY <1>1 DEF StartsRecorded, Known, Idle, OnRecord, StartSent, Started

LEMMA LookupRecorded ==
  ASSUME StartsRecorded, NEW p \in Procs, NEW j \in Jobs, Known(j)
  PROVE  OnRecord(_lookup_hosted_job(p, j), j, envelopes)
  BY DEF StartsRecorded, _lookup_hosted_job

LEMMA SentEnvelopes ==
  ASSUME IInv, StartsRecorded, MaintenanceFollowsStart, NEW p \in Procs, NEW j \in Jobs,
         Sends(p, j)
  PROVE  /\ envelopes \subseteq envelopes' /\ MaintenanceFollowsStart'
         /\ \/ req' = req \/ req'[p].op # "start" \/ req'[p].next.lane # Managed
            \/ StartSent(j, envelopes')
  <1>1. CASE UNCHANGED envelopes /\
             (req' = req \/ req'[p].op # "start" \/ req'[p].next.lane # Managed)
    BY <1>1 DEF MaintenanceFollowsStart
  <1>2. ASSUME NEW action \in Actions, NEW payment,
               Known(j), CanAdvance(_lookup_hosted_job(p, j), action),
               Dispatches(_lookup_hosted_job(p, j), action), req'[p].op = action,
               envelopes' = envelopes \cup
                 {[job |-> j, action |-> action, payment |-> payment]}
        PROVE  /\ envelopes \subseteq envelopes' /\ MaintenanceFollowsStart'
               /\ req'[p].op # "start" \/ StartSent(j, envelopes')
    <2> DEFINE job == _lookup_hosted_job(p, j)
    <2>1. job \in Job /\ OnRecord(job, j, envelopes)
      BY <1>2, LookupIsJob, LookupRecorded DEF IInv
    <2> HIDE DEF job
    <2>2. CanAdvance(job, action) /\ Dispatches(job, action)
      BY <1>2 DEF job
    <2>3. MaintenanceFollowsStart'
      BY <1>2, <2>1, <2>2, EnvelopeFollowsStart
    <2>4. action = "start" => StartSent(j, envelopes')
      <3> DEFINE e == [job |-> j, action |-> action, payment |-> payment]
      <3>1. e \in envelopes' /\ e.job = j /\ e.action = action
        BY <1>2
      <3> QED
        BY <3>1 DEF StartSent
    <2> QED
      BY <1>2, <2>3, <2>4
  <1> QED
    BY <1>1, <1>2 DEF Sends

LEMMA ArrivedRecorded ==
  ASSUME IInv, StartsRecorded, MaintenanceFollowsStart, NEW p \in Procs, NEW j \in Jobs,
         Arrives(p, j), UNCHANGED tokens
  PROVE  StartsRecorded' /\ MaintenanceFollowsStart'
  <1>1. /\ NewRequest(p, j) \/ LookedUp(p, j)
        /\ UNCHANGED store
    BY Arrived
  <1>2. /\ envelopes \subseteq envelopes' /\ MaintenanceFollowsStart'
        /\ \/ req' = req \/ req'[p].op # "start" \/ req'[p].next.lane # Managed
           \/ StartSent(j, envelopes')
    BY ArrivalSends, SentEnvelopes
  <1>3. \A i \in Jobs : store'[i] # NoJob => OnRecord(store'[i], i, envelopes')
    BY <1>1, <1>2, OnRecordLater DEF StartsRecorded, Known
  <1>4. ASSUME NEW q \in Procs, NEW i \in Jobs, cache'[q][i] # NoJob
        PROVE  OnRecord(cache'[q][i], i, envelopes')
    <2>1. OnRecord(cache'[q][i], i, envelopes)
      BY <1>4, ArrivedCache, LookupRecorded DEF StartsRecorded
    <2> QED
      BY <1>2, <2>1, OnRecordLater
  <1>5. ASSUME NEW q \in Procs, req'[q] # NoRequest
        PROVE  OnRecord(req'[q].next, req'[q].job, envelopes')
    <2>1. CASE req'[q] = req[q]
      BY <1>2, <1>5, <2>1, OnRecordLater DEF StartsRecorded, Idle
    <2>2. CASE q = p /\ NewRequest(p, j) /\ req' # req
      <3> DEFINE job == _lookup_hosted_job(p, j)
                 r   == req'[p]
      <3>1. r.job = j /\ (r.op # "start" \/ r.next.lane # Managed \/ StartSent(j, envelopes'))
        BY <1>2, <2>2 DEF NewRequest
      <3>2. ASSUME NEW lane \in Lanes, r.next = build_hosted_launch_job(lane)
            PROVE  OnRecord(r.next, j, envelopes')
        BY <3>2, BuildRecorded
      <3>3. ASSUME Known(j), Edge(job, r.op, r.next)
            PROVE  OnRecord(r.next, j, envelopes')
        <4>1. OnRecord(job, j, envelopes')
          BY <1>2, <3>3, LookupRecorded, OnRecordLater
        <4> HIDE DEF job
        <4> QED
          BY <3>1, <3>3, <4>1, OperationRecorded
      <3> QED
        BY <2>2, <3>1, <3>2, <3>3 DEF NewRequest
    <2> QED
      BY <1>1, <2>1, <2>2 DEF NewRequest, LookedUp
  <1> QED
    BY <1>2, <1>3, <1>4, <1>5, CopiesRecorded

LEMMA ContinueSendsNothing ==
  ASSUME NEW p \in Procs, Continue(p)
  PROVE  UNCHANGED envelopes
  BY DEF Continue, DispatchAccepted, DispatchFailed, _remember_hosted_job, Remember,
         RememberFails, put_managed_start_response, put_stripe_webhook_receipt,
         ArtifactFails, Crash

LEMMA ContinuedRecorded ==
  ASSUME IInv, StartsRecorded, MaintenanceFollowsStart, NEW p \in Procs, Continue(p),
         UNCHANGED tokens
  PROVE  StartsRecorded' /\ MaintenanceFollowsStart'
  <1>1. UNCHANGED envelopes
    BY ContinueSendsNothing
  <1>2. ~Idle(p) => req[p].job \in Jobs /\ OnRecord(req[p].next, req[p].job, envelopes)
    BY ServerTypes DEF StartsRecorded
  <1>3. \A q \in Procs : req[q] # NoRequest => OnRecord(req[q].next, req[q].job, envelopes)
    BY DEF StartsRecorded, Idle
  <1>4. CASE _remember_hosted_job(p)
    <2>1. Proceeds(p)
      BY <1>4, Remembered
    <2>2. \A q \in Procs : req'[q] # NoRequest => OnRecord(req'[q].next, req'[q].job, envelopes)
      BY <1>2, <1>3, <2>1 DEF Proceeds
    <2>3. \A i \in Jobs : store'[i] # NoJob => OnRecord(store'[i], i, envelopes)
      BY <1>2, <1>4, <2>1, RememberedCache DEF StartsRecorded, Known, Proceeds
    <2>4. \A q \in Procs, i \in Jobs :
            cache'[q][i] # NoJob => OnRecord(cache'[q][i], i, envelopes)
      BY <1>2, <1>4, <2>1, RememberedCache DEF StartsRecorded, Proceeds
    <2> QED
      BY <1>1, <2>2, <2>3, <2>4, CopiesRecorded DEF MaintenanceFollowsStart
  <1>5. CASE Goes(p)
    <2>1. /\ Proceeds(p) /\ UNCHANGED store
          /\ UNCHANGED cache \/ cache' = Cached(p, req[p].job, req[p].next)
      BY <1>5, Proceeded DEF RememberFails
    <2>2. \A q \in Procs : req'[q] # NoRequest => OnRecord(req'[q].next, req'[q].job, envelopes)
      BY <1>2, <1>3, <2>1 DEF Proceeds
    <2>3. \A i \in Jobs : store'[i] # NoJob => OnRecord(store'[i], i, envelopes)
      BY <2>1 DEF StartsRecorded, Known
    <2>4. ASSUME NEW q \in Procs, NEW i \in Jobs, cache'[q][i] # NoJob
          PROVE  OnRecord(cache'[q][i], i, envelopes)
      <3>1. \/ cache'[q][i] = cache[q][i]
            \/ i = req[p].job /\ cache'[q][i] = req[p].next
        BY <1>2, <2>1, CachedAt DEF IInv, Proceeds
      <3> QED
        BY <1>2, <2>1, <2>4, <3>1 DEF StartsRecorded, Proceeds
    <2> QED
      BY <1>1, <2>2, <2>3, <2>4, CopiesRecorded DEF MaintenanceFollowsStart
  <1>6. CASE Crash(p)
    <2>1. /\ \A q \in Procs, i \in Jobs : cache'[q][i] = NoJob \/ cache'[q][i] = cache[q][i]
          /\ \A q \in Procs : req'[q] = NoRequest \/ req'[q] = req[q]
          /\ UNCHANGED store
      BY <1>6, Crashed
    <2> QED
      BY <1>1, <1>3, <2>1, CopiesRecorded DEF MaintenanceFollowsStart, StartsRecorded, Known
  <1> QED
    BY <1>4, <1>5, <1>6 DEF Continue, Goes

LEMMA StripeStep ==
  ASSUME IInv, [Next]_vars
  PROVE  StripeMonotone
  <1>1. ASSUME NEW p \in Procs, NEW j \in Jobs, Arrives(p, j)
        PROVE  StripeMonotone
    BY <1>1, Arrived
  <1>2. ASSUME NEW p \in Procs, _remember_hosted_job(p) \/ Goes(p) \/ Crash(p)
        PROVE  StripeMonotone
    BY <1>2, Remembered, Proceeded, Crashed DEF StripeMonotone
  <1>3. ASSUME NEW j \in Jobs, Pay(j)
        PROVE  StripeMonotone
    BY <1>3, ServerTypes DEF Pay, StripeMonotone
  <1> QED
    BY <1>1, <1>2, <1>3, ServerNext DEF ServerMoves, StripeMonotone, vars

LEMMA StillRecorded ==
  ASSUME StartsRecorded, MaintenanceFollowsStart, UNCHANGED <<cache, store, req, envelopes>>,
         tokens' \subseteq tokens
  PROVE  StartsRecorded' /\ MaintenanceFollowsStart'
  BY DEF StartsRecorded, MaintenanceFollowsStart, OnRecord, StartSent, Started, Known, Idle

(* Every step of the server of HostedServer leaves the copies sound and on *)
(* record.                                                                 *)
LEMMA ServerKeepsCopies ==
  ASSUME CopiesInv, [Next]_vars, UNCHANGED tokens
  PROVE  CopiesInv'
  <1>1. IInv'
    BY InvStep DEF CopiesInv
  <1>2. TokensSound' /\ (tokens \subseteq Token)'
    <2>1. StripeMonotone
      BY StripeStep DEF CopiesInv
    <2> QED
      BY <2>1, SoundLater DEF CopiesInv, TokensSound, StripeMonotone, Token, Sound, Started,
                              Proven, _completion_ready
  <1>3. StartsRecorded' /\ MaintenanceFollowsStart'
    <2>1. ASSUME NEW p \in Procs, NEW j \in Jobs, Arrives(p, j)
          PROVE  StartsRecorded' /\ MaintenanceFollowsStart'
      BY <2>1, ArrivedRecorded DEF CopiesInv
    <2>2. ASSUME NEW p \in Procs, Continue(p)
          PROVE  StartsRecorded' /\ MaintenanceFollowsStart'
      BY <2>2, ContinuedRecorded DEF CopiesInv
    <2>3. CASE UNCHANGED <<cache, store, req, envelopes>>
      BY <2>3, StillRecorded DEF CopiesInv
    <2> QED
      BY <2>1, <2>2, <2>3, ServerNext DEF ServerMoves, Goes, Continue, Pay, vars
  <1> QED
    BY <1>1, <1>2, <1>3 DEF CopiesInv

-----------------------------------------------------------------------------
(* The server without a store.  A token is one more copy; a request on it  *)
(* puts copies of the job it found, or of the next snapshot, elsewhere.    *)

(* A snapshot that may be kept anywhere.                                   *)
Fit(s, j, sent) == s \in Job /\ Sound(s, stripe[j]) /\ OnRecord(s, j, sent)

LEMMA TokenStep ==
  ASSUME CopiesInv, NEW p \in Procs, NEW j \in Jobs,
         NEW held, Fit(held, j, envelopes), cache' = cache \/ cache' = Cached(p, j, held),
         NEW r \in Request \cup {NoRequest},
         r # NoRequest => r.job = j /\ Fit(r.next, j, envelopes'),
         req' = req \/ req' = [req EXCEPT ![p] = r],
         UNCHANGED <<store, startResponse, webhookReceipt>>,
         stripe' \in [Jobs -> {"none", "open", "paid"}], StripeMonotone,
         envelopes \subseteq envelopes', envelopes' \subseteq Envelope,
         EnvelopesPaid', MaintenanceFollowsStart',
         \A u \in tokens' :
           u \in tokens \/ (u \in Token /\ u.job = j /\ Fit(u.snapshot, j, envelopes'))
  PROVE  CopiesInv'
  <1> USE DEF Fit
  <1>1. TypeOK'
    <2>1. TypeOK
      BY DEF CopiesInv, IInv
    <2>2. cache' \in [Procs -> [Jobs -> Job \cup {NoJob}]]
      BY <2>1, CachedType DEF TypeOK
    <2>3. req' \in [Procs -> Request \cup {NoRequest}]
      BY <2>1 DEF TypeOK
    <2> QED
      BY <2>1, <2>2, <2>3 DEF TypeOK
  <1>2. tokens' \subseteq Token
    BY DEF CopiesInv
  <1>3. \A i \in Jobs : store'[i] # NoJob =>
          Sound(store'[i], stripe'[i]) /\ OnRecord(store'[i], i, envelopes')
    BY SoundLater, OnRecordLater
    DEF CopiesInv, IInv, SnapshotsSound, StartsRecorded, StripeMonotone, Known
  <1>4. ASSUME NEW q \in Procs, NEW i \in Jobs, cache'[q][i] # NoJob
        PROVE  Sound(cache'[q][i], stripe'[i]) /\ OnRecord(cache'[q][i], i, envelopes')
    <2>1. cache'[q][i] = cache[q][i] \/ (i = j /\ cache'[q][i] = held)
      BY CachedAt DEF CopiesInv, IInv
    <2>2. Sound(cache'[q][i], stripe[i]) /\ OnRecord(cache'[q][i], i, envelopes)
      BY <1>4, <2>1 DEF CopiesInv, IInv, SnapshotsSound, StartsRecorded
    <2> QED
      BY <2>2, SoundLater, OnRecordLater DEF StripeMonotone
  <1>5. ASSUME NEW q \in Procs, req'[q] # NoRequest
        PROVE  /\ Sound(req'[q].next, stripe'[req'[q].job])
               /\ OnRecord(req'[q].next, req'[q].job, envelopes')
    <2>1. req'[q] = req[q] \/ req'[q] = r
      BY ServerTypes DEF CopiesInv
    <2>2. CASE req'[q] = req[q]
      <3>1. /\ req[q].job \in Jobs /\ Sound(req[q].next, stripe[req[q].job])
            /\ OnRecord(req[q].next, req[q].job, envelopes)
        BY <1>5, <2>2, ServerTypes DEF CopiesInv, IInv, SnapshotsSound, StartsRecorded, Idle
      <3> QED
        BY <2>2, <3>1, SoundLater, OnRecordLater DEF StripeMonotone
    <2>3. CASE req'[q] = r
      BY <1>5, <2>3, SoundLater DEF StripeMonotone
    <2> QED
      BY <2>1, <2>2, <2>3
  <1>6. ASSUME NEW u \in tokens'
        PROVE  Sound(u.snapshot, stripe'[u.job]) /\ OnRecord(u.snapshot, u.job, envelopes')
    <2>1. CASE u \in tokens
      <3>1. /\ u.job \in Jobs /\ Sound(u.snapshot, stripe[u.job])
            /\ OnRecord(u.snapshot, u.job, envelopes)
        BY <2>1 DEF CopiesInv, Token, TokensSound, StartsRecorded
      <3> QED
        BY <3>1, SoundLater, OnRecordLater DEF StripeMonotone
    <2>2. CASE u.job = j /\ Fit(u.snapshot, j, envelopes')
      BY <2>2, SoundLater DEF StripeMonotone
    <2> QED
      BY <2>1, <2>2
  <1>7. SnapshotsSound'
    BY <1>3, <1>4, <1>5
    DEF SnapshotsSound, Known, Idle, Sound, Proven, _completion_ready, Started
  <1>8. TokensSound'
    BY <1>6 DEF TokensSound, Sound, Proven, _completion_ready, Started
  <1>9. StartsRecorded'
    BY <1>3, <1>4, <1>5, <1>6 DEF StartsRecorded, Known, Idle, OnRecord, StartSent, Started
  <1> QED
    BY <1>1, <1>2, <1>7, <1>8, <1>9 DEF CopiesInv, IInv

LEMMA FoundFits ==
  ASSUME CopiesInv, NEW p \in Procs, NEW t \in tokens
  PROVE  t \in Token /\ t.job \in Jobs /\ Fit(Found(p, t), t.job, envelopes)
  <1>1. t \in Token /\ t.job \in Jobs /\ Fit(t.snapshot, t.job, envelopes)
    BY DEF CopiesInv, Token, TokensSound, StartsRecorded, Fit
  <1>2. cache[p][t.job] # NoJob => Fit(cache[p][t.job], t.job, envelopes)
    BY <1>1, ServerTypes DEF CopiesInv, IInv, SnapshotsSound, StartsRecorded, Fit
  <1> QED
    BY <1>1, <1>2 DEF Found

LEMMA GrantedTokens ==
  ASSUME NEW granted, Grant(granted)
  PROVE  tokens' = tokens \cup granted
  BY DEF Grant

LEMMA JobTokenFits ==
  ASSUME NEW j \in Jobs, NEW job \in Job
  PROVE  /\ JobToken(j, job) \in Token /\ PaymentToken(j, job) \in Token
         /\ JobToken(j, job).job = j /\ JobToken(j, job).snapshot = job
         /\ PaymentToken(j, job).job = j /\ PaymentToken(j, job).snapshot = job
  BY DEF JobToken, PaymentToken, Token

(* A request with a token, in the form of TokenStep.                       *)
LEMMA RecoverStep ==
  ASSUME CopiesInv, NEW p \in Procs, NEW t \in tokens, NEW op \in Ops, NEW phase \in Phases,
         NEW next, Recover(p, t, op, phase, next), Fit(next, t.job, envelopes'),
         stripe' \in [Jobs -> {"none", "open", "paid"}], StripeMonotone,
         envelopes \subseteq envelopes', envelopes' \subseteq Envelope,
         EnvelopesPaid', MaintenanceFollowsStart',
         \A u \in tokens' :
           u \in tokens \/ (u \in Token /\ u.job = t.job /\ Fit(u.snapshot, t.job, envelopes'))
  PROVE  CopiesInv'
  <1> DEFINE j    == t.job
             r    == [op |-> op, job |-> j, phase |-> phase, next |-> next]
             held == Found(p, t)
  <1>1. j \in Jobs /\ Fit(held, j, envelopes)
    BY FoundFits
  <1>2. r \in Request /\ r.job = j /\ r.next = next
    BY <1>1 DEF Request, Fit
  <1>3. /\ cache' = Cached(p, j, held) /\ req' = [req EXCEPT ![p] = r]
        /\ UNCHANGED <<store, startResponse, webhookReceipt>>
    BY DEF Recover
  <1> HIDE DEF j, r, held
  <1>4. /\ Fit(next, j, envelopes')
        /\ \A u \in tokens' :
             u \in tokens \/ (u \in Token /\ u.job = j /\ Fit(u.snapshot, j, envelopes'))
    BY DEF j
  <1> QED
    BY <1>1, <1>2, <1>3, <1>4, TokenStep

(* A request that sends nothing and leaves Stripe alone.                   *)
LEMMA QuietRecover ==
  ASSUME CopiesInv, NEW p \in Procs, NEW t \in tokens, NEW op \in Ops, NEW next,
         Recover(p, t, op, "remember", next), Fit(next, t.job, envelopes),
         UNCHANGED <<stripe, envelopes, tokens>>
  PROVE  CopiesInv'
  <1>1. "remember" \in Phases
    BY DEF Phases
  <1>2. /\ stripe' \in [Jobs -> {"none", "open", "paid"}] /\ StripeMonotone
        /\ envelopes' \subseteq Envelope /\ EnvelopesPaid' /\ MaintenanceFollowsStart'
    BY ServerTypes
    DEF CopiesInv, IInv, TypeOK, StripeMonotone, EnvelopesPaid, MaintenanceFollowsStart
  <1> QED
    BY <1>1, <1>2, RecoverStep DEF Fit

LEMMA ReadStep ==
  ASSUME CopiesInv, NEW p \in Procs, NEW t \in tokens, ReadWithToken(p, t)
  PROVE  CopiesInv'
  <1> DEFINE j    == t.job
             held == Found(p, t)
  <1>1. j \in Jobs /\ Fit(held, j, envelopes)
    BY FoundFits
  <1>2. /\ cache' = Cached(p, j, held)
        /\ tokens' = tokens \cup {JobToken(j, held)} \/ tokens' = tokens
        /\ UNCHANGED <<store, req, stripe, envelopes, startResponse, webhookReceipt>>
    BY GrantedTokens DEF ReadWithToken
  <1> HIDE DEF j, held
  <1>3. \A u \in tokens' :
          u \in tokens \/ (u \in Token /\ u.job = j /\ Fit(u.snapshot, j, envelopes'))
    BY <1>1, <1>2, JobTokenFits DEF Fit
  <1>4. /\ stripe' \in [Jobs -> {"none", "open", "paid"}] /\ StripeMonotone
        /\ envelopes \subseteq envelopes' /\ envelopes' \subseteq Envelope
        /\ EnvelopesPaid' /\ MaintenanceFollowsStart'
    BY <1>2, ServerTypes
    DEF CopiesInv, IInv, TypeOK, StripeMonotone, EnvelopesPaid, MaintenanceFollowsStart
  <1> QED
    BY <1>1, <1>2, <1>3, <1>4, TokenStep

LEMMA ActStep ==
  ASSUME CopiesInv, NEW p \in Procs, NEW t \in tokens, NEW action \in Actions,
         ActWithToken(p, t, action)
  PROVE  CopiesInv'
  <1> DEFINE job  == Found(p, t)
             next == advance_hosted_launch_job(job, action)
             e    == [job |-> t.job, action |-> action, payment |-> next.payment]
  <1>1. t.job \in Jobs /\ job \in Job /\ Fit(job, t.job, envelopes)
    BY FoundFits DEF Fit
  <1>2. /\ ~_dispatch_action_requires_managed_payment(job, action) /\ CanAdvance(job, action)
        /\ UNCHANGED stripe
        /\ \/ /\ Dispatches(job, action) /\ Recover(p, t, action, "dispatch", next)
              /\ envelopes' = envelopes \cup {e}
              /\ tokens' = tokens \cup {JobToken(t.job, next)}
           \/ /\ ~Dispatches(job, action) /\ Recover(p, t, action, "remember", next)
              /\ UNCHANGED <<envelopes, tokens>>
    BY GrantedTokens DEF ActWithToken
  <1>3. next \in Job /\ Sound(next, stripe[t.job]) /\ Edge(job, action, next)
    BY <1>1, <1>2, AdvanceIsJob, AdvanceIsSound, EdgeAdvance DEF Fit
  <1>4. action \in Ops /\ "dispatch" \in Phases
    BY DEF Ops, Phases
  <1>5. CASE ~Dispatches(job, action)
    <2>1. action # "start" \/ next.lane # Managed
      BY <1>1, <1>3, <1>5 DEF Dispatches, Edge, Managed, ByoOci
    <2> HIDE DEF job, next
    <2>2. Fit(next, t.job, envelopes)
      BY <1>1, <1>3, <2>1, OperationRecorded DEF Fit
    <2> QED
      BY <1>2, <1>4, <1>5, <2>2, QuietRecover
  <1>6. CASE Dispatches(job, action)
    <2>1. job.lane = Managed /\ action # "stop"
      BY <1>1, <1>6, DispatchIsManaged DEF Dispatches
    <2>2. job.payment = "paid" /\ next.payment = "paid" /\ stripe[t.job] = "paid"
      BY <1>1, <1>2, <1>3, <2>1, AdvanceIsFunded DEF Edge, Fit, Sound, Actions
    <2>3. e \in Envelope /\ e.job = t.job /\ e.action = action /\ e.payment = "paid"
      BY <1>1, <1>3, <2>2 DEF Envelope, Job
    <2>4. MaintenanceFollowsStart'
      <3> HIDE DEF job, next
      <3> QED
        BY <1>1, <1>2, <1>6, EnvelopeFollowsStart DEF CopiesInv, Fit
    <2> HIDE DEF job, next, e
    <2>5. envelopes' = envelopes \cup {e} /\ Recover(p, t, action, "dispatch", next)
          /\ tokens' = tokens \cup {JobToken(t.job, next)}
      BY <1>2, <1>6
    <2>6. EnvelopesPaid' /\ envelopes' \subseteq Envelope /\ envelopes \subseteq envelopes'
      BY <1>2, <2>2, <2>3, <2>5 DEF CopiesInv, IInv, TypeOK, EnvelopesPaid
    <2>7. OnRecord(next, t.job, envelopes')
      <3>1. OnRecord(job, t.job, envelopes')
        BY <1>1, <2>6, OnRecordLater DEF Fit
      <3>2. action = "start" => StartSent(t.job, envelopes')
        BY <2>3, <2>5 DEF StartSent
      <3> QED
        BY <1>3, <3>1, <3>2, OperationRecorded
    <2>8. Fit(next, t.job, envelopes')
      BY <1>3, <2>7 DEF Fit
    <2>9. \A u \in tokens' :
            u \in tokens \/ (u \in Token /\ u.job = t.job /\ Fit(u.snapshot, t.job, envelopes'))
      BY <1>1, <1>3, <2>5, <2>8, JobTokenFits
    <2>10. stripe' \in [Jobs -> {"none", "open", "paid"}] /\ StripeMonotone
      BY <1>2, ServerTypes DEF CopiesInv, StripeMonotone
    <2> QED
      BY <1>4, <2>4, <2>5, <2>6, <2>8, <2>9, <2>10, RecoverStep
  <1> QED
    BY <1>5, <1>6

LEMMA CheckoutStep ==
  ASSUME CopiesInv, NEW p \in Procs, NEW t \in tokens, CheckoutWithToken(p, t)
  PROVE  CopiesInv'
  <1> DEFINE job  == Found(p, t)
             next == with_hosted_job_payment_receipt(job, FALSE)
  <1>1. t.job \in Jobs /\ job \in Job /\ Fit(job, t.job, envelopes)
    BY FoundFits DEF Fit
  <1>2. /\ Recover(p, t, "checkout", "remember", next)
        /\ stripe' = [stripe EXCEPT ![t.job] = IF @ = "none" THEN "open" ELSE @]
        /\ tokens' = tokens \cup {PaymentToken(t.job, job)} /\ UNCHANGED envelopes
    BY GrantedTokens DEF CheckoutWithToken
  <1>3. next \in Job /\ Sound(next, stripe[t.job]) /\ Edge(job, "checkout", next)
    BY <1>1, PaymentIsJob, PaymentIsSound, EdgePayment DEF Fit
  <1> HIDE DEF job, next
  <1>4. Fit(next, t.job, envelopes')
    BY <1>1, <1>2, <1>3, OperationRecorded DEF Fit
  <1>5. "checkout" \in Ops /\ "remember" \in Phases
    BY DEF Ops, Phases
  <1>6. \A u \in tokens' :
          u \in tokens \/ (u \in Token /\ u.job = t.job /\ Fit(u.snapshot, t.job, envelopes'))
    BY <1>1, <1>2, JobTokenFits
  <1>7. stripe' \in [Jobs -> {"none", "open", "paid"}] /\ StripeMonotone
    BY <1>2, ServerTypes DEF CopiesInv, StripeMonotone
  <1>8. /\ envelopes \subseteq envelopes' /\ envelopes' \subseteq Envelope
        /\ EnvelopesPaid' /\ MaintenanceFollowsStart'
    BY <1>2, <1>7
    DEF CopiesInv, IInv, TypeOK, StripeMonotone, EnvelopesPaid, MaintenanceFollowsStart,
        Envelope
  <1> QED
    BY <1>2, <1>4, <1>5, <1>6, <1>7, <1>8, RecoverStep

LEMMA ReturnStep ==
  ASSUME CopiesInv, NEW p \in Procs, NEW t \in tokens, ReturnWithToken(p, t)
  PROVE  CopiesInv'
  <1> DEFINE job  == Found(p, t)
             next == with_hosted_job_payment_receipt(job, TRUE)
  <1>1. t.job \in Jobs /\ job \in Job /\ Fit(job, t.job, envelopes)
    BY FoundFits DEF Fit
  <1>2. /\ stripe[t.job] = "paid" /\ Recover(p, t, "payment_return", "remember", next)
        /\ UNCHANGED <<stripe, envelopes, tokens>>
    BY DEF ReturnWithToken
  <1>3. next \in Job /\ Sound(next, stripe[t.job]) /\ Edge(job, "payment_return", next)
    BY <1>1, <1>2, PaymentIsJob, PaymentIsSound, EdgePayment DEF Fit
  <1> HIDE DEF job, next
  <1>4. Fit(next, t.job, envelopes) /\ "payment_return" \in Ops
    BY <1>1, <1>3, OperationRecorded DEF Fit, Ops
  <1> QED
    BY <1>2, <1>4, QuietRecover

LEMMA ClaimStep ==
  ASSUME CopiesInv, NEW p \in Procs, NEW t \in tokens, ClaimWithToken(p, t)
  PROVE  CopiesInv'
  <1> DEFINE job  == Found(p, t)
             next == claim_hosted_launch_job(job)
  <1>1. t.job \in Jobs /\ job \in Job /\ Fit(job, t.job, envelopes)
    BY FoundFits DEF Fit
  <1>2. /\ CanClaim(job) /\ Recover(p, t, "claim", "remember", next)
        /\ UNCHANGED <<stripe, envelopes, tokens>>
    BY DEF ClaimWithToken
  <1>3. next \in Job /\ Sound(next, stripe[t.job]) /\ Edge(job, "claim", next)
    BY <1>1, <1>2, ClaimIsJob, ClaimIsSound, EdgeClaim DEF Fit
  <1> HIDE DEF job, next
  <1>4. Fit(next, t.job, envelopes) /\ "claim" \in Ops
    BY <1>1, <1>3, OperationRecorded DEF Fit, Ops
  <1> QED
    BY <1>2, <1>4, QuietRecover

LEMMA ProveStep ==
  ASSUME CopiesInv, NEW p \in Procs, NEW t \in tokens, NEW payload,
         ProveWithToken(p, t, payload)
  PROVE  CopiesInv'
  <1> DEFINE job  == Found(p, t)
             next == apply_hosted_worker_proof(job, payload)
  <1>1. t.job \in Jobs /\ job \in Job /\ Fit(job, t.job, envelopes)
    BY FoundFits DEF Fit
  <1>2. /\ CanProve(job) /\ Recover(p, t, "proof", "remember", next)
        /\ UNCHANGED <<stripe, envelopes, tokens>>
    BY DEF ProveWithToken
  <1>3. next \in Job /\ Sound(next, stripe[t.job]) /\ Edge(job, "proof", next)
    BY <1>1, <1>2, ProofIsJob, ProofIsSound, EdgeProof DEF Fit
  <1> HIDE DEF job, next
  <1>4. Fit(next, t.job, envelopes) /\ "proof" \in Ops
    BY <1>1, <1>3, OperationRecorded DEF Fit, Ops
  <1> QED
    BY <1>2, <1>4, QuietRecover

LEMMA WebhookStep ==
  ASSUME CopiesInv, NEW p \in Procs, NEW j \in Jobs, WebhookInMemory(p, j)
  PROVE  CopiesInv'
  <1> DEFINE job  == cache[p][j]
             next == with_hosted_job_payment_receipt(job, TRUE)
             r    == [op |-> "payment_webhook", job |-> j, phase |-> "remember", next |-> next]
  <1>1. job \in Job /\ Fit(job, j, envelopes)
    BY ServerTypes
    DEF WebhookInMemory, CopiesInv, IInv, SnapshotsSound, StartsRecorded, Fit
  <1>2. /\ stripe[j] = "paid" /\ req' = [req EXCEPT ![p] = r]
        /\ UNCHANGED <<cache, store, stripe, envelopes, startResponse, webhookReceipt, tokens>>
    BY DEF WebhookInMemory
  <1>3. next \in Job /\ Sound(next, stripe[j]) /\ Edge(job, "payment_webhook", next)
    BY <1>1, <1>2, PaymentIsJob, PaymentIsSound, EdgePayment DEF Fit
  <1>4. r \in Request /\ r.job = j /\ r.next = next
    BY <1>3 DEF Request, Ops, Phases
  <1> HIDE DEF job, next, r
  <1>5. Fit(next, j, envelopes')
    BY <1>1, <1>2, <1>3, OperationRecorded DEF Fit
  <1>6. /\ stripe' \in [Jobs -> {"none", "open", "paid"}] /\ StripeMonotone
        /\ envelopes \subseteq envelopes' /\ envelopes' \subseteq Envelope
        /\ EnvelopesPaid' /\ MaintenanceFollowsStart'
    BY <1>2, ServerTypes
    DEF CopiesInv, IInv, TypeOK, StripeMonotone, EnvelopesPaid, MaintenanceFollowsStart
  <1> QED
    BY <1>1, <1>2, <1>4, <1>5, <1>6, TokenStep

LEMMA AnswerStep ==
  ASSUME CopiesInv, NEW p \in Procs, AnswerWithToken(p)
  PROVE  CopiesInv'
  <1> DEFINE j    == req[p].job
             held == req[p].next
  <1>1. j \in Jobs /\ held \in Job /\ Fit(held, j, envelopes)
    BY ServerTypes DEF AnswerWithToken, CopiesInv, IInv, SnapshotsSound, StartsRecorded, Fit
  <1>2. /\ cache' = Cached(p, j, held) /\ req' = [req EXCEPT ![p] = NoRequest]
        /\ tokens' = tokens \cup {JobToken(j, held)} \/ tokens' = tokens
        /\ UNCHANGED <<store, stripe, envelopes, startResponse, webhookReceipt>>
    BY GrantedTokens DEF AnswerWithToken
  <1> HIDE DEF j, held
  <1>3. \A u \in tokens' :
          u \in tokens \/ (u \in Token /\ u.job = j /\ Fit(u.snapshot, j, envelopes'))
    BY <1>1, <1>2, JobTokenFits
  <1>4. /\ stripe' \in [Jobs -> {"none", "open", "paid"}] /\ StripeMonotone
        /\ envelopes \subseteq envelopes' /\ envelopes' \subseteq Envelope
        /\ EnvelopesPaid' /\ MaintenanceFollowsStart'
    BY <1>2, ServerTypes
    DEF CopiesInv, IInv, TypeOK, StripeMonotone, EnvelopesPaid, MaintenanceFollowsStart
  <1> QED
    BY <1>1, <1>2, <1>3, <1>4, TokenStep

-----------------------------------------------------------------------------
(* Every step of a deployment. *)

PresentStep(p) == \E t \in tokens : Present(p, t)

(* What the parts of the server's own next-state relation are.             *)
LEMMA DurableIsNext ==
  ASSUME deployment \in Deployments, Durable
  PROVE  Next /\ UNCHANGED tokens
  <1>1. deployment.procs \subseteq Procs /\ deployment.payloads \subseteq Payloads
    BY DeploymentsAssumption
  <1> QED
    BY <1>1 DEF Durable, Next, Receive

LEMMA CopiesStep ==
  ASSUME CopiesInv, deployment \in Deployments, [NextDeployed]_deployedVars
  PROVE  CopiesInv'
  <1>1. deployment.procs \subseteq Procs
    BY DeploymentsAssumption
  <1>2. CASE Durable
    BY <1>2, DurableIsNext, ServerKeepsCopies
  <1>3. ASSUME NEW p \in Procs, NEW t \in tokens, Present(p, t)
        PROVE  CopiesInv'
    BY <1>3, ReadStep, ActStep, CheckoutStep, ReturnStep, ClaimStep, ProveStep DEF Present
  <1>4. ASSUME NEW p \in Procs, NEW j \in Jobs, NEW lane \in Lanes, CreateWithToken(p, j, lane)
        PROVE  CopiesInv'
    <2>1. Next /\ UNCHANGED tokens
      BY <1>4 DEF CreateWithToken, Next, Receive, Click
    <2> QED
      BY <2>1, ServerKeepsCopies
  <1>5. ASSUME NEW p \in Procs, DispatchAccepted(p) \/ DispatchFailed(p) \/ Crash(p),
               UNCHANGED tokens
        PROVE  CopiesInv'
    <2>1. Next
      BY <1>5 DEF Next, Continue
    <2> QED
      BY <1>5, <2>1, ServerKeepsCopies
  <1>6. CASE Stateless
    BY <1>1, <1>3, <1>4, <1>5, <1>6, WebhookStep, AnswerStep DEF Stateless
  <1>7. ASSUME NEW j \in Jobs, Pay(j), UNCHANGED tokens
        PROVE  CopiesInv'
    <2>1. Next
      BY <1>7 DEF Next
    <2> QED
      BY <1>7, <2>1, ServerKeepsCopies
  <1>8. CASE UNCHANGED vars /\ tokens' \subseteq tokens
    <2>1. IInv'
      BY <1>8, InvStep DEF CopiesInv
    <2>2. StartsRecorded' /\ MaintenanceFollowsStart'
      BY <1>8, StillRecorded DEF CopiesInv, vars
    <2>3. TokensSound' /\ (tokens \subseteq Token)'
      BY <1>8 DEF CopiesInv, TokensSound, Sound, Started, Proven, _completion_ready, vars
    <2> QED
      BY <2>1, <2>2, <2>3 DEF CopiesInv
  <1> QED
    BY <1>2, <1>6, <1>7, <1>8 DEF NextDeployed, Expire, deployedVars

(* A step of p touches no other process.                                   *)
Local(p) ==
  \A q \in Procs : q # p =>
    req'[q] = req[q] /\ \A j \in Jobs : cache'[q][j] = cache[q][j]

LEMMA ArrivalIsLocal ==
  ASSUME IInv, NEW p \in Procs, NEW j \in Jobs, Arrives(p, j)
  PROVE  Local(p)
  BY Arrived, ArrivedCache DEF Local, NewRequest, LookedUp

LEMMA ContinueIsLocal ==
  ASSUME IInv, NEW p \in Procs, Continue(p)
  PROVE  Local(p)
  <1>1. CASE _remember_hosted_job(p)
    BY <1>1, Remembered, RememberedCache DEF Local, Proceeds
  <1>2. CASE Goes(p)
    <2>1. /\ Proceeds(p) /\ req[p].job \in Jobs
          /\ UNCHANGED cache \/ cache' = Cached(p, req[p].job, req[p].next)
      BY <1>2, Proceeded, ServerTypes DEF RememberFails, Proceeds
    <2> QED
      BY <2>1, CachedAt DEF Local, Proceeds, IInv
  <1>3. CASE Crash(p)
    BY <1>3, ServerTypes DEF Crash, Local
  <1> QED
    BY <1>1, <1>2, <1>3 DEF Continue, Goes

LEMMA TokenIsLocal ==
  ASSUME CopiesInv, NEW p \in Procs,
         \/ PresentStep(p) \/ AnswerWithToken(p)
         \/ \E j \in Jobs : WebhookInMemory(p, j)
  PROVE  Local(p) /\ UNCHANGED startResponse
  <1>1. ASSUME NEW j \in Jobs, NEW held,
               cache' = cache \/ cache' = Cached(p, j, held),
               NEW r, req' = req \/ req' = [req EXCEPT ![p] = r]
        PROVE  Local(p)
    BY <1>1, CachedAt, ServerTypes DEF Local, CopiesInv, IInv
  <1>2. ASSUME NEW t \in tokens, Present(p, t)
        PROVE  Local(p) /\ UNCHANGED startResponse
    <2>1. t.job \in Jobs
      BY FoundFits
    <2> QED
      BY <1>1, <1>2, <2>1
      DEF Present, ReadWithToken, ActWithToken, CheckoutWithToken, ReturnWithToken,
          ClaimWithToken, ProveWithToken, Recover
  <1>3. ASSUME AnswerWithToken(p)
        PROVE  Local(p) /\ UNCHANGED startResponse
    <2>1. req[p].job \in Jobs
      BY <1>3, ServerTypes DEF AnswerWithToken, CopiesInv
    <2> QED
      BY <1>1, <1>3, <2>1 DEF AnswerWithToken
  <1>4. ASSUME NEW j \in Jobs, WebhookInMemory(p, j)
        PROVE  Local(p) /\ UNCHANGED startResponse
    BY <1>1, <1>4 DEF WebhookInMemory
  <1> QED
    BY <1>2, <1>3, <1>4 DEF PresentStep

LEMMA LocalKeepsQuiet ==
  ASSUME OthersQuiet, deployment \in Deployments, NEW p \in deployment.procs, Local(p),
         UNCHANGED deployment
  PROVE  OthersQuiet'
  BY DEF OthersQuiet, Local, Idle

(* Only a process of the deployment moves.                                 *)
LEMMA QuietStep ==
  ASSUME DeployedInv, [NextDeployed]_deployedVars
  PROVE  OthersQuiet' /\ UNCHANGED deployment
  <1> USE DEF DeployedInv, CopiesInv
  <1>1. deployment.procs \subseteq Procs /\ deployment.payloads \subseteq ProofPayload
    BY DeploymentsAssumption, PayloadsAssumption
  <1>2. UNCHANGED deployment
    BY DEF NextDeployed, deployedVars
  <1>3. CASE Durable
    <2>1. PICK p \in deployment.procs :
            Continue(p) \/ \E j \in Jobs : Arrives(p, j)
      BY <1>1, <1>3 DEF Durable, Arrives
    <2>2. Local(p)
      BY <1>1, <2>1, ArrivalIsLocal, ContinueIsLocal
    <2> QED
      BY <1>2, <2>2, LocalKeepsQuiet
  <1>4. CASE Stateless
    <2>1. PICK p \in deployment.procs :
            \/ PresentStep(p) \/ AnswerWithToken(p) \/ Continue(p)
            \/ \E j \in Jobs : WebhookInMemory(p, j) \/ Arrives(p, j)
      BY <1>4 DEF Stateless, PresentStep, Continue, CreateWithToken, Arrives, Click
    <2>2. Local(p)
      BY <1>1, <2>1, ArrivalIsLocal, ContinueIsLocal, TokenIsLocal
    <2> QED
      BY <1>2, <2>2, LocalKeepsQuiet
  <1>5. CASE UNCHANGED <<cache, req>>
    BY <1>2, <1>5 DEF OthersQuiet, Idle
  <1> QED
    BY <1>2, <1>3, <1>4, <1>5 DEF NextDeployed, Pay, Expire, vars, deployedVars

LEMMA ArtifactHoldsStep ==
  ASSUME DeployedInv, [NextDeployed]_deployedVars
  PROVE  ArtifactHolds'
  <1> USE DEF DeployedInv, CopiesInv
  <1>1. UNCHANGED deployment /\ deployment.procs \subseteq Procs
    BY QuietStep, DeploymentsAssumption
  <1>2. ASSUME deployment.durable, Single
        PROVE  ArtifactInv'
    <2>1. [Next]_vars
      BY <1>2, DurableIsNext DEF NextDeployed, Stateless, Expire, deployedVars, Next
    <2>2. \A p \in Procs : _remember_hosted_job(p) => Alone(p)
      BY <1>1, <1>2 DEF _remember_hosted_job, Remember, Alone, OthersQuiet, Single
    <2> QED
      BY <1>2, <2>1, <2>2, ServerNext, ArtifactStep DEF ArtifactHolds
  <1>3. ASSUME ~deployment.durable
        PROVE  startResponse' = {}
    <2>1. startResponse = {}
      BY <1>3 DEF ArtifactHolds
    <2>2. CASE Stateless
      <3>1. PICK p \in deployment.procs :
              \/ PresentStep(p) \/ AnswerWithToken(p)
              \/ \E j \in Jobs : WebhookInMemory(p, j)
              \/ \E j \in Jobs, lane \in Lanes : CreateWithToken(p, j, lane)
              \/ DispatchAccepted(p) \/ DispatchFailed(p) \/ Crash(p)
        BY <2>2 DEF Stateless, PresentStep
      <3> QED
        BY <1>1, <2>1, <3>1, TokenIsLocal
        DEF CreateWithToken, _github_control_room_response, DispatchAccepted, DispatchFailed,
            Crash
    <2>3. CASE UNCHANGED startResponse
      BY <2>1, <2>3
    <2> QED
      BY <1>3, <2>2, <2>3 DEF NextDeployed, Durable, Pay, Expire, vars, deployedVars
  <1>4. deployment'.durable = deployment.durable /\ Single' = Single
    BY <1>1 DEF Single
  <1> QED
    BY <1>2, <1>3, <1>4 DEF ArtifactHolds

LEMMA DeployedInit == InitDeployed => DeployedInv
  <1> SUFFICES ASSUME InitDeployed
               PROVE  DeployedInv
    OBVIOUS
  <1>1. /\ IInv /\ ArtifactInv /\ tokens = {} /\ deployment \in Deployments
        /\ startResponse = {} /\ envelopes = {}
    BY InvInit, ArtifactInit DEF InitDeployed, Init
  <1>2. /\ \A j \in Jobs : ~Known(j)
        /\ \A p \in Procs : Idle(p) /\ \A j \in Jobs : cache[p][j] = NoJob
    BY DEF InitDeployed, Init, EmptyCache, Known, Idle
  <1>3. CopiesInv
    BY <1>1, <1>2 DEF CopiesInv, TokensSound, StartsRecorded, MaintenanceFollowsStart
  <1> QED
    BY <1>1, <1>2, <1>3 DEF DeployedInv, OthersQuiet, ArtifactHolds

LEMMA DeployedStep == DeployedInv /\ [NextDeployed]_deployedVars => DeployedInv'
  <1> SUFFICES ASSUME DeployedInv, [NextDeployed]_deployedVars
               PROVE  DeployedInv'
    OBVIOUS
  <1>1. CopiesInv'
    BY CopiesStep DEF DeployedInv
  <1>2. OthersQuiet' /\ UNCHANGED deployment
    BY QuietStep
  <1>3. ArtifactHolds'
    BY ArtifactHoldsStep
  <1> QED
    BY <1>1, <1>2, <1>3 DEF DeployedInv

(* The inductive invariant of every deployment.                            *)
THEOREM DeployedInvariance == SpecDeployed => []DeployedInv
  BY DeployedInit, DeployedStep, PTL DEF SpecDeployed

(* Jobs, requests, envelopes and tokens have their types.                  *)
THEOREM DeployedTypeCorrect == SpecDeployed => []TypeOKDeployed
  <1>1. DeployedInv => TypeOKDeployed
    BY DEF DeployedInv, CopiesInv, IInv, TypeOKDeployed
  <1> QED
    BY <1>1, DeployedInvariance, PTL

(* In every deployment, no copy of a managed job is past its start before  *)
(* Stripe was paid: not in a store that two processes overwrite, nor in    *)
(* the memory of one, nor in what was recovered from an old token.         *)
THEOREM DeployedPaidBeforeStarted == SpecDeployed => []MoneyBeforeWork
  <1>1. DeployedInv => MoneyBeforeWork
    BY SnapshotIsSound DEF DeployedInv, CopiesInv, MoneyBeforeWork, Sound
  <1> QED
    BY <1>1, DeployedInvariance, PTL

(* In every deployment, what reaches the dispatch receiver is paid for,    *)
(* also when the job it speaks of was recovered from an old token.         *)
THEOREM DeployedPaidBeforeDispatched == SpecDeployed => []EnvelopesPaid
  <1>1. DeployedInv => EnvelopesPaid
    BY DEF DeployedInv, CopiesInv, IInv
  <1> QED
    BY <1>1, DeployedInvariance, PTL

(* In every deployment, a job that is complete in some copy is proven in   *)
(* that copy.                                                              *)
THEOREM DeployedProvenWhenComplete == SpecDeployed => []CompleteMeansProven
  <1>1. DeployedInv => CompleteMeansProven
    BY SnapshotIsSound DEF DeployedInv, CopiesInv, CompleteMeansProven, Sound, Proven
  <1> QED
    BY <1>1, DeployedInvariance, PTL

(* A token, however old, claims no payment, start or completion that is    *)
(* not so.                                                                 *)
THEOREM TokensStayTrue == SpecDeployed => []TokensTrue
  <1>1. DeployedInv => TokensTrue
    BY DEF DeployedInv, CopiesInv, TokensSound, TokensTrue, Sound, Proven
  <1> QED
    BY <1>1, DeployedInvariance, PTL

(* Whichever process or token a maintenance request finds its job in, the  *)
(* job had a worker dispatched to start it.                                *)
THEOREM StartedBeforeMaintenance == SpecDeployed => []MaintenanceFollowsStart
  <1>1. DeployedInv => MaintenanceFollowsStart
    BY DEF DeployedInv, CopiesInv
  <1> QED
    BY <1>1, DeployedInvariance, PTL

(* A deployment of one process keeps its managed-start artifacts true,     *)
(* whatever its cache keeps, whichever put fails and whenever it dies.     *)
THEOREM ArtifactTrueAlone == SpecDeployed => []OneProcessArtifact
  <1>1. DeployedInv => OneProcessArtifact
    BY DEF DeployedInv, CopiesInv, IInv, TypeOK, ArtifactHolds, Single, ArtifactInv,
           BegunStarted, Begun, ArtifactMeansStarted, OneProcessArtifact
  <1> QED
    BY <1>1, DeployedInvariance, PTL

=============================================================================
