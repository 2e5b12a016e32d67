---------------------------- MODULE HostedServer ----------------------------
(***************************************************************************)
(* The hosted control-plane server (hosted/server.py) over its job store   *)
(* (hosted/job_store.py).                                                  *)
(*                                                                         *)
(* A server process handles one request at a time.  A request that changes *)
(* a job reads it, checks the guards of its handler, computes the new      *)
(* snapshot, may call out (the worker-dispatch receiver, Stripe), and only *)
(* then remembers the snapshot: first in the process's cache, then in the  *)
(* store.  Between the read and the write other processes may write, the   *)
(* call may fail and the process may die; that window is the phase of a    *)
(* request below.                                                          *)
(*                                                                         *)
(* With a store configured a job token is handed out only after the job    *)
(* was put, and nothing deletes a snapshot, so a request always finds its  *)
(* job and the branch that resurrects a job from the token is never taken. *)
(* HostedDeployment has the deployment without a store.                    *)
(***************************************************************************)
EXTENDS HostedJob

CONSTANTS
  Jobs,        \* job ids the server may generate
  Procs,       \* server processes sharing the store
  Payloads,    \* worker proof payloads that workers may post
  LongLived,   \* processes with one settings object, whose cache survives a
               \* request (systemd service); the others rebuild the settings
               \* from the environment on every request (gunicorn)
  Faults,      \* which of "store" (a put fails) and "crash" may happen
  NoJob,       \* a job absent from a cache or the store
  NoRequest    \* an idle process

ASSUME PayloadsAssumption  == Payloads \subseteq ProofPayload
ASSUME LongLivedAssumption == LongLived \subseteq Procs
ASSUME NoJobAssumption     == NoJob \notin Job \cup Statuses
ASSUME FaultsAssumption    == Faults \subseteq {"store", "crash"}

VARIABLES
  cache,           \* settings.hosted_jobs of each process
  store,           \* job snapshots in HostedJobStore
  req,             \* the request each process is handling
  stripe,          \* Checkout Session of a job, as Stripe knows it
  envelopes,       \* signed dispatch envelopes sent to the receiver
  startResponse,   \* jobs with a durable managed-start artifact
  webhookReceipt   \* jobs with a durable Stripe webhook artifact

vars == <<cache, store, req, stripe, envelopes, startResponse, webhookReceipt>>

Ops == Actions \cup {"create", "checkout", "payment_return", "payment_webhook",
                     "claim", "proof"}

Phases == {"dispatch", "remember", "artifact"}

Request == [op: Ops, job: Jobs, phase: Phases, next: Job]

Envelope == [job: Jobs, action: Actions, payment: PaymentStatuses]

TypeOK ==
  /\ cache \in [Procs -> [Jobs -> Job \cup {NoJob}]]
  /\ store \in [Jobs -> Job \cup {NoJob}]
  /\ req \in [Procs -> Request \cup {NoRequest}]
  /\ stripe \in [Jobs -> {"none", "open", "paid"}]
  /\ envelopes \subseteq Envelope
  /\ startResponse \subseteq Jobs
  /\ webhookReceipt \subseteq Jobs

EmptyCache == [j \in Jobs |-> NoJob]

Init ==
  /\ cache = [p \in Procs |-> EmptyCache]
  /\ store = [j \in Jobs |-> NoJob]
  /\ req = [p \in Procs |-> NoRequest]
  /\ stripe = [j \in Jobs |-> "none"]
  /\ envelopes = {}
  /\ startResponse = {}
  /\ webhookReceipt = {}

-----------------------------------------------------------------------------
(* Cache and store. *)

Idle(p)  == req[p] = NoRequest
Known(j) == store[j] # NoJob

_lookup_hosted_job(p, j) == IF cache[p][j] # NoJob THEN cache[p][j] ELSE store[j]

Cached(p, j, job) ==
  IF p \in LongLived THEN [cache EXCEPT ![p] = [@ EXCEPT ![j] = job]] ELSE cache

(* A request on job j passed the guards of its handler: op goes on to      *)
(* phase with next as the snapshot to remember.                            *)
Accept(p, j, op, phase, next) ==
  /\ Idle(p) /\ Known(j)
  /\ cache' = Cached(p, j, _lookup_hosted_job(p, j))
  /\ req' = [req EXCEPT ![p] = [op |-> op, job |-> j, phase |-> phase, next |-> next]]

-----------------------------------------------------------------------------
(* Handlers, up to the point where the snapshot is remembered.             *)

Fresh(j) ==
  /\ store[j] = NoJob
  /\ \A p \in Procs : cache[p][j] = NoJob /\ (~Idle(p) => req[p].job # j)

_github_control_room_response(p, j, lane) ==
  /\ Idle(p) /\ Fresh(j)
  /\ req' = [req EXCEPT ![p] =
               [op |-> "create", job |-> j, phase |-> "remember",
                next |-> build_hosted_launch_job(lane)]]
  /\ UNCHANGED <<cache, store, stripe, envelopes, startResponse, webhookReceipt>>

(* GET of a job, and every rejected request on it: only the cache changes. *)
_hosted_job_response(p, j) ==
  /\ Idle(p) /\ Known(j)
  /\ cache' = Cached(p, j, _lookup_hosted_job(p, j))
  /\ UNCHANGED <<store, req, stripe, envelopes, startResponse, webhookReceipt>>

(* Mutants of the list below: start is free; a job whose rollback is       *)
(* requested is detonated for free.                                        *)
FreeStart ==
  [start |-> {}, stop |-> {}, rollback |-> InFlight,
   detonate |-> InFlight \cup {"rollback_requested"}]
FreeDetonation ==
  [start |-> {"waiting_for_worker"}, stop |-> {}, rollback |-> InFlight, detonate |-> InFlight]

(* The statuses in which an action could be dispatched, as the payment     *)
(* gate lists them (advance_hosted_launch_job keeps a list of its own).    *)
PaymentGatedStatuses ==
  [start    |-> {"waiting_for_worker"},
   stop     |-> {},
   rollback |-> {"waiting_for_provider_gates", "worker_claimed", "proof_submitted",
                 "complete"},
   detonate |-> {"waiting_for_provider_gates", "worker_claimed", "proof_submitted",
                 "complete", "rollback_requested"}]

_managed_payment_required(job) == job.lane = Managed /\ job.payment # "paid"

_dispatch_action_requires_managed_payment(job, action) ==
  _managed_payment_required(job) /\ job.status \in PaymentGatedStatuses[action]

(* Mutant: only maintenance is dispatched.                                 *)
DispatchesMaintenance(job, action) ==
  action \in {"rollback", "detonate"} /\ job.lane # ByoOci

(* The receiver's URL is configured: a server without one sends no         *)
(* envelope and has no worker at all.                                      *)
Dispatches(job, action) == action # "stop" /\ job.lane # ByoOci

_hosted_job_action_response(p, j, action) ==
  LET job  == _lookup_hosted_job(p, j)
      next == advance_hosted_launch_job(job, action)
  IN /\ Known(j)
     /\ ~_dispatch_action_requires_managed_payment(job, action)
     /\ CanAdvance(job, action)
     /\ Accept(p, j, action, IF Dispatches(job, action) THEN "dispatch" ELSE "remember", next)
     /\ envelopes' = IF Dispatches(job, action)
                     THEN envelopes \cup
                            {[job |-> j, action |-> action, payment |-> next.payment]}
                     ELSE envelopes
     /\ UNCHANGED <<store, stripe, startResponse, webhookReceipt>>

(* The receiver answered with an acceptance receipt bound to this job.     *)
DispatchAccepted(p) ==
  /\ ~Idle(p) /\ req[p].phase = "dispatch"
  /\ req' = [req EXCEPT ![p] = [@ EXCEPT !.phase = "remember"]]
  /\ UNCHANGED <<cache, store, stripe, envelopes, startResponse, webhookReceipt>>

(* No answer, an HTTP error or a receipt that does not match: the request  *)
(* ends and the job stays as it was, whatever the receiver did.            *)
DispatchFailed(p) ==
  /\ ~Idle(p) /\ req[p].phase = "dispatch"
  /\ req' = [req EXCEPT ![p] = NoRequest]
  /\ UNCHANGED <<cache, store, stripe, envelopes, startResponse, webhookReceipt>>

_hosted_payment_checkout_response(p, j) ==
  LET job == _lookup_hosted_job(p, j)
  IN /\ Known(j)
     /\ job.lane = Managed
     /\ Accept(p, j, "checkout", "remember", with_hosted_job_payment_receipt(job, FALSE))
     /\ stripe' = [stripe EXCEPT ![j] = IF @ = "none" THEN "open" ELSE @]
     /\ UNCHANGED <<store, envelopes, startResponse, webhookReceipt>>

(* The customer pays the hosted Checkout page.                             *)
Pay(j) ==
  /\ stripe[j] = "open"
  /\ stripe' = [stripe EXCEPT ![j] = "paid"]
  /\ UNCHANGED <<cache, store, req, envelopes, startResponse, webhookReceipt>>

(* A paid session reaches the server by the customer's return and by the   *)
(* webhook, each any number of times and at any time after the payment.    *)
ApplyPayment(p, j, op) ==
  /\ Known(j)
  /\ stripe[j] = "paid"
  /\ Accept(p, j, op, "remember",
            with_hosted_job_payment_receipt(_lookup_hosted_job(p, j), TRUE))
  /\ UNCHANGED <<store, stripe, envelopes, startResponse, webhookReceipt>>

_hosted_payment_return_response(p, j) == ApplyPayment(p, j, "payment_return")
_hosted_stripe_webhook_response(p, j) == ApplyPayment(p, j, "payment_webhook")

_hosted_worker_claim_response(p, j) ==
  LET job == _lookup_hosted_job(p, j)
  IN /\ Known(j)
     /\ CanClaim(job)
     /\ Accept(p, j, "claim", "remember", claim_hosted_launch_job(job))
     /\ UNCHANGED <<store, stripe, envelopes, startResponse, webhookReceipt>>

_hosted_worker_proof_response(p, j, payload) ==
  LET job == _lookup_hosted_job(p, j)
  IN /\ Known(j)
     /\ CanProve(job)
     /\ Accept(p, j, "proof", "remember", apply_hosted_worker_proof(job, payload))
     /\ UNCHANGED <<store, stripe, envelopes, startResponse, webhookReceipt>>

-----------------------------------------------------------------------------
(* The rest of a handler: remember the snapshot, write an artifact, reply. *)

WritesArtifact(r) ==
  \/ r.op = "start" /\ r.next.lane = Managed
  \/ r.op = "payment_webhook"

(* The put may raise when the file is already replaced (the chmod after    *)
(* it): the snapshot is stored, and the client gets a 503 all the same.    *)
Remember(p, answered) ==
  LET r == req[p]
  IN /\ ~Idle(p) /\ r.phase = "remember"
     /\ answered \/ "store" \in Faults
     /\ cache' = Cached(p, r.job, r.next)
     /\ store' = [store EXCEPT ![r.job] = r.next]
     /\ req' = [req EXCEPT ![p] =
                  IF answered /\ WritesArtifact(r) THEN [r EXCEPT !.phase = "artifact"]
                                                   ELSE NoRequest]
     /\ UNCHANGED <<stripe, envelopes, startResponse, webhookReceipt>>

_remember_hosted_job(p) == \E answered \in BOOLEAN : Remember(p, answered)

(* Mutant: the failed put is swallowed.                                    *)
RememberFailsSilently(p) ==
  /\ "store" \in Faults
  /\ ~Idle(p) /\ req[p].phase = "remember"
  /\ req' = [req EXCEPT ![p] =
               IF WritesArtifact(req[p]) THEN [@ EXCEPT !.phase = "artifact"] ELSE NoRequest]
  /\ UNCHANGED <<cache, store, stripe, envelopes, startResponse, webhookReceipt>>

(* The put raises before the file is replaced: the cache already holds     *)
(* the snapshot, the client gets a 503.                                    *)
RememberFails(p) ==
  /\ "store" \in Faults
  /\ ~Idle(p) /\ req[p].phase = "remember"
  /\ cache' = Cached(p, req[p].job, req[p].next)
  /\ req' = [req EXCEPT ![p] = NoRequest]
  /\ UNCHANGED <<store, stripe, envelopes, startResponse, webhookReceipt>>

put_managed_start_response(p) ==
  /\ ~Idle(p) /\ req[p].phase = "artifact" /\ req[p].op = "start"
  /\ startResponse' = startResponse \cup {req[p].job}
  /\ req' = [req EXCEPT ![p] = NoRequest]
  /\ UNCHANGED <<cache, store, stripe, envelopes, webhookReceipt>>

put_stripe_webhook_receipt(p) ==
  /\ ~Idle(p) /\ req[p].phase = "artifact" /\ req[p].op = "payment_webhook"
  /\ webhookReceipt' = webhookReceipt \cup {req[p].job}
  /\ req' = [req EXCEPT ![p] = NoRequest]
  /\ UNCHANGED <<cache, store, stripe, envelopes, startResponse>>

ArtifactFails(p) ==
  /\ "store" \in Faults
  /\ ~Idle(p) /\ req[p].phase = "artifact"
  /\ req' = [req EXCEPT ![p] = NoRequest]
  /\ UNCHANGED <<cache, store, stripe, envelopes, startResponse, webhookReceipt>>

(* The process dies and is restarted: its request and its cache are lost.  *)
Crash(p) ==
  /\ "crash" \in Faults
  /\ cache' = [cache EXCEPT ![p] = EmptyCache]
  /\ req' = [req EXCEPT ![p] = NoRequest]
  /\ UNCHANGED <<store, stripe, envelopes, startResponse, webhookReceipt>>

-----------------------------------------------------------------------------

Click(p, j) ==
  \/ \E lane \in Lanes : _github_control_room_response(p, j, lane)
  \/ _hosted_job_response(p, j)
  \/ \E action \in Actions : _hosted_job_action_response(p, j, action)
  \/ _hosted_payment_checkout_response(p, j)
  \/ _hosted_payment_return_response(p, j)
  \/ _hosted_stripe_webhook_response(p, j)
  \/ _hosted_worker_claim_response(p, j)

Receive(p, j) ==
  \/ Click(p, j)
  \/ \E payload \in Payloads : _hosted_worker_proof_response(p, j, payload)

Continue(p) ==
  \/ DispatchAccepted(p)
  \/ DispatchFailed(p)
  \/ _remember_hosted_job(p)
  \/ RememberFails(p)
  \/ put_managed_start_response(p)
  \/ put_stripe_webhook_receipt(p)
  \/ ArtifactFails(p)
  \/ Crash(p)

Next ==
  \/ \E p \in Procs, j \in Jobs : Receive(p, j)
  \/ \E p \in Procs : Continue(p)
  \/ \E j \in Jobs : Pay(j)

Spec == Init /\ [][Next]_vars

-----------------------------------------------------------------------------
(* Safety. *)

Started(job) == job.status \notin {"waiting_for_worker", "stopped"}

(* Every snapshot of a job somebody holds: stored, cached, or about to be  *)
(* remembered.                                                             *)
Snapshots(j) ==
  ( {store[j]} \cup {cache[p][j] : p \in Procs}
      \cup {req[p].next : p \in {q \in Procs : ~Idle(q) /\ req[q].job = j}} ) \ {NoJob}

(* No managed job gets past the start of its worker before Stripe was      *)
(* paid for it, in any copy of the job, whatever the order of checkout,    *)
(* return, webhook, clicks and crashes (server.py payment gate).           *)
MoneyBeforeWork ==
  \A j \in Jobs : \A s \in Snapshots(j) :
    s.lane = Managed /\ Started(s) => stripe[j] = "paid"

(* Every envelope sent to the worker-dispatch receiver is for a job that   *)
(* was paid and says so, also for maintenance of a job whose payment went  *)
(* back to checkout_pending: the receiver refuses any other binding, and   *)
(* the payment gate and the action guard keep two lists that must agree.   *)
EnvelopesPaid ==
  \A e \in envelopes : e.payment = "paid" /\ stripe[e.job] = "paid"

(* A job is complete in some copy only if every step that needs worker     *)
(* evidence is done there, so late payments, checkouts and claims never    *)
(* reopen a step of a completed job.                                       *)
CompleteMeansProven ==
  \A j \in Jobs : \A s \in Snapshots(j) :
    s.status = "complete" =>
      /\ _completion_ready(s)
      /\ s.steps["provider.gates"] = "done" /\ s.steps["setup.execute"] = "done"

-----------------------------------------------------------------------------
(* What a single server process promises. *)

(* The durable managed-start artifact outlives every later write: the      *)
(* stored job it speaks of never looks unstarted again.                    *)
ArtifactMeansStarted == \A j \in startResponse : Known(j) /\ Started(store[j])

(* The durable job, as the store shows it.                                 *)
StoredStatus  == [j \in Jobs |-> IF Known(j) THEN store[j].status ELSE NoJob]
StoredPayment == [j \in Jobs |-> IF Known(j) THEN store[j].payment ELSE NoJob]
StoredManaged == [j \in Jobs |-> Known(j) /\ store[j].lane = Managed]

Lifecycle == INSTANCE JobLifecycle WITH
  None <- NoJob, status <- StoredStatus, payment <- StoredPayment, managed <- StoredManaged

(* If its cache holds nothing that the store does not, every durable write *)
(* is one legal operation on the durable job: nothing is lost, applied     *)
(* twice or out of order.                                                  *)
ImplementsLifecycle == Lifecycle!Spec

=============================================================================
