--------------------------- MODULE HostedDeployment ---------------------------
(***************************************************************************)
(* The hosted server as it is deployed: over a job store, as HostedServer  *)
(* describes it, or without one (FUSEKIT_HOSTED_JOB_STORE_DIR is empty).   *)
(*                                                                         *)
(* Without a store a job lives in signed tokens (create_hosted_job_token): *)
(* every answer carries the whole snapshot, the next request brings one    *)
(* back, and the server takes the job from it unless the memory of its     *)
(* process still has one.  Nothing but its age makes a token invalid, so   *)
(* a customer, a worker and Stripe may each hold a different past of the   *)
(* same job and present them in any order.  A job token opens the job's    *)
(* routes; a payment token, which carries the job as it was before the     *)
(* checkout, opens the return from Stripe only.  Control tokens are        *)
(* renewed with every page and bound to job and action alone: left out.    *)
(***************************************************************************)
EXTENDS HostedServer, Naturals, FiniteSets

CONSTANTS
  Deployments,  \* processes that run, whether over a store, and the proofs
                \* their workers post
  MaxTokens     \* bound on the valid tokens held at a time

ASSUME DeploymentsAssumption ==
  Deployments \subseteq [procs: SUBSET Procs, durable: BOOLEAN, payloads: SUBSET Payloads]

VARIABLES
  deployment,  \* fixed when the servers are started
  tokens       \* valid tokens somebody holds

deployedVars == <<vars, deployment, tokens>>

Token == [job: Jobs, snapshot: Job, use: {"job", "payment"}]

TypeOKDeployed == TypeOK /\ deployment \in Deployments /\ tokens \subseteq Token

InitDeployed == Init /\ deployment \in Deployments /\ tokens = {}

-----------------------------------------------------------------------------
(* Tokens. *)

(* Mutant: the payment token is made out for the paid job.                 *)
PaymentTokenPaid(j, job) ==
  [job |-> j, snapshot |-> with_hosted_job_payment_receipt(job, TRUE), use |-> "payment"]

JobToken(j, job)     == [job |-> j, snapshot |-> job, use |-> "job"]
PaymentToken(j, job) == [job |-> j, snapshot |-> job, use |-> "payment"]

Grant(granted) ==
  /\ tokens' = tokens \cup granted
  /\ Cardinality(tokens') <= MaxTokens

(* A token is older than HOSTED_JOB_TOKEN_TTL_SECONDS, or was lost.        *)
Expire(t) ==
  /\ tokens' = tokens \ {t}
  /\ UNCHANGED vars

Found(p, t) == IF cache[p][t.job] # NoJob THEN cache[p][t.job] ELSE t.snapshot

(* A request with token t passed the guards of its handler.                *)
Recover(p, t, op, phase, next) ==
  /\ Idle(p)
  /\ cache' = Cached(p, t.job, Found(p, t))
  /\ req' = [req EXCEPT ![p] = [op |-> op, job |-> t.job, phase |-> phase, next |-> next]]
  /\ UNCHANGED <<store, startResponse, webhookReceipt>>

-----------------------------------------------------------------------------
(* The handlers of HostedServer, on the job that was found. *)

(* An id is a random token: no token names it yet.                         *)
CreateWithToken(p, j, lane) ==
  /\ stripe[j] = "none" /\ \A t \in tokens : t.job # j
  /\ _github_control_room_response(p, j, lane)
  /\ UNCHANGED tokens

(* A page or a status, a cancelled checkout, or a request that is refused: *)
(* all but the last renew the job token.                                   *)
ReadWithToken(p, t) ==
  /\ Idle(p)
  /\ cache' = Cached(p, t.job, Found(p, t))
  /\ Grant({JobToken(t.job, Found(p, t))}) \/ UNCHANGED tokens
  /\ UNCHANGED <<store, req, stripe, envelopes, startResponse, webhookReceipt>>

(* The envelope carries a job token of the snapshot to remember.           *)
ActWithToken(p, t, action) ==
  LET job  == Found(p, t)
      next == advance_hosted_launch_job(job, action)
  IN /\ t.use = "job"
     /\ ~_dispatch_action_requires_managed_payment(job, action)
     /\ CanAdvance(job, action)
     /\ UNCHANGED stripe
     /\ \/ /\ Dispatches(job, action)
           /\ Recover(p, t, action, "dispatch", next)
           /\ envelopes' = envelopes \cup
                {[job |-> t.job, action |-> action, payment |-> next.payment]}
           /\ Grant({JobToken(t.job, next)})
        \/ /\ ~Dispatches(job, action)
           /\ Recover(p, t, action, "remember", next)
           /\ UNCHANGED <<envelopes, tokens>>

CheckoutWithToken(p, t) ==
  LET job == Found(p, t)
  IN /\ t.use = "job" /\ job.lane = Managed
     /\ Recover(p, t, "checkout", "remember", with_hosted_job_payment_receipt(job, FALSE))
     /\ stripe' = [stripe EXCEPT ![t.job] = IF @ = "none" THEN "open" ELSE @]
     /\ Grant({PaymentToken(t.job, job)})
     /\ UNCHANGED envelopes

ReturnWithToken(p, t) ==
  /\ t.use = "payment" /\ stripe[t.job] = "paid"
  /\ Recover(p, t, "payment_return", "remember",
             with_hosted_job_payment_receipt(Found(p, t), TRUE))
  /\ UNCHANGED <<stripe, envelopes, tokens>>

(* The webhook brings no token: it finds what the process remembers.       *)
WebhookInMemory(p, j) ==
  /\ Idle(p) /\ cache[p][j] # NoJob /\ stripe[j] = "paid"
  /\ req' = [req EXCEPT ![p] =
               [op |-> "payment_webhook", job |-> j, phase |-> "remember",
                next |-> with_hosted_job_payment_receipt(cache[p][j], TRUE)]]
  /\ UNCHANGED <<cache, store, stripe, envelopes, startResponse, webhookReceipt, tokens>>

ClaimWithToken(p, t) ==
  /\ t.use = "job" /\ CanClaim(Found(p, t))
  /\ Recover(p, t, "claim", "remember", claim_hosted_launch_job(Found(p, t)))
  /\ UNCHANGED <<stripe, envelopes, tokens>>

ProveWithToken(p, t, payload) ==
  /\ t.use = "job" /\ CanProve(Found(p, t))
  /\ Recover(p, t, "proof", "remember", apply_hosted_worker_proof(Found(p, t), payload))
  /\ UNCHANGED <<stripe, envelopes, tokens>>

(* The snapshot goes into the memory of the process and, but for the       *)
(* webhook, into the answer.  There is no put that could fail.             *)
AnswerWithToken(p) ==
  LET r == req[p]
  IN /\ ~Idle(p) /\ r.phase = "remember"
     /\ cache' = Cached(p, r.job, r.next)
     /\ req' = [req EXCEPT ![p] = NoRequest]
     /\ IF r.op = "payment_webhook" THEN UNCHANGED tokens
                                    ELSE Grant({JobToken(r.job, r.next)})
     /\ UNCHANGED <<store, stripe, envelopes, startResponse, webhookReceipt>>

-----------------------------------------------------------------------------

Durable ==
  /\ deployment.durable
  /\ \E p \in deployment.procs :
       \/ Continue(p)
       \/ \E j \in Jobs :
            \/ Click(p, j)
            \/ \E payload \in deployment.payloads : _hosted_worker_proof_response(p, j, payload)
  /\ UNCHANGED tokens

Present(p, t) ==
  \/ ReadWithToken(p, t)
  \/ \E action \in Actions : ActWithToken(p, t, action)
  \/ CheckoutWithToken(p, t)
  \/ ReturnWithToken(p, t)
  \/ ClaimWithToken(p, t)
  \/ \E payload \in deployment.payloads : ProveWithToken(p, t, payload)

Stateless ==
  /\ ~deployment.durable
  /\ \E p \in deployment.procs :
       \/ \E j \in Jobs, lane \in Lanes : CreateWithToken(p, j, lane)
       \/ \E t \in tokens : Present(p, t)
       \/ \E j \in Jobs : WebhookInMemory(p, j)
       \/ AnswerWithToken(p)
       \/ (DispatchAccepted(p) \/ DispatchFailed(p) \/ Crash(p)) /\ UNCHANGED tokens

NextDeployed ==
  /\ \/ Durable
     \/ Stateless
     \/ \E j \in Jobs : Pay(j) /\ UNCHANGED tokens
     \/ \E t \in tokens : Expire(t)
  /\ UNCHANGED deployment

SpecDeployed == InitDeployed /\ [][NextDeployed]_deployedVars

-----------------------------------------------------------------------------
(* Safety.  MoneyBeforeWork, EnvelopesPaid and CompleteMeansProven hold in *)
(* every deployment; tokens are one more place where a snapshot is kept.   *)

(* However old a token is and whatever happened to the job since, its      *)
(* snapshot claims nothing that is not so: no payment Stripe did not take, *)
(* no managed start before it, no completion without evidence.             *)
TokensTrue ==
  \A t \in tokens :
    LET s == t.snapshot
    IN /\ s.payment = "paid" => stripe[t.job] = "paid"
       /\ s.lane = Managed /\ Started(s) => stripe[t.job] = "paid"
       /\ s.status = "complete" =>
            _completion_ready(s) /\ s.steps["setup.execute"] = "done"

(* A worker is dispatched for maintenance only of a job for which one was  *)
(* dispatched to start it, although a failed dispatch or put, a crash, a   *)
(* second process or an old token may take the start itself back.          *)
MaintenanceFollowsStart ==
  \A e \in envelopes :
    e.action \in {"rollback", "detonate"} =>
      \E s \in envelopes : s.job = e.job /\ s.action = "start"

(* With one process over the store, the managed-start artifact agrees with *)
(* the stored job, whatever the cache does.                                *)
OneProcessArtifact ==
  (\A p, q \in deployment.procs : p = q) => ArtifactMeansStarted

=============================================================================
