------------------------------- MODULE Rollback -------------------------------
(* `fusekit rollback --execute`: the actions of the receipt on disk one by one, *)
(* in the order they were recorded, and all DNS proposals at the end.  The      *)
(* first ProviderError ends it.                                                 *)
EXTENDS ProviderSetup

CONSTANTS
  MaxRollbacks,        \* bound on the rollbacks of a behaviour
  Apps, FirstTokens    \* the apps, and the tokens captured before

ASSUME AppsAssumption ==
  Apps \subseteq [services : (SUBSET Range(Ordered)) \ {{}}, env : BOOLEAN,
                 project : {"none", "theirs"}, zone : {Accounts("none", z).zone : z \in BOOLEAN},
                 room : BOOLEAN]
ASSUME TokensAssumption == FirstTokens \subseteq SUBSET Range(Ordered)
ASSUME BoundsAssumption == MaxRollbacks \in Nat /\ MaxTroubles \in Nat

VARIABLES
  rb,          \* what is left of the running rollback, and how the last one ended
  rollbacks    \* how many were started

rollbackVars == <<setupVars, rb, rollbacks>>

NoRollback == [todo |-> <<>>, dns |-> <<>>, running |-> FALSE, result |-> "none"]

TypeOKRollback ==
  /\ TypeOKSetup /\ app \in Apps
  /\ rb \in [todo : Seq(Entries), dns : Seq(Entries), running : BOOLEAN,
             result : {"none", "done", "aborted"}]
  /\ rb.running => rb.result = "none" /\ ap.phase = "idle"
  /\ rollbacks \in 0..MaxRollbacks

InitRollback == rb = NoRollback /\ rollbacks = 0

RollbackOnly == UNCHANGED <<app, vault, receipt, gates, room, ap, applies, outcome,
                            history, rollbacks>>

execute_native_rollback ==
  /\ ap.phase = "idle" /\ ~rb.running /\ receipt # <<>>
  /\ rollbacks < MaxRollbacks
  /\ rb' = [NoRollback EXCEPT !.todo = receipt, !.running = TRUE]
  /\ rollbacks' = rollbacks + 1
  /\ UNCHANGED setupVars

Doing(actions) == rb.running /\ rb.todo # <<>> /\ Head(rb.todo).action \in actions

Entry1 == Head(rb.todo)
Done1  == [rb EXCEPT !.todo = Tail(@)]
Aborts == rb' = [NoRollback EXCEPT !.result = "aborted"]

(* One deletion: it needs a token, and the thing to be there.                 *)
Undo(provider, possible, after, undone) ==
  /\ \/ /\ provider \in vault.tokens /\ possible
        /\ cloud' = after /\ rb' = undone
        /\ UNCHANGED troubles
     \/ /\ ~(provider \in vault.tokens /\ possible)
        /\ Aborts
        /\ UNCHANGED <<cloud, troubles>>
     \/ /\ Trouble("refused") /\ Aborts /\ UNCHANGED cloud
  /\ RollbackOnly

Nothing ==
  /\ rb' = Done1
  /\ UNCHANGED <<cloud, troubles>> /\ RollbackOnly

CollectDns ==
  /\ Doing({"dns.propose"})
  /\ rb' = [Done1 EXCEPT !.dns = Append(@, Entry1)]
  /\ UNCHANGED <<cloud, troubles>> /\ RollbackOnly

_rollback_github_deploy_key ==
  /\ Doing({"github.deploy_key"})
  /\ IF Entry1.id = 0 THEN Nothing
     ELSE Undo("github", Entry1.id \in cloud.keys, delete_deploy_key(Entry1.id), Done1)

_rollback_github_secret ==
  /\ Doing({"github.secret"})
  /\ Undo("github", Entry1.named /\ cloud.secret, delete_repo_secret, Done1)

(* Of two variables with the name one is deleted, and the other is refused.   *)
DeletesOne ==
  /\ cloud.env = "both" /\ "vercel" \in vault.tokens
  /\ cloud' \in {[cloud EXCEPT !.env = left] : left \in {"theirs", "ours"}}
  /\ Trouble("refused") /\ Aborts
  /\ RollbackOnly

_rollback_vercel_env ==
  /\ Doing({"vercel.env"})
  /\ \/ Undo("vercel", cloud.project # "none", delete_env_by_key, Done1)
     \/ DeletesOne

(* Mutant: whoever created the project.                                       *)
delete_any_project ==
  /\ Doing({"vercel.project"})
  /\ Undo("vercel", cloud.project # "none", delete_project, Done1)

_rollback_vercel_project ==
  /\ Doing({"vercel.project"})
  /\ IF ~Entry1.created THEN Nothing
     ELSE Undo("vercel", cloud.project # "none", delete_project, Done1)

(* Mutant: the last proposal's metadata is never used.                        *)
keep_record ==
  /\ rb.running /\ rb.todo = <<>> /\ rb.dns # <<>>
  /\ Undo("cloudflare", TRUE, cloud, [rb EXCEPT !.dns = Tail(@)])

_rollback_cloudflare_dns ==
  /\ rb.running /\ rb.todo = <<>> /\ rb.dns # <<>>
  /\ LET found == Head(rb.dns).existing
     IN Undo("cloudflare", found # NoRecord => HasRecord(found.id),
             rollback_proposal(found), [rb EXCEPT !.dns = Tail(@)])

(* Mutant: the finished rollback is not cleared away.                         *)
returns_running ==
  /\ rb.running /\ rb.todo = <<>> /\ rb.dns = <<>>
  /\ rb' = [rb EXCEPT !.result = "done"]
  /\ UNCHANGED <<cloud, troubles>> /\ RollbackOnly

RollbackReturns ==
  /\ rb.running /\ rb.todo = <<>> /\ rb.dns = <<>>
  /\ rb' = [NoRollback EXCEPT !.result = "done"]
  /\ UNCHANGED <<cloud, troubles>> /\ RollbackOnly

RollbackSteps ==
  \/ CollectDns
  \/ _rollback_github_deploy_key \/ _rollback_github_secret
  \/ _rollback_vercel_env \/ _rollback_vercel_project
  \/ _rollback_cloudflare_dns \/ RollbackReturns

Setup(step) == step /\ UNCHANGED <<rb, rollbacks>>

(* One `fusekit` command at a time; the control room is open all along.       *)
Start ==
  /\ ~rb.running
  /\ \E approve \in BOOLEAN : _apply_loaded_manifest(approve)

Next ==
  \/ Setup(Start) \/ Setup(ApplySteps) \/ Setup(Crash) \/ Setup(UserSteps)
  \/ execute_native_rollback \/ RollbackSteps

Init ==
  /\ app \in Apps
  /\ cloud = Accounts(app.project, app.zone # NoRecord)
  /\ \E tokens \in FirstTokens : vault = [tokens |-> tokens, key |-> FALSE]
  /\ InitSetup /\ InitRollback

Spec == Init /\ [][Next]_rollbackVars

-----------------------------------------------------------------------------
(* Properties. *)

Recorded1(R, action) == \E i \in DOMAIN R : R[i].action = action

(* The receipt names a deploy key only if the vault on disk has its private    *)
(* half, whenever the process dies (_write_apply_artifacts saves the vault     *)
(* first); a capture that is open during the save may take it away again.      *)
KeyBacked ==
  (\E i \in DOMAIN receipt : receipt[i].action = "github.deploy_key")
     => vault.key \/ history.overlapped

(* After the first apply, failed or not, the receipt names everything FuseKit  *)
(* left at the providers: _apply_loaded_manifest writes it on every            *)
(* FuseKitError.  Except when a call or the process ended it without one, and  *)
(* except for the variable of a put_env that could not delete the user's       *)
(* ("both"), which is created and not recorded (vercel.py:86).                 *)
RecordedOnce ==
  applies = 1 /\ ap.phase = "idle" /\ rollbacks = 0 /\ ~history.tainted =>
    /\ \A id \in cloud.keys :
         \E i \in DOMAIN receipt : receipt[i].action = "github.deploy_key" /\ receipt[i].id = id
    /\ cloud.secret => Recorded1(receipt, "github.secret")
    /\ cloud.project = "ours" =>
         \E i \in DOMAIN receipt : receipt[i].action = "vercel.project" /\ receipt[i].created
    /\ cloud.env = "ours" => Recorded1(receipt, "vercel.env")
    /\ cloud.zone # NoRecord /\ cloud.zone.content = "ours" => Recorded1(receipt, "dns.propose")

(* What the user had stays: the project and the record are never deleted,      *)
(* whatever is applied and rolled back, and the record's content only changes  *)
(* after the user approved DNS.                                                *)
TheirsKept ==
  /\ app.project = "theirs" => cloud.project = "theirs"
  /\ app.zone # NoRecord =>
       /\ HasRecord(app.zone.id)
       /\ cloud.zone.content = "theirs" \/ history.approved

ProposedOnce(R) ==
  \A i, j \in DOMAIN R : R[i].action = "dns.propose" /\ R[j].action = "dns.propose" => i = j

(* A rollback of the first apply's receipt that returns leaves none of what    *)
(* FuseKit created alone, and DNS as it was, when no provider lied, nothing    *)
(* was lost, and the apply proposed DNS once.  It says nothing of a variable   *)
(* FuseKit's stands beside ("both"), which the receipt may not name, and the   *)
(* value of a variable of the user's that was replaced is never put back.      *)
(* With a GitHub secret in the receipt no rollback returns: redact takes its   *)
(* name away (audit.py:32).                                                    *)
RollbackUndoes ==
  applies = 1 /\ rb.result = "done" /\ ~history.tainted /\ ProposedOnce(receipt) =>
    /\ cloud.keys = {} /\ ~cloud.secret
    /\ cloud.project # "ours" /\ cloud.env # "ours"
    /\ cloud.zone = app.zone

(* What belongs to a provider at the providers.                               *)
Part(c, p) ==
  CASE p = "github" -> <<c.keys, c.secret>>
    [] p = "vercel" -> <<c.project, c.env>>
    [] OTHER        -> <<c.zone>>

(* "Downstream providers are waiting until this provider gate is completed":   *)
(* an apply that paused at a provider changes nothing after it while the gate  *)
(* waits, not even in the fallbacks of verification.  Except when an earlier   *)
(* apply left a gate waiting, whose record then hides the new one's, and when  *)
(* the user had finished the gate before verification began.                   *)
DownstreamWaits ==
  [][\A p \in Range(Ordered) :
       /\ ap.paused # NoGate /\ ap.paused \in gates.waiting
       /\ ap.phase \in {"verify", "fallback", "reverify"} => ap.active # NoGate
       /\ ~ap.stale
       /\ Rank(p) > Rank(ap.paused)
       => Part(cloud', p) = Part(cloud, p)]_rollbackVars

(* Checked as violated: a rollback without a fault restores the DNS record     *)
(* ("Use receipt rollback metadata to restore or delete DNS records").         *)
DnsRestored ==
  rollbacks = 1 /\ ~rb.running /\ troubles = 0 /\ applies = 1 => cloud.zone = app.zone

(* An app that is set up.                                                      *)
Ready == ap.phase = "idle" /\ outcome = "finished" /\ gates.waiting = {}

(* Checked as violated: troubles end, the user runs FuseKit again, and the     *)
(* setup succeeds at last ("continue through provider verification / repair /  *)
(* fallback as the source of truth").                                          *)
SetupConverges == []<>Ready

=============================================================================
