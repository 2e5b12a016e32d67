---------------------------- MODULE ProviderSetup ----------------------------
(* An apply: it runs the setup recipes of the app's providers in order,        *)
(* verifies every provider, falls back to the API where verification fails,    *)
(* and writes the vault and the receipt.  A provider call may be refused, be   *)
(* refused although it was carried out, or end the process: a timeout while    *)
(* waiting for the answer is no ProviderError.  The user captures tokens and   *)
(* finishes gates while it runs, and runs it again.                            *)
(* Not here: --allow-incomplete, the inferred UI repair, Resend (neither of    *)
(* the properties is about them), and token values.                            *)
EXTENDS Providers, SequencesExt

CONSTANTS
  TroubleKinds,   \* what may go wrong
  MaxTroubles     \* bound on how often

VARIABLES
  app,          \* services and runtime values of the app, and what was there before
  vault,        \* on disk: the captured tokens, and the deploy key's private half
  receipt,      \* on disk: the last receipt's actions
  gates,        \* gates.json: providers in the order of their records, and who waits
  room,         \* the control room's copy of the vault during a capture
  ap,           \* the running apply
  applies,      \* 0, 1, or 2 for more
  outcome,      \* how the last apply ended
  troubles,
  history       \* approved, tainted, overlapped: see Init

setupVars == <<cloud, app, vault, receipt, gates, room, ap, applies, outcome,
               troubles, history>>

Ordered == <<"github", "vercel", "cloudflare">>
Rank(p) == CHOOSE i \in 1..3 : Ordered[i] = p

Recipes ==
  [github     |-> <<"open", "deploy_key", "secrets">>,
   vercel     |-> <<"open", "project", "env", "deployment">>,
   cloudflare |-> <<"open", "propose", "apply">>]

(* The providers of the app, and those after a rank.                          *)
Ranks    == {i \in 1..3 : Ordered[i] \in app.services}
After(i) == {k \in Ranks : i < k}

Vaults == [tokens : SUBSET Range(Ordered), key : BOOLEAN]

Entries == [action : {"github.deploy_key", "github.secret", "vercel.project", "vercel.env",
                      "dns.propose"},
            id : Nat, named : BOOLEAN, created : BOOLEAN,
            existing : DnsRecords \cup {NoRecord}]

Entry(action) ==
  [action |-> action, id |-> 0, named |-> TRUE, created |-> FALSE, existing |-> NoRecord]

(* The receipt redacts what a secret-looking field says: the name of a GitHub *)
(* secret is in the field "secret".                                            *)
redact(entry) == [entry EXCEPT !.named = entry.action # "github.secret"]

NoGate == ""   \* no provider's gate

NoApply == [phase |-> "idle", at |-> 1, step |-> 1, mem |-> [tokens |-> {}, key |-> FALSE],
            approve |-> FALSE, receipt |-> <<>>, active |-> NoGate, paused |-> NoGate,
            stale |-> FALSE, failed |-> FALSE]

Phases == {"idle", "setup", "fallback", "survey", "verify", "reverify", "save_vault",
           "save_receipt"}

Applies ==
  [phase : Phases, at : 1..3, step : 1..4, mem : Vaults, approve : BOOLEAN,
   receipt : Seq(Entries), active : Range(Ordered) \cup {NoGate},
   paused : Range(Ordered) \cup {NoGate}, stale : BOOLEAN, failed : BOOLEAN]

TypeOKSetup ==
  /\ TypeOKCloud
  /\ vault \in Vaults /\ receipt \in Seq(Entries)
  /\ gates \in [order : Seq(Range(Ordered)), waiting : SUBSET Range(Ordered)]
  /\ gates.waiting \subseteq Range(gates.order)
  /\ room = NoRecord \/ room \in [provider : Range(Ordered), copy : Vaults]
  /\ ap \in Applies
  /\ ap.phase # "idle" => ap.at \in Ranks /\ ap.step \in DOMAIN Recipes[Ordered[ap.at]]
  /\ applies \in 0..2 /\ outcome \in {"none", "failed", "finished"}
  /\ troubles \in 0..MaxTroubles
  /\ history \in [approved : BOOLEAN, tainted : BOOLEAN, overlapped : BOOLEAN]

(* history.approved: the user granted DNS to some apply.  history.tainted: an  *)
(* apply ended without its artifacts, or a provider did what it refused.       *)
(* history.overlapped: a capture was open while an apply saved the vault.      *)
InitSetup ==
  /\ receipt = <<>>
  /\ gates = [order |-> <<>>, waiting |-> {}]
  /\ room = NoRecord
  /\ ap = NoApply
  /\ applies = 0 /\ outcome = "none" /\ troubles = 0
  /\ history = [approved |-> FALSE, tainted |-> FALSE, overlapped |-> FALSE]

-----------------------------------------------------------------------------
(* The way of an apply through its recipes.                                   *)

Trouble(kind) ==
  /\ kind \in TroubleKinds /\ troubles < MaxTroubles
  /\ troubles' = troubles + 1

Provider == Ordered[ap.at]
In(phases) == ap.phase \in phases
At(step) == In({"setup", "fallback"}) /\ Recipes[Provider][ap.step] = step

Recorded(a, entry) == [a EXCEPT !.receipt = Append(@, redact(entry))]

Advance(a) ==
  IF a.step < Len(Recipes[Provider]) THEN [a EXCEPT !.step = @ + 1]
  ELSE IF a.phase = "fallback"       THEN [a EXCEPT !.phase = "reverify", !.step = 1]
  ELSE IF After(a.at) # {}           THEN [a EXCEPT !.at = Min(After(a.at)), !.step = 1]
  ELSE                                    [a EXCEPT !.phase = "survey", !.step = 1]

(* Mutant: a failed apply leaves no artifacts.                                 *)
raised_without_artifacts(a) == NoApply

(* A ProviderError ends a setup; a fallback swallows it and the verification   *)
(* it was for fails.  Either way the artifacts are written.                    *)
Raised(a) == [a EXCEPT !.phase = "save_vault", !.step = 1, !.failed = TRUE]

_record_gate_waiting(p) ==
  gates' = [order   |-> IF p \in Range(gates.order) THEN gates.order
                        ELSE Append(gates.order, p),
            waiting |-> gates.waiting \cup {p}]

(* A recipe that needs a person: setup pauses here, a fallback only reports.   *)
Pauses ==
  /\ IF ap.phase = "setup"
     THEN /\ ap' = [ap EXCEPT !.phase = "survey", !.step = 1, !.paused = Provider]
          /\ _record_gate_waiting(Provider)
     ELSE ap' = [ap EXCEPT !.phase = "reverify", !.step = 1] /\ UNCHANGED gates
  /\ UNCHANGED <<cloud, history>>

ApplyOnly == UNCHANGED <<app, vault, receipt, room, applies, outcome>>

Dies ==
  /\ ap' = NoApply
  /\ history' = [history EXCEPT !.tainted = TRUE]

(* One provider call: `after` is what it leaves, a the apply that made it and  *)
(* answered the apply that heard of its success.                               *)
Call(after, a, answered) ==
  /\ \/ cloud' = after /\ ap' = answered /\ UNCHANGED <<troubles, history>>
     \/ /\ Trouble("refused")
        /\ ap' = Raised(a) /\ UNCHANGED <<cloud, history>>
     \/ /\ Trouble("half")
        /\ cloud' = after /\ ap' = Raised(a)
        /\ history' = [history EXCEPT !.tainted = TRUE]
     \/ /\ Trouble("dies")
        /\ cloud' \in {cloud, after} /\ Dies
  /\ UNCHANGED gates /\ ApplyOnly

_apply_loaded_manifest(approve) ==
  /\ ap.phase = "idle"
  /\ ap' = [NoApply EXCEPT !.phase = "setup", !.at = Min(Ranks), !.mem = vault,
                           !.approve = approve, !.stale = gates.waiting # {}]
  /\ applies' = IF applies = 2 THEN 2 ELSE applies + 1
  /\ outcome' = "none"
  /\ history' = [history EXCEPT !.approved = @ \/ approve]
  /\ UNCHANGED <<cloud, app, vault, receipt, gates, room, troubles>>

(* DNS waits for the approval in the control room, where there is one.         *)
AwaitsApproval ==
  ap.phase = "setup" /\ Provider = "cloudflare" /\ app.room /\ ~ap.approve

_await_dns_approval ==
  /\ At("open") /\ AwaitsApproval
  /\ ap' = [ap EXCEPT !.approve = TRUE]
  /\ history' = [history EXCEPT !.approved = TRUE]
  /\ UNCHANGED <<cloud, gates, troubles>> /\ ApplyOnly

(* The route is the API when there is a token, a gate otherwise.              *)
choose_provider_strategy ==
  /\ At("open") /\ ~AwaitsApproval
  /\ IF Provider \in ap.mem.tokens
     THEN ap' = Advance(ap) /\ UNCHANGED <<cloud, gates, history>>
     ELSE Pauses
  /\ UNCHANGED troubles /\ ApplyOnly

(* The provider's first recipe that calls its API: not a reused deploy key.    *)
_recipe_may_touch_provider_api ==
  \/ At("open") /\ (Provider = "github" => ~ap.mem.key)
  \/ At("secrets") /\ app.env /\ Last(ap.receipt).id = 0

_provider_contract_health_gate ==
  /\ _recipe_may_touch_provider_api /\ ~AwaitsApproval
  /\ Provider \in ap.mem.tokens
  /\ Trouble("health") /\ Pauses /\ ApplyOnly

-----------------------------------------------------------------------------
(* The recipes.                                                               *)

(* The private half is in the vault before the public half is at GitHub.       *)
_github_deploy_key ==
  /\ At("deploy_key")
  /\ LET key    == Entry("github.deploy_key")
         saving == [ap EXCEPT !.mem.key = TRUE]
     IN IF ap.mem.key
        THEN /\ ap' = Advance(Recorded(ap, key))
             /\ UNCHANGED <<cloud, gates, history, troubles>> /\ ApplyOnly
        ELSE Call(add_deploy_key, saving,
                  Advance(Recorded(saving, [key EXCEPT !.id = cloud.next])))

Skips(step) ==
  /\ At(step)
  /\ ap' = Advance(ap)
  /\ UNCHANGED <<cloud, gates, history, troubles>> /\ ApplyOnly

_github_repo_secrets ==
  \/ ~app.env /\ Skips("secrets")
  \/ /\ At("secrets") /\ app.env
     /\ Call(put_repo_secret, ap, Advance(Recorded(ap, Entry("github.secret"))))

_vercel_project ==
  /\ At("project")
  /\ Call(ensure_project, ap,
          Advance(Recorded(ap, [Entry("vercel.project") EXCEPT
                                  !.created = cloud.project = "none"])))

_vercel_github_connection_gate ==
  /\ At("project") /\ cloud.project = "none"
  /\ Trouble("refused") /\ Pauses /\ ApplyOnly

_vercel_env ==
  \/ ~app.env /\ Skips("env")
  \/ /\ At("env") /\ app.env
     /\ Call(put_env, ap, Advance(Recorded(ap, Entry("vercel.env"))))

(* A replacement stops between its calls: nothing is recorded.                *)
ReplacementStops ==
  /\ At("env") /\ app.env /\ cloud.env # "none"
  /\ cloud' \in put_env_left
  /\ \/ Trouble("refused") /\ ap' = Raised(ap) /\ UNCHANGED history
     \/ Trouble("dies") /\ Dies
  /\ UNCHANGED gates /\ ApplyOnly

_vercel_git_deployment ==
  At("deployment") /\ Call(cloud, ap, Advance(ap))

propose ==
  /\ At("propose")
  /\ Call(cloud, ap,
          Advance(Recorded(ap, [Entry("dns.propose") EXCEPT !.existing = cloud.zone])))

(* The records are applied, and reading them back is refused.                 *)
ReadBackRefused ==
  /\ At("apply") /\ ap.approve
  /\ Trouble("refused")
  /\ cloud' = apply(Last(ap.receipt).existing) /\ ap' = Raised(ap)
  /\ UNCHANGED <<gates, history>> /\ ApplyOnly

_cloudflare_dns ==
  \/ ~ap.approve /\ Skips("apply")
  \/ /\ At("apply") /\ ap.approve
     /\ Call(apply(Last(ap.receipt).existing), ap, Advance(ap))
  \/ ReadBackRefused

Recipe ==
  \/ _github_deploy_key \/ _github_repo_secrets
  \/ _vercel_project \/ _vercel_github_connection_gate
  \/ _vercel_env \/ ReplacementStops \/ _vercel_git_deployment
  \/ propose \/ _cloudflare_dns

-----------------------------------------------------------------------------
(* Verification.                                                              *)

(* The first waiting record of gates.json, whatever its provider.             *)
_pending_provider_gate ==
  LET at == {i \in DOMAIN gates.order : gates.order[i] \in gates.waiting}
  IN IF at = {} THEN NoGate ELSE gates.order[Min(at)]

_verify_provider_packs ==
  /\ In({"survey"})
  /\ ap' = [ap EXCEPT !.phase = "verify", !.at = Min(Ranks), !.step = 1,
                      !.active = _pending_provider_gate]
  /\ UNCHANGED <<cloud, gates, history, troubles>> /\ ApplyOnly

(* DNS that is not there yet is pending-safe, and so is a deployment.         *)
Acceptable(p) ==
  /\ p \in ap.mem.tokens
  /\ CASE p = "github" -> cloud.keys # {} /\ (app.env => cloud.secret)
       [] p = "vercel" -> cloud.project # "none"
       [] OTHER        -> TRUE

(* A project without its runtime values asks for a person, and goes on.        *)
NeedsGate(p) == p = "vercel" /\ app.env /\ cloud.env = "none"

VerifiedNext ==
  ap' = IF After(ap.at) # {}
        THEN [ap EXCEPT !.phase = "verify", !.at = Min(After(ap.at)), !.step = 1]
        ELSE [ap EXCEPT !.phase = "save_vault", !.step = 1]

Accepts ==
  /\ VerifiedNext
  /\ IF NeedsGate(Provider) THEN _record_gate_waiting(Provider) ELSE UNCHANGED gates
  /\ UNCHANGED <<cloud, history>> /\ ApplyOnly

(* Mutant: only a provider's own gate defers it.                              *)
own_gate_only == Provider \in gates.waiting

(* A provider with a gate of its own, or after the active one, is not looked at.*)
Deferred ==
  \/ Provider \in gates.waiting
  \/ ap.active # NoGate /\ Rank(Provider) > Rank(ap.active)

_provider_waiting_on_upstream_gate_result ==
  /\ In({"verify"}) /\ Deferred
  /\ VerifiedNext
  /\ UNCHANGED <<cloud, gates, history, troubles>> /\ ApplyOnly

_attempt_provider_api_fallback ==
  /\ ap' = IF Provider \in ap.mem.tokens
           THEN [ap EXCEPT !.phase = "fallback", !.step = 1] ELSE Raised(ap)
  /\ UNCHANGED <<cloud, gates, history>> /\ ApplyOnly

verify_provider_pack ==
  /\ In({"verify"}) /\ ~Deferred
  /\ IF Acceptable(Provider) THEN Accepts ELSE _attempt_provider_api_fallback
  /\ UNCHANGED troubles

CheckFails ==
  /\ In({"verify"}) /\ ~Deferred
  /\ Trouble("check")
  /\ _attempt_provider_api_fallback

_rerun_provider_verification ==
  /\ In({"reverify"})
  /\ IF Acceptable(Provider) THEN Accepts
     ELSE ap' = Raised(ap) /\ UNCHANGED <<cloud, gates, history>> /\ ApplyOnly
  /\ UNCHANGED troubles

-----------------------------------------------------------------------------
(* _write_apply_artifacts: the vault first, then the receipt.                 *)

(* Mutant: only a successful apply keeps what it put into the vault.          *)
save_vault_of_success ==
  /\ In({"save_vault"})
  /\ vault' = IF ap.failed THEN vault ELSE ap.mem
  /\ ap' = [ap EXCEPT !.phase = "save_receipt"]
  /\ history' = [history EXCEPT !.overlapped = @ \/ room # NoRecord]
  /\ UNCHANGED <<cloud, app, receipt, gates, room, applies, outcome, troubles>>

SaveVault ==
  /\ In({"save_vault"})
  /\ vault' = ap.mem
  /\ ap' = [ap EXCEPT !.phase = "save_receipt"]
  /\ history' = [history EXCEPT !.overlapped = @ \/ room # NoRecord]
  /\ UNCHANGED <<cloud, app, receipt, gates, room, applies, outcome, troubles>>

WriteReceipt ==
  /\ In({"save_receipt"})
  /\ receipt' = ap.receipt
  /\ outcome' = IF ap.failed THEN "failed" ELSE "finished"
  /\ ap' = NoApply
  /\ UNCHANGED <<cloud, app, vault, gates, room, applies, troubles, history>>

Crash ==
  /\ ap.phase # "idle"
  /\ Trouble("dies") /\ Dies
  /\ UNCHANGED <<cloud, gates>> /\ ApplyOnly

-----------------------------------------------------------------------------
(* The user at the control room.                                              *)

UserOnly == UNCHANGED <<cloud, app, receipt, ap, applies, outcome, troubles, history>>

_capture_opens(p) ==
  /\ room = NoRecord /\ p \in gates.waiting /\ p \notin vault.tokens
  /\ room' = [provider |-> p, copy |-> vault]
  /\ UNCHANGED <<vault, gates>> /\ UserOnly

Resolved(p) == gates' = [gates EXCEPT !.waiting = @ \ {p}]

_capture_saves ==
  /\ room # NoRecord
  /\ vault' = [room.copy EXCEPT !.tokens = @ \cup {room.provider}]
  /\ Resolved(room.provider)
  /\ room' = NoRecord
  /\ UserOnly

ClickFinished(p) ==
  /\ room = NoRecord /\ p \in gates.waiting /\ p \in vault.tokens
  /\ Resolved(p)
  /\ UNCHANGED <<vault, room>> /\ UserOnly

-----------------------------------------------------------------------------

ApplySteps ==
  \/ choose_provider_strategy \/ _provider_contract_health_gate
  \/ Recipe
  \/ _verify_provider_packs \/ _provider_waiting_on_upstream_gate_result
  \/ verify_provider_pack \/ CheckFails \/ _rerun_provider_verification
  \/ SaveVault \/ WriteReceipt

UserSteps ==
  \/ _await_dns_approval \/ _capture_saves
  \/ \E p \in app.services : _capture_opens(p) \/ ClickFinished(p)

=============================================================================
