------------------------------- MODULE MCSetup -------------------------------
(* Instances of Rollback small enough for TLC.                                *)
EXTENDS Rollback

(* The apps: which services, whether they have runtime values, what the user   *)
(* had before, whether a control room is open.                                 *)
App(services, env, project, zone, withRoom) ==
  [services |-> services, env |-> env, project |-> project,
   zone |-> Accounts(project, zone).zone, room |-> withRoom]

GitHubVercel(withRoom) ==
  App({"github", "vercel"}, TRUE, "none", FALSE, withRoom)
KeyAndDns(zone)        == App({"github", "cloudflare"}, FALSE, "none", zone, FALSE)
VercelAndDns(env, project, zone, withRoom) ==
  App({"vercel", "cloudflare"}, env, project, zone, withRoom)
All == App(Range(Ordered), TRUE, "theirs", TRUE, FALSE)

MCApps ==
  {GitHubVercel(FALSE), KeyAndDns(TRUE), KeyAndDns(FALSE),
   VercelAndDns(TRUE, "theirs", TRUE, TRUE), VercelAndDns(FALSE, "none", FALSE, FALSE), All}

VercelApps == {VercelAndDns(TRUE, "none", zone, FALSE) : zone \in BOOLEAN}
KeyApps    == {App({"github", "cloudflare"}, FALSE, "none", FALSE, FALSE)}

Without(p) == Range(Ordered) \ {p}
MCFirstTokens == {Range(Ordered), Without("vercel")}
AllTokens     == {Range(Ordered)}

(* The command runs on, and a user who is not done runs it again.             *)
MCFairSpec ==
  /\ Spec
  /\ WF_rollbackVars(Setup(ApplySteps))
  /\ WF_rollbackVars(Setup(UserSteps))
  /\ WF_rollbackVars(Setup(Start))

=============================================================================
