----------------------------- MODULE SetupProofs -----------------------------
(* Proofs about ProviderSetup and Rollback, for every set of apps, tokens      *)
(* captured before, kinds of trouble and bounds.                               *)
EXTENDS Rollback, SequenceTheorems, WellFoundedInduction, TLAPS

-----------------------------------------------------------------------------
(* The providers and their recipes. *)

LEMMA OrderedNames ==
  /\ Range(Ordered) = {"github", "vercel", "cloudflare"}
  /\ \A i \in 1..3 : Ordered[i] \in Range(Ordered)
  /\ Ordered[1] = "github" /\ Ordered[2] = "vercel" /\ Ordered[3] = "cloudflare"
  <1>1. DOMAIN Ordered = 1..3
    BY DEF Ordered
  <1>2. Ordered[1] = "github" /\ Ordered[2] = "vercel" /\ Ordered[3] = "cloudflare"
    BY DEF Ordered
  <1>3. Range(Ordered) = {Ordered[i] : i \in 1..3}
    BY <1>1, Zenon DEF Range
  <1> QED
    BY <1>1, <1>2, <1>3

LEMMA RecipeLengths ==
  /\ Len(Recipes["github"]) = 3 /\ DOMAIN Recipes["github"] = 1..3
  /\ Len(Recipes["vercel"]) = 4 /\ DOMAIN Recipes["vercel"] = 1..4
  /\ Len(Recipes["cloudflare"]) = 3 /\ DOMAIN Recipes["cloudflare"] = 1..3
  BY DEF Recipes

Less == {p \in Nat \X Nat : p[1] < p[2]}

LEMMA LessWellFounded == IsWellFoundedOn(Less, Nat)
  BY NatLessThanWellFounded, SMT DEF OpToRel, Less

LEMMA MinIsMember ==
  ASSUME NEW S, S \subseteq Nat, S # {}
  PROVE  Min(S) \in S
  <1>1. PICK x \in S : \A y \in S : ~ (<<y, x>> \in Less)
    BY LessWellFounded, WFMin
  <1>2. ASSUME NEW y \in S
        PROVE  x =< y
    <2>1. x \in Nat /\ y \in Nat
      OBVIOUS
    <2>2. y < x => <<y, x>> \in Less
      BY <2>1 DEF Less
    <2>3. ~(y < x)
      BY <1>1, <2>2
    <2> QED
      BY <2>1, <2>3
  <1> QED
    BY <1>2 DEF Min


-----------------------------------------------------------------------------
(* The parts of the type invariant. *)

Clouds == [keys : SUBSET Nat, secret : BOOLEAN, project : Owners, env : Variables,
           zone : DnsRecords \cup {NoRecord}, next : Nat]

GatesOK(g) ==
  /\ g \in [order : Seq(Range(Ordered)), waiting : SUBSET Range(Ordered)]
  /\ g.waiting \subseteq Range(g.order)

Underway(a) ==
  /\ a \in Applies
  /\ a.phase # "idle" => a.at \in Ranks /\ a.step \in DOMAIN Recipes[Ordered[a.at]]

Histories == [approved : BOOLEAN, tainted : BOOLEAN, overlapped : BOOLEAN]

(* A cloudflare recipe that applies has just recorded the zone as it is.       *)
AtApply(a) == a.phase \in {"setup", "fallback"} /\ Ordered[a.at] = "cloudflare" /\ a.step = 3

Proposed ==
  AtApply(ap) =>
    /\ ap.receipt # <<>> /\ ap.receipt[Len(ap.receipt)].action = "dns.propose"
    /\ Last(ap.receipt).existing = cloud.zone

LEMMA TypeParts ==
  ASSUME TypeOKRollback
  PROVE  /\ cloud \in Clouds /\ GatesOK(gates) /\ Underway(ap) /\ app \in Apps
         /\ troubles \in 0..MaxTroubles /\ history \in Histories
         /\ vault \in Vaults /\ receipt \in Seq(Entries)
         /\ room = NoRecord \/ room \in [provider : Range(Ordered), copy : Vaults]
         /\ rb.running => ap.phase = "idle"
  BY DEF TypeOKRollback, TypeOKSetup, TypeOKCloud, Clouds, GatesOK, Underway, Histories

LEMMA AppType ==
  ASSUME NEW a \in Apps
  PROVE  /\ a.services \in (SUBSET Range(Ordered)) \ {{}} /\ a.env \in BOOLEAN
         /\ a.project \in {"none", "theirs"} /\ a.room \in BOOLEAN
         /\ a.zone = NoRecord \/ a.zone = [id |-> 1, content |-> "theirs"]
  <1>1. \A z \in BOOLEAN : \/ Accounts("none", z).zone = NoRecord
                           \/ Accounts("none", z).zone = [id |-> 1, content |-> "theirs"]
    BY DEF Accounts
  <1>2. a \in [services : (SUBSET Range(Ordered)) \ {{}}, env : BOOLEAN,
               project : {"none", "theirs"}, zone : {Accounts("none", z).zone : z \in BOOLEAN},
               room : BOOLEAN]
    BY AppsAssumption
  <1> QED
    BY <1>1, <1>2

LEMMA CloudOps ==
  ASSUME cloud \in Clouds
  PROVE  /\ add_deploy_key \in Clouds /\ put_repo_secret \in Clouds
         /\ ensure_project \in Clouds /\ put_env \in Clouds /\ put_env_left \subseteq Clouds
         /\ delete_repo_secret \in Clouds /\ delete_env_by_key \in Clouds
         /\ delete_project \in Clouds
         /\ \A id \in Nat : delete_deploy_key(id) \in Clouds
  <1>1. cloud.next \in Nat /\ cloud.keys \in SUBSET Nat /\ cloud.project \in Owners
    BY DEF Clouds
  <1>2. cloud.keys \cup {cloud.next} \in SUBSET Nat /\ cloud.next + 1 \in Nat
    BY <1>1
  <1>3. \A id \in Nat : cloud.keys \ {id} \in SUBSET Nat
    BY <1>1
  <1>4. /\ "none" \in Owners /\ "ours" \in Owners
        /\ "none" \in Variables /\ "ours" \in Variables
    BY DEF Owners, Variables
  <1>5. add_deploy_key \in Clouds
    BY <1>2 DEF add_deploy_key, Clouds
  <1>6. put_repo_secret \in Clouds /\ delete_repo_secret \in Clouds
    BY DEF put_repo_secret, delete_repo_secret, Clouds
  <1>7. ensure_project \in Clouds
    BY <1>1, <1>4 DEF ensure_project, Clouds
  <1>8. put_env \in Clouds /\ put_env_left \subseteq Clouds /\ delete_env_by_key \in Clouds
    <2>1. \A e \in Variables : [cloud EXCEPT !.env = e] \in Clouds
      BY DEF Clouds
    <2>2. put_env_left \subseteq {[cloud EXCEPT !.env = e] : e \in Variables}
      BY DEF put_env_left, Variables, Owners, Clouds
    <2> QED
      BY <1>4, <2>1, <2>2 DEF put_env, delete_env_by_key
  <1>9. delete_project \in Clouds
    BY <1>4 DEF delete_project, Clouds
  <1>10. \A id \in Nat : delete_deploy_key(id) \in Clouds
    BY <1>3 DEF delete_deploy_key, Clouds
  <1> QED
    BY <1>5, <1>6, <1>7, <1>8, <1>9, <1>10

LEMMA ZoneOps ==
  ASSUME cloud \in Clouds
  PROVE  /\ apply(cloud.zone) \in Clouds
         /\ \A found \in DnsRecords :
              cloud.zone # NoRecord => rollback_proposal(found) \in Clouds
         /\ rollback_proposal(NoRecord) \in Clouds
  <1>1. cloud.next \in Nat /\ cloud.next + 1 \in Nat
    BY DEF Clouds
  <1>2. ASSUME NEW c \in {"theirs", "ours"}, cloud.zone # NoRecord
        PROVE  [cloud EXCEPT !.zone.content = c] \in Clouds
    <2>1. cloud.zone \in DnsRecords
      BY <1>2 DEF Clouds
    <2>2. [cloud.zone EXCEPT !.content = c] \in DnsRecords
      BY <2>1 DEF DnsRecords
    <2> QED
      BY <2>2 DEF Clouds
  <1>3. [cloud EXCEPT !.zone = [id |-> cloud.next, content |-> "ours"], !.next = @ + 1]
          \in Clouds
    BY <1>1 DEF Clouds, DnsRecords
  <1>4. apply(cloud.zone) \in Clouds
    BY <1>2, <1>3 DEF apply
  <1>5. rollback_proposal(NoRecord) \in Clouds
    BY DEF rollback_proposal, Clouds
  <1>6. ASSUME NEW found \in DnsRecords, cloud.zone # NoRecord
        PROVE  rollback_proposal(found) \in Clouds
    <2>1. found # NoRecord
      BY NoRecordAssumption
    <2>2. found.content \in {"theirs", "ours"}
      BY DEF DnsRecords
    <2> QED
      BY <1>2, <1>6, <2>1, <2>2 DEF rollback_proposal
  <1> QED
    BY <1>4, <1>5, <1>6


-----------------------------------------------------------------------------
(* The way of an apply. *)

LEMMA RanksNonempty ==
  ASSUME app \in Apps
  PROVE  Ranks \subseteq 1..3 /\ Ranks # {} /\ Min(Ranks) \in Ranks
  <1>1. Ranks \subseteq 1..3
    BY DEF Ranks
  <1>2. PICK p \in app.services : p \in Range(Ordered)
    BY AppType
  <1>3. \E i \in 1..3 : Ordered[i] = p
    BY <1>2, OrderedNames
  <1>4. Ranks # {}
    BY <1>2, <1>3 DEF Ranks
  <1>5. Ranks \subseteq Nat
    BY <1>1
  <1> QED
    BY <1>1, <1>4, <1>5, MinIsMember

LEMMA AfterMember ==
  ASSUME NEW i, After(i) # {}
  PROVE  Min(After(i)) \in Ranks
  <1>1. After(i) \subseteq Ranks /\ After(i) \subseteq Nat
    BY DEF After, Ranks
  <1> QED
    BY <1>1, MinIsMember

LEMMA RecipeStart ==
  ASSUME NEW i \in Ranks
  PROVE  i \in 1..3 /\ 1 \in DOMAIN Recipes[Ordered[i]]
  <1>1. i \in 1..3
    BY DEF Ranks
  <1>2. Ordered[i] \in {"github", "vercel", "cloudflare"}
    BY <1>1, OrderedNames
  <1> QED
    BY <1>1, <1>2, RecipeLengths

LEMMA RecipeNext ==
  ASSUME NEW i \in Ranks, NEW step \in DOMAIN Recipes[Ordered[i]],
         step < Len(Recipes[Ordered[i]])
  PROVE  step + 1 \in DOMAIN Recipes[Ordered[i]] /\ step + 1 \in 1..4
  <1>1. i \in 1..3
    BY DEF Ranks
  <1>2. CASE Ordered[i] = "github"
    BY <1>2, RecipeLengths
  <1>3. CASE Ordered[i] = "vercel"
    BY <1>3, RecipeLengths
  <1>4. CASE Ordered[i] = "cloudflare"
    BY <1>4, RecipeLengths
  <1> QED
    BY <1>1, <1>2, <1>3, <1>4, OrderedNames

Carries(b, a) == b.receipt = a.receipt /\ b.mem = a.mem /\ b.approve = a.approve

InPhase(a, phase) == [a EXCEPT !.phase = phase, !.step = 1]
AtRank(a, at)     == [a EXCEPT !.at = at, !.step = 1]

LEMMA InPhaseFields ==
  ASSUME NEW a \in Applies, NEW phase \in Phases
  PROVE  LET b == InPhase(a, phase)
         IN  /\ b \in Applies /\ Carries(b, a)
             /\ b.phase = phase /\ b.at = a.at /\ b.step = 1
  <1>1. PICK one \in 1..4 : one = 1
    OBVIOUS
  <1>2. InPhase(a, phase) = [a EXCEPT !.phase = phase, !.step = one]
    BY <1>1 DEF InPhase
  <1>3. LET b == InPhase(a, phase)
        IN  b \in Applies /\ Carries(b, a) /\ b.phase = phase /\ b.at = a.at /\ b.step = one
    BY <1>2 DEF Applies, Carries
  <1> QED
    BY <1>1, <1>3

LEMMA AtRankFields ==
  ASSUME NEW a \in Applies, NEW at \in 1..3
  PROVE  LET b == AtRank(a, at)
         IN  /\ b \in Applies /\ Carries(b, a)
             /\ b.phase = a.phase /\ b.at = at /\ b.step = 1
  <1>1. PICK one \in 1..4 : one = 1
    OBVIOUS
  <1>2. AtRank(a, at) = [a EXCEPT !.at = at, !.step = one]
    BY <1>1 DEF AtRank
  <1>3. LET b == AtRank(a, at)
        IN  b \in Applies /\ Carries(b, a) /\ b.phase = a.phase /\ b.at = at /\ b.step = one
    BY <1>2 DEF Applies, Carries
  <1> QED
    BY <1>1, <1>3

LEMMA AdvanceWorks ==
  ASSUME Underway(ap), ap.phase \in {"setup", "fallback"},
         NEW a \in Applies, a.phase = ap.phase, a.at = ap.at, a.step = ap.step
  PROVE  /\ Underway(Advance(a)) /\ Carries(Advance(a), a)
         /\ Advance(a).phase \in {"setup", "fallback", "reverify", "survey"}
         /\ AtApply(Advance(a)) => Provider = "cloudflare" /\ ap.step = 2
  <1>1. a.at \in Ranks /\ a.step \in DOMAIN Recipes[Provider] /\ Provider = Ordered[a.at]
    BY DEF Underway, Provider
  <1>2. a.at \in 1..3 /\ a.step \in 1..4
    BY DEF Applies
  <1>3. CASE a.step < Len(Recipes[Provider])
    <2>1. Advance(a) = [a EXCEPT !.step = a.step + 1]
      BY <1>3 DEF Advance
    <2>2. a.step + 1 \in DOMAIN Recipes[Provider] /\ a.step + 1 \in 1..4
      BY <1>1, <1>3, RecipeNext
    <2>3. /\ Advance(a) \in Applies /\ Carries(Advance(a), a)
          /\ Advance(a).phase = a.phase /\ Advance(a).at = a.at
          /\ Advance(a).step = a.step + 1
      BY <2>1, <2>2 DEF Applies, Carries
    <2>4. Underway(Advance(a))
      BY <1>1, <2>2, <2>3 DEF Underway
    <2>5. AtApply(Advance(a)) => Provider = "cloudflare" /\ ap.step = 2
      BY <1>1, <1>2, <2>3 DEF AtApply
    <2> QED
      BY <2>3, <2>4, <2>5
  <1>4. CASE ~(a.step < Len(Recipes[Provider])) /\ a.phase = "fallback"
    <2>1. Advance(a) = InPhase(a, "reverify") /\ "reverify" \in Phases
      BY <1>4 DEF Advance, InPhase, Phases
    <2>2. /\ Advance(a) \in Applies /\ Carries(Advance(a), a)
          /\ Advance(a).phase = "reverify" /\ Advance(a).at = a.at /\ Advance(a).step = 1
      BY <2>1, InPhaseFields
    <2> QED
      BY <1>1, <2>2, RecipeStart DEF Underway, AtApply
  <1>5. CASE /\ ~(a.step < Len(Recipes[Provider])) /\ a.phase # "fallback"
             /\ After(a.at) # {}
    <2>1. Advance(a) = AtRank(a, Min(After(a.at)))
      BY <1>5 DEF Advance, AtRank
    <2>2. Min(After(a.at)) \in Ranks
      BY <1>5, AfterMember
    <2>3. /\ Advance(a) \in Applies /\ Carries(Advance(a), a)
          /\ Advance(a).phase = a.phase /\ Advance(a).at \in Ranks /\ Advance(a).step = 1
      BY <2>1, <2>2, RecipeStart, AtRankFields
    <2> QED
      BY <2>3, RecipeStart DEF Underway, AtApply
  <1>6. CASE /\ ~(a.step < Len(Recipes[Provider])) /\ a.phase # "fallback"
             /\ After(a.at) = {}
    <2>1. Advance(a) = InPhase(a, "survey") /\ "survey" \in Phases
      BY <1>6 DEF Advance, InPhase, Phases
    <2>2. /\ Advance(a) \in Applies /\ Carries(Advance(a), a)
          /\ Advance(a).phase = "survey" /\ Advance(a).at = a.at /\ Advance(a).step = 1
      BY <2>1, InPhaseFields
    <2> QED
      BY <1>1, <2>2, RecipeStart DEF Underway, AtApply
  <1> QED
    BY <1>3, <1>4, <1>5, <1>6


LEMMA NoApplyWorks == NoApply \in Applies /\ NoApply.phase = "idle" /\ NoApply.receipt = <<>>
  <1>1. [tokens |-> {}, key |-> FALSE] \in Vaults
    BY DEF Vaults
  <1>2. "idle" \in Phases /\ <<>> \in Seq(Entries)
    BY EmptySeq DEF Phases
  <1> QED
    BY <1>1, <1>2 DEF NoApply, Applies

LEMMA RaisedWorks ==
  ASSUME NEW a \in Applies, a.at \in Ranks
  PROVE  /\ Underway(Raised(a)) /\ Carries(Raised(a), a)
         /\ Raised(a).phase = "save_vault"
  <1> DEFINE b == InPhase(a, "save_vault")
  <1>1. "save_vault" \in Phases
    BY DEF Phases
  <1>2. b \in Applies /\ Carries(b, a) /\ b.phase = "save_vault" /\ b.at = a.at /\ b.step = 1
    BY <1>1, InPhaseFields
  <1>3. Raised(a) = [b EXCEPT !.failed = TRUE]
    BY DEF Raised, InPhase, Applies
  <1> HIDE DEF b
  <1>4. /\ Raised(a) \in Applies /\ Carries(Raised(a), a)
        /\ Raised(a).phase = "save_vault" /\ Raised(a).at = a.at /\ Raised(a).step = 1
    BY <1>2, <1>3 DEF Applies, Carries
  <1> QED
    BY <1>4, RecipeStart DEF Underway

LEMMA RecordedWorks ==
  ASSUME NEW a \in Applies, NEW entry, redact(entry) \in Entries
  PROVE  LET b == Recorded(a, entry)
         IN  /\ b \in Applies /\ b.mem = a.mem /\ b.approve = a.approve
             /\ b.phase = a.phase /\ b.at = a.at /\ b.step = a.step
             /\ b.receipt = Append(a.receipt, redact(entry))
  <1>1. a.receipt \in Seq(Entries)
    BY DEF Applies
  <1>2. Append(a.receipt, redact(entry)) \in Seq(Entries)
    BY <1>1, AppendProperties
  <1> QED
    BY <1>2 DEF Recorded, Applies

LEMMA SavingWorks ==
  ASSUME NEW a \in Applies
  PROVE  LET b == [a EXCEPT !.mem.key = TRUE]
         IN  /\ b \in Applies /\ b.mem.key /\ b.approve = a.approve
             /\ b.phase = a.phase /\ b.at = a.at /\ b.step = a.step
             /\ b.receipt = a.receipt
  <1>1. [a.mem EXCEPT !.key = TRUE] \in Vaults /\ [a.mem EXCEPT !.key = TRUE].key
    BY DEF Applies, Vaults
  <1> QED
    BY <1>1 DEF Applies

LEMMA GateWaits ==
  ASSUME GatesOK(gates), NEW p \in Range(Ordered), _record_gate_waiting(p)
  PROVE  GatesOK(gates')
  <1>1. gates.order \in Seq(Range(Ordered)) /\ gates.waiting \subseteq Range(Ordered)
    BY DEF GatesOK
  <1>2. CASE p \in Range(gates.order)
    BY <1>1, <1>2 DEF _record_gate_waiting, GatesOK
  <1>3. CASE p \notin Range(gates.order)
    <2>1. <<p>> \in Seq(Range(Ordered)) /\ Range(<<p>>) = {p}
      <3>1. <<p>> \in Seq(Range(Ordered)) /\ Len(<<p>>) = 1 /\ <<p>>[1] = p
        OBVIOUS
      <3>2. Range(<<p>>) = {<<p>>[i] : i \in 1..Len(<<p>>)}
        BY <3>1, RangeEquality, Zenon
      <3> QED
        BY <3>1, <3>2
    <2>2. Append(gates.order, p) = gates.order \o <<p>>
      BY <1>1, AppendIsConcat
    <2>3. /\ Append(gates.order, p) \in Seq(Range(Ordered))
          /\ Range(Append(gates.order, p)) = Range(gates.order) \cup {p}
      <3> DEFINE s == <<p>>
      <3>0. s \in Seq(Range(Ordered))
        BY <2>1
      <3> HIDE DEF s
      <3>1. Range(gates.order \o s) = Range(gates.order) \cup Range(s)
        BY <1>1, <3>0, RangeConcatenation
      <3> USE DEF s
      <3> QED
        BY <1>1, <2>1, <2>2, <3>1, AppendProperties
    <2>4. gates' = [order |-> Append(gates.order, p), waiting |-> gates.waiting \cup {p}]
      BY <1>3 DEF _record_gate_waiting
    <2> QED
      BY <1>1, <2>3, <2>4 DEF GatesOK
  <1> QED
    BY <1>2, <1>3


-----------------------------------------------------------------------------
(* What every step of an apply does, but the two that write its artifacts.    *)

(* The user's own project and record, and the user's say over its content.    *)
Kept(c, approved) ==
  /\ app.project = "theirs" => c.project = "theirs"
  /\ app.zone # NoRecord =>
       c.zone # NoRecord /\ c.zone.id = app.zone.id /\ (c.zone.content = "theirs" \/ approved)

(* A recorded action whose undoing leaves what is the user's.                  *)
Respects(e, approved) ==
  /\ app.project = "theirs" /\ e.action = "vercel.project" => ~e.created
  /\ app.zone # NoRecord /\ e.action = "dns.propose" =>
       e.existing # NoRecord /\ (e.existing.content = "theirs" \/ approved)

AllRespect(R, approved) == \A i \in DOMAIN R : Respects(R[i], approved)

(* What FuseKit left at the providers is recorded in R, and the first proposal *)
(* of R found the record as it was before.                                     *)
Traced(c, R) ==
  /\ c.next # 0 /\ 0 \notin c.keys
  /\ \A id \in c.keys :
       \E i \in DOMAIN R : R[i].action = "github.deploy_key" /\ R[i].id = id
  /\ c.secret => Recorded1(R, "github.secret")
  /\ c.project = "ours" =>
       \E i \in DOMAIN R : R[i].action = "vercel.project" /\ R[i].created
  /\ c.env = "ours" => Recorded1(R, "vercel.env")
  /\ c.zone = app.zone \/ Recorded1(R, "dns.propose")
  /\ Recorded1(R, "dns.propose") =>
       \E i \in DOMAIN R : R[i].action = "dns.propose" /\ R[i].existing = app.zone

Continues(b, approved) ==
  /\ ap.mem.key => b.mem.key
  /\ \/ b.receipt = ap.receipt
     \/ \E e \in Entries :
          /\ b.receipt = Append(ap.receipt, e) /\ Respects(e, approved)
          /\ e.action = "github.deploy_key" => b.mem.key

(* While FuseKit's variable stands beside the user's, no recipe runs: the      *)
(* put_env that left both raised.                                              *)
Whole == cloud.env = "both" => ap.phase \in {"idle", "save_vault", "save_receipt"}

ApplyStep ==
  /\ ApplyOnly /\ UNCHANGED <<rb, rollbacks>>
  /\ cloud' \in Clouds /\ Kept(cloud', history'.approved)
  /\ GatesOK(gates') /\ troubles' \in 0..MaxTroubles
  /\ history' \in Histories /\ history'.overlapped = history.overlapped
  /\ history.approved => history'.approved
  /\ Underway(ap') /\ Proposed'
  /\ \/ ap' = NoApply
     \/ /\ ap'.phase \notin {"idle", "save_receipt"}
        /\ Continues(ap', history'.approved)
        /\ ap'.approve => ap.approve \/ history'.approved
  /\ ~history'.tainted =>
       /\ ~history.tainted /\ ap'.phase # "idle"
       /\ Whole /\ Traced(cloud, ap.receipt) => Traced(cloud', ap'.receipt)

Running ==
  /\ TypeOKRollback /\ Proposed /\ ap.phase # "idle"
  /\ Kept(cloud, history.approved)
  /\ ap.approve => history.approved

LEMMA TroubleCounts ==
  ASSUME troubles \in 0..MaxTroubles, NEW kind, Trouble(kind)
  PROVE  troubles' \in 0..MaxTroubles
  BY BoundsAssumption DEF Trouble

(* An entry more, and at the providers no more than it says.                   *)
LEMMA TracedAppend ==
  ASSUME NEW R \in Seq(Entries), NEW e \in Entries, NEW before, NEW c, Traced(before, R),
         \A id \in c.keys :
           id \in before.keys \/ (id # 0 /\ e.action = "github.deploy_key" /\ e.id = id),
         c.next # 0,
         c.secret => before.secret \/ e.action = "github.secret",
         c.project = "ours" =>
           before.project = "ours" \/ (e.action = "vercel.project" /\ e.created),
         c.env = "ours" => before.env = "ours" \/ e.action = "vercel.env",
         c.zone = before.zone,
         e.action = "dns.propose" => e.existing = before.zone
  PROVE  Traced(c, Append(R, e))
  <1> DEFINE S == Append(R, e)
  <1>1. /\ S \in Seq(Entries) /\ Len(S) = Len(R) + 1
        /\ \A i \in 1..Len(R) : S[i] = R[i]
        /\ S[Len(R) + 1] = e
    BY AppendProperties
  <1>2. DOMAIN R = 1..Len(R) /\ DOMAIN S = 1..(Len(R) + 1) /\ Len(R) \in Nat
    BY <1>1, LenProperties
  <1> HIDE DEF S
  <1>3. /\ \A i \in DOMAIN R : i \in DOMAIN S /\ S[i] = R[i]
        /\ \E i \in DOMAIN S : S[i] = e
        /\ \A i \in DOMAIN S : S[i] = e \/ (i \in DOMAIN R /\ S[i] = R[i])
    BY <1>1, <1>2
  <1>4. \A action : Recorded1(S, action) <=> Recorded1(R, action) \/ e.action = action
    BY <1>3 DEF Recorded1
  <1>5. Recorded1(S, "dns.propose") =>
          \E i \in DOMAIN S : S[i].action = "dns.propose" /\ S[i].existing = app.zone
    <2>1. CASE Recorded1(R, "dns.propose")
      BY <1>3, <2>1 DEF Traced
    <2>2. CASE ~Recorded1(R, "dns.propose") /\ e.action = "dns.propose"
      BY <1>3, <2>2 DEF Traced
    <2> QED
      BY <1>4, <2>1, <2>2
  <1>6. \A id \in c.keys :
          \E i \in DOMAIN S : S[i].action = "github.deploy_key" /\ S[i].id = id
    BY <1>3 DEF Traced
  <1>7. c.project = "ours" =>
          \E i \in DOMAIN S : S[i].action = "vercel.project" /\ S[i].created
    BY <1>3 DEF Traced
  <1>8. 0 \notin c.keys
    BY DEF Traced
  <1> QED
    BY <1>4, <1>5, <1>6, <1>7, <1>8 DEF Traced, S

(* The same entries, and no more at the providers.                             *)
LEMMA TracedLess ==
  ASSUME NEW R, NEW before, NEW c, Traced(before, R),
         c.keys \subseteq before.keys, c.next # 0,
         c.secret => before.secret,
         c.project = "ours" => before.project = "ours",
         c.env = "ours" => before.env = "ours",
         c.zone = before.zone \/ Recorded1(R, "dns.propose")
  PROVE  Traced(c, R)
  BY DEF Traced

LEMMA ContinuesSame ==
  ASSUME NEW b, Carries(b, ap), NEW approved
  PROVE  Continues(b, approved)
  BY DEF Continues, Carries

(* A step that changes the apply's place only. *)
LEMMA PlaceStep ==
  ASSUME Running, ApplyOnly, UNCHANGED <<rb, rollbacks, history>>,
         cloud' \in Clouds, Kept(cloud', history.approved), GatesOK(gates'),
         troubles' \in 0..MaxTroubles,
         Underway(ap'), Carries(ap', ap), ap'.phase \notin {"idle", "save_receipt"},
         ~AtApply(ap'),
         cloud' = cloud \/ (Whole /\ Traced(cloud, ap.receipt) => Traced(cloud', ap.receipt))
  PROVE  ApplyStep
  <1>1. Continues(ap', history'.approved)
    BY ContinuesSame
  <1>2. Proposed'
    BY DEF Proposed, AtApply
  <1>3. history' \in Histories
    BY TypeParts DEF Running
  <1>4. Kept(cloud', history'.approved)
    OBVIOUS
  <1>5. ap'.approve => ap.approve
    BY DEF Carries
  <1>6. Whole /\ Traced(cloud, ap.receipt) => Traced(cloud', ap'.receipt)
    BY DEF Carries
  <1> QED
    BY <1>1, <1>2, <1>3, <1>4, <1>5, <1>6 DEF ApplyStep

LEMMA DeathStep ==
  ASSUME Running, ApplyOnly, UNCHANGED <<rb, rollbacks, gates>>,
         cloud' \in Clouds, Kept(cloud', history.approved),
         troubles' \in 0..MaxTroubles, Dies
  PROVE  ApplyStep
  <1>1. history \in Histories
    BY TypeParts DEF Running
  <1>2. /\ history' \in Histories /\ history'.overlapped = history.overlapped
        /\ history'.approved = history.approved /\ history'.tainted
    BY <1>1 DEF Dies, Histories
  <1>3. ap' = NoApply
    BY DEF Dies
  <1>4. Underway(ap') /\ ap'.phase = "idle"
    BY <1>3, NoApplyWorks DEF Underway
  <1>5. Proposed'
    BY <1>4 DEF Proposed, AtApply
  <1>6. GatesOK(gates')
    BY TypeParts DEF Running
  <1> QED
    BY <1>2, <1>3, <1>4, <1>5, <1>6 DEF ApplyStep

LEMMA PausesWorks ==
  ASSUME Running, ap.phase \in {"setup", "fallback"}, Pauses, ApplyOnly,
         UNCHANGED <<rb, rollbacks>>, troubles' \in 0..MaxTroubles
  PROVE  ApplyStep
  <1>1. GatesOK(gates) /\ Underway(ap)
    BY TypeParts DEF Running
  <1>2. ap \in Applies /\ ap.at \in Ranks /\ ap.at \in 1..3
    BY <1>1, RecipeStart DEF Underway, Running
  <1>3. Provider \in Range(Ordered)
    BY <1>2, OrderedNames DEF Provider
  <1>4. GatesOK(gates')
    BY <1>1, <1>3, GateWaits DEF Pauses
  <1>5. "survey" \in Phases /\ "reverify" \in Phases
    BY DEF Phases
  <1>6. PICK phase \in {"survey", "reverify"} :
          /\ ap' \in Applies /\ Carries(ap', ap)
          /\ ap'.phase = phase /\ ap'.at = ap.at /\ ap'.step = 1
    <2>1. CASE ap.phase = "setup"
      <3> DEFINE b == InPhase(ap, "survey")
      <3>1. b \in Applies /\ Carries(b, ap) /\ b.phase = "survey" /\ b.at = ap.at /\ b.step = 1
        BY <1>2, <1>5, InPhaseFields
      <3>2. ap' = [b EXCEPT !.paused = Provider]
        BY <1>2, <2>1 DEF Pauses, InPhase, Applies
      <3> HIDE DEF b
      <3> QED
        BY <1>3, <3>1, <3>2 DEF Applies, Carries
    <2>2. CASE ap.phase = "fallback"
      <3>1. ap' = InPhase(ap, "reverify")
        BY <2>2 DEF Pauses, InPhase
      <3> QED
        BY <1>2, <1>5, <3>1, InPhaseFields
    <2> QED
      BY <2>1, <2>2
  <1>7. Underway(ap') /\ ~AtApply(ap') /\ ap'.phase \notin {"idle", "save_receipt"}
    BY <1>2, <1>6, RecipeStart DEF Underway, AtApply, ApplyOnly, Ranks
  <1>8. UNCHANGED <<cloud, history>> /\ cloud' \in Clouds /\ Kept(cloud', history.approved)
    BY TypeParts DEF Pauses, Running
  <1> QED
    BY <1>4, <1>6, <1>7, <1>8, PlaceStep


(* A provider call, whatever becomes of it. *)
LEMMA CallWorks ==
  ASSUME Running, ap.phase \in {"setup", "fallback"}, UNCHANGED <<rb, rollbacks>>,
         NEW after \in Clouds, Kept(after, history.approved),
         NEW a \in Applies, a.at = ap.at, a.approve = ap.approve,
         Continues(a, history.approved),
         NEW answered, Underway(answered), answered.approve = ap.approve,
         answered.phase \notin {"idle", "save_receipt"},
         Continues(answered, history.approved),
         AtApply(answered) =>
           /\ answered.receipt # <<>>
           /\ answered.receipt[Len(answered.receipt)].action = "dns.propose"
           /\ Last(answered.receipt).existing = after.zone,
         Traced(cloud, ap.receipt) =>
           Traced(cloud, a.receipt) /\ Traced(after, answered.receipt),
         Call(after, a, answered)
  PROVE  ApplyStep
  <1>1. /\ cloud \in Clouds /\ GatesOK(gates) /\ Underway(ap) /\ history \in Histories
        /\ troubles \in 0..MaxTroubles
    BY TypeParts DEF Running
  <1>2. gates' = gates /\ ApplyOnly
    BY DEF Call
  <1>3. Kept(cloud, history.approved)
    BY DEF Running
  <1>4. a.at \in Ranks
    BY <1>1 DEF Underway, Running
  <1>5. CASE cloud' = after /\ ap' = answered /\ UNCHANGED <<troubles, history>>
    <2>1. Proposed'
      BY <1>5 DEF Proposed, AtApply
    <2>2. Continues(ap', history'.approved)
      BY <1>5
    <2> QED
      BY <1>1, <1>2, <1>5, <2>1, <2>2 DEF ApplyStep
  <1>6. ASSUME ap' = Raised(a), cloud' \in {cloud, after}, troubles' \in 0..MaxTroubles,
               history' \in Histories, history'.overlapped = history.overlapped,
               history'.approved = history.approved,
               history'.tainted \/ UNCHANGED <<cloud, history>>
        PROVE  ApplyStep
    <2>1. Underway(ap') /\ Carries(ap', a) /\ ap'.phase = "save_vault"
      BY <1>4, <1>6, RaisedWorks
    <2>2. Proposed'
      BY <2>1 DEF Proposed, AtApply
    <2>3. Continues(ap', history.approved)
      BY <2>1 DEF Continues, Carries
    <2>4. ap'.approve = ap.approve
      BY <2>1 DEF Carries
    <2>5. cloud' \in Clouds /\ Kept(cloud', history.approved)
      BY <1>1, <1>3, <1>6
    <2>6. ~history'.tainted =>
            ~history.tainted /\ (Traced(cloud, ap.receipt) => Traced(cloud', ap'.receipt))
      BY <1>6, <2>1 DEF Carries
    <2> QED
      BY <1>1, <1>2, <1>6, <2>1, <2>2, <2>3, <2>4, <2>5, <2>6 DEF ApplyStep
  <1>7. CASE Trouble("refused") /\ ap' = Raised(a) /\ UNCHANGED <<cloud, history>>
    BY <1>1, <1>6, <1>7, TroubleCounts
  <1>8. CASE /\ Trouble("half") /\ cloud' = after /\ ap' = Raised(a)
             /\ history' = [history EXCEPT !.tainted = TRUE]
    <2>1. /\ history' \in Histories /\ history'.overlapped = history.overlapped
          /\ history'.approved = history.approved /\ history'.tainted
      BY <1>1, <1>8 DEF Histories
    <2> QED
      BY <1>1, <1>6, <1>8, <2>1, TroubleCounts
  <1>9. CASE Trouble("dies") /\ cloud' \in {cloud, after} /\ Dies
    BY <1>1, <1>2, <1>3, <1>9, TroubleCounts, DeathStep
  <1> QED
    BY <1>5, <1>7, <1>8, <1>9 DEF Call

(* A call that records nothing, and one whose entry is recorded. *)
LEMMA BareCall ==
  ASSUME Running, ap.phase \in {"setup", "fallback"}, UNCHANGED <<rb, rollbacks>>,
         NEW after \in Clouds, Kept(after, history.approved),
         ~(Provider = "cloudflare" /\ ap.step = 2),
         after = cloud \/ (Traced(cloud, ap.receipt) => Traced(after, ap.receipt)),
         Call(after, ap, Advance(ap))
  PROVE  ApplyStep
  <1>1. Underway(ap) /\ ap \in Applies
    BY TypeParts DEF Running, Underway
  <1>2. /\ Underway(Advance(ap)) /\ Carries(Advance(ap), ap) /\ ~AtApply(Advance(ap))
        /\ Advance(ap).phase \in {"setup", "fallback", "reverify", "survey"}
    BY <1>1, AdvanceWorks
  <1>3. Continues(ap, history.approved) /\ Continues(Advance(ap), history.approved)
    BY <1>2, ContinuesSame DEF Carries
  <1>4. Advance(ap).approve = ap.approve
    BY <1>2 DEF Carries
  <1>5. Advance(ap).phase \notin {"idle", "save_receipt"}
    BY <1>2
  <1>6. Traced(cloud, ap.receipt) => Traced(after, Advance(ap).receipt)
    BY <1>2 DEF Carries
  <1> QED
    BY <1>1, <1>2, <1>3, <1>4, <1>5, <1>6, CallWorks

LEMMA RecordedCall ==
  ASSUME Running, ap.phase \in {"setup", "fallback"}, UNCHANGED <<rb, rollbacks>>,
         NEW after \in Clouds, Kept(after, history.approved),
         NEW a \in Applies, a.phase = ap.phase, a.at = ap.at, a.step = ap.step,
         a.approve = ap.approve, a.receipt = ap.receipt, ap.mem.key => a.mem.key,
         NEW entry, redact(entry) \in Entries, Respects(redact(entry), history.approved),
         redact(entry).action = "github.deploy_key" => a.mem.key,
         Provider = "cloudflare" /\ ap.step = 2 =>
           redact(entry).action = "dns.propose" /\ redact(entry).existing = after.zone,
         Traced(cloud, ap.receipt) => Traced(after, Append(ap.receipt, redact(entry))),
         Call(after, a, Advance(Recorded(a, entry)))
  PROVE  ApplyStep
  <1> DEFINE b == Recorded(a, entry)
  <1>1. Underway(ap) /\ ap \in Applies /\ ap.receipt \in Seq(Entries)
    BY TypeParts DEF Running, Underway, Applies
  <1>2. /\ b \in Applies /\ b.mem = a.mem /\ b.approve = a.approve
        /\ b.phase = a.phase /\ b.at = a.at /\ b.step = a.step
        /\ b.receipt = Append(ap.receipt, redact(entry))
    BY RecordedWorks
  <1> HIDE DEF b
  <1>3. /\ Underway(Advance(b)) /\ Carries(Advance(b), b)
        /\ Advance(b).phase \in {"setup", "fallback", "reverify", "survey"}
        /\ AtApply(Advance(b)) => Provider = "cloudflare" /\ ap.step = 2
    BY <1>1, <1>2, AdvanceWorks
  <1>4. Continues(a, history.approved)
    BY DEF Continues
  <1>5. /\ Advance(b).receipt = Append(ap.receipt, redact(entry))
        /\ Advance(b).mem = a.mem /\ Advance(b).approve = ap.approve
    BY <1>2, <1>3 DEF Carries
  <1>6. Continues(Advance(b), history.approved)
    BY <1>5 DEF Continues
  <1>7. LET R == Append(ap.receipt, redact(entry))
        IN  R # <<>> /\ Last(R) = redact(entry) /\ R[Len(R)] = redact(entry)
    BY <1>1, AppendProperties DEF Last
  <1>8. AtApply(Advance(b)) =>
          /\ Advance(b).receipt # <<>>
          /\ Advance(b).receipt[Len(Advance(b).receipt)].action = "dns.propose"
          /\ Last(Advance(b).receipt).existing = after.zone
    BY <1>3, <1>5, <1>7
  <1>11. Traced(cloud, ap.receipt) => Traced(cloud, a.receipt) /\ Traced(after, Advance(b).receipt)
    BY <1>5
  <1>9. Advance(b).phase \notin {"idle", "save_receipt"}
    BY <1>3
  <1>10. Call(after, a, Advance(b))
    BY DEF b
  <1> QED
    BY <1>3, <1>4, <1>5, <1>6, <1>8, <1>9, <1>10, <1>11, CallWorks


-----------------------------------------------------------------------------
(* The steps of an apply. *)

LEMMA WhereAt ==
  ASSUME Running
  PROVE  /\ \A step : At(step) => ap.phase \in {"setup", "fallback"}
         /\ At("open") => ap.step = 1
         /\ At("deploy_key") => Provider = "github"
         /\ At("secrets") => Provider = "github"
         /\ At("project") => Provider = "vercel"
         /\ At("env") => Provider = "vercel"
         /\ At("deployment") => Provider = "vercel"
         /\ At("propose") => Provider = "cloudflare" /\ ap.step = 2
         /\ At("apply") => Provider = "cloudflare" /\ ap.step = 3
  <1>1. ap.at \in 1..3 /\ ap.step \in DOMAIN Recipes[Provider]
    BY TypeParts, RecipeStart DEF Running, Underway, Provider
  <1>2. Provider \in {"github", "vercel", "cloudflare"}
    BY <1>1, OrderedNames DEF Provider
  <1>3. \A step : At(step) => ap.phase \in {"setup", "fallback"}
    BY DEF At, In
  <1>4. CASE Provider = "github"
    <2>1. ap.step \in 1..3
      BY <1>1, <1>4, RecipeLengths
    <2> QED
      BY <1>3, <1>4, <2>1 DEF At, Recipes
  <1>5. CASE Provider = "vercel"
    <2>1. ap.step \in 1..4
      BY <1>1, <1>5, RecipeLengths
    <2> QED
      BY <1>3, <1>5, <2>1 DEF At, Recipes
  <1>6. CASE Provider = "cloudflare"
    <2>1. ap.step \in 1..3
      BY <1>1, <1>6, RecipeLengths
    <2> QED
      BY <1>3, <1>6, <2>1 DEF At, Recipes
  <1> QED
    BY <1>2, <1>4, <1>5, <1>6

LEMMA SkipsWorks ==
  ASSUME Running, UNCHANGED <<rb, rollbacks>>, NEW step, Skips(step),
         ~(Provider = "cloudflare" /\ ap.step = 2)
  PROVE  ApplyStep
  <1>1. Call(cloud, ap, Advance(ap))
    BY DEF Skips, Call
  <1>2. ap.phase \in {"setup", "fallback"}
    BY WhereAt DEF Skips
  <1>3. cloud \in Clouds /\ Kept(cloud, history.approved)
    BY TypeParts DEF Running
  <1> QED
    BY <1>1, <1>2, <1>3, BareCall

LEMMA StrategyWorks ==
  ASSUME Running, UNCHANGED <<rb, rollbacks>>, choose_provider_strategy
  PROVE  ApplyStep
  <1>1. ap.phase \in {"setup", "fallback"} /\ ap.step = 1
    BY WhereAt DEF choose_provider_strategy
  <1>2. /\ cloud \in Clouds /\ Kept(cloud, history.approved) /\ GatesOK(gates)
        /\ troubles \in 0..MaxTroubles
    BY TypeParts DEF Running
  <1>3. CASE Provider \in ap.mem.tokens
    <2>1. Call(cloud, ap, Advance(ap))
      BY <1>3 DEF choose_provider_strategy, Call
    <2> QED
      BY <1>1, <1>2, <2>1, BareCall
  <1>4. CASE Provider \notin ap.mem.tokens
    <2>1. Pauses /\ ApplyOnly /\ troubles' = troubles
      BY <1>4 DEF choose_provider_strategy
    <2> QED
      BY <1>1, <1>2, <2>1, PausesWorks
  <1> QED
    BY <1>3, <1>4

LEMMA HealthWorks ==
  ASSUME Running, UNCHANGED <<rb, rollbacks>>,
         _provider_contract_health_gate \/ _vercel_github_connection_gate
  PROVE  ApplyStep
  <1>1. ap.phase \in {"setup", "fallback"} /\ Pauses /\ ApplyOnly
    BY WhereAt DEF _provider_contract_health_gate, _recipe_may_touch_provider_api,
                   _vercel_github_connection_gate
  <1>2. troubles' \in 0..MaxTroubles
    BY TypeParts, TroubleCounts
    DEF Running, _provider_contract_health_gate, _vercel_github_connection_gate
  <1> QED
    BY <1>1, <1>2, PausesWorks

LEMMA ApprovalWorks ==
  ASSUME Running, UNCHANGED <<rb, rollbacks>>, _await_dns_approval
  PROVE  ApplyStep
  <1>1. /\ ap.phase \in {"setup", "fallback"} /\ ap.step = 1
        /\ ap' = [ap EXCEPT !.approve = TRUE]
        /\ history' = [history EXCEPT !.approved = TRUE]
    BY WhereAt DEF _await_dns_approval
  <1>2. /\ cloud \in Clouds /\ Kept(cloud, history.approved) /\ GatesOK(gates)
        /\ troubles \in 0..MaxTroubles /\ Underway(ap) /\ history \in Histories
    BY TypeParts DEF Running
  <1>3. ap \in Applies /\ ap.at \in Ranks
    BY <1>2 DEF Underway, Running
  <1>4. /\ ap' \in Applies /\ ap'.receipt = ap.receipt /\ ap'.mem = ap.mem
        /\ ap'.phase = ap.phase /\ ap'.at = ap.at /\ ap'.step = ap.step
    BY <1>1, <1>3 DEF Applies
  <1>5. /\ history' \in Histories /\ history'.overlapped = history.overlapped
        /\ history'.approved /\ history'.tainted = history.tainted
    BY <1>1, <1>2 DEF Histories
  <1>6. Underway(ap') /\ ~AtApply(ap')
    BY <1>1, <1>2, <1>4 DEF Underway, AtApply
  <1>7. Proposed'
    BY <1>6 DEF Proposed, AtApply
  <1>8. Continues(ap', history'.approved)
    BY <1>4 DEF Continues
  <1>9. UNCHANGED <<cloud, gates, troubles>> /\ ApplyOnly
    BY DEF _await_dns_approval
  <1>10. Kept(cloud', history'.approved)
    BY <1>2, <1>5, <1>9 DEF Kept
  <1> QED
    BY <1>1, <1>2, <1>4, <1>5, <1>6, <1>7, <1>8, <1>9, <1>10 DEF ApplyStep, Running


LEMMA PlainEntry ==
  ASSUME NEW action \in {"github.deploy_key", "github.secret", "vercel.project", "vercel.env",
                         "dns.propose"}
  PROVE  LET e == redact(Entry(action))
         IN  /\ e \in Entries /\ e.action = action
             /\ ~e.created
  BY DEF redact, Entry, Entries

LEMMA DeployKeyWorks ==
  ASSUME Running, UNCHANGED <<rb, rollbacks>>, _github_deploy_key
  PROVE  ApplyStep
  <1> DEFINE key == Entry("github.deploy_key")
             saving == [ap EXCEPT !.mem.key = TRUE]
             made == [key EXCEPT !.id = cloud.next]
  <1>1. /\ At("deploy_key") /\ ap.phase \in {"setup", "fallback"}
        /\ ~(Provider = "cloudflare" /\ ap.step = 2)
    BY WhereAt DEF _github_deploy_key
  <1>2. /\ ap \in Applies /\ cloud \in Clouds /\ Kept(cloud, history.approved)
    BY TypeParts DEF Running, Underway
  <1>3. redact(key) \in Entries /\ redact(key).action = "github.deploy_key"
    BY PlainEntry
  <1>4. redact(made) \in Entries /\ redact(made).action = "github.deploy_key"
    <2>1. cloud.next \in Nat
      BY <1>2 DEF Clouds
    <2> QED
      BY <2>1 DEF redact, Entry, Entries
  <1>5. /\ saving \in Applies /\ saving.mem.key /\ saving.approve = ap.approve
        /\ saving.phase = ap.phase /\ saving.at = ap.at /\ saving.step = ap.step
        /\ saving.receipt = ap.receipt
    BY <1>2, SavingWorks
  <1>6. /\ Respects(redact(key), history.approved)
        /\ Respects(redact(made), history.approved)
    BY <1>3, <1>4 DEF Respects
  <1>7. add_deploy_key \in Clouds /\ Kept(add_deploy_key, history.approved)
    <2>1. add_deploy_key \in Clouds
      BY <1>2, CloudOps
    <2>2. add_deploy_key.project = cloud.project /\ add_deploy_key.zone = cloud.zone
      BY <1>2 DEF add_deploy_key, Clouds
    <2> QED
      BY <1>2, <2>1, <2>2 DEF Kept
  <1>11. ap.receipt \in Seq(Entries)
    BY <1>2 DEF Applies
  <1>8. CASE ap.mem.key
    <2>1. Call(cloud, ap, Advance(Recorded(ap, key)))
      BY <1>8 DEF _github_deploy_key, Call
    <2> HIDE DEF key, saving, made
    <2>2. Traced(cloud, ap.receipt) => Traced(cloud, Append(ap.receipt, redact(key)))
      <3> SUFFICES ASSUME Traced(cloud, ap.receipt)
                   PROVE  Traced(cloud, Append(ap.receipt, redact(key)))
        OBVIOUS
      <3>1. cloud.next # 0
        BY DEF Traced
      <3> QED
        BY <1>3, <1>11, <3>1, TracedAppend
    <2> QED
      BY <1>1, <1>2, <1>3, <1>6, <1>8, <2>1, <2>2, RecordedCall
  <1>9. CASE ~ap.mem.key
    <2>1. Call(add_deploy_key, saving, Advance(Recorded(saving, made)))
      BY <1>9 DEF _github_deploy_key
    <2>2. redact(made).id = cloud.next
      BY DEF redact, Entry
    <2> HIDE DEF key, saving, made
    <2>3. Traced(cloud, ap.receipt) => Traced(add_deploy_key, Append(ap.receipt, redact(made)))
      <3> SUFFICES ASSUME Traced(cloud, ap.receipt)
                   PROVE  Traced(add_deploy_key, Append(ap.receipt, redact(made)))
        OBVIOUS
      <3>1. /\ add_deploy_key.keys = cloud.keys \cup {cloud.next}
            /\ add_deploy_key.next = cloud.next + 1 /\ cloud.next \in Nat
            /\ add_deploy_key.secret = cloud.secret /\ add_deploy_key.project = cloud.project
            /\ add_deploy_key.env = cloud.env /\ add_deploy_key.zone = cloud.zone
        BY <1>2 DEF add_deploy_key, Clouds
      <3>2. cloud.next # 0 /\ add_deploy_key.next # 0
        BY <3>1 DEF Traced
      <3> QED
        BY <1>4, <1>11, <2>2, <3>1, <3>2, TracedAppend
    <2> QED
      BY <1>1, <1>4, <1>5, <1>6, <1>7, <1>9, <2>1, <2>3, RecordedCall
  <1> QED
    BY <1>8, <1>9

LEMMA SecretsWorks ==
  ASSUME Running, UNCHANGED <<rb, rollbacks>>, _github_repo_secrets
  PROVE  ApplyStep
  <1>1. At("secrets") /\ Provider = "github" /\ ap.phase \in {"setup", "fallback"}
    BY WhereAt DEF _github_repo_secrets, Skips
  <1>2. CASE Skips("secrets")
    BY <1>1, <1>2, SkipsWorks
  <1>3. CASE Call(put_repo_secret, ap, Advance(Recorded(ap, Entry("github.secret"))))
    <2>1. ap \in Applies /\ cloud \in Clouds /\ Kept(cloud, history.approved)
      BY TypeParts DEF Running, Underway
    <2>2. put_repo_secret \in Clouds /\ Kept(put_repo_secret, history.approved)
      <3>1. put_repo_secret \in Clouds
        BY <2>1, CloudOps
      <3>2. put_repo_secret.project = cloud.project /\ put_repo_secret.zone = cloud.zone
        BY <2>1 DEF put_repo_secret, Clouds
      <3> QED
        BY <2>1, <3>1, <3>2 DEF Kept
    <2>3. /\ redact(Entry("github.secret")) \in Entries
          /\ redact(Entry("github.secret")).action = "github.secret"
      BY PlainEntry
    <2>4. Respects(redact(Entry("github.secret")), history.approved)
      BY <2>3 DEF Respects
    <2>5. Traced(cloud, ap.receipt) =>
            Traced(put_repo_secret, Append(ap.receipt, redact(Entry("github.secret"))))
      <3> SUFFICES ASSUME Traced(cloud, ap.receipt)
                   PROVE  Traced(put_repo_secret, Append(ap.receipt, redact(Entry("github.secret"))))
        OBVIOUS
      <3>1. /\ put_repo_secret.keys = cloud.keys /\ put_repo_secret.next = cloud.next
            /\ put_repo_secret.project = cloud.project /\ put_repo_secret.env = cloud.env
            /\ put_repo_secret.zone = cloud.zone
        BY <2>1 DEF put_repo_secret, Clouds
      <3>2. cloud.next # 0 /\ ap.receipt \in Seq(Entries)
        BY <2>1 DEF Traced, Applies
      <3> QED
        BY <2>3, <3>1, <3>2, TracedAppend
    <2> QED
      BY <1>1, <1>3, <2>1, <2>2, <2>3, <2>4, <2>5, RecordedCall
  <1> QED
    BY <1>2, <1>3 DEF _github_repo_secrets

LEMMA ProjectWorks ==
  ASSUME Running, UNCHANGED <<rb, rollbacks>>, _vercel_project
  PROVE  ApplyStep
  <1> DEFINE found == [Entry("vercel.project") EXCEPT !.created = cloud.project = "none"]
  <1>1. Provider = "vercel" /\ ap.phase \in {"setup", "fallback"}
    BY WhereAt DEF _vercel_project
  <1>2. ap \in Applies /\ cloud \in Clouds /\ Kept(cloud, history.approved)
    BY TypeParts DEF Running, Underway
  <1>3. ensure_project \in Clouds /\ Kept(ensure_project, history.approved)
    <2>1. ensure_project \in Clouds
      BY <1>2, CloudOps
    <2>2. /\ cloud.project = "theirs" => ensure_project.project = "theirs"
          /\ ensure_project.zone = cloud.zone
      BY <1>2 DEF ensure_project, Clouds
    <2> QED
      BY <1>2, <2>1, <2>2 DEF Kept
  <1>4. /\ redact(found) \in Entries /\ redact(found).action = "vercel.project"
        /\ redact(found).created = (cloud.project = "none")
    BY DEF redact, Entry, Entries
  <1>5. Respects(redact(found), history.approved)
    BY <1>2, <1>4 DEF Respects, Kept
  <1>6. Call(ensure_project, ap, Advance(Recorded(ap, found)))
    BY DEF _vercel_project
  <1> HIDE DEF found
  <1>7. Traced(cloud, ap.receipt) =>
          Traced(ensure_project, Append(ap.receipt, redact(found)))
    <2> SUFFICES ASSUME Traced(cloud, ap.receipt)
                 PROVE  Traced(ensure_project, Append(ap.receipt, redact(found)))
      OBVIOUS
    <2>1. /\ ensure_project.keys = cloud.keys /\ ensure_project.next = cloud.next
          /\ ensure_project.secret = cloud.secret /\ ensure_project.env = cloud.env
          /\ ensure_project.zone = cloud.zone
          /\ ensure_project.project = "ours" => cloud.project \in {"none", "ours"}
      BY <1>2 DEF ensure_project, Clouds
    <2>2. cloud.next # 0 /\ ap.receipt \in Seq(Entries)
      BY <1>2 DEF Traced, Applies
    <2> QED
      BY <1>4, <2>1, <2>2, TracedAppend
  <1> QED
    BY <1>1, <1>2, <1>3, <1>4, <1>5, <1>6, <1>7, RecordedCall

LEMMA EnvWorks ==
  ASSUME Running, UNCHANGED <<rb, rollbacks>>, _vercel_env
  PROVE  ApplyStep
  <1>1. At("env") /\ Provider = "vercel" /\ ap.phase \in {"setup", "fallback"}
    BY WhereAt DEF _vercel_env, Skips
  <1>2. CASE Skips("env")
    BY <1>1, <1>2, SkipsWorks
  <1>3. CASE Call(put_env, ap, Advance(Recorded(ap, Entry("vercel.env"))))
    <2>1. ap \in Applies /\ cloud \in Clouds /\ Kept(cloud, history.approved)
      BY TypeParts DEF Running, Underway
    <2>2. put_env \in Clouds /\ Kept(put_env, history.approved)
      <3>1. put_env \in Clouds
        BY <2>1, CloudOps
      <3>2. put_env.project = cloud.project /\ put_env.zone = cloud.zone
        BY <2>1 DEF put_env, Clouds
      <3> QED
        BY <2>1, <3>1, <3>2 DEF Kept
    <2>3. /\ redact(Entry("vercel.env")) \in Entries
          /\ redact(Entry("vercel.env")).action = "vercel.env"
      BY PlainEntry
    <2>4. Respects(redact(Entry("vercel.env")), history.approved)
      BY <2>3 DEF Respects
    <2>5. Traced(cloud, ap.receipt) =>
            Traced(put_env, Append(ap.receipt, redact(Entry("vercel.env"))))
      <3> SUFFICES ASSUME Traced(cloud, ap.receipt)
                   PROVE  Traced(put_env, Append(ap.receipt, redact(Entry("vercel.env"))))
        OBVIOUS
      <3>1. /\ put_env.keys = cloud.keys /\ put_env.next = cloud.next
            /\ put_env.secret = cloud.secret /\ put_env.project = cloud.project
            /\ put_env.zone = cloud.zone
        BY <2>1 DEF put_env, Clouds
      <3>2. cloud.next # 0 /\ ap.receipt \in Seq(Entries)
        BY <2>1 DEF Traced, Applies
      <3> QED
        BY <2>3, <3>1, <3>2, TracedAppend
    <2> QED
      BY <1>1, <1>3, <2>1, <2>2, <2>3, <2>4, <2>5, RecordedCall
  <1> QED
    BY <1>2, <1>3 DEF _vercel_env


LEMMA LeftFields ==
  ASSUME cloud \in Clouds, NEW c \in put_env_left
  PROVE  /\ c.keys = cloud.keys /\ c.next = cloud.next
         /\ c.secret = cloud.secret /\ c.project = cloud.project
         /\ c.zone = cloud.zone
         /\ c.env = "ours" => cloud.env \in {"ours", "both"}
  <1>1. PICK left \in Variables :
          /\ c = [cloud EXCEPT !.env = left]
          /\ left = "ours" => cloud.env \in {"ours", "both"}
    BY DEF put_env_left, Variables, Owners, Clouds
  <1> QED
    BY <1>1 DEF Clouds

LEMMA ReplacementWorks ==
  ASSUME Running, UNCHANGED <<rb, rollbacks>>, ReplacementStops
  PROVE  ApplyStep
  <1>1. /\ ap \in Applies /\ ap.at \in Ranks /\ cloud \in Clouds /\ GatesOK(gates)
        /\ Kept(cloud, history.approved) /\ troubles \in 0..MaxTroubles
    BY TypeParts DEF Running, Underway
  <1>2. /\ cloud' \in put_env_left /\ UNCHANGED gates /\ ApplyOnly
        /\ ap.phase \in {"setup", "fallback"}
    BY WhereAt DEF ReplacementStops
  <1>3. cloud' \in Clouds
    BY <1>1, <1>2, CloudOps
  <1>4. Kept(cloud', history.approved)
    <2>1. cloud'.project = cloud.project /\ cloud'.zone = cloud.zone
      BY <1>1, <1>2, LeftFields
    <2> QED
      BY <1>1, <2>1 DEF Kept
  <1>5. CASE Trouble("refused") /\ ap' = Raised(ap) /\ UNCHANGED history
    <2>1. /\ Underway(ap') /\ Carries(ap', ap) /\ ~AtApply(ap')
          /\ ap'.phase \notin {"idle", "save_receipt"}
      BY <1>1, <1>5, RaisedWorks DEF AtApply
    <2>2. troubles' \in 0..MaxTroubles
      BY <1>1, <1>5, TroubleCounts
    <2>3. Whole /\ Traced(cloud, ap.receipt) => Traced(cloud', ap.receipt)
      <3> SUFFICES ASSUME Whole, Traced(cloud, ap.receipt) PROVE Traced(cloud', ap.receipt)
        OBVIOUS
      <3>1. cloud.env # "both"
        BY <1>2 DEF Whole
      <3> QED
        BY <1>1, <1>2, <3>1, LeftFields, TracedLess DEF Traced
    <2> QED
      BY <1>1, <1>2, <1>3, <1>4, <1>5, <2>1, <2>2, <2>3, PlaceStep
  <1>6. CASE Trouble("dies") /\ Dies
    BY <1>1, <1>2, <1>3, <1>4, <1>6, TroubleCounts, DeathStep
  <1> QED
    BY <1>5, <1>6 DEF ReplacementStops

LEMMA DeploymentWorks ==
  ASSUME Running, UNCHANGED <<rb, rollbacks>>, _vercel_git_deployment
  PROVE  ApplyStep
  <1>1. Provider = "vercel" /\ ap.phase \in {"setup", "fallback"}
    BY WhereAt DEF _vercel_git_deployment
  <1>2. cloud \in Clouds /\ Kept(cloud, history.approved)
    BY TypeParts DEF Running
  <1>3. Call(cloud, ap, Advance(ap))
    BY DEF _vercel_git_deployment
  <1> QED
    BY <1>1, <1>2, <1>3, BareCall

LEMMA ProposeWorks ==
  ASSUME Running, UNCHANGED <<rb, rollbacks>>, propose
  PROVE  ApplyStep
  <1> DEFINE found == [Entry("dns.propose") EXCEPT !.existing = cloud.zone]
  <1>1. ap.phase \in {"setup", "fallback"}
    BY WhereAt DEF propose
  <1>2. ap \in Applies /\ cloud \in Clouds /\ Kept(cloud, history.approved)
    BY TypeParts DEF Running, Underway
  <1>3. /\ redact(found) \in Entries /\ redact(found).action = "dns.propose"
        /\ redact(found).existing = cloud.zone
    <2>1. cloud.zone \in DnsRecords \cup {NoRecord}
      BY <1>2 DEF Clouds
    <2> QED
      BY <2>1 DEF redact, Entry, Entries
  <1>4. Respects(redact(found), history.approved)
    BY <1>2, <1>3 DEF Respects, Kept
  <1>5. Call(cloud, ap, Advance(Recorded(ap, found)))
    BY DEF propose
  <1> HIDE DEF found
  <1>6. Traced(cloud, ap.receipt) => Traced(cloud, Append(ap.receipt, redact(found)))
    <2> SUFFICES ASSUME Traced(cloud, ap.receipt)
                 PROVE  Traced(cloud, Append(ap.receipt, redact(found)))
      OBVIOUS
    <2>1. cloud.next # 0 /\ ap.receipt \in Seq(Entries)
      BY <1>2 DEF Traced, Applies
    <2> QED
      BY <1>3, <2>1, TracedAppend
  <1> QED
    BY <1>1, <1>2, <1>3, <1>4, <1>5, <1>6, RecordedCall

LEMMA DnsWorks ==
  ASSUME Running, UNCHANGED <<rb, rollbacks>>, _cloudflare_dns
  PROVE  ApplyStep
  <1>1. /\ At("apply") /\ Provider = "cloudflare" /\ ap.step = 3
        /\ ap.phase \in {"setup", "fallback"}
    BY WhereAt DEF _cloudflare_dns, ReadBackRefused, Skips
  <1>2. CASE Skips("apply")
    BY <1>1, <1>2, SkipsWorks
  <1>3. CASE /\ ap.approve
             /\ \/ Call(apply(Last(ap.receipt).existing), ap, Advance(ap))
                \/ ReadBackRefused
    <2>1. Last(ap.receipt).existing = cloud.zone
      BY <1>1 DEF Running, Proposed, AtApply, Provider
    <2>2. cloud \in Clouds /\ Kept(cloud, history.approved) /\ history.approved
      BY <1>3, TypeParts DEF Running
    <2>3. apply(cloud.zone) \in Clouds
      BY <2>2, ZoneOps
    <2>4. Kept(apply(cloud.zone), history.approved)
      <3>1. CASE cloud.zone = NoRecord
        <4>1. app.zone = NoRecord
          BY <2>2, <3>1 DEF Kept
        <4>2. apply(cloud.zone).project = cloud.project
          BY <2>2, <3>1 DEF apply, Clouds
        <4> QED
          BY <2>2, <4>1, <4>2 DEF Kept
      <3>2. CASE cloud.zone # NoRecord
        <4>1. cloud.zone \in DnsRecords
          BY <2>2, <3>2 DEF Clouds
        <4>2. apply(cloud.zone) = [cloud EXCEPT !.zone.content = "ours"]
          BY <3>2 DEF apply
        <4>3. /\ apply(cloud.zone).project = cloud.project
              /\ apply(cloud.zone).zone = [cloud.zone EXCEPT !.content = "ours"]
          BY <2>2, <4>2 DEF Clouds
        <4>4. [cloud.zone EXCEPT !.content = "ours"] \in DnsRecords
          BY <4>1 DEF DnsRecords
        <4>5. [cloud.zone EXCEPT !.content = "ours"].id = cloud.zone.id
          BY <4>1 DEF DnsRecords
        <4> QED
          BY <2>2, <4>3, <4>4, <4>5, NoRecordAssumption DEF Kept
      <3> QED
        BY <3>1, <3>2
    <2>5. Recorded1(ap.receipt, "dns.propose")
      <3>1. /\ ap.receipt \in Seq(Entries) /\ ap.receipt # <<>>
            /\ ap.receipt[Len(ap.receipt)].action = "dns.propose"
        BY <1>1, TypeParts DEF Running, Proposed, AtApply, Provider, Underway, Applies
      <3>2. Len(ap.receipt) \in DOMAIN ap.receipt
        BY <3>1, LenProperties, EmptySeq
      <3> QED
        BY <3>1, <3>2 DEF Recorded1
    <2>6. Traced(cloud, ap.receipt) => Traced(apply(cloud.zone), ap.receipt)
      <3> SUFFICES ASSUME Traced(cloud, ap.receipt) PROVE Traced(apply(cloud.zone), ap.receipt)
        OBVIOUS
      <3>1. /\ apply(cloud.zone).keys = cloud.keys
            /\ apply(cloud.zone).next \in {cloud.next, cloud.next + 1}
            /\ apply(cloud.zone).secret = cloud.secret
            /\ apply(cloud.zone).project = cloud.project /\ apply(cloud.zone).env = cloud.env
        BY <2>2 DEF apply, Clouds
      <3>2. cloud.next \in Nat /\ cloud.next # 0
        BY <2>2 DEF Clouds, Traced
      <3>3. apply(cloud.zone).next # 0
        BY <3>1, <3>2
      <3> QED
        BY <2>5, <3>1, <3>3, TracedLess
    <2>7. CASE Call(apply(Last(ap.receipt).existing), ap, Advance(ap))
      BY <1>1, <2>1, <2>3, <2>4, <2>6, <2>7, BareCall
    <2>8. CASE ReadBackRefused
      <3>1. /\ Trouble("refused") /\ cloud' = apply(cloud.zone) /\ ap' = Raised(ap)
            /\ UNCHANGED <<gates, history>> /\ ApplyOnly
        BY <2>1, <2>8 DEF ReadBackRefused
      <3>2. /\ ap \in Applies /\ ap.at \in Ranks /\ GatesOK(gates)
            /\ troubles \in 0..MaxTroubles
        BY TypeParts DEF Running, Underway
      <3>3. /\ Underway(ap') /\ Carries(ap', ap) /\ ~AtApply(ap')
            /\ ap'.phase \notin {"idle", "save_receipt"}
        BY <3>1, <3>2, RaisedWorks DEF AtApply
      <3>4. troubles' \in 0..MaxTroubles
        BY <3>1, <3>2, TroubleCounts
      <3> QED
        BY <2>3, <2>4, <2>6, <3>1, <3>2, <3>3, <3>4, PlaceStep
    <2> QED
      BY <1>3, <2>7, <2>8
  <1> QED
    BY <1>2, <1>3 DEF _cloudflare_dns, ReadBackRefused

LEMMA CrashWorks ==
  ASSUME Running, UNCHANGED <<rb, rollbacks>>, Crash
  PROVE  ApplyStep
  <1>1. troubles' \in 0..MaxTroubles
    BY TypeParts, TroubleCounts DEF Running, Crash
  <1>2. cloud' \in Clouds /\ Kept(cloud', history.approved)
    BY TypeParts DEF Running, Crash
  <1> QED
    BY <1>1, <1>2, DeathStep DEF Crash

-----------------------------------------------------------------------------
(* Verification. *)

LEMMA SurveyWorks ==
  ASSUME Running, UNCHANGED <<rb, rollbacks>>, _verify_provider_packs
  PROVE  ApplyStep
  <1>1. /\ ap \in Applies /\ cloud \in Clouds /\ GatesOK(gates) /\ app \in Apps
        /\ Kept(cloud, history.approved) /\ troubles \in 0..MaxTroubles
    BY TypeParts DEF Running, Underway
  <1>2. Min(Ranks) \in Ranks /\ Min(Ranks) \in 1..3
    BY <1>1, RanksNonempty
  <1>3. _pending_provider_gate \in Range(Ordered) \cup {NoGate}
    <2> DEFINE at == {i \in DOMAIN gates.order : gates.order[i] \in gates.waiting}
    <2>1. gates.order \in Seq(Range(Ordered))
      BY <1>1 DEF GatesOK
    <2>2. CASE at = {}
      BY <2>2 DEF _pending_provider_gate
    <2>3. CASE at # {}
      <3>1. at \subseteq Nat
        BY <2>1
      <3>2. Min(at) \in at
        BY <2>3, <3>1, MinIsMember
      <3>3. gates.order[Min(at)] \in Range(Ordered)
        BY <2>1, <3>2, ElementOfSeq, LenProperties
      <3> QED
        BY <2>3, <3>3 DEF _pending_provider_gate
    <2> QED
      BY <2>2, <2>3
  <1> DEFINE b == AtRank(InPhase(ap, "verify"), Min(Ranks))
  <1>4. b \in Applies /\ Carries(b, ap) /\ b.phase = "verify" /\ b.at = Min(Ranks) /\ b.step = 1
    <2>1. "verify" \in Phases
      BY DEF Phases
    <2>2. /\ InPhase(ap, "verify") \in Applies /\ Carries(InPhase(ap, "verify"), ap)
          /\ InPhase(ap, "verify").phase = "verify"
      BY <1>1, <2>1, InPhaseFields
    <2> QED
      BY <1>2, <2>2, AtRankFields DEF Carries
  <1>5. ap' = [b EXCEPT !.active = _pending_provider_gate]
    BY <1>1 DEF _verify_provider_packs, AtRank, InPhase, Applies
  <1> HIDE DEF b
  <1>6. /\ ap' \in Applies /\ Carries(ap', b)
        /\ ap'.phase = "verify" /\ ap'.at = Min(Ranks) /\ ap'.step = 1
    BY <1>3, <1>4, <1>5 DEF Applies, Carries
  <1>7. Carries(ap', ap)
    BY <1>4, <1>6 DEF Carries
  <1>8. Underway(ap') /\ ~AtApply(ap') /\ ap'.phase \notin {"idle", "save_receipt"}
    BY <1>2, <1>6, RecipeStart DEF Underway, AtApply
  <1>9. UNCHANGED <<cloud, gates, history, troubles>> /\ ApplyOnly
    BY DEF _verify_provider_packs
  <1> QED
    BY <1>1, <1>7, <1>8, <1>9, PlaceStep

LEMMA VerifiedNextWorks ==
  ASSUME Running, VerifiedNext
  PROVE  /\ Underway(ap') /\ Carries(ap', ap) /\ ~AtApply(ap')
         /\ ap'.phase \notin {"idle", "save_receipt"}
  <1>1. ap \in Applies /\ ap.at \in Ranks
    BY TypeParts DEF Running, Underway
  <1>2. "verify" \in Phases /\ "save_vault" \in Phases
    BY DEF Phases
  <1>3. CASE After(ap.at) # {}
    <2> DEFINE b == InPhase(ap, "verify")
    <2>1. Min(After(ap.at)) \in Ranks /\ Min(After(ap.at)) \in 1..3
      BY <1>3, AfterMember, RecipeStart
    <2>2. b \in Applies /\ Carries(b, ap) /\ b.phase = "verify"
      BY <1>1, <1>2, InPhaseFields
    <2>3. ap' = AtRank(b, Min(After(ap.at)))
      BY <1>1, <1>3 DEF VerifiedNext, AtRank, InPhase, Applies
    <2> HIDE DEF b
    <2>4. /\ ap' \in Applies /\ Carries(ap', b)
          /\ ap'.phase = "verify" /\ ap'.at = Min(After(ap.at)) /\ ap'.step = 1
      BY <2>1, <2>2, <2>3, AtRankFields
    <2> QED
      BY <2>1, <2>2, <2>4, RecipeStart DEF Underway, AtApply, Carries
  <1>4. CASE After(ap.at) = {}
    <2>1. ap' = InPhase(ap, "save_vault")
      BY <1>4 DEF VerifiedNext, InPhase
    <2>2. /\ ap' \in Applies /\ Carries(ap', ap)
          /\ ap'.phase = "save_vault" /\ ap'.at = ap.at /\ ap'.step = 1
      BY <1>1, <1>2, <2>1, InPhaseFields
    <2> QED
      BY <1>1, <2>2, RecipeStart DEF Underway, AtApply
  <1> QED
    BY <1>3, <1>4


LEMMA AcceptsWorks ==
  ASSUME Running, UNCHANGED <<rb, rollbacks>>, Accepts, troubles' \in 0..MaxTroubles
  PROVE  ApplyStep
  <1>1. /\ ap.at \in Ranks /\ cloud \in Clouds /\ GatesOK(gates)
        /\ Kept(cloud, history.approved)
    BY TypeParts DEF Running, Underway
  <1>2. Provider \in Range(Ordered)
    BY <1>1, RecipeStart, OrderedNames DEF Provider
  <1>3. GatesOK(gates')
    BY <1>1, <1>2, GateWaits DEF Accepts
  <1>4. VerifiedNext /\ UNCHANGED <<cloud, history>> /\ ApplyOnly
    BY DEF Accepts
  <1> QED
    BY <1>1, <1>3, <1>4, VerifiedNextWorks, PlaceStep

LEMMA DeferredWorks ==
  ASSUME Running, UNCHANGED <<rb, rollbacks>>, _provider_waiting_on_upstream_gate_result
  PROVE  ApplyStep
  <1>1. /\ cloud \in Clouds /\ GatesOK(gates) /\ Kept(cloud, history.approved)
        /\ troubles \in 0..MaxTroubles
    BY TypeParts DEF Running
  <1>2. VerifiedNext /\ UNCHANGED <<cloud, gates, history, troubles>> /\ ApplyOnly
    BY DEF _provider_waiting_on_upstream_gate_result
  <1> QED
    BY <1>1, <1>2, VerifiedNextWorks, PlaceStep

LEMMA RaisedStep ==
  ASSUME Running, ApplyOnly, UNCHANGED <<rb, rollbacks, cloud, gates, history>>,
         troubles' \in 0..MaxTroubles, ap' = Raised(ap)
  PROVE  ApplyStep
  <1>1. /\ ap \in Applies /\ ap.at \in Ranks /\ cloud \in Clouds /\ GatesOK(gates)
        /\ Kept(cloud, history.approved)
    BY TypeParts DEF Running, Underway
  <1>2. /\ Underway(ap') /\ Carries(ap', ap) /\ ~AtApply(ap')
        /\ ap'.phase \notin {"idle", "save_receipt"}
    BY <1>1, RaisedWorks DEF AtApply
  <1> QED
    BY <1>1, <1>2, PlaceStep

LEMMA FallbackWorks ==
  ASSUME Running, UNCHANGED <<rb, rollbacks>>, _attempt_provider_api_fallback,
         troubles' \in 0..MaxTroubles
  PROVE  ApplyStep
  <1>1. /\ ap \in Applies /\ ap.at \in Ranks /\ cloud \in Clouds /\ GatesOK(gates)
        /\ Kept(cloud, history.approved)
    BY TypeParts DEF Running, Underway
  <1>2. UNCHANGED <<cloud, gates, history>> /\ ApplyOnly
    BY DEF _attempt_provider_api_fallback
  <1>3. CASE Provider \in ap.mem.tokens
    <2>1. ap' = InPhase(ap, "fallback") /\ "fallback" \in Phases
      BY <1>3 DEF _attempt_provider_api_fallback, InPhase, Phases
    <2>2. /\ ap' \in Applies /\ Carries(ap', ap)
          /\ ap'.phase = "fallback" /\ ap'.at = ap.at /\ ap'.step = 1
      BY <1>1, <2>1, InPhaseFields
    <2>3. Underway(ap') /\ ~AtApply(ap') /\ ap'.phase \notin {"idle", "save_receipt"}
      BY <1>1, <2>2, RecipeStart DEF Underway, AtApply
    <2> QED
      BY <1>1, <1>2, <2>2, <2>3, PlaceStep
  <1>4. CASE Provider \notin ap.mem.tokens
    BY <1>2, <1>4, RaisedStep DEF _attempt_provider_api_fallback
  <1> QED
    BY <1>3, <1>4

LEMMA VerifyWorks ==
  ASSUME Running, UNCHANGED <<rb, rollbacks>>,
         verify_provider_pack \/ CheckFails \/ _rerun_provider_verification
  PROVE  ApplyStep
  <1>1. troubles \in 0..MaxTroubles
    BY TypeParts DEF Running
  <1>2. CASE verify_provider_pack
    BY <1>1, <1>2, AcceptsWorks, FallbackWorks DEF verify_provider_pack
  <1>3. CASE CheckFails
    BY <1>1, <1>3, TroubleCounts, FallbackWorks DEF CheckFails
  <1>4. CASE _rerun_provider_verification
    BY <1>1, <1>4, AcceptsWorks, RaisedStep DEF _rerun_provider_verification
  <1> QED
    BY <1>2, <1>3, <1>4

LEMMA ApplyStepWorks ==
  ASSUME Running, UNCHANGED <<rb, rollbacks>>,
         ApplySteps \/ Crash \/ _await_dns_approval, ~SaveVault, ~WriteReceipt
  PROVE  ApplyStep
  <1>1. CASE choose_provider_strategy \/ _provider_contract_health_gate
    BY <1>1, StrategyWorks, HealthWorks
  <1>2. CASE Recipe
    BY <1>2, DeployKeyWorks, SecretsWorks, ProjectWorks, HealthWorks, EnvWorks,
       ReplacementWorks, DeploymentWorks, ProposeWorks, DnsWorks DEF Recipe
  <1>3. CASE _verify_provider_packs \/ _provider_waiting_on_upstream_gate_result
    BY <1>3, SurveyWorks, DeferredWorks
  <1>4. CASE verify_provider_pack \/ CheckFails \/ _rerun_provider_verification
    BY <1>4, VerifyWorks
  <1>5. CASE Crash \/ _await_dns_approval
    BY <1>5, CrashWorks, ApprovalWorks
  <1> QED
    BY <1>1, <1>2, <1>3, <1>4, <1>5 DEF ApplySteps


-----------------------------------------------------------------------------
(* The inductive invariant. *)

HasKey(R) == \E i \in DOMAIN R : R[i].action = "github.deploy_key"

(* Whoever may write the vault next has the private half of a recorded key,    *)
(* unless a capture was open during a save.                                    *)
KeyHeld ==
  /\ HasKey(ap.receipt) => ap.mem.key
  /\ HasKey(receipt) =>
       \/ history.overlapped
       \/ /\ vault.key /\ (ap.phase # "idle" => ap.mem.key)
          /\ room # NoRecord => room.copy.key
  /\ ap.phase = "save_receipt" /\ HasKey(ap.receipt) =>
       history.overlapped \/ (vault.key /\ (room # NoRecord => room.copy.key))

(* Undoing anything that was recorded leaves what is the user's.               *)
Respected ==
  /\ Kept(cloud, history.approved)
  /\ ap.approve => history.approved
  /\ AllRespect(ap.receipt, history.approved) /\ AllRespect(receipt, history.approved)
  /\ AllRespect(rb.todo, history.approved) /\ AllRespect(rb.dns, history.approved)
  /\ \A i \in DOMAIN rb.dns : rb.dns[i].action = "dns.propose"

Inv == TypeOKRollback /\ Proposed /\ KeyHeld /\ Respected

Rollbacks == [todo : Seq(Entries), dns : Seq(Entries), running : BOOLEAN,
              result : {"none", "done", "aborted"}]

LEMMA RollbackTypes ==
  ASSUME TypeOKRollback
  PROVE  /\ rb \in Rollbacks /\ rollbacks \in 0..MaxRollbacks
         /\ rb.running => rb.result = "none" /\ ap.phase = "idle"
         /\ applies \in 0..2 /\ outcome \in {"none", "failed", "finished"}
  BY DEF TypeOKRollback, TypeOKSetup, Rollbacks

(* The type invariant of the next state from its parts. *)
LEMMA TypeFromParts ==
  ASSUME cloud' \in Clouds, GatesOK(gates'), Underway(ap)', app' \in Apps,
         troubles' \in 0..MaxTroubles, history' \in Histories,
         vault' \in Vaults, receipt' \in Seq(Entries),
         room' = NoRecord \/ room' \in [provider : Range(Ordered), copy : Vaults],
         rb' \in Rollbacks, rollbacks' \in 0..MaxRollbacks,
         rb'.running => rb'.result = "none" /\ ap'.phase = "idle",
         applies' \in 0..2, outcome' \in {"none", "failed", "finished"}
  PROVE  TypeOKRollback'
  BY DEF TypeOKRollback, TypeOKSetup, TypeOKCloud, Clouds, GatesOK, Underway, Histories,
         Rollbacks

LEMMA RespectsMore ==
  ASSUME NEW e, NEW approved, NEW more, Respects(e, approved), approved => more
  PROVE  Respects(e, more)
  BY DEF Respects

LEMMA AllRespectMore ==
  ASSUME NEW R, NEW approved, NEW more, AllRespect(R, approved), approved => more
  PROVE  AllRespect(R, more)
  BY RespectsMore DEF AllRespect

LEMMA InvRunning ==
  ASSUME Inv, ap.phase # "idle"
  PROVE  Running
  BY DEF Inv, Respected, Running

LEMMA AppendedEntries ==
  ASSUME NEW R \in Seq(Entries), NEW e \in Entries
  PROVE  /\ HasKey(Append(R, e)) => HasKey(R) \/ e.action = "github.deploy_key"
         /\ \A approved : AllRespect(R, approved) /\ Respects(e, approved)
                            => AllRespect(Append(R, e), approved)
  <1> DEFINE S == Append(R, e)
  <1>1. /\ S \in Seq(Entries) /\ Len(S) = Len(R) + 1
        /\ \A i \in 1..Len(R) : S[i] = R[i]
        /\ S[Len(R) + 1] = e
    BY AppendProperties
  <1>2. DOMAIN R = 1..Len(R) /\ DOMAIN S = 1..(Len(R) + 1) /\ Len(R) \in Nat
    BY <1>1, LenProperties
  <1> HIDE DEF S
  <1>3. \A i \in DOMAIN S : (i \in DOMAIN R /\ S[i] = R[i]) \/ S[i] = e
    BY <1>1, <1>2
  <1>4. HasKey(S) => HasKey(R) \/ e.action = "github.deploy_key"
    BY <1>3 DEF HasKey
  <1>5. \A approved : AllRespect(R, approved) /\ Respects(e, approved)
                        => AllRespect(S, approved)
    BY <1>3 DEF AllRespect
  <1> QED
    BY <1>4, <1>5 DEF S

LEMMA NoEntries ==
  /\ ~HasKey(<<>>)
  /\ \A approved : AllRespect(<<>>, approved)
  BY DEF HasKey, AllRespect

LEMMA ApplyStepInv ==
  ASSUME Inv, ap.phase # "idle", ApplyStep
  PROVE  Inv'
  <1>1. /\ UNCHANGED <<app, vault, receipt, room, applies, outcome, rb, rollbacks>>
        /\ cloud' \in Clouds /\ Kept(cloud', history'.approved)
        /\ GatesOK(gates') /\ troubles' \in 0..MaxTroubles
        /\ history' \in Histories /\ history'.overlapped = history.overlapped
        /\ history.approved => history'.approved
        /\ Underway(ap') /\ Proposed'
        /\ \/ ap' = NoApply
           \/ /\ ap'.phase \notin {"idle", "save_receipt"}
              /\ Continues(ap', history'.approved)
              /\ ap'.approve => ap.approve \/ history'.approved
    BY DEF ApplyStep, ApplyOnly
  <1>2. TypeOKRollback /\ KeyHeld /\ Respected
    BY DEF Inv
  <1>3. ap \in Applies /\ ap.receipt \in Seq(Entries)
    BY <1>2, TypeParts DEF Underway, Applies
  <1>4. TypeOKRollback'
    <2>1. Underway(ap)'
      BY <1>1 DEF Underway, Ranks
    <2>2. ~rb.running
      BY <1>2, RollbackTypes
    <2>3. /\ cloud' \in Clouds /\ app' \in Apps /\ vault' \in Vaults
          /\ receipt' \in Seq(Entries) /\ rb' \in Rollbacks
          /\ room' = NoRecord \/ room' \in [provider : Range(Ordered), copy : Vaults]
          /\ rollbacks' \in 0..MaxRollbacks /\ applies' \in 0..2
          /\ outcome' \in {"none", "failed", "finished"} /\ ~rb'.running
      BY <1>1, <1>2, <2>2, TypeParts, RollbackTypes
    <2> QED
      BY <1>1, <2>1, <2>3, TypeFromParts
  <1>5. KeyHeld'
    <2>1. (HasKey(receipt) =>
             \/ history.overlapped
             \/ vault.key /\ ap.mem.key /\ (room # NoRecord => room.copy.key))
      BY <1>2 DEF KeyHeld
    <2>2. CASE ap' = NoApply
      <3>1. ap'.phase = "idle" /\ ~HasKey(ap'.receipt)
        BY <2>2, NoApplyWorks, NoEntries
      <3> QED
        BY <1>1, <2>1, <3>1 DEF KeyHeld
    <2>3. CASE ap'.phase \notin {"idle", "save_receipt"} /\ Continues(ap', history'.approved)
      <3>1. ap.mem.key => ap'.mem.key
        BY <2>3 DEF Continues
      <3>2. HasKey(ap'.receipt) => ap'.mem.key
        <4>1. CASE ap'.receipt = ap.receipt
          BY <1>2, <3>1, <4>1 DEF KeyHeld
        <4>2. ASSUME NEW e \in Entries, ap'.receipt = Append(ap.receipt, e),
                     e.action = "github.deploy_key" => ap'.mem.key
              PROVE  HasKey(ap'.receipt) => ap'.mem.key
          BY <1>2, <1>3, <3>1, <4>2, AppendedEntries DEF KeyHeld
        <4> QED
          BY <2>3, <4>1, <4>2 DEF Continues
      <3> QED
        BY <1>1, <2>1, <2>3, <3>1, <3>2 DEF KeyHeld
    <2> QED
      BY <1>1, <2>2, <2>3
  <1>6. Respected'
    <2>1. AllRespect(ap.receipt, history'.approved)
      BY <1>1, <1>2, AllRespectMore DEF Respected
    <2>2. AllRespect(ap'.receipt, history'.approved) /\ (ap'.approve => history'.approved)
      <3>1. CASE ap' = NoApply
        BY <3>1, NoApplyWorks, NoEntries DEF NoApply
      <3>2. CASE /\ Continues(ap', history'.approved)
                 /\ ap'.approve => ap.approve \/ history'.approved
        <4>1. ap'.approve => history'.approved
          BY <1>1, <1>2, <3>2 DEF Respected
        <4>2. CASE ap'.receipt = ap.receipt
          BY <2>1, <4>1, <4>2
        <4>3. ASSUME NEW e \in Entries, ap'.receipt = Append(ap.receipt, e),
                     Respects(e, history'.approved)
              PROVE  AllRespect(ap'.receipt, history'.approved)
          BY <1>3, <2>1, <4>3, AppendedEntries
        <4> QED
          BY <3>2, <4>1, <4>2, <4>3 DEF Continues
      <3> QED
        BY <1>1, <3>1, <3>2
    <2>3. /\ AllRespect(receipt', history'.approved)
          /\ AllRespect(rb'.todo, history'.approved) /\ AllRespect(rb'.dns, history'.approved)
      BY <1>1, <1>2, AllRespectMore DEF Respected
    <2>4. Kept(cloud, history.approved)' /\ AllRespect(ap.receipt, history.approved)'
          /\ AllRespect(receipt, history.approved)' /\ AllRespect(rb.todo, history.approved)'
          /\ AllRespect(rb.dns, history.approved)'
      BY <1>1, <2>2, <2>3 DEF Kept, AllRespect, Respects
    <2>5. \A i \in DOMAIN rb'.dns : rb'.dns[i].action = "dns.propose"
      BY <1>1, <1>2 DEF Respected
    <2> QED
      BY <2>2, <2>4, <2>5 DEF Respected
  <1> QED
    BY <1>1, <1>4, <1>5, <1>6 DEF Inv


(* The invariant where neither the providers nor the rollback change.          *)
LEMMA QuietInv ==
  ASSUME Inv, UNCHANGED <<cloud, app, rb, rollbacks>>, ~AtApply(ap'),
         GatesOK(gates'), Underway(ap'), troubles' \in 0..MaxTroubles,
         history' \in Histories, history.approved => history'.approved,
         vault' \in Vaults, receipt' \in Seq(Entries),
         room' = NoRecord \/ room' \in [provider : Range(Ordered), copy : Vaults],
         ap'.phase # "idle" => ~rb.running,
         applies' \in 0..2, outcome' \in {"none", "failed", "finished"},
         ap'.receipt \in {ap.receipt, <<>>}, receipt' \in {receipt, ap.receipt},
         ap'.approve => ap.approve \/ history'.approved,
         KeyHeld'
  PROVE  Inv'
  <1>1. TypeOKRollback /\ Respected
    BY DEF Inv
  <1>2. Underway(ap)'
    BY DEF Underway, Ranks
  <1>3. TypeOKRollback'
    BY <1>1, <1>2, TypeParts, RollbackTypes, TypeFromParts
  <1>4. Proposed'
    BY DEF Proposed, AtApply
  <1>5. /\ AllRespect(ap.receipt, history'.approved) /\ AllRespect(receipt, history'.approved)
        /\ AllRespect(rb.todo, history'.approved) /\ AllRespect(rb.dns, history'.approved)
    BY <1>1, AllRespectMore DEF Respected
  <1>6. AllRespect(ap'.receipt, history'.approved)
    BY <1>5, NoEntries
  <1>7. /\ AllRespect(ap.receipt, history.approved)' /\ AllRespect(receipt, history.approved)'
        /\ AllRespect(rb.todo, history.approved)' /\ AllRespect(rb.dns, history.approved)'
    BY <1>5, <1>6 DEF AllRespect, Respects
  <1>8. Kept(cloud, history.approved)' /\ (ap'.approve => history'.approved)
    BY <1>1 DEF Respected, Kept
  <1>9. \A i \in DOMAIN rb'.dns : rb'.dns[i].action = "dns.propose"
    BY <1>1 DEF Respected
  <1>10. Respected'
    BY <1>7, <1>8, <1>9 DEF Respected
  <1> QED
    BY <1>3, <1>4, <1>10 DEF Inv

LEMMA StartInv ==
  ASSUME Inv, Setup(Start)
  PROVE  Inv'
  <1>1. PICK approve \in BOOLEAN : _apply_loaded_manifest(approve)
    BY DEF Setup, Start
  <1>2. /\ ap.phase = "idle" /\ ~rb.running
        /\ UNCHANGED <<cloud, app, vault, receipt, gates, room, troubles, rb, rollbacks>>
        /\ ap' = [NoApply EXCEPT !.phase = "setup", !.at = Min(Ranks), !.mem = vault,
                                 !.approve = approve, !.stale = gates.waiting # {}]
        /\ applies' = IF applies = 2 THEN 2 ELSE applies + 1
        /\ outcome' = "none"
        /\ history' = [history EXCEPT !.approved = @ \/ approve]
    BY <1>1 DEF Setup, Start, _apply_loaded_manifest
  <1>3. TypeOKRollback /\ KeyHeld
    BY DEF Inv
  <1>4. /\ vault \in Vaults /\ receipt \in Seq(Entries) /\ GatesOK(gates)
        /\ troubles \in 0..MaxTroubles /\ history \in Histories /\ applies \in 0..2
        /\ room = NoRecord \/ room \in [provider : Range(Ordered), copy : Vaults]
        /\ Min(Ranks) \in Ranks /\ Min(Ranks) \in 1..3
    BY <1>3, TypeParts, RollbackTypes, RanksNonempty
  <1> DEFINE stale == gates.waiting # {}
  <1>5. stale \in BOOLEAN
    OBVIOUS
  <1> HIDE DEF stale
  <1>0. PICK one \in 1..4 : one = 1
    OBVIOUS
  <1>6. ap' = [phase |-> "setup", at |-> Min(Ranks), step |-> one, mem |-> vault,
               approve |-> approve, receipt |-> <<>>, active |-> NoGate, paused |-> NoGate,
               stale |-> stale, failed |-> FALSE]
    BY <1>2, <1>0 DEF NoApply, stale
  <1>7. "setup" \in Phases /\ <<>> \in Seq(Entries)
    BY EmptySeq DEF Phases
  <1>8. /\ ap'.receipt = <<>> /\ ap'.mem = vault /\ ap'.approve = approve
        /\ ap'.phase = "setup" /\ ap'.at = Min(Ranks) /\ ap'.step = 1
    BY <1>6, <1>0
  <1>9. ap' \in Applies
    BY <1>4, <1>5, <1>6, <1>7 DEF Applies
  <1>10. Underway(ap') /\ ~AtApply(ap')
    BY <1>4, <1>8, <1>9, RecipeStart DEF Underway, AtApply
  <1>11. /\ history' \in Histories /\ history'.overlapped = history.overlapped
         /\ history.approved => history'.approved
         /\ approve => history'.approved
    BY <1>2, <1>4 DEF Histories
  <1>12. KeyHeld'
    BY <1>2, <1>3, <1>8, <1>11, NoEntries DEF KeyHeld
  <1>13. applies' \in 0..2
    BY <1>2, <1>4
  <1> QED
    BY <1>2, <1>4, <1>8, <1>10, <1>11, <1>12, <1>13, QuietInv

LEMMA SaveVaultInv ==
  ASSUME Inv, Setup(SaveVault)
  PROVE  Inv'
  <1>1. /\ ap.phase = "save_vault" /\ vault' = ap.mem
        /\ ap' = [ap EXCEPT !.phase = "save_receipt"]
        /\ history' = [history EXCEPT !.overlapped = @ \/ room # NoRecord]
        /\ UNCHANGED <<cloud, app, receipt, gates, room, applies, outcome, troubles, rb,
                       rollbacks>>
    BY DEF Setup, SaveVault, In
  <1>2. TypeOKRollback /\ KeyHeld
    BY DEF Inv
  <1>3. /\ receipt \in Seq(Entries) /\ GatesOK(gates) /\ Underway(ap) /\ ap \in Applies
        /\ troubles \in 0..MaxTroubles /\ history \in Histories /\ applies \in 0..2
        /\ room = NoRecord \/ room \in [provider : Range(Ordered), copy : Vaults]
        /\ outcome \in {"none", "failed", "finished"}
    BY <1>2, TypeParts, RollbackTypes DEF Underway
  <1>4. ap.mem \in Vaults
    BY <1>3 DEF Applies
  <1>5. "save_receipt" \in Phases
    BY DEF Phases
  <1>6. /\ ap' \in Applies /\ Carries(ap', ap)
        /\ ap'.phase = "save_receipt" /\ ap'.at = ap.at /\ ap'.step = ap.step
    BY <1>1, <1>3, <1>5 DEF Applies, Carries
  <1>7. Underway(ap') /\ ~AtApply(ap')
    BY <1>1, <1>3, <1>6 DEF Underway, AtApply
  <1>8. /\ history' \in Histories /\ history'.approved = history.approved
        /\ history.overlapped => history'.overlapped
        /\ room # NoRecord => history'.overlapped
    BY <1>1, <1>3 DEF Histories
  <1>9. KeyHeld'
    BY <1>1, <1>2, <1>6, <1>8 DEF KeyHeld, Carries
  <1>10. ~rb.running
    BY <1>1, <1>2, RollbackTypes
  <1> QED
    BY <1>1, <1>3, <1>4, <1>6, <1>7, <1>8, <1>9, <1>10, QuietInv DEF Carries

LEMMA WriteReceiptInv ==
  ASSUME Inv, Setup(WriteReceipt)
  PROVE  Inv'
  <1>1. /\ ap.phase = "save_receipt" /\ receipt' = ap.receipt /\ ap' = NoApply
        /\ outcome' = IF ap.failed THEN "failed" ELSE "finished"
        /\ UNCHANGED <<cloud, app, vault, gates, room, applies, troubles, history, rb,
                       rollbacks>>
    BY DEF Setup, WriteReceipt, In
  <1>2. TypeOKRollback /\ KeyHeld
    BY DEF Inv
  <1>3. /\ vault \in Vaults /\ GatesOK(gates) /\ ap \in Applies
        /\ troubles \in 0..MaxTroubles /\ history \in Histories /\ applies \in 0..2
        /\ room = NoRecord \/ room \in [provider : Range(Ordered), copy : Vaults]
    BY <1>2, TypeParts, RollbackTypes DEF Underway
  <1>4. ap.receipt \in Seq(Entries)
    BY <1>3 DEF Applies
  <1>5. /\ ap' \in Applies /\ ap'.phase = "idle" /\ ap'.receipt = <<>> /\ ~ap'.approve
    BY <1>1, NoApplyWorks DEF NoApply
  <1>6. Underway(ap') /\ ~AtApply(ap')
    BY <1>5 DEF Underway, AtApply
  <1>7. KeyHeld'
    BY <1>1, <1>2, <1>5, NoEntries DEF KeyHeld
  <1>8. outcome' \in {"none", "failed", "finished"}
    BY <1>1
  <1> QED
    BY <1>1, <1>3, <1>4, <1>5, <1>6, <1>7, <1>8, QuietInv

AtTheRoom ==
  \/ _capture_saves
  \/ \E p \in app.services : _capture_opens(p) \/ ClickFinished(p)

LEMMA UserInv ==
  ASSUME Inv, Setup(AtTheRoom)
  PROVE  Inv'
  <1>1. /\ UNCHANGED <<cloud, app, receipt, ap, applies, outcome, troubles, history, rb,
                       rollbacks>>
    BY DEF Setup, AtTheRoom, UserOnly, _capture_saves, _capture_opens, ClickFinished
  <1>2. TypeOKRollback /\ KeyHeld
    BY DEF Inv
  <1>3. /\ receipt \in Seq(Entries) /\ GatesOK(gates) /\ Underway(ap) /\ ap \in Applies
        /\ troubles \in 0..MaxTroubles /\ history \in Histories /\ applies \in 0..2
        /\ room = NoRecord \/ room \in [provider : Range(Ordered), copy : Vaults]
        /\ outcome \in {"none", "failed", "finished"} /\ vault \in Vaults
        /\ rb.running => ap.phase = "idle"
    BY <1>2, TypeParts, RollbackTypes DEF Underway
  <1>4. ASSUME GatesOK(gates'), vault' \in Vaults, KeyHeld',
               room' = NoRecord \/ room' \in [provider : Range(Ordered), copy : Vaults]
        PROVE  Inv'
    <2>1. CASE AtApply(ap)
      <3>1. TypeOKRollback'
        <4>1. Underway(ap)'
          BY <1>1, <1>3 DEF Underway, Ranks
        <4> QED
          BY <1>1, <1>2, <1>3, <1>4, <4>1, TypeParts, RollbackTypes, TypeFromParts
      <3>2. Proposed' /\ Respected'
        BY <1>1 DEF Inv, Proposed, Respected, Kept, AllRespect, Respects, AtApply
      <3> QED
        BY <1>4, <3>1, <3>2 DEF Inv
    <2>2. CASE ~AtApply(ap)
      BY <1>1, <1>3, <1>4, <2>2, QuietInv
    <2> QED
      BY <2>1, <2>2
  <1>5. \A p : Resolved(p) => GatesOK(gates')
    BY <1>3 DEF Resolved, GatesOK
  <1>6. CASE _capture_saves
    <2>1. /\ room \in [provider : Range(Ordered), copy : Vaults] /\ room # NoRecord
          /\ vault' = [room.copy EXCEPT !.tokens = @ \cup {room.provider}]
          /\ room' = NoRecord /\ GatesOK(gates')
      BY <1>3, <1>5, <1>6 DEF _capture_saves
    <2>2. vault' \in Vaults /\ vault'.key = room.copy.key
      <3>1. room.copy \in Vaults /\ room.provider \in Range(Ordered)
        BY <2>1
      <3> QED
        BY <2>1, <3>1 DEF Vaults
    <2>3. KeyHeld'
      BY <1>1, <1>2, <2>1, <2>2 DEF KeyHeld
    <2> QED
      BY <1>4, <2>1, <2>2, <2>3
  <1>7. ASSUME NEW p \in app.services, _capture_opens(p)
        PROVE  Inv'
    <2>1. p \in Range(Ordered)
      BY <1>2, TypeParts, AppType
    <2>2. room' = [provider |-> p, copy |-> vault] /\ UNCHANGED <<vault, gates>>
      BY <1>7 DEF _capture_opens
    <2>3. KeyHeld'
      BY <1>1, <1>2, <2>2 DEF KeyHeld
    <2> QED
      BY <1>3, <1>4, <2>1, <2>2, <2>3
  <1>8. ASSUME NEW p \in app.services, ClickFinished(p)
        PROVE  Inv'
    <2>1. UNCHANGED <<vault, room>> /\ GatesOK(gates')
      BY <1>5, <1>8 DEF ClickFinished
    <2>2. KeyHeld'
      BY <1>1, <1>2, <2>1 DEF KeyHeld
    <2> QED
      BY <1>3, <1>4, <2>1, <2>2
  <1> QED
    BY <1>6, <1>7, <1>8 DEF Setup, AtTheRoom


-----------------------------------------------------------------------------
(* The steps of a rollback. *)

RollbackOK(r) ==
  /\ r \in Rollbacks /\ (r.running => r.result = "none")
  /\ AllRespect(r.todo, history.approved) /\ AllRespect(r.dns, history.approved)
  /\ \A i \in DOMAIN r.dns : r.dns[i].action = "dns.propose"

Stopped(result) == [NoRollback EXCEPT !.result = result]

LEMMA StoppedOK ==
  ASSUME NEW result \in {"none", "done", "aborted"}
  PROVE  RollbackOK(Stopped(result))
  <1>1. <<>> \in Seq(Entries) /\ DOMAIN <<>> = {}
    BY EmptySeq
  <1>2. PICK r : r = Stopped(result)
    OBVIOUS
  <1>3. r.todo = <<>> /\ r.dns = <<>> /\ ~r.running /\ r.result = result
    BY <1>2 DEF Stopped, NoRollback
  <1>4. r = [todo |-> <<>>, dns |-> <<>>, running |-> FALSE, result |-> result]
    BY <1>2 DEF Stopped, NoRollback
  <1>5. r \in Rollbacks
    BY <1>1, <1>4 DEF Rollbacks
  <1> QED
    BY <1>1, <1>2, <1>3, <1>5, NoEntries DEF RollbackOK

LEMMA RollbackStep ==
  ASSUME Inv, ap.phase = "idle", UNCHANGED <<app, vault, receipt, gates, room, ap, applies,
                                             outcome, history>>,
         cloud' \in Clouds, Kept(cloud', history.approved), troubles' \in 0..MaxTroubles,
         rollbacks' \in 0..MaxRollbacks, RollbackOK(rb')
  PROVE  Inv'
  <1>1. TypeOKRollback /\ KeyHeld /\ Respected
    BY DEF Inv
  <1>2. Underway(ap)'
    BY <1>1, TypeParts DEF Underway, Ranks
  <1>3. TypeOKRollback'
    BY <1>1, <1>2, TypeParts, RollbackTypes, TypeFromParts DEF RollbackOK
  <1>4. Proposed' /\ KeyHeld'
    BY <1>1 DEF Proposed, AtApply, KeyHeld
  <1>5. Respected'
    BY <1>1 DEF Respected, Kept, AllRespect, Respects, RollbackOK
  <1> QED
    BY <1>3, <1>4, <1>5 DEF Inv

LEMMA ExecuteInv ==
  ASSUME Inv, execute_native_rollback
  PROVE  Inv'
  <1>1. /\ ap.phase = "idle" /\ rollbacks < MaxRollbacks /\ rollbacks' = rollbacks + 1
        /\ rb' = [NoRollback EXCEPT !.todo = receipt, !.running = TRUE]
        /\ UNCHANGED <<cloud, app, vault, receipt, gates, room, ap, applies, outcome,
                       troubles, history>>
    BY DEF execute_native_rollback, setupVars
  <1>2. /\ cloud \in Clouds /\ Kept(cloud, history.approved) /\ receipt \in Seq(Entries)
        /\ AllRespect(receipt, history.approved) /\ rollbacks \in 0..MaxRollbacks
        /\ troubles \in 0..MaxTroubles
    BY TypeParts, RollbackTypes DEF Inv, Respected
  <1>3. rb' = [todo |-> receipt, dns |-> <<>>, running |-> TRUE, result |-> "none"]
    BY <1>1 DEF NoRollback
  <1>4. <<>> \in Seq(Entries) /\ DOMAIN <<>> = {}
    BY EmptySeq
  <1>5. RollbackOK(rb')
    BY <1>2, <1>3, <1>4, NoEntries DEF RollbackOK, Rollbacks
  <1>6. rollbacks' \in 0..MaxRollbacks
    BY <1>1, <1>2, BoundsAssumption
  <1> QED
    BY <1>1, <1>2, <1>5, <1>6, RollbackStep

(* The head and the tail of a sequence of entries. *)
LEMMA FirstEntry ==
  ASSUME NEW R \in Seq(Entries), R # <<>>
  PROVE  /\ Head(R) \in Entries /\ Tail(R) \in Seq(Entries)
         /\ \A approved : AllRespect(R, approved)
                            => Respects(Head(R), approved) /\ AllRespect(Tail(R), approved)
         /\ (\A i \in DOMAIN R : R[i].action = "dns.propose")
              => /\ Head(R).action = "dns.propose"
                 /\ \A i \in DOMAIN Tail(R) : Tail(R)[i].action = "dns.propose"
  <1>1. /\ Head(R) \in Entries /\ Tail(R) \in Seq(Entries)
        /\ Len(Tail(R)) = Len(R) - 1 /\ \A i \in 1..Len(Tail(R)) : Tail(R)[i] = R[i + 1]
    BY HeadTailProperties
  <1>2. DOMAIN R = 1..Len(R) /\ Len(R) \in Nat \ {0} /\ DOMAIN Tail(R) = 1..Len(Tail(R))
    BY <1>1, LenProperties, EmptySeq
  <1>3. Head(R) = R[1] /\ 1 \in DOMAIN R
    BY <1>2
  <1>4. \A i \in DOMAIN Tail(R) : i + 1 \in DOMAIN R /\ Tail(R)[i] = R[i + 1]
    BY <1>1, <1>2
  <1> QED
    BY <1>1, <1>3, <1>4 DEF AllRespect

LEMMA DoneOK ==
  ASSUME Inv, rb.running, rb.todo # <<>>
  PROVE  /\ RollbackOK(Done1) /\ Done1.dns = rb.dns
         /\ Entry1 \in Entries /\ Respects(Entry1, history.approved)
  <1>1. RollbackOK(rb)
    BY RollbackTypes DEF Inv, Respected, RollbackOK
  <1>2. /\ Entry1 \in Entries /\ Tail(rb.todo) \in Seq(Entries)
        /\ Respects(Entry1, history.approved) /\ AllRespect(Tail(rb.todo), history.approved)
    BY <1>1, FirstEntry DEF RollbackOK, Rollbacks, Entry1
  <1>3. /\ Done1 \in Rollbacks /\ Done1.todo = Tail(rb.todo) /\ Done1.dns = rb.dns
        /\ Done1.running = rb.running /\ Done1.result = rb.result
    BY <1>1, <1>2 DEF Done1, RollbackOK, Rollbacks
  <1> QED
    BY <1>1, <1>2, <1>3 DEF RollbackOK

LEMMA RollbackMove ==
  ASSUME Inv, rb.running, RollbackOnly, cloud' \in Clouds, Kept(cloud', history.approved),
         troubles' \in 0..MaxTroubles, RollbackOK(rb')
  PROVE  Inv'
  <1>1. ap.phase = "idle" /\ rollbacks \in 0..MaxRollbacks
    BY RollbackTypes DEF Inv
  <1>2. UNCHANGED <<app, vault, receipt, gates, room, ap, applies, outcome, history, rollbacks>>
    BY DEF RollbackOnly
  <1> QED
    BY <1>1, <1>2, RollbackStep

LEMMA UndoInv ==
  ASSUME Inv, rb.running, NEW provider, NEW possible, NEW after, NEW undone,
         possible => after \in Clouds /\ Kept(after, history.approved),
         RollbackOK(undone), Undo(provider, possible, after, undone)
  PROVE  Inv'
  <1>1. /\ cloud \in Clouds /\ Kept(cloud, history.approved) /\ troubles \in 0..MaxTroubles
    BY TypeParts DEF Inv, Respected
  <1>2. RollbackOnly
    BY DEF Undo
  <1>3. CASE possible /\ cloud' = after /\ rb' = undone /\ UNCHANGED troubles
    BY <1>1, <1>2, <1>3, RollbackMove
  <1>4. CASE Aborts /\ UNCHANGED <<cloud, troubles>>
    BY <1>1, <1>2, <1>4, StoppedOK, RollbackMove DEF Aborts, Stopped
  <1>5. CASE Trouble("refused") /\ Aborts /\ UNCHANGED cloud
    BY <1>1, <1>2, <1>5, StoppedOK, TroubleCounts, RollbackMove DEF Aborts, Stopped
  <1> QED
    BY <1>3, <1>4, <1>5 DEF Undo

LEMMA NothingInv ==
  ASSUME Inv, rb.running, rb.todo # <<>>, Nothing
  PROVE  Inv'
  BY DoneOK, TypeParts, RollbackMove DEF Nothing, Inv, Respected


LEMMA KeyDeletionInv ==
  ASSUME Inv, _rollback_github_deploy_key
  PROVE  Inv'
  <1>1. rb.running /\ rb.todo # <<>>
    BY DEF _rollback_github_deploy_key, Doing
  <1>2. /\ cloud \in Clouds /\ Kept(cloud, history.approved) /\ RollbackOK(Done1)
        /\ Entry1 \in Entries
    BY <1>1, DoneOK, TypeParts DEF Inv, Respected
  <1>3. Entry1.id \in Nat
    BY <1>2 DEF Entries
  <1> DEFINE after == delete_deploy_key(Entry1.id)
  <1>4. after \in Clouds
    BY <1>2, <1>3, CloudOps
  <1>5. after.project = cloud.project /\ after.zone = cloud.zone
    BY <1>2 DEF delete_deploy_key, Clouds
  <1>6. Kept(after, history.approved)
    BY <1>2, <1>5 DEF Kept
  <1>7. CASE Nothing
    BY <1>1, <1>7, NothingInv
  <1>8. CASE Undo("github", Entry1.id \in cloud.keys, after, Done1)
    BY <1>1, <1>2, <1>4, <1>6, <1>8, UndoInv
  <1> QED
    BY <1>7, <1>8 DEF _rollback_github_deploy_key

LEMMA SecretDeletionInv ==
  ASSUME Inv, _rollback_github_secret
  PROVE  Inv'
  <1>1. rb.running /\ rb.todo # <<>>
    BY DEF _rollback_github_secret, Doing
  <1>2. cloud \in Clouds /\ Kept(cloud, history.approved) /\ RollbackOK(Done1)
    BY <1>1, DoneOK, TypeParts DEF Inv, Respected
  <1>3. delete_repo_secret \in Clouds
    BY <1>2, CloudOps
  <1>4. delete_repo_secret.project = cloud.project /\ delete_repo_secret.zone = cloud.zone
    BY <1>2 DEF delete_repo_secret, Clouds
  <1>5. Kept(delete_repo_secret, history.approved)
    BY <1>2, <1>4 DEF Kept
  <1>6. Undo("github", Entry1.named /\ cloud.secret, delete_repo_secret, Done1)
    BY DEF _rollback_github_secret
  <1> QED
    BY <1>1, <1>2, <1>3, <1>5, <1>6, UndoInv

LEMMA OneDeleted ==
  ASSUME cloud \in Clouds, DeletesOne
  PROVE  /\ cloud' \in Clouds
         /\ cloud'.keys = cloud.keys /\ cloud'.next = cloud.next
         /\ cloud'.secret = cloud.secret /\ cloud'.project = cloud.project
         /\ cloud'.zone = cloud.zone
  <1>1. PICK left \in {"theirs", "ours"} : cloud' = [cloud EXCEPT !.env = left]
    BY DEF DeletesOne
  <1>2. left \in Variables
    BY DEF Variables, Owners
  <1> QED
    BY <1>1, <1>2 DEF Clouds

LEMMA EnvDeletionInv ==
  ASSUME Inv, _rollback_vercel_env
  PROVE  Inv'
  <1>1. rb.running /\ rb.todo # <<>>
    BY DEF _rollback_vercel_env, Doing
  <1>2. cloud \in Clouds /\ Kept(cloud, history.approved) /\ RollbackOK(Done1)
    BY <1>1, DoneOK, TypeParts DEF Inv, Respected
  <1>3. delete_env_by_key \in Clouds
    BY <1>2, CloudOps
  <1>4. delete_env_by_key.project = cloud.project /\ delete_env_by_key.zone = cloud.zone
    BY <1>2 DEF delete_env_by_key, Clouds
  <1>5. Kept(delete_env_by_key, history.approved)
    BY <1>2, <1>4 DEF Kept
  <1>6. CASE Undo("vercel", cloud.project # "none", delete_env_by_key, Done1)
    BY <1>1, <1>2, <1>3, <1>5, <1>6, UndoInv
  <1>7. CASE DeletesOne
    <2>1. cloud' \in Clouds /\ Kept(cloud', history.approved)
      BY <1>2, <1>7, OneDeleted DEF Kept
    <2>2. troubles' \in 0..MaxTroubles
      BY <1>7, TypeParts, TroubleCounts DEF Inv, DeletesOne
    <2> QED
      BY <1>1, <1>7, <2>1, <2>2, StoppedOK, RollbackMove DEF DeletesOne, Aborts, Stopped
  <1> QED
    BY <1>6, <1>7 DEF _rollback_vercel_env

LEMMA ProjectDeletionInv ==
  ASSUME Inv, _rollback_vercel_project
  PROVE  Inv'
  <1>1. rb.running /\ rb.todo # <<>> /\ Entry1.action = "vercel.project"
    BY DEF _rollback_vercel_project, Doing, Entry1
  <1>2. /\ cloud \in Clouds /\ Kept(cloud, history.approved) /\ RollbackOK(Done1)
        /\ Respects(Entry1, history.approved)
    BY <1>1, DoneOK, TypeParts DEF Inv, Respected
  <1>3. delete_project \in Clouds
    BY <1>2, CloudOps
  <1>4. delete_project.zone = cloud.zone
    BY <1>2 DEF delete_project, Clouds
  <1>5. CASE ~Entry1.created
    <2>1. Nothing
      BY <1>5 DEF _rollback_vercel_project
    <2> QED
      BY <1>1, <2>1, NothingInv
  <1>6. CASE Entry1.created
    <2>1. app.project # "theirs"
      BY <1>1, <1>2, <1>6 DEF Respects
    <2>2. Kept(delete_project, history.approved)
      BY <1>2, <1>4, <2>1 DEF Kept
    <2>3. Undo("vercel", cloud.project # "none", delete_project, Done1)
      BY <1>6 DEF _rollback_vercel_project
    <2> QED
      BY <1>1, <1>2, <1>3, <2>2, <2>3, UndoInv
  <1> QED
    BY <1>5, <1>6

LEMMA CollectInv ==
  ASSUME Inv, CollectDns
  PROVE  Inv'
  <1>1. /\ rb.running /\ rb.todo # <<>> /\ Entry1.action = "dns.propose"
        /\ rb' = [Done1 EXCEPT !.dns = Append(@, Entry1)]
        /\ UNCHANGED <<cloud, troubles>> /\ RollbackOnly
    BY DEF CollectDns, Doing, Entry1
  <1>2. /\ RollbackOK(Done1) /\ Entry1 \in Entries /\ Respects(Entry1, history.approved)
    BY <1>1, DoneOK
  <1> DEFINE dns == Append(Done1.dns, Entry1)
  <1>3. /\ dns \in Seq(Entries) /\ AllRespect(dns, history.approved)
        /\ \A i \in DOMAIN dns : dns[i].action = "dns.propose"
    <2>1. Done1.dns \in Seq(Entries) /\ AllRespect(Done1.dns, history.approved)
      BY <1>2 DEF RollbackOK, Rollbacks
    <2>2. dns \in Seq(Entries) /\ AllRespect(dns, history.approved)
      BY <1>2, <2>1, AppendProperties, AppendedEntries
    <2>3. \A i \in DOMAIN Done1.dns : Done1.dns[i].action = "dns.propose"
      BY <1>2 DEF RollbackOK
    <2>4. \A i \in DOMAIN dns : (i \in DOMAIN Done1.dns /\ dns[i] = Done1.dns[i])
                                \/ dns[i] = Entry1
      BY <1>2, <2>1, <2>2, AppendProperties, LenProperties
    <2> QED
      BY <1>1, <2>2, <2>3, <2>4
  <1> HIDE DEF dns
  <1>4. /\ rb' \in Rollbacks /\ rb'.todo = Done1.todo /\ rb'.dns = dns
        /\ rb'.running = Done1.running /\ rb'.result = Done1.result
    <2>1. rb' = [Done1 EXCEPT !.dns = dns]
      BY <1>1 DEF dns
    <2> QED
      BY <1>2, <1>3, <2>1 DEF RollbackOK, Rollbacks
  <1>5. RollbackOK(rb')
    BY <1>2, <1>3, <1>4 DEF RollbackOK
  <1> QED
    BY <1>1, <1>5, TypeParts, RollbackMove DEF Inv, Respected

LEMMA DnsRollbackInv ==
  ASSUME Inv, _rollback_cloudflare_dns
  PROVE  Inv'
  <1> DEFINE found == Head(rb.dns).existing
             undone == [rb EXCEPT !.dns = Tail(@)]
  <1>1. rb.running /\ rb.dns # <<>>
    BY DEF _rollback_cloudflare_dns
  <1>2. cloud \in Clouds /\ Kept(cloud, history.approved) /\ RollbackOK(rb)
    BY TypeParts, RollbackTypes DEF Inv, Respected, RollbackOK
  <1>3. rb.dns \in Seq(Entries)
    BY <1>2 DEF RollbackOK, Rollbacks
  <1>4. /\ Head(rb.dns) \in Entries /\ Tail(rb.dns) \in Seq(Entries)
        /\ Head(rb.dns).action = "dns.propose" /\ Respects(Head(rb.dns), history.approved)
        /\ AllRespect(Tail(rb.dns), history.approved)
        /\ \A i \in DOMAIN Tail(rb.dns) : Tail(rb.dns)[i].action = "dns.propose"
    BY <1>1, <1>2, <1>3, FirstEntry DEF RollbackOK
  <1>5. RollbackOK(undone)
    <2>1. /\ undone \in Rollbacks /\ undone.dns = Tail(rb.dns) /\ undone.todo = rb.todo
          /\ undone.running = rb.running /\ undone.result = rb.result
      BY <1>2, <1>4 DEF RollbackOK, Rollbacks
    <2> HIDE DEF undone
    <2> QED
      BY <1>2, <1>4, <2>1 DEF RollbackOK
  <1>6. found \in DnsRecords \cup {NoRecord}
    BY <1>4 DEF Entries
  <1>7. app.zone # NoRecord =>
          found # NoRecord /\ (found.content = "theirs" \/ history.approved)
    BY <1>4 DEF Respects
  <1>8. Undo("cloudflare", found # NoRecord => HasRecord(found.id), rollback_proposal(found),
             undone)
    BY DEF _rollback_cloudflare_dns
  <1> HIDE DEF found, undone
  <1>9. CASE found = NoRecord
    <2>1. rollback_proposal(found) \in Clouds
      BY <1>2, <1>9, ZoneOps
    <2>2. rollback_proposal(found).project = cloud.project
      BY <1>2, <1>9 DEF rollback_proposal, Clouds
    <2>3. Kept(rollback_proposal(found), history.approved)
      BY <1>2, <1>7, <1>9, <2>2 DEF Kept
    <2> QED
      BY <1>1, <1>5, <1>8, <2>1, <2>3, UndoInv
  <1>10. CASE found # NoRecord
    <2>1. ASSUME HasRecord(found.id)
          PROVE  /\ rollback_proposal(found) \in Clouds
                 /\ Kept(rollback_proposal(found), history.approved)
      <3>1. cloud.zone # NoRecord /\ cloud.zone \in DnsRecords
        BY <1>2, <2>1 DEF HasRecord, Clouds
      <3>2. found \in DnsRecords
        BY <1>6, <1>10
      <3>3. rollback_proposal(found) \in Clouds
        BY <1>2, <3>1, <3>2, ZoneOps
      <3>4. rollback_proposal(found) = [cloud EXCEPT !.zone.content = found.content]
        BY <1>10 DEF rollback_proposal
      <3>5. /\ rollback_proposal(found).project = cloud.project
            /\ rollback_proposal(found).zone = [cloud.zone EXCEPT !.content = found.content]
        BY <1>2, <3>4 DEF Clouds
      <3>6. /\ [cloud.zone EXCEPT !.content = found.content] \in DnsRecords
            /\ [cloud.zone EXCEPT !.content = found.content].id = cloud.zone.id
            /\ [cloud.zone EXCEPT !.content = found.content].content = found.content
        BY <3>1, <3>2 DEF DnsRecords
      <3>7. rollback_proposal(found).zone # NoRecord
        BY <3>5, <3>6, NoRecordAssumption
      <3> QED
        BY <1>2, <1>7, <3>3, <3>5, <3>6, <3>7 DEF Kept
    <2> QED
      BY <1>1, <1>5, <1>8, <1>10, <2>1, UndoInv
  <1> QED
    BY <1>9, <1>10

LEMMA ReturnsInv ==
  ASSUME Inv, RollbackReturns
  PROVE  Inv'
  <1>1. rb.running /\ rb' = Stopped("done") /\ UNCHANGED <<cloud, troubles>> /\ RollbackOnly
    BY DEF RollbackReturns, Stopped
  <1>2. RollbackOK(rb')
    BY <1>1, StoppedOK
  <1> QED
    BY <1>1, <1>2, TypeParts, RollbackMove DEF Inv, Respected

-----------------------------------------------------------------------------

LEMMA InvInit == Init => Inv
  <1> SUFFICES ASSUME Init
               PROVE  Inv
    OBVIOUS
  <1>1. /\ app \in Apps /\ cloud = Accounts(app.project, app.zone # NoRecord)
        /\ receipt = <<>> /\ gates = [order |-> <<>>, waiting |-> {}] /\ room = NoRecord
        /\ ap = NoApply /\ applies = 0 /\ outcome = "none" /\ troubles = 0
        /\ history = [approved |-> FALSE, tainted |-> FALSE, overlapped |-> FALSE]
        /\ rb = NoRollback /\ rollbacks = 0
    BY DEF Init, InitSetup, InitRollback
  <1>2. PICK tokens \in FirstTokens : vault = [tokens |-> tokens, key |-> FALSE]
    BY DEF Init
  <1>3. vault \in Vaults
    BY <1>2, TokensAssumption DEF Vaults
  <1>4. <<>> \in Seq(Entries) /\ <<>> \in Seq(Range(Ordered))
    BY EmptySeq
  <1>5. /\ app.project \in {"none", "theirs"}
        /\ app.zone = NoRecord \/ app.zone = [id |-> 1, content |-> "theirs"]
    BY <1>1, AppType
  <1>6. [id |-> 1, content |-> "theirs"] \in DnsRecords
    BY DEF DnsRecords
  <1>7. /\ cloud \in Clouds /\ cloud.project = app.project
        /\ app.zone # NoRecord => cloud.zone = [id |-> 1, content |-> "theirs"]
    BY <1>1, <1>5, <1>6 DEF Accounts, Clouds, Owners, Variables
  <1>8. Kept(cloud, history.approved)
    BY <1>5, <1>6, <1>7, NoRecordAssumption DEF Kept
  <1>9. GatesOK(gates)
    BY <1>1, <1>4 DEF GatesOK
  <1>10. Underway(ap) /\ ap.phase = "idle" /\ ap.receipt = <<>> /\ ~ap.approve
    BY <1>1, NoApplyWorks DEF Underway, NoApply
  <1>11. history \in Histories
    BY <1>1 DEF Histories
  <1>12. rb \in Rollbacks /\ ~rb.running /\ rb.todo = <<>> /\ rb.dns = <<>>
    BY <1>1, <1>4 DEF NoRollback, Rollbacks
  <1>13. TypeOKRollback
    <2>1. troubles \in 0..MaxTroubles /\ rollbacks \in 0..MaxRollbacks
      BY <1>1, BoundsAssumption
    <2> QED
      BY <1>1, <1>3, <1>4, <1>7, <1>9, <1>10, <1>11, <1>12, <2>1
      DEF TypeOKRollback, TypeOKSetup, TypeOKCloud, Clouds, GatesOK, Underway, Histories,
          Rollbacks
  <1>14. Proposed /\ KeyHeld
    BY <1>1, <1>10, NoEntries DEF Proposed, AtApply, KeyHeld
  <1>15. Respected
    <2>1. \A i \in DOMAIN rb.dns : rb.dns[i].action = "dns.propose"
      BY <1>12
    <2>2. /\ AllRespect(ap.receipt, history.approved) /\ AllRespect(receipt, history.approved)
          /\ AllRespect(rb.todo, history.approved) /\ AllRespect(rb.dns, history.approved)
      BY <1>1, <1>10, <1>12, NoEntries
    <2> QED
      BY <1>8, <1>10, <2>1, <2>2 DEF Respected
  <1> QED
    BY <1>13, <1>14, <1>15 DEF Inv

LEMMA SetupSteps ==
  ASSUME Inv, Setup(ApplySteps) \/ Setup(Crash) \/ Setup(_await_dns_approval),
         ~SaveVault, ~WriteReceipt
  PROVE  ap.phase # "idle" /\ ApplyStep
  <1>1. /\ UNCHANGED <<rb, rollbacks>>
        /\ ApplySteps \/ Crash \/ _await_dns_approval
    BY DEF Setup
  <1>2. ap.phase # "idle"
    BY <1>1
    DEF ApplySteps, Crash, _await_dns_approval, choose_provider_strategy,
        _provider_contract_health_gate, _recipe_may_touch_provider_api, Recipe,
        _github_deploy_key, _github_repo_secrets, _vercel_project,
        _vercel_github_connection_gate, _vercel_env, ReplacementStops,
        _vercel_git_deployment, propose, _cloudflare_dns, ReadBackRefused, Skips, At, In,
        _verify_provider_packs, _provider_waiting_on_upstream_gate_result,
        verify_provider_pack, CheckFails, _rerun_provider_verification
  <1> QED
    BY <1>1, <1>2, InvRunning, ApplyStepWorks

LEMMA InvNext ==
  ASSUME Inv, [Next]_rollbackVars
  PROVE  Inv'
  <1>1. CASE Setup(Start)
    BY <1>1, StartInv
  <1>2. CASE Setup(SaveVault) \/ Setup(WriteReceipt)
    BY <1>2, SaveVaultInv, WriteReceiptInv
  <1>3. CASE /\ Setup(ApplySteps) \/ Setup(Crash) \/ Setup(_await_dns_approval)
             /\ ~SaveVault /\ ~WriteReceipt
    BY <1>3, SetupSteps, ApplyStepInv
  <1>4. CASE Setup(AtTheRoom)
    BY <1>4, UserInv
  <1>5. CASE execute_native_rollback
    BY <1>5, ExecuteInv
  <1>6. CASE RollbackSteps
    BY <1>6, CollectInv, KeyDeletionInv, SecretDeletionInv, EnvDeletionInv,
       ProjectDeletionInv, DnsRollbackInv, ReturnsInv DEF RollbackSteps
  <1>7. CASE UNCHANGED rollbackVars
    BY <1>7 DEF rollbackVars, setupVars, Inv, TypeOKRollback, TypeOKSetup, TypeOKCloud, Proposed,
                AtApply, KeyHeld, Respected, Kept, AllRespect, Respects, HasKey, Ranks
  <1> QED
    BY <1>1, <1>2, <1>3, <1>4, <1>5, <1>6, <1>7 DEF Next, UserSteps, AtTheRoom, Setup, ApplySteps

(* What the theorems below rest on. *)
THEOREM Invariance == Spec => []Inv
  <1> QED
    BY InvInit, InvNext, PTL DEF Spec

(* Every variable has its type; an apply that is under way stands at a recipe  *)
(* of one of the app's providers, and no rollback runs beside it.              *)
THEOREM TypeCorrect == Spec => []TypeOKRollback
  <1>1. Inv => TypeOKRollback
    BY DEF Inv
  <1> QED
    BY <1>1, Invariance, PTL

(* The receipt names a deploy key only if the vault has its private half       *)
(* (_write_apply_artifacts saves the vault before the receipt), unless a       *)
(* capture was open while an apply saved the vault.                            *)
THEOREM KeysBacked == Spec => []KeyBacked
  <1>1. Inv => KeyBacked
    BY DEF Inv, KeyHeld, HasKey, KeyBacked
  <1> QED
    BY <1>1, Invariance, PTL

(* The user's own project and DNS record survive any applies and rollbacks,    *)
(* and the record's content changes only after the user approved DNS.          *)
THEOREM TheirsSurvive == Spec => []TheirsKept
  <1>1. Inv => TheirsKept
    BY DEF Inv, Respected, Kept, TheirsKept, HasRecord
  <1> QED
    BY <1>1, Invariance, PTL

-----------------------------------------------------------------------------
(* Downstream of a gate.  An apply that found no gate waiting pauses at one    *)
(* provider at most before verification takes the first waiting gate as the    *)
(* active one, so that gate is the apply's own; and a fallback starts only for *)
(* a provider that is not after it.                                            *)

OwnGate ==
  /\ ap.phase = "setup" => gates.waiting = {}
  /\ ap.phase = "survey" => gates.waiting \subseteq {ap.paused}
  /\ ap.phase \in {"verify", "fallback", "reverify"} /\ ap.active # NoGate => ap.active = ap.paused
  /\ ap.phase = "fallback" /\ ap.active # NoGate => ~(Rank(Provider) > Rank(ap.active))

GatePlace ==
  /\ ap.phase \in {"idle", "setup"} => ap.paused = NoGate
  /\ ~ap.stale => OwnGate

SameGate(b) == b.active = ap.active /\ b.paused = ap.paused /\ b.stale = ap.stale

(* An apply goes on through its recipes, or leaves them. *)
GoesOn(b) ==
  /\ SameGate(b)
  /\ \/ b.phase = ap.phase /\ (ap.phase = "fallback" => b.at = ap.at)
     \/ ap.phase = "setup" /\ b.phase = "survey"
     \/ ap.phase = "fallback" /\ b.phase = "reverify"
     \/ b.phase = "save_vault"

(* Only the provider the apply stands at is changed. *)
OnlyHere(c) == \A p \in Range(Ordered) : p # Provider => Part(c, p) = Part(cloud, p)

(* No second variable comes beside the user's. *)
NoSecond(c) == c.env = "both" => cloud.env = "both"

RecipeStep ==
  /\ ap.phase \in {"setup", "fallback"} /\ UNCHANGED gates
  /\ GoesOn(ap') \/ ap' = NoApply
  /\ OnlyHere(cloud')
  /\ NoSecond(cloud') \/ ap'.phase \in {"idle", "save_vault"}

LEMMA RecipeStepPlace ==
  ASSUME GatePlace, RecipeStep
  PROVE  GatePlace'
  <1>1. CASE ap' = NoApply
    BY <1>1 DEF NoApply, GatePlace, OwnGate
  <1>2. CASE GoesOn(ap')
    BY <1>2 DEF RecipeStep, GoesOn, SameGate, GatePlace, OwnGate, Provider
  <1> QED
    BY <1>1, <1>2 DEF RecipeStep

LEMMA AdvanceGoesOn ==
  ASSUME ap.phase \in {"setup", "fallback"},
         NEW a \in Applies, a.phase = ap.phase, a.at = ap.at, SameGate(a)
  PROVE  GoesOn(Advance(a))
  <1>1. CASE a.step < Len(Recipes[Provider])
    <2>1. Advance(a) = [a EXCEPT !.step = a.step + 1]
      BY <1>1 DEF Advance
    <2> QED
      BY <2>1 DEF GoesOn, SameGate, Applies
  <1>2. CASE ~(a.step < Len(Recipes[Provider])) /\ a.phase = "fallback"
    <2>1. Advance(a) = [a EXCEPT !.phase = "reverify", !.step = 1]
      BY <1>2 DEF Advance
    <2> QED
      BY <1>2, <2>1 DEF GoesOn, SameGate, Applies
  <1>3. CASE ~(a.step < Len(Recipes[Provider])) /\ a.phase # "fallback" /\ After(a.at) # {}
    <2>1. Advance(a) = [a EXCEPT !.at = Min(After(a.at)), !.step = 1]
      BY <1>3 DEF Advance
    <2> QED
      BY <1>3, <2>1 DEF GoesOn, SameGate, Applies
  <1>4. CASE ~(a.step < Len(Recipes[Provider])) /\ a.phase # "fallback" /\ After(a.at) = {}
    <2>1. Advance(a) = [a EXCEPT !.phase = "survey", !.step = 1]
      BY <1>4 DEF Advance
    <2> QED
      BY <1>4, <2>1 DEF GoesOn, SameGate, Applies
  <1> QED
    BY <1>1, <1>2, <1>3, <1>4

LEMMA RaisedGoesOn ==
  ASSUME NEW a \in Applies, SameGate(a)
  PROVE  GoesOn(Raised(a))
  BY DEF Raised, GoesOn, SameGate, Applies

LEMMA RecordedGate ==
  ASSUME NEW a \in Applies, NEW entry, redact(entry) \in Entries, SameGate(a)
  PROVE  LET b == Recorded(a, entry)
         IN  b \in Applies /\ b.phase = a.phase /\ b.at = a.at /\ SameGate(b)
  <1>1. SameGate(Recorded(a, entry))
    BY DEF Recorded, SameGate, Applies
  <1> QED
    BY <1>1, RecordedWorks

LEMMA CallStep ==
  ASSUME Running, ap.phase \in {"setup", "fallback"},
         NEW after, OnlyHere(after), NoSecond(after),
         NEW a \in Applies, SameGate(a),
         NEW b \in Applies, b.phase = ap.phase, b.at = ap.at, SameGate(b),
         Call(after, a, Advance(b))
  PROVE  RecipeStep
  <1>1. GoesOn(Advance(b)) /\ GoesOn(Raised(a))
    BY AdvanceGoesOn, RaisedGoesOn
  <1>2. OnlyHere(cloud) /\ NoSecond(cloud)
    BY DEF OnlyHere, NoSecond
  <1>3. NoApply.phase = "idle"
    BY DEF NoApply
  <1> QED
    BY <1>1, <1>2, <1>3 DEF Call, Dies, RecipeStep, NoSecond

(* A call of the provider whose turn it is, with and without an entry. *)
LEMMA PlainCallStep ==
  ASSUME Running, ap.phase \in {"setup", "fallback"},
         NEW after, OnlyHere(after), NoSecond(after), Call(after, ap, Advance(ap))
  PROVE  RecipeStep
  <1>1. ap \in Applies /\ SameGate(ap)
    BY TypeParts DEF Running, Underway, SameGate
  <1> QED
    BY <1>1, CallStep

LEMMA EntryCallStep ==
  ASSUME Running, ap.phase \in {"setup", "fallback"},
         NEW after, OnlyHere(after), NoSecond(after),
         NEW a \in Applies, a.phase = ap.phase, a.at = ap.at, SameGate(a),
         NEW entry, redact(entry) \in Entries,
         Call(after, a, Advance(Recorded(a, entry)))
  PROVE  RecipeStep
  BY RecordedGate, CallStep

LEMMA HereOps ==
  ASSUME cloud \in Clouds
  PROVE  /\ Provider = "github" => OnlyHere(add_deploy_key) /\ OnlyHere(put_repo_secret)
         /\ Provider = "vercel" =>
              /\ OnlyHere(ensure_project) /\ OnlyHere(put_env)
              /\ \A c \in put_env_left : OnlyHere(c)
         /\ Provider = "cloudflare" => \A found : OnlyHere(apply(found))
         /\ NoSecond(add_deploy_key) /\ NoSecond(put_repo_secret) /\ NoSecond(ensure_project)
         /\ NoSecond(put_env) /\ \A found : NoSecond(apply(found))
  <1>1. Provider = "github" => OnlyHere(add_deploy_key) /\ OnlyHere(put_repo_secret)
    BY OrderedNames DEF OnlyHere, Part, add_deploy_key, put_repo_secret, Clouds
  <1>2. Provider = "vercel" =>
          /\ OnlyHere(ensure_project) /\ OnlyHere(put_env)
          /\ \A c \in put_env_left : OnlyHere(c)
    <2>1. Provider = "vercel" => OnlyHere(ensure_project) /\ OnlyHere(put_env)
      BY OrderedNames DEF OnlyHere, Part, ensure_project, put_env, Clouds
    <2>2. Provider = "vercel" => \A c \in put_env_left : OnlyHere(c)
      BY OrderedNames, LeftFields DEF OnlyHere, Part
    <2> QED
      BY <2>1, <2>2
  <1>3. Provider = "cloudflare" => \A found : OnlyHere(apply(found))
    BY OrderedNames DEF OnlyHere, Part, apply, Clouds
  <1>4. NoSecond(add_deploy_key) /\ NoSecond(put_repo_secret) /\ NoSecond(ensure_project)
    BY DEF NoSecond, add_deploy_key, put_repo_secret, ensure_project, Clouds
  <1>5. NoSecond(put_env) /\ \A found : NoSecond(apply(found))
    BY DEF NoSecond, put_env, apply, Clouds
  <1> QED
    BY <1>1, <1>2, <1>3, <1>4, <1>5

LEMMA RecipeSteps ==
  ASSUME Running, Recipe, ~_vercel_github_connection_gate
  PROVE  RecipeStep
  <1>1. /\ ap \in Applies /\ cloud \in Clouds /\ SameGate(ap)
    BY TypeParts DEF Running, Underway, SameGate
  <1>2. OnlyHere(cloud) /\ NoSecond(cloud)
    BY DEF OnlyHere, NoSecond
  <1>3. \A action \in {"github.deploy_key", "github.secret", "vercel.project", "vercel.env",
                       "dns.propose"} : redact(Entry(action)) \in Entries
    BY PlainEntry
  <1>4. ASSUME NEW step, Skips(step)
        PROVE  RecipeStep
    <2>1. ap.phase \in {"setup", "fallback"} /\ Call(cloud, ap, Advance(ap))
      BY <1>4, WhereAt DEF Skips, Call
    <2> QED
      BY <1>2, <2>1, PlainCallStep
  <1>5. CASE _github_deploy_key
    <2> DEFINE key == Entry("github.deploy_key")
               saving == [ap EXCEPT !.mem.key = TRUE]
               made == [key EXCEPT !.id = cloud.next]
    <2>1. Provider = "github" /\ ap.phase \in {"setup", "fallback"}
      BY <1>5, WhereAt DEF _github_deploy_key
    <2>2. \/ Call(cloud, ap, Advance(Recorded(ap, key)))
          \/ Call(add_deploy_key, saving, Advance(Recorded(saving, made)))
      BY <1>5 DEF _github_deploy_key, Call
    <2>3. redact(key) \in Entries /\ redact(made) \in Entries
      <3>1. cloud.next \in Nat
        BY <1>1 DEF Clouds
      <3> QED
        BY <1>3, <3>1 DEF redact, Entry, Entries
    <2>4. /\ saving \in Applies /\ saving.phase = ap.phase /\ saving.at = ap.at
          /\ SameGate(saving)
      <3>1. SameGate(saving)
        BY <1>1 DEF SameGate, Applies
      <3> QED
        BY <1>1, <3>1, SavingWorks
    <2>5. OnlyHere(add_deploy_key) /\ NoSecond(add_deploy_key)
      BY <1>1, <2>1, HereOps
    <2> HIDE DEF key, saving, made
    <2> QED
      BY <1>1, <1>2, <2>1, <2>2, <2>3, <2>4, <2>5, EntryCallStep
  <1>6. CASE _github_repo_secrets
    <2>1. Provider = "github" /\ ap.phase \in {"setup", "fallback"}
      BY <1>6, WhereAt DEF _github_repo_secrets, Skips
    <2>2. OnlyHere(put_repo_secret) /\ NoSecond(put_repo_secret)
      BY <1>1, <2>1, HereOps
    <2> QED
      BY <1>1, <1>3, <1>4, <1>6, <2>1, <2>2, EntryCallStep DEF _github_repo_secrets
  <1>7. CASE _vercel_project
    <2> DEFINE found == [Entry("vercel.project") EXCEPT !.created = cloud.project = "none"]
    <2>1. Provider = "vercel" /\ ap.phase \in {"setup", "fallback"}
      BY <1>7, WhereAt DEF _vercel_project
    <2>2. redact(found) \in Entries
      BY DEF redact, Entry, Entries
    <2>3. OnlyHere(ensure_project) /\ NoSecond(ensure_project)
      BY <1>1, <2>1, HereOps
    <2>4. Call(ensure_project, ap, Advance(Recorded(ap, found)))
      BY <1>7 DEF _vercel_project
    <2> HIDE DEF found
    <2> QED
      BY <1>1, <2>1, <2>2, <2>3, <2>4, EntryCallStep
  <1>8. CASE _vercel_env \/ ReplacementStops \/ _vercel_git_deployment
    <2>1. Provider = "vercel" /\ ap.phase \in {"setup", "fallback"}
      BY <1>8, WhereAt DEF _vercel_env, ReplacementStops, _vercel_git_deployment, Skips
    <2>2. /\ OnlyHere(put_env) /\ NoSecond(put_env)
          /\ \A c \in put_env_left : OnlyHere(c)
      BY <1>1, <2>1, HereOps
    <2>3. CASE _vercel_env
      BY <1>1, <1>3, <1>4, <2>1, <2>2, <2>3, EntryCallStep DEF _vercel_env
    <2>4. CASE ReplacementStops
      <3>1. GoesOn(Raised(ap)) /\ Raised(ap).phase = "save_vault"
        BY <1>1, RaisedGoesOn DEF Raised, Applies
      <3>2. NoApply.phase = "idle"
        BY DEF NoApply
      <3> QED
        BY <2>1, <2>2, <2>4, <3>1, <3>2 DEF ReplacementStops, RecipeStep, Dies
    <2>5. CASE _vercel_git_deployment
      BY <1>2, <2>1, <2>5, PlainCallStep DEF _vercel_git_deployment
    <2> QED
      BY <1>8, <2>3, <2>4, <2>5
  <1>9. CASE propose
    <2> DEFINE found == [Entry("dns.propose") EXCEPT !.existing = cloud.zone]
    <2>1. ap.phase \in {"setup", "fallback"}
      BY <1>9, WhereAt DEF propose
    <2>2. redact(found) \in Entries
      <3>1. cloud.zone \in DnsRecords \cup {NoRecord}
        BY <1>1 DEF Clouds
      <3> QED
        BY <3>1 DEF redact, Entry, Entries
    <2>3. Call(cloud, ap, Advance(Recorded(ap, found)))
      BY <1>9 DEF propose
    <2> HIDE DEF found
    <2> QED
      BY <1>1, <1>2, <2>1, <2>2, <2>3, EntryCallStep
  <1>10. CASE _cloudflare_dns
    <2>1. Provider = "cloudflare" /\ ap.phase \in {"setup", "fallback"}
      BY <1>10, WhereAt DEF _cloudflare_dns, ReadBackRefused, Skips
    <2>2. /\ OnlyHere(apply(Last(ap.receipt).existing))
          /\ NoSecond(apply(Last(ap.receipt).existing))
      BY <1>1, <2>1, HereOps
    <2>3. CASE ReadBackRefused
      <3>1. GoesOn(Raised(ap))
        BY <1>1, RaisedGoesOn
      <3> QED
        BY <2>1, <2>2, <2>3, <3>1 DEF ReadBackRefused, RecipeStep
    <2> QED
      BY <1>4, <1>10, <2>1, <2>2, <2>3, PlainCallStep DEF _cloudflare_dns
  <1> QED
    BY <1>5, <1>6, <1>7, <1>8, <1>9, <1>10 DEF Recipe

(* A pause in setup is the first, and its gate the apply's own. *)
LEMMA PausePlace ==
  ASSUME Running, ap.phase \in {"setup", "fallback"}, Pauses, ApplyOnly, GatePlace
  PROVE  GatePlace' /\ UNCHANGED cloud
  <1>1. ap \in Applies /\ Provider \in Range(Ordered)
    BY TypeParts, RecipeStart, OrderedNames DEF Running, Underway, Provider
  <1>2. CASE ap.phase = "setup"
    <2>1. ap' = [ap EXCEPT !.phase = "survey", !.step = 1, !.paused = Provider]
      BY <1>2 DEF Pauses
    <2>2. /\ ap'.phase = "survey" /\ ap'.paused = Provider /\ ap'.stale = ap.stale
      BY <1>1, <2>1 DEF Applies
    <2>3. gates'.waiting = gates.waiting \cup {Provider}
      BY <1>2 DEF Pauses, _record_gate_waiting
    <2> QED
      BY <1>2, <2>2, <2>3 DEF GatePlace, OwnGate, Pauses
  <1>3. CASE ap.phase = "fallback"
    <2>1. ap' = [ap EXCEPT !.phase = "reverify", !.step = 1] /\ UNCHANGED gates
      BY <1>3 DEF Pauses
    <2>2. ap'.phase = "reverify" /\ SameGate(ap')
      BY <1>1, <2>1 DEF Applies, SameGate
    <2> QED
      BY <1>3, <2>1, <2>2 DEF GatePlace, OwnGate, SameGate, Pauses
  <1> QED
    BY <1>2, <1>3

LEMMA PlainStepPlace ==
  ASSUME GatePlace, UNCHANGED <<cloud, gates>>, SameGate(ap'),
         ap'.phase \in {ap.phase, "save_receipt"}, ap'.phase = "fallback" => ap'.at = ap.at
  PROVE  GatePlace' /\ UNCHANGED cloud
  BY DEF GatePlace, OwnGate, SameGate, Provider

LEMMA VerificationPlace ==
  ASSUME Running, GatePlace,
         \/ _verify_provider_packs \/ _provider_waiting_on_upstream_gate_result
         \/ verify_provider_pack \/ CheckFails \/ _rerun_provider_verification
  PROVE  GatePlace' /\ UNCHANGED cloud
  <1>1. ap \in Applies /\ GatesOK(gates)
    BY TypeParts DEF Running, Underway
  <1>2. CASE _verify_provider_packs
    <2>1. _pending_provider_gate = NoGate \/ _pending_provider_gate \in gates.waiting
      <3> DEFINE at == {i \in DOMAIN gates.order : gates.order[i] \in gates.waiting}
      <3>1. CASE at = {}
        BY <3>1 DEF _pending_provider_gate
      <3>2. CASE at # {}
        <4>1. at \subseteq Nat
          BY <1>1 DEF GatesOK
        <4>2. Min(at) \in at
          BY <3>2, <4>1, MinIsMember
        <4> QED
          BY <3>2, <4>2 DEF _pending_provider_gate
      <3> QED
        BY <3>1, <3>2
    <2>2. ap' = [ap EXCEPT !.phase = "verify", !.at = Min(Ranks), !.step = 1,
                           !.active = _pending_provider_gate]
      BY <1>2 DEF _verify_provider_packs
    <2>3. /\ ap'.phase = "verify" /\ ap'.active = _pending_provider_gate
          /\ ap'.paused = ap.paused /\ ap'.stale = ap.stale
      BY <1>1, <2>2 DEF Applies
    <2> QED
      BY <1>2, <2>1, <2>3 DEF _verify_provider_packs, In, GatePlace, OwnGate
  <1>3. ASSUME VerifiedNext, ap.phase \in {"verify", "reverify"}, UNCHANGED cloud
        PROVE  GatePlace' /\ UNCHANGED cloud
    <2>1. SameGate(ap') /\ ap'.phase \in {"verify", "save_vault"}
      BY <1>1, <1>3 DEF VerifiedNext, SameGate, Applies
    <2> QED
      BY <1>3, <2>1 DEF GatePlace, OwnGate, SameGate
  <1>4. ASSUME ap' = Raised(ap), UNCHANGED <<cloud, gates>>, ap.phase \in {"verify", "reverify"}
        PROVE  GatePlace' /\ UNCHANGED cloud
    <2>1. SameGate(ap') /\ ap'.phase = "save_vault"
      BY <1>1, <1>4 DEF Raised, SameGate, Applies
    <2> QED
      BY <1>4, <2>1 DEF GatePlace, OwnGate, SameGate
  <1>5. ASSUME _attempt_provider_api_fallback, ap.phase = "verify", ~Deferred
        PROVE  GatePlace' /\ UNCHANGED cloud
    <2>1. CASE Provider \in ap.mem.tokens
      <3>1. ap' = [ap EXCEPT !.phase = "fallback", !.step = 1]
        BY <1>5, <2>1 DEF _attempt_provider_api_fallback
      <3>2. SameGate(ap') /\ ap'.phase = "fallback" /\ ap'.at = ap.at
        BY <1>1, <3>1 DEF SameGate, Applies
      <3> QED
        BY <1>5, <3>2
        DEF GatePlace, OwnGate, SameGate, Deferred, Provider, _attempt_provider_api_fallback
    <2> QED
      BY <1>4, <1>5, <2>1 DEF _attempt_provider_api_fallback
  <1>6. CASE _provider_waiting_on_upstream_gate_result
    BY <1>3, <1>6 DEF _provider_waiting_on_upstream_gate_result, In
  <1>7. CASE verify_provider_pack \/ CheckFails
    BY <1>3, <1>5, <1>7 DEF verify_provider_pack, CheckFails, Accepts, In
  <1>8. CASE _rerun_provider_verification
    BY <1>3, <1>4, <1>8 DEF _rerun_provider_verification, Accepts, In
  <1> QED
    BY <1>2, <1>6, <1>7, <1>8

Confined ==
  \/ UNCHANGED cloud
  \/ /\ ap.phase \in {"setup", "fallback"} /\ OnlyHere(cloud')
     /\ NoSecond(cloud') \/ ap'.phase \in {"idle", "save_vault"}
  \/ ap.phase = "idle"

LEMMA ApplyPlace ==
  ASSUME Running, GatePlace, ApplySteps \/ Crash \/ _await_dns_approval
  PROVE  GatePlace' /\ Confined
  <1>1. ap \in Applies /\ SameGate(ap)
    BY TypeParts DEF Running, Underway, SameGate
  <1>2. CASE choose_provider_strategy
    <2>1. ap.phase \in {"setup", "fallback"} /\ ApplyOnly
      BY <1>2, WhereAt DEF choose_provider_strategy
    <2>2. CASE Provider \in ap.mem.tokens
      <3>1. ap' = Advance(ap) /\ UNCHANGED <<cloud, gates>>
        BY <1>2, <2>2 DEF choose_provider_strategy
      <3>2. RecipeStep
        BY <1>1, <2>1, <3>1, AdvanceGoesOn DEF RecipeStep, OnlyHere, NoSecond
      <3> QED
        BY <3>1, <3>2, RecipeStepPlace DEF Confined
    <2>3. CASE Provider \notin ap.mem.tokens
      BY <1>2, <2>1, <2>3, PausePlace DEF choose_provider_strategy, Confined
    <2> QED
      BY <2>2, <2>3
  <1>3. CASE _provider_contract_health_gate \/ _vercel_github_connection_gate
    <2>1. ap.phase \in {"setup", "fallback"} /\ Pauses /\ ApplyOnly
      BY <1>3, WhereAt DEF _provider_contract_health_gate, _recipe_may_touch_provider_api,
                           _vercel_github_connection_gate
    <2> QED
      BY <2>1, PausePlace DEF Confined
  <1>4. CASE Recipe /\ ~_vercel_github_connection_gate
    BY <1>4, RecipeSteps, RecipeStepPlace DEF RecipeStep, Confined
  <1>5. CASE \/ _verify_provider_packs \/ _provider_waiting_on_upstream_gate_result
             \/ verify_provider_pack \/ CheckFails \/ _rerun_provider_verification
    BY <1>5, VerificationPlace DEF Confined
  <1>6. CASE SaveVault
    <2>1. ap' = [ap EXCEPT !.phase = "save_receipt"] /\ UNCHANGED <<cloud, gates>>
      BY <1>6 DEF SaveVault
    <2>2. SameGate(ap') /\ ap'.phase = "save_receipt"
      BY <1>1, <2>1 DEF SameGate, Applies
    <2> QED
      BY <2>1, <2>2, PlainStepPlace DEF Confined
  <1>7. CASE WriteReceipt \/ Crash
    <2>1. ap' = NoApply /\ UNCHANGED cloud
      BY <1>7 DEF WriteReceipt, Crash, Dies
    <2> QED
      BY <2>1 DEF NoApply, GatePlace, OwnGate, Confined
  <1>8. CASE _await_dns_approval
    <2>1. ap' = [ap EXCEPT !.approve = TRUE] /\ UNCHANGED <<cloud, gates>>
      BY <1>8 DEF _await_dns_approval
    <2>2. SameGate(ap') /\ ap'.phase = ap.phase /\ ap'.at = ap.at
      BY <1>1, <2>1 DEF SameGate, Applies
    <2> QED
      BY <2>1, <2>2, PlainStepPlace DEF Confined
  <1> QED
    BY <1>2, <1>3, <1>4, <1>5, <1>6, <1>7, <1>8 DEF ApplySteps, Recipe

LEMMA PlaceNext ==
  ASSUME Inv, GatePlace, [Next]_rollbackVars
  PROVE  GatePlace' /\ Confined
  <1>1. CASE Setup(Start)
    <2>1. PICK approve \in BOOLEAN : _apply_loaded_manifest(approve)
      BY <1>1 DEF Setup, Start
    <2>2. UNCHANGED <<cloud, gates>>
      BY <2>1 DEF _apply_loaded_manifest
    <2>3. /\ ap'.phase = "setup" /\ ap'.paused = NoGate
          /\ ap'.stale = (gates.waiting # {})
      BY <2>1 DEF _apply_loaded_manifest, NoApply
    <2> QED
      BY <2>2, <2>3 DEF GatePlace, OwnGate, Confined
  <1>2. CASE Setup(ApplySteps) \/ Setup(Crash) \/ Setup(_await_dns_approval)
    <2>1. ap.phase # "idle"
      BY <1>2
      DEF Setup, ApplySteps, Crash, _await_dns_approval, choose_provider_strategy,
          _provider_contract_health_gate, _recipe_may_touch_provider_api, Recipe,
          _github_deploy_key, _github_repo_secrets, _vercel_project,
          _vercel_github_connection_gate, _vercel_env, ReplacementStops,
          _vercel_git_deployment, propose, _cloudflare_dns, ReadBackRefused, Skips, At, In,
          _verify_provider_packs, _provider_waiting_on_upstream_gate_result,
          verify_provider_pack, CheckFails, _rerun_provider_verification,
          SaveVault, WriteReceipt
    <2> QED
      BY <1>2, <2>1, InvRunning, ApplyPlace DEF Setup
  <1>3. CASE Setup(AtTheRoom)
    <2>1. UNCHANGED <<cloud, ap>> /\ gates'.waiting \subseteq gates.waiting
      <3>1. GatesOK(gates)
        BY TypeParts DEF Inv
      <3> QED
        BY <1>3, <3>1
        DEF Setup, AtTheRoom, _capture_saves, _capture_opens, ClickFinished, Resolved, UserOnly,
            GatesOK
    <2> QED
      BY <2>1 DEF GatePlace, OwnGate, Provider, Confined
  <1>4. CASE execute_native_rollback \/ UNCHANGED rollbackVars
    <2>1. UNCHANGED <<cloud, gates, ap>>
      BY <1>4 DEF execute_native_rollback, rollbackVars, setupVars
    <2> QED
      BY <2>1 DEF GatePlace, OwnGate, Provider, Confined
  <1>5. CASE RollbackSteps
    <2>1. ap.phase = "idle"
      <3>1. rb.running
        BY <1>5
        DEF RollbackSteps, CollectDns, _rollback_github_deploy_key, _rollback_github_secret,
            _rollback_vercel_env, _rollback_vercel_project, _rollback_cloudflare_dns,
            RollbackReturns, Doing
      <3> QED
        BY <3>1, TypeParts DEF Inv
    <2>2. UNCHANGED <<gates, ap>>
      BY <1>5
      DEF RollbackSteps, CollectDns, _rollback_github_deploy_key, _rollback_github_secret,
          _rollback_vercel_env, _rollback_vercel_project, _rollback_cloudflare_dns,
          RollbackReturns, Undo, DeletesOne, Nothing, RollbackOnly
    <2> QED
      BY <2>1, <2>2 DEF GatePlace, OwnGate, Provider, Confined
  <1> QED
    BY <1>1, <1>2, <1>3, <1>4, <1>5 DEF Next, UserSteps, AtTheRoom, Setup

(* While the gate of the provider an apply paused at waits, nothing of a later *)
(* provider changes, not even in a fallback of the verification                *)
(* (_provider_waiting_on_upstream_gate_result, cli.py:4967).                   *)
THEOREM DownstreamSpared == Spec => DownstreamWaits
  <1> DEFINE Spared ==
        \A p \in Range(Ordered) :
          /\ ap.paused # NoGate /\ ap.paused \in gates.waiting
          /\ ap.phase \in {"verify", "fallback", "reverify"} => ap.active # NoGate
          /\ ~ap.stale
          /\ Rank(p) > Rank(ap.paused)
          => Part(cloud', p) = Part(cloud, p)
  <1>1. Init => GatePlace
    BY DEF Init, InitSetup, NoApply, GatePlace, OwnGate
  <1>2. Inv /\ GatePlace /\ [Next]_rollbackVars => GatePlace'
    BY PlaceNext
  <1>3. Inv /\ GatePlace /\ [Next]_rollbackVars => [Spared]_rollbackVars
    <2> SUFFICES ASSUME Inv, GatePlace, Next, NEW p \in Range(Ordered),
                        ap.paused # NoGate,
                        ap.phase \in {"verify", "fallback", "reverify"} => ap.active # NoGate,
                        ~ap.stale, Rank(p) > Rank(ap.paused)
                 PROVE  Part(cloud', p) = Part(cloud, p)
      OBVIOUS
    <2>1. Confined /\ ap.phase \notin {"idle", "setup"}
      BY PlaceNext DEF GatePlace
    <2>2. CASE UNCHANGED cloud
      BY <2>2 DEF Part
    <2>3. CASE ap.phase = "fallback" /\ OnlyHere(cloud')
      <3>1. ~(Rank(Provider) > Rank(ap.paused))
        BY <2>3 DEF GatePlace, OwnGate
      <3>2. p # Provider
        BY <3>1
      <3> QED
        BY <2>3, <3>2 DEF OnlyHere
    <2> QED
      BY <2>1, <2>2, <2>3 DEF Confined
  <1>4. Spec => [][Spared]_rollbackVars
    BY <1>1, <1>2, <1>3, Invariance, PTL DEF Spec
  <1> QED
    BY <1>4 DEF DownstreamWaits

-----------------------------------------------------------------------------
(* What the receipt of the first apply says: it names everything FuseKit left  *)
(* at the providers, and undoing it entry by entry leaves the accounts as they *)
(* were.                                                                       *)

(* The accounts as far as FuseKit is concerned are as before.                  *)
Undone(c) ==
  /\ c.keys = {} /\ ~c.secret
  /\ c.project # "ours" /\ c.env # "ours"
  /\ c.zone = app.zone

(* Whatever is still at the providers is still to be undone by r.              *)
Left(c, r) ==
  /\ \A id \in c.keys :
       \E i \in DOMAIN r.todo : r.todo[i].action = "github.deploy_key" /\ r.todo[i].id = id
  /\ c.secret => Recorded1(r.todo, "github.secret")
  /\ c.project = "ours" =>
       \E i \in DOMAIN r.todo : r.todo[i].action = "vercel.project" /\ r.todo[i].created
  /\ c.env = "ours" => Recorded1(r.todo, "vercel.env")
  /\ c.zone = app.zone \/ r.dns # <<>> \/ Recorded1(r.todo, "dns.propose")

From(s, R) == \A i \in DOMAIN s : \E j \in DOMAIN R : s[i] = R[j]

Onward(c, r, R) ==
  /\ r.running => /\ From(r.todo, R) /\ From(r.dns, R)
                  /\ ProposedOnce(R) => Left(c, r)
  /\ r.result = "done" /\ ProposedOnce(R) => Undone(c)

(* What has been recorded: by the apply that runs, or by the last one.         *)
Trail == IF ap.phase = "idle" THEN receipt ELSE ap.receipt

Before == applies = 0 \/ (applies = 1 /\ ap.phase # "idle")
Fresh  == applies = 1 /\ ~history.tainted

(* No recipe of the first apply runs beside two variables. *)
WholeInv ==
  /\ applies = 0 => cloud.env # "both"
  /\ Fresh => Whole

TracedInv ==
  /\ Before => rb = NoRollback /\ receipt = <<>>
  /\ applies = 0 => ap.phase = "idle" /\ Traced(cloud, <<>>)
  /\ Fresh => Traced(cloud, Trail) /\ Onward(cloud, rb, receipt)

-----------------------------------------------------------------------------
(* Entries. *)

LEMMA HeadOrTail ==
  ASSUME NEW R \in Seq(Entries), R # <<>>
  PROVE  /\ \E i \in DOMAIN R : R[i] = Head(R)
         /\ \A i \in DOMAIN R : R[i] = Head(R) \/ \E j \in DOMAIN Tail(R) : Tail(R)[j] = R[i]
         /\ \A j \in DOMAIN Tail(R) : \E i \in DOMAIN R : Tail(R)[j] = R[i]
  <1>1. /\ Tail(R) \in Seq(Entries)
        /\ Len(Tail(R)) = Len(R) - 1 /\ \A i \in 1..Len(Tail(R)) : Tail(R)[i] = R[i + 1]
    BY HeadTailProperties
  <1>2. DOMAIN R = 1..Len(R) /\ Len(R) \in Nat \ {0} /\ DOMAIN Tail(R) = 1..Len(Tail(R))
    BY <1>1, LenProperties, EmptySeq
  <1>3. Head(R) = R[1] /\ 1 \in DOMAIN R
    BY <1>2
  <1>4. \A j \in DOMAIN Tail(R) : j + 1 \in DOMAIN R /\ Tail(R)[j] = R[j + 1]
    BY <1>1, <1>2
  <1>5. ASSUME NEW i \in DOMAIN R, i # 1
        PROVE  \E j \in DOMAIN Tail(R) : Tail(R)[j] = R[i]
    <2>1. i - 1 \in 1..Len(Tail(R)) /\ (i - 1) + 1 = i
      BY <1>1, <1>2, <1>5
    <2>2. Tail(R)[i - 1] = R[i]
      BY <1>1, <2>1
    <2> QED
      BY <1>2, <2>1, <2>2
  <1> QED
    BY <1>3, <1>4, <1>5

LEMMA FromTail ==
  ASSUME NEW s \in Seq(Entries), s # <<>>, NEW R, From(s, R)
  PROVE  From(Tail(s), R) /\ \E j \in DOMAIN R : R[j] = Head(s)
  BY HeadOrTail DEF From

LEMMA FromAppended ==
  ASSUME NEW s \in Seq(Entries), NEW e \in Entries, NEW R, From(s, R),
         \E j \in DOMAIN R : R[j] = e
  PROVE  From(Append(s, e), R) /\ Append(s, e) # <<>>
  <1> DEFINE t == Append(s, e)
  <1>1. /\ t \in Seq(Entries) /\ Len(t) = Len(s) + 1
        /\ \A i \in 1..Len(s) : t[i] = s[i]
        /\ t[Len(s) + 1] = e
    BY AppendProperties
  <1>2. DOMAIN s = 1..Len(s) /\ DOMAIN t = 1..(Len(s) + 1) /\ Len(s) \in Nat
    BY <1>1, LenProperties
  <1> HIDE DEF t
  <1>3. \A i \in DOMAIN t : t[i] = e \/ (i \in DOMAIN s /\ t[i] = s[i])
    BY <1>1, <1>2
  <1>4. t # <<>>
    BY <1>1, <1>2, EmptySeq
  <1>5. From(t, R)
    BY <1>3 DEF From
  <1> QED
    BY <1>4, <1>5 DEF t

(* One entry is done, and c has nothing any more that it stood for.            *)
LEMMA LeftLess ==
  ASSUME rb.todo \in Seq(Entries), rb.todo # <<>>, Left(cloud, rb), NEW c, NEW r,
         r.todo = Tail(rb.todo),
         rb.dns # <<>> \/ Entry1.action = "dns.propose" => r.dns # <<>>,
         \A id \in c.keys :
           id \in cloud.keys /\ ~(Entry1.action = "github.deploy_key" /\ Entry1.id = id),
         c.secret => cloud.secret /\ Entry1.action # "github.secret",
         c.project = "ours" =>
           cloud.project = "ours" /\ ~(Entry1.action = "vercel.project" /\ Entry1.created),
         c.env = "ours" => cloud.env = "ours" /\ Entry1.action # "vercel.env",
         c.zone = cloud.zone
  PROVE  Left(c, r)
  <1> DEFINE T == r.todo
             D == rb.todo
  <1>0. D \in Seq(Entries) /\ D # <<>> /\ T = Tail(D) /\ Entry1 = Head(D)
    BY DEF Entry1
  <1> HIDE DEF T, D
  <1>1. \A i \in DOMAIN D : D[i] = Entry1 \/ \E j \in DOMAIN T : T[j] = D[i]
    BY <1>0, HeadOrTail
  <1>2. \A action : Recorded1(D, action) => Entry1.action = action \/ Recorded1(T, action)
    BY <1>1 DEF Recorded1
  <1>3. ASSUME NEW id \in c.keys
        PROVE  \E i \in DOMAIN T : T[i].action = "github.deploy_key" /\ T[i].id = id
    <2>1. PICK i \in DOMAIN D : D[i].action = "github.deploy_key" /\ D[i].id = id
      BY <1>3 DEF Left, D
    <2> QED
      BY <1>1, <1>3, <2>1
  <1>4. ASSUME c.project = "ours"
        PROVE  \E i \in DOMAIN T : T[i].action = "vercel.project" /\ T[i].created
    <2>1. PICK i \in DOMAIN D : D[i].action = "vercel.project" /\ D[i].created
      BY <1>4 DEF Left, D
    <2> QED
      BY <1>1, <1>4, <2>1
  <1>5. /\ cloud.secret => Recorded1(D, "github.secret")
        /\ cloud.env = "ours" => Recorded1(D, "vercel.env")
        /\ cloud.zone = app.zone \/ rb.dns # <<>> \/ Recorded1(D, "dns.propose")
    BY DEF Left, D
  <1>6. /\ c.secret => Recorded1(T, "github.secret")
        /\ c.env = "ours" => Recorded1(T, "vercel.env")
        /\ c.zone = app.zone \/ r.dns # <<>> \/ Recorded1(T, "dns.propose")
    BY <1>2, <1>5
  <1> QED
    BY <1>3, <1>4, <1>6 DEF Left, T

(* Nothing is left when there is nothing to do.                                *)
LEMMA LeftNothing ==
  ASSUME NEW c \in Clouds, NEW r, r.todo = <<>>, Left(c, r)
  PROVE  /\ c.keys = {} /\ ~c.secret /\ c.project # "ours" /\ c.env # "ours"
         /\ r.dns = <<>> => Undone(c)
  <1>1. DOMAIN r.todo = {}
    BY EmptySeq
  <1> QED
    BY <1>1 DEF Left, Undone, Recorded1

-----------------------------------------------------------------------------
(* The steps of a rollback. *)

LEMMA Running1 ==
  ASSUME Inv, TracedInv, rb.running
  PROVE  /\ ap.phase = "idle" /\ Trail = receipt /\ ~Before
         /\ cloud \in Clouds /\ receipt \in Seq(Entries)
         /\ rb \in Rollbacks /\ rb.todo \in Seq(Entries) /\ rb.dns \in Seq(Entries)
         /\ rb.result = "none"
         /\ Fresh => /\ Traced(cloud, receipt)
                     /\ From(rb.todo, receipt) /\ From(rb.dns, receipt)
                     /\ ProposedOnce(receipt) => Left(cloud, rb)
  <1>1. ap.phase = "idle" /\ cloud \in Clouds /\ receipt \in Seq(Entries)
    BY TypeParts DEF Inv
  <1>2. rb \in Rollbacks /\ rb.result = "none"
    BY RollbackTypes DEF Inv
  <1>3. rb.todo \in Seq(Entries) /\ rb.dns \in Seq(Entries)
    BY <1>2 DEF Rollbacks
  <1>4. ~Before
    BY DEF TracedInv, NoRollback
  <1>5. Trail = receipt
    BY <1>1 DEF Trail
  <1> QED
    BY <1>1, <1>2, <1>3, <1>4, <1>5 DEF TracedInv, Onward

(* The rollback changes the accounts and its own place, nothing else.          *)
LEMMA RollbackTraced ==
  ASSUME Inv, TracedInv, rb.running, RollbackOnly,
         Fresh => Traced(cloud', receipt) /\ Onward(cloud', rb', receipt)
  PROVE  TracedInv'
  <1>1. UNCHANGED <<app, receipt, ap, applies, history>>
    BY DEF RollbackOnly
  <1>2. ap.phase = "idle" /\ Trail = receipt /\ ~Before
    BY Running1
  <1>3. ~Before' /\ Trail' = receipt /\ (Fresh' => Fresh) /\ applies' # 0
    BY <1>1, <1>2 DEF Before, Trail, Fresh
  <1>4. Fresh => Traced(cloud, Trail)' /\ Onward(cloud, rb, receipt)'
    BY <1>1, <1>3 DEF Traced, Onward, Undone, Left
  <1> QED
    BY <1>3, <1>4 DEF TracedInv

LEMMA UndoTraced ==
  ASSUME Inv, TracedInv, rb.running, NEW provider, NEW possible, NEW after, NEW undone,
         Fresh /\ possible => Traced(after, receipt) /\ Onward(after, undone, receipt),
         Undo(provider, possible, after, undone)
  PROVE  TracedInv'
  <1>1. RollbackOnly
    BY DEF Undo
  <1>2. Fresh => Traced(cloud, receipt)
    BY Running1
  <1>3. CASE possible /\ cloud' = after /\ rb' = undone
    BY <1>1, <1>3, RollbackTraced
  <1>4. CASE Aborts /\ UNCHANGED cloud
    <2>1. ~rb'.running /\ rb'.result = "aborted"
      BY <1>4 DEF Aborts, NoRollback
    <2>2. Onward(cloud', rb', receipt)
      BY <2>1 DEF Onward
    <2> QED
      BY <1>1, <1>2, <1>4, <2>2, RollbackTraced
  <1> QED
    BY <1>3, <1>4 DEF Undo

(* One entry is done.                                                          *)
LEMMA EntryDone ==
  ASSUME Inv, TracedInv, rb.running, rb.todo # <<>>, Fresh,
         Entry1.action # "dns.propose",
         NEW c, c.next = cloud.next,
         \A id \in c.keys :
           id \in cloud.keys /\ ~(Entry1.action = "github.deploy_key" /\ Entry1.id = id),
         c.secret => cloud.secret /\ Entry1.action # "github.secret",
         c.project = "ours" =>
           cloud.project = "ours" /\ ~(Entry1.action = "vercel.project" /\ Entry1.created),
         c.env = "ours" => cloud.env = "ours" /\ Entry1.action # "vercel.env",
         c.zone = cloud.zone
  PROVE  Traced(c, receipt) /\ Onward(c, Done1, receipt)
  <1>1. /\ Traced(cloud, receipt) /\ From(rb.todo, receipt) /\ From(rb.dns, receipt)
        /\ ProposedOnce(receipt) => Left(cloud, rb)
        /\ rb \in Rollbacks /\ rb.todo \in Seq(Entries) /\ rb.result = "none"
    BY Running1
  <1>2. /\ Done1.todo = Tail(rb.todo) /\ Done1.dns = rb.dns /\ Done1.result = "none"
    BY <1>1 DEF Done1, Rollbacks
  <1>3. Traced(c, receipt)
    <2>1. c.next # 0 /\ c.keys \subseteq cloud.keys
      BY <1>1 DEF Traced
    <2> QED
      BY <1>1, <2>1, TracedLess
  <1>4. From(Done1.todo, receipt) /\ From(Done1.dns, receipt)
    BY <1>1, <1>2, FromTail
  <1>5. ProposedOnce(receipt) => Left(c, Done1)
    BY <1>1, <1>2, LeftLess
  <1> QED
    BY <1>2, <1>3, <1>4, <1>5 DEF Onward

LEMMA NothingTraced ==
  ASSUME Inv, TracedInv, rb.running, rb.todo # <<>>, Nothing,
         Fresh => \/ Entry1.action = "github.deploy_key" /\ Entry1.id \notin cloud.keys
                  \/ Entry1.action = "vercel.project" /\ ~Entry1.created
  PROVE  TracedInv'
  <1>1. rb' = Done1 /\ UNCHANGED <<cloud, troubles>> /\ RollbackOnly
    BY DEF Nothing
  <1>2. Fresh => Traced(cloud, receipt) /\ Onward(cloud, Done1, receipt)
    BY EntryDone
  <1> QED
    BY <1>1, <1>2, RollbackTraced

LEMMA KeyDeletionTraced ==
  ASSUME Inv, TracedInv, _rollback_github_deploy_key
  PROVE  TracedInv'
  <1>1. rb.running /\ rb.todo # <<>> /\ Entry1.action = "github.deploy_key"
    BY DEF _rollback_github_deploy_key, Doing, Entry1
  <1>2. cloud \in Clouds /\ (Fresh => 0 \notin cloud.keys)
    BY <1>1, Running1 DEF Traced
  <1>3. CASE Entry1.id = 0
    <2>1. Nothing
      BY <1>3 DEF _rollback_github_deploy_key
    <2> QED
      BY <1>1, <1>2, <1>3, <2>1, NothingTraced
  <1>4. CASE Entry1.id # 0
    <2> DEFINE after == delete_deploy_key(Entry1.id)
    <2>1. Undo("github", Entry1.id \in cloud.keys, after, Done1)
      BY <1>4 DEF _rollback_github_deploy_key
    <2>2. /\ after.keys = cloud.keys \ {Entry1.id} /\ after.next = cloud.next
          /\ after.secret = cloud.secret /\ after.project = cloud.project
          /\ after.env = cloud.env /\ after.zone = cloud.zone
      BY <1>2 DEF delete_deploy_key, Clouds
    <2> HIDE DEF after
    <2>3. Fresh => Traced(after, receipt) /\ Onward(after, Done1, receipt)
      BY <1>1, <2>2, EntryDone
    <2> QED
      BY <1>1, <2>1, <2>3, UndoTraced
  <1> QED
    BY <1>3, <1>4

LEMMA SecretDeletionTraced ==
  ASSUME Inv, TracedInv, _rollback_github_secret
  PROVE  TracedInv'
  <1> DEFINE after == delete_repo_secret
  <1>1. rb.running /\ rb.todo # <<>> /\ Entry1.action = "github.secret"
    BY DEF _rollback_github_secret, Doing, Entry1
  <1>2. cloud \in Clouds
    BY <1>1, Running1
  <1>3. Undo("github", Entry1.named /\ cloud.secret, after, Done1)
    BY DEF _rollback_github_secret
  <1>4. /\ after.keys = cloud.keys /\ after.next = cloud.next /\ ~after.secret
        /\ after.project = cloud.project /\ after.env = cloud.env /\ after.zone = cloud.zone
    BY <1>2 DEF delete_repo_secret, Clouds
  <1> HIDE DEF after
  <1>5. Fresh => Traced(after, receipt) /\ Onward(after, Done1, receipt)
    BY <1>1, <1>4, EntryDone
  <1> QED
    BY <1>1, <1>3, <1>5, UndoTraced

LEMMA EnvDeletionTraced ==
  ASSUME Inv, TracedInv, _rollback_vercel_env
  PROVE  TracedInv'
  <1> DEFINE after == delete_env_by_key
  <1>1. rb.running /\ rb.todo # <<>> /\ Entry1.action = "vercel.env"
    BY DEF _rollback_vercel_env, Doing, Entry1
  <1>2. cloud \in Clouds
    BY <1>1, Running1
  <1>3. Undo("vercel", cloud.project # "none", after, Done1) \/ DeletesOne
    BY DEF _rollback_vercel_env
  <1>4. /\ after.keys = cloud.keys /\ after.next = cloud.next /\ after.secret = cloud.secret
        /\ after.project = cloud.project /\ after.env = "none" /\ after.zone = cloud.zone
    BY <1>2 DEF delete_env_by_key, Clouds
  <1> HIDE DEF after
  <1>5. Fresh => Traced(after, receipt) /\ Onward(after, Done1, receipt)
    BY <1>1, <1>4, EntryDone
  <1>6. CASE Undo("vercel", cloud.project # "none", after, Done1)
    BY <1>1, <1>5, <1>6, UndoTraced
  <1>7. CASE DeletesOne
    <2>1. RollbackOnly /\ ~rb'.running /\ rb'.result = "aborted"
      BY <1>7 DEF DeletesOne, Aborts, NoRollback
    <2>2. ASSUME Fresh
          PROVE  Traced(cloud', receipt)
      <3>1. Traced(cloud, receipt) /\ From(rb.todo, receipt) /\ rb.todo \in Seq(Entries)
        BY <1>1, <2>2, Running1
      <3>2. Recorded1(receipt, "vercel.env")
        BY <1>1, <3>1, FromTail DEF Recorded1, Entry1
      <3> QED
        BY <1>2, <1>7, <3>1, <3>2, OneDeleted DEF Traced
    <2> QED
      BY <1>1, <2>1, <2>2, RollbackTraced DEF Onward
  <1> QED
    BY <1>3, <1>6, <1>7

LEMMA ProjectDeletionTraced ==
  ASSUME Inv, TracedInv, _rollback_vercel_project
  PROVE  TracedInv'
  <1>1. rb.running /\ rb.todo # <<>> /\ Entry1.action = "vercel.project"
    BY DEF _rollback_vercel_project, Doing, Entry1
  <1>2. cloud \in Clouds
    BY <1>1, Running1
  <1>3. CASE ~Entry1.created
    <2>1. Nothing
      BY <1>3 DEF _rollback_vercel_project
    <2> QED
      BY <1>1, <1>3, <2>1, NothingTraced
  <1>4. CASE Entry1.created
    <2> DEFINE after == delete_project
    <2>1. Undo("vercel", cloud.project # "none", after, Done1)
      BY <1>4 DEF _rollback_vercel_project
    <2>2. /\ after.keys = cloud.keys /\ after.next = cloud.next /\ after.secret = cloud.secret
          /\ after.project = "none" /\ after.env = "none" /\ after.zone = cloud.zone
      BY <1>2 DEF delete_project, Clouds
    <2> HIDE DEF after
    <2>3. Fresh => Traced(after, receipt) /\ Onward(after, Done1, receipt)
      BY <1>1, <2>2, EntryDone
    <2> QED
      BY <1>1, <2>1, <2>3, UndoTraced
  <1> QED
    BY <1>3, <1>4

LEMMA CollectTraced ==
  ASSUME Inv, TracedInv, CollectDns
  PROVE  TracedInv'
  <1>1. /\ rb.running /\ rb.todo # <<>> /\ Entry1.action = "dns.propose"
        /\ rb' = [Done1 EXCEPT !.dns = Append(@, Entry1)]
        /\ cloud' = cloud /\ RollbackOnly
    BY DEF CollectDns, Doing, Entry1
  <1>2. /\ rb \in Rollbacks /\ rb.todo \in Seq(Entries) /\ rb.dns \in Seq(Entries)
        /\ rb.result = "none"
        /\ Fresh => /\ Traced(cloud, receipt)
                    /\ From(rb.todo, receipt) /\ From(rb.dns, receipt)
                    /\ ProposedOnce(receipt) => Left(cloud, rb)
    BY <1>1, Running1
  <1>3. rb'.todo = Tail(rb.todo) /\ rb'.dns = Append(rb.dns, Entry1) /\ rb'.result = "none"
    BY <1>1, <1>2 DEF Done1, Rollbacks
  <1>4. Entry1 \in Entries
    BY <1>1, DoneOK
  <1>5. ASSUME Fresh
        PROVE  Onward(cloud, rb', receipt)
    <2>1. From(Tail(rb.todo), receipt) /\ \E j \in DOMAIN receipt : receipt[j] = Entry1
      BY <1>1, <1>2, <1>5, FromTail DEF Entry1
    <2>2. From(rb'.dns, receipt) /\ rb'.dns # <<>>
      BY <1>2, <1>3, <1>4, <1>5, <2>1, FromAppended
    <2>3. ProposedOnce(receipt) => Left(cloud, rb')
      BY <1>1, <1>2, <1>3, <1>5, <2>2, LeftLess
    <2> QED
      BY <1>3, <2>1, <2>2, <2>3 DEF Onward
  <1> QED
    BY <1>1, <1>2, <1>5, RollbackTraced

(* The only proposal of the receipt found the record as it was before.         *)
LEMMA FoundBefore ==
  ASSUME Inv, TracedInv, rb.running, rb.dns # <<>>, Fresh
  PROVE  /\ Recorded1(receipt, "dns.propose")
         /\ ProposedOnce(receipt) => Head(rb.dns).existing = app.zone
  <1>1. Traced(cloud, receipt) /\ From(rb.dns, receipt) /\ rb.dns \in Seq(Entries)
    BY Running1
  <1>2. PICK j \in DOMAIN receipt : receipt[j] = Head(rb.dns)
    BY <1>1, FromTail
  <1>3. Head(rb.dns).action = "dns.propose"
    BY <1>1, FirstEntry DEF Inv, Respected
  <1>4. Recorded1(receipt, "dns.propose")
    BY <1>2, <1>3 DEF Recorded1
  <1>5. PICK i \in DOMAIN receipt :
          receipt[i].action = "dns.propose" /\ receipt[i].existing = app.zone
    BY <1>1, <1>4 DEF Traced
  <1>6. ProposedOnce(receipt) => i = j
    BY <1>2, <1>3, <1>5 DEF ProposedOnce
  <1> QED
    BY <1>2, <1>4, <1>5, <1>6

LEMMA DnsRollbackTraced ==
  ASSUME Inv, TracedInv, _rollback_cloudflare_dns
  PROVE  TracedInv'
  <1> DEFINE found  == Head(rb.dns).existing
             undone == [rb EXCEPT !.dns = Tail(@)]
             after  == rollback_proposal(found)
             possible == found # NoRecord => HasRecord(found.id)
  <1>1. rb.running /\ rb.todo = <<>> /\ rb.dns # <<>>
    BY DEF _rollback_cloudflare_dns
  <1>2. /\ rb \in Rollbacks /\ rb.dns \in Seq(Entries) /\ rb.result = "none" /\ cloud \in Clouds
        /\ Fresh => /\ Traced(cloud, receipt)
                    /\ From(rb.todo, receipt) /\ From(rb.dns, receipt)
                    /\ ProposedOnce(receipt) => Left(cloud, rb)
    BY <1>1, Running1
  <1>3. undone.todo = rb.todo /\ undone.dns = Tail(rb.dns) /\ undone.result = "none"
    BY <1>2 DEF Rollbacks
  <1>4. found \in DnsRecords \cup {NoRecord}
    BY <1>1, <1>2, FirstEntry DEF Entries
  <1>5. Undo("cloudflare", possible, after, undone)
    BY DEF _rollback_cloudflare_dns
  <1>6. /\ after.keys = cloud.keys /\ after.next = cloud.next /\ after.secret = cloud.secret
        /\ after.project = cloud.project /\ after.env = cloud.env
    BY <1>2 DEF rollback_proposal, Clouds
  <1>7. possible => after.zone = found
    <2>1. CASE found = NoRecord
      BY <1>2, <2>1 DEF rollback_proposal, Clouds
    <2>2. ASSUME found # NoRecord, HasRecord(found.id)
          PROVE  after.zone = found
      <3>1. after.zone = [cloud.zone EXCEPT !.content = found.content]
        BY <1>2, <2>2 DEF rollback_proposal, Clouds
      <3>2. cloud.zone \in DnsRecords /\ found \in DnsRecords /\ cloud.zone.id = found.id
        BY <1>2, <1>4, <2>2 DEF HasRecord, Clouds
      <3> HIDE DEF found
      <3> QED
        BY <3>1, <3>2 DEF DnsRecords
    <2> QED
      BY <2>1, <2>2
  <1> HIDE DEF after, undone, possible
  <1>8. ASSUME Fresh, possible
        PROVE  Traced(after, receipt) /\ Onward(after, undone, receipt)
    <2>1. /\ Recorded1(receipt, "dns.propose")
          /\ ProposedOnce(receipt) => found = app.zone
      BY <1>1, <1>8, FoundBefore
    <2>2. Traced(after, receipt)
      <3>1. cloud.next # 0
        BY <1>2, <1>8 DEF Traced
      <3> QED
        BY <1>2, <1>6, <1>8, <2>1, <3>1, TracedLess
    <2>3. From(undone.todo, receipt) /\ From(undone.dns, receipt)
      BY <1>1, <1>2, <1>3, <1>8, FromTail
    <2>4. ProposedOnce(receipt) => Left(after, undone)
      BY <1>2, <1>3, <1>6, <1>7, <1>8, <2>1 DEF Left
    <2> QED
      BY <1>3, <2>2, <2>3, <2>4 DEF Onward
  <1> QED
    BY <1>1, <1>5, <1>8, UndoTraced

LEMMA ReturnsTraced ==
  ASSUME Inv, TracedInv, RollbackReturns
  PROVE  TracedInv'
  <1>1. /\ rb.running /\ rb.todo = <<>> /\ rb.dns = <<>>
        /\ cloud' = cloud /\ RollbackOnly /\ rb' = [NoRollback EXCEPT !.result = "done"]
    BY DEF RollbackReturns
  <1>2. ~rb'.running
    BY <1>1 DEF NoRollback
  <1>3. /\ cloud \in Clouds
        /\ Fresh => /\ Traced(cloud, receipt)
                    /\ ProposedOnce(receipt) => Left(cloud, rb)
    BY <1>1, Running1
  <1>4. Fresh /\ ProposedOnce(receipt) => Undone(cloud)
    BY <1>1, <1>3, LeftNothing
  <1>5. Fresh => Onward(cloud', rb', receipt)
    BY <1>1, <1>2, <1>4 DEF Onward
  <1> QED
    BY <1>1, <1>3, <1>5, RollbackTraced

LEMMA ExecuteTraced ==
  ASSUME Inv, TracedInv, execute_native_rollback
  PROVE  TracedInv'
  <1>1. /\ ap.phase = "idle" /\ receipt # <<>>
        /\ rb' = [NoRollback EXCEPT !.todo = receipt, !.running = TRUE]
        /\ UNCHANGED <<cloud, app, receipt, ap, applies, history>>
    BY DEF execute_native_rollback, setupVars
  <1>2. rb'.todo = receipt /\ rb'.dns = <<>> /\ rb'.result = "none"
    BY <1>1 DEF NoRollback
  <1>3. applies # 0 /\ ~Before
    BY <1>1 DEF TracedInv, Before
  <1>4. Trail = receipt /\ Trail' = receipt' /\ (Fresh' => Fresh) /\ ~Before' /\ applies' # 0
    BY <1>1, <1>3 DEF Trail, Fresh, Before
  <1>5. ASSUME Fresh
        PROVE  Traced(cloud, receipt) /\ Onward(cloud, rb', receipt)
    <2>1. Traced(cloud, receipt)
      BY <1>4, <1>5 DEF TracedInv
    <2>2. From(receipt, receipt) /\ From(<<>>, receipt)
      BY EmptySeq DEF From
    <2>3. Left(cloud, rb')
      BY <1>2, <2>1 DEF Left, Traced
    <2> QED
      BY <1>2, <2>1, <2>2, <2>3 DEF Onward
  <1>6. Fresh => Traced(cloud, Trail)' /\ Onward(cloud, rb, receipt)'
    BY <1>1, <1>4, <1>5 DEF Traced, Onward, Undone, Left
  <1> QED
    BY <1>4, <1>6 DEF TracedInv

-----------------------------------------------------------------------------
(* The steps of an apply and of the user. *)

LEMMA ApplyStepTraced ==
  ASSUME Inv, TracedInv, Fresh => Whole, ap.phase # "idle", ApplyStep
  PROVE  TracedInv'
  <1>1. /\ UNCHANGED <<app, receipt, applies, rb>>
        /\ ~history'.tainted =>
             /\ ~history.tainted /\ ap'.phase # "idle"
             /\ Whole /\ Traced(cloud, ap.receipt) => Traced(cloud', ap'.receipt)
    BY DEF ApplyStep, ApplyOnly
  <1>2. applies # 0
    BY DEF TracedInv
  <1>3. applies = 1 => rb = NoRollback /\ receipt = <<>>
    BY DEF TracedInv, Before
  <1>4. Before' => rb' = NoRollback /\ receipt' = <<>>
    BY <1>1, <1>2, <1>3 DEF Before
  <1>5. ASSUME Fresh'
        PROVE  Traced(cloud, Trail)' /\ Onward(cloud, rb, receipt)'
    <2>1. Fresh /\ ap'.phase # "idle"
      BY <1>1, <1>5 DEF Fresh
    <2>2. Trail = ap.receipt /\ Trail' = ap'.receipt
      BY <2>1 DEF Trail
    <2>3. Traced(cloud', ap'.receipt)
      BY <1>1, <1>5, <2>1, <2>2 DEF TracedInv, Fresh
    <2>4. Traced(cloud, Trail)'
      BY <1>1, <2>2, <2>3 DEF Traced
    <2>5. ~rb'.running /\ rb'.result = "none"
      BY <1>1, <1>3, <2>1 DEF NoRollback, Fresh
    <2> QED
      BY <2>4, <2>5 DEF Onward
  <1> QED
    BY <1>1, <1>2, <1>4, <1>5 DEF TracedInv

(* Nothing moves at the providers, and the recorded entries stay or are put    *)
(* on disk.                                                                    *)
LEMMA QuietTraced ==
  ASSUME TracedInv, UNCHANGED <<cloud, app, applies, rb>>, applies # 0,
         history'.tainted = history.tainted, Trail' = Trail,
         \/ UNCHANGED receipt /\ (ap'.phase # "idle" => ap.phase # "idle")
         \/ ap.phase # "idle" /\ ap'.phase = "idle"
  PROVE  TracedInv'
  <1>1. Before' => Before /\ UNCHANGED receipt
    BY DEF Before
  <1>2. Fresh' => Fresh
    BY DEF Fresh
  <1>3. Fresh => Traced(cloud, Trail)'
    BY DEF TracedInv, Traced
  <1>4. Fresh => Onward(cloud, rb, receipt)'
    <2>1. CASE UNCHANGED receipt
      BY <2>1 DEF TracedInv, Onward, Undone, Left
    <2>2. CASE ap.phase # "idle"
      <3>1. Fresh => ~rb'.running /\ rb'.result = "none"
        BY <2>2 DEF TracedInv, Before, Fresh, NoRollback
      <3> QED
        BY <3>1 DEF Onward
    <2> QED
      BY <2>1, <2>2
  <1> QED
    BY <1>1, <1>2, <1>3, <1>4 DEF TracedInv

LEMMA StartTraced ==
  ASSUME Inv, TracedInv, Setup(Start)
  PROVE  TracedInv'
  <1>1. PICK approve \in BOOLEAN : _apply_loaded_manifest(approve)
    BY DEF Setup, Start
  <1>2. /\ UNCHANGED <<cloud, app, receipt, rb>>
        /\ ap' = [NoApply EXCEPT !.phase = "setup", !.at = Min(Ranks), !.mem = vault,
                                 !.approve = approve, !.stale = gates.waiting # {}]
        /\ applies' = IF applies = 2 THEN 2 ELSE applies + 1
    BY <1>1 DEF Setup, Start, _apply_loaded_manifest
  <1>3. ap'.phase = "setup" /\ ap'.receipt = <<>>
    BY <1>2 DEF NoApply
  <1>4. applies \in 0..2
    BY RollbackTypes DEF Inv
  <1>5. CASE applies = 0
    <2>1. rb = NoRollback /\ receipt = <<>> /\ Traced(cloud, <<>>) /\ applies' = 1
      BY <1>2, <1>5 DEF TracedInv, Before
    <2>2. ~rb'.running /\ rb'.result = "none"
      BY <1>2, <2>1 DEF NoRollback
    <2>3. Trail' = <<>>
      BY <1>3 DEF Trail
    <2>4. Traced(cloud, Trail)'
      BY <1>2, <2>1, <2>3 DEF Traced
    <2>5. Onward(cloud, rb, receipt)'
      BY <2>2 DEF Onward
    <2> QED
      BY <1>2, <2>1, <2>4, <2>5 DEF TracedInv
  <1>6. CASE applies # 0
    <2>1. applies' = 2
      BY <1>2, <1>4, <1>6
    <2> QED
      BY <2>1 DEF TracedInv, Before, Fresh
  <1> QED
    BY <1>5, <1>6

LEMMA ArtifactsTraced ==
  ASSUME Inv, TracedInv, Setup(SaveVault) \/ Setup(WriteReceipt)
  PROVE  TracedInv'
  <1>1. CASE Setup(SaveVault)
    <2>1. /\ ap.phase = "save_vault"
          /\ ap' = [ap EXCEPT !.phase = "save_receipt"]
          /\ history' = [history EXCEPT !.overlapped = @ \/ room # NoRecord]
          /\ UNCHANGED <<cloud, app, receipt, applies, rb>>
      BY <1>1 DEF Setup, SaveVault, In
    <2>2. ap \in Applies /\ history \in Histories
      BY TypeParts DEF Inv, Underway
    <2>3. ap'.phase = "save_receipt" /\ ap'.receipt = ap.receipt
      BY <2>1, <2>2 DEF Applies
    <2>4. history'.tainted = history.tainted
      BY <2>1, <2>2 DEF Histories
    <2>5. Trail' = Trail /\ applies # 0
      BY <2>1, <2>3 DEF Trail, TracedInv
    <2> QED
      BY <2>1, <2>3, <2>4, <2>5, QuietTraced
  <1>2. CASE Setup(WriteReceipt)
    <2>1. /\ ap.phase = "save_receipt" /\ receipt' = ap.receipt /\ ap' = NoApply
          /\ UNCHANGED <<cloud, app, applies, rb, history>>
      BY <1>2 DEF Setup, WriteReceipt, In
    <2>2. ap'.phase = "idle"
      BY <2>1, NoApplyWorks
    <2>3. Trail' = Trail /\ applies # 0
      BY <2>1, <2>2 DEF Trail, TracedInv
    <2> QED
      BY <2>1, <2>2, <2>3, QuietTraced
  <1> QED
    BY <1>1, <1>2

LEMMA UserTraced ==
  ASSUME Inv, TracedInv, Setup(AtTheRoom)
  PROVE  TracedInv'
  <1>1. UNCHANGED <<cloud, app, receipt, ap, applies, history, rb>>
    BY DEF Setup, AtTheRoom, UserOnly, _capture_saves, _capture_opens, ClickFinished
  <1>2. Trail' = Trail
    BY <1>1 DEF Trail
  <1>3. CASE applies # 0
    BY <1>1, <1>2, <1>3, QuietTraced
  <1>4. CASE applies = 0
    BY <1>1, <1>4 DEF TracedInv, Before, Fresh, Traced
  <1> QED
    BY <1>3, <1>4

-----------------------------------------------------------------------------

LEMMA TracedInit == Init => TracedInv
  <1> SUFFICES ASSUME Init
               PROVE  TracedInv
    OBVIOUS
  <1>1. /\ app \in Apps /\ cloud = Accounts(app.project, app.zone # NoRecord)
        /\ receipt = <<>> /\ ap = NoApply /\ applies = 0 /\ rb = NoRollback
    BY DEF Init, InitSetup, InitRollback
  <1>2. app.project # "ours" /\ (app.zone = NoRecord \/ app.zone = [id |-> 1, content |-> "theirs"])
    BY <1>1, AppType
  <1>3. /\ cloud.keys = {} /\ ~cloud.secret /\ cloud.project = app.project
        /\ cloud.env # "ours" /\ cloud.zone = app.zone /\ cloud.next = 2
    BY <1>1, <1>2 DEF Accounts
  <1>4. ~Recorded1(<<>>, "dns.propose")
    BY EmptySeq DEF Recorded1
  <1>5. Traced(cloud, <<>>)
    BY <1>2, <1>3, <1>4 DEF Traced
  <1> QED
    BY <1>1, <1>5, NoApplyWorks DEF TracedInv, Fresh

LEMMA TracedNext ==
  ASSUME Inv, TracedInv, WholeInv, [Next]_rollbackVars
  PROVE  TracedInv'
  <1>1. CASE Setup(Start)
    BY <1>1, StartTraced
  <1>2. CASE Setup(SaveVault) \/ Setup(WriteReceipt)
    BY <1>2, ArtifactsTraced
  <1>3. CASE /\ Setup(ApplySteps) \/ Setup(Crash) \/ Setup(_await_dns_approval)
             /\ ~SaveVault /\ ~WriteReceipt
    BY <1>3, SetupSteps, ApplyStepTraced DEF WholeInv
  <1>4. CASE Setup(AtTheRoom)
    BY <1>4, UserTraced
  <1>5. CASE execute_native_rollback
    BY <1>5, ExecuteTraced
  <1>6. CASE RollbackSteps
    BY <1>6, CollectTraced, KeyDeletionTraced, SecretDeletionTraced, EnvDeletionTraced,
       ProjectDeletionTraced, DnsRollbackTraced, ReturnsTraced DEF RollbackSteps
  <1>7. CASE UNCHANGED rollbackVars
    BY <1>7 DEF rollbackVars, setupVars, TracedInv, Before, Fresh, Trail, Traced, Onward,
                Undone, Left
  <1> QED
    BY <1>1, <1>2, <1>3, <1>4, <1>5, <1>6, <1>7 DEF Next, UserSteps, AtTheRoom, Setup, ApplySteps

LEMMA WholeInit == Init => WholeInv
  BY DEF Init, InitSetup, Accounts, WholeInv, Fresh

LEMMA WholeNext ==
  ASSUME Inv, GatePlace, TracedInv, WholeInv, [Next]_rollbackVars
  PROVE  WholeInv'
  <1>1. CASE Setup(Start)
    <2>1. PICK approve \in BOOLEAN : _apply_loaded_manifest(approve)
      BY <1>1 DEF Setup, Start
    <2>2. UNCHANGED cloud /\ applies' = IF applies = 2 THEN 2 ELSE applies + 1
      BY <2>1 DEF _apply_loaded_manifest
    <2>3. applies \in 0..2
      BY RollbackTypes DEF Inv
    <2>4. applies' # 0 /\ (applies' = 1 => applies = 0)
      BY <2>2, <2>3
    <2> QED
      BY <2>2, <2>4 DEF WholeInv, Fresh, Whole
  <1>2. CASE Setup(SaveVault) \/ Setup(WriteReceipt)
    <2>1. UNCHANGED <<cloud, applies>> /\ ap.phase # "idle"
      BY <1>2 DEF Setup, SaveVault, WriteReceipt, In
    <2>2. ap \in Applies
      BY TypeParts DEF Inv, Underway
    <2>3. ap'.phase \in {"save_receipt", "idle"}
      BY <1>2, <2>2 DEF Setup, SaveVault, WriteReceipt, NoApply, Applies
    <2> QED
      BY <2>1, <2>3 DEF WholeInv, Fresh, Whole
  <1>3. CASE /\ Setup(ApplySteps) \/ Setup(Crash) \/ Setup(_await_dns_approval)
             /\ ~SaveVault /\ ~WriteReceipt
    <2>1. ap.phase # "idle" /\ ApplyStep
      BY <1>3, SetupSteps
    <2>2. UNCHANGED applies /\ applies # 0 /\ (Fresh' => Fresh)
      BY <2>1 DEF ApplyStep, ApplyOnly, TracedInv, Fresh
    <2>3. Confined
      BY <1>3, PlaceNext DEF Next, UserSteps, Setup
    <2>4. ASSUME Fresh', cloud'.env = "both"
          PROVE  ap'.phase \in {"idle", "save_vault", "save_receipt"}
      <3>1. ~Crash
        <4>1. history \in Histories
          BY TypeParts DEF Inv
        <4> QED
          BY <2>4, <4>1 DEF Crash, Dies, Fresh, Histories
      <3>2. ap.phase \notin {"save_vault", "save_receipt"}
        BY <1>3, <3>1
        DEF Setup, ApplySteps, _await_dns_approval, choose_provider_strategy,
            _provider_contract_health_gate, _recipe_may_touch_provider_api, Recipe,
            _github_deploy_key, _github_repo_secrets, _vercel_project,
            _vercel_github_connection_gate, _vercel_env, ReplacementStops,
            _vercel_git_deployment, propose, _cloudflare_dns, ReadBackRefused, Skips, At, In,
            _verify_provider_packs, _provider_waiting_on_upstream_gate_result,
            verify_provider_pack, CheckFails, _rerun_provider_verification
      <3>3. cloud.env # "both"
        BY <2>1, <2>2, <2>4, <3>2 DEF WholeInv, Whole
      <3> QED
        BY <2>1, <2>3, <2>4, <3>3 DEF Confined, NoSecond
    <2> QED
      BY <2>2, <2>4 DEF WholeInv, Whole
  <1>4. CASE Setup(AtTheRoom) \/ execute_native_rollback \/ UNCHANGED rollbackVars
    <2>1. UNCHANGED <<cloud, applies, history, ap>>
      BY <1>4
      DEF Setup, AtTheRoom, UserOnly, _capture_saves, _capture_opens, ClickFinished,
          execute_native_rollback, rollbackVars, setupVars
    <2> QED
      BY <2>1 DEF WholeInv, Fresh, Whole
  <1>5. CASE RollbackSteps
    <2>1. rb.running /\ RollbackOnly
      BY <1>5
      DEF RollbackSteps, CollectDns, _rollback_github_deploy_key, _rollback_github_secret,
          _rollback_vercel_env, _rollback_vercel_project, _rollback_cloudflare_dns,
          RollbackReturns, Doing, Undo, DeletesOne, Nothing
    <2>2. ap.phase = "idle" /\ ~Before
      BY <2>1, Running1
    <2>3. ap'.phase = "idle" /\ applies' # 0
      BY <2>1, <2>2 DEF RollbackOnly, Before
    <2> QED
      BY <2>3 DEF WholeInv, Whole
  <1> QED
    BY <1>1, <1>2, <1>3, <1>4, <1>5 DEF Next, UserSteps, AtTheRoom, Setup, ApplySteps

(* What the theorems below rest on. *)
THEOREM TracedAlways == Spec => []TracedInv
  <1>1. Init => GatePlace
    BY DEF Init, InitSetup, NoApply, GatePlace, OwnGate
  <1>2. Inv /\ GatePlace /\ [Next]_rollbackVars => GatePlace'
    BY PlaceNext
  <1>3. Inv /\ GatePlace /\ TracedInv /\ WholeInv /\ [Next]_rollbackVars
          => TracedInv' /\ WholeInv'
    BY TracedNext, WholeNext
  <1> QED
    BY <1>1, <1>2, <1>3, Invariance, TracedInit, WholeInit, PTL DEF Spec

(* After the first apply, failed or finished, the receipt on disk names        *)
(* everything FuseKit left at the providers (_apply_loaded_manifest writes it  *)
(* on every FuseKitError), unless the process died or a provider did what it   *)
(* refused.                                                                    *)
THEOREM ReceiptNamesAll == Spec => []RecordedOnce
  <1>1. Inv /\ TracedInv => RecordedOnce
    <2> SUFFICES ASSUME Inv, TracedInv, applies = 1, ap.phase = "idle", ~history.tainted
                 PROVE  RecordedOnce
      BY DEF RecordedOnce
    <2>1. Traced(cloud, receipt)
      BY DEF TracedInv, Fresh, Trail
    <2>2. app.zone # NoRecord => app.zone.content # "ours"
      BY TypeParts, AppType DEF Inv
    <2> QED
      BY <2>1, <2>2 DEF RecordedOnce, Traced
  <1> QED
    BY <1>1, Invariance, TracedAlways, PTL

(* A rollback of the first apply's receipt that returns has undone all of it:  *)
(* key, secret, variable and project are gone, and the record is the one the   *)
(* user had (execute_native_rollback collects the DNS proposals and undoes     *)
(* them last).  With a second proposal in the receipt this is false.           *)
THEOREM RollbackRestores == Spec => []RollbackUndoes
  <1>1. TracedInv => RollbackUndoes
    BY DEF TracedInv, Fresh, Onward, Undone, RollbackUndoes
  <1> QED
    BY <1>1, TracedAlways, PTL

=============================================================================
