--------------------------- MODULE MCControlRoom ---------------------------
(***************************************************************************)
(* ControlRoom and AtomicWrite for TLC.  The gates are a plan approval, an *)
(* authorization with one token, and a provider pack with two secrets.  A  *)
(* behaviour runs the gates in one of the scenarios, or the writers of a   *)
(* private file; the other part rests.                                     *)
(***************************************************************************)
EXTENDS ControlRoom, AtomicWrite

CONSTANTS plan, token, pack, t1, t2, key, url, cli, p1, p2

VARIABLE part

suiteVars == <<roomVars, writeVars, part>>

MCTargetsOf ==
  [g \in Gates |-> CASE g = plan  -> {}
                     [] g = token -> {key}
                     [] g = pack  -> {key, url}]

(* Overlapping saves of gates.json by the runner and one handler; a        *)
(* restarted launch; two handlers, an apply and deaths with serial loads   *)
(* and saves; an authorization followed by an apply, also with the token   *)
(* in the environment; a user who approves, or types a token, at the       *)
(* terminal.                                                               *)
Setting(gates, threads, overlap, faults, env, prompt) ==
  [gates |-> gates, threads |-> threads, overlap |-> overlap, faults |-> faults,
   env |-> env, prompt |-> prompt]

MCScenarios ==
  { Setting({plan, token}, {t1}, {"runner"}, {"thread"}, {}, FALSE),
    Setting({token}, {t1}, {"runner"}, {"thread", "runner"}, {}, FALSE),
    Setting({plan, pack}, {t1, t2}, {}, {"thread", "runner"}, {}, FALSE),
    Setting({token, pack}, {t1}, {"runner"}, {"runner"}, {}, FALSE),
    Setting({token, pack}, {t1}, {"runner"}, {}, {key}, FALSE),
    Setting({plan}, {t1}, {"runner"}, {}, {}, TRUE),
    Setting({token}, {t1}, {"runner"}, {"runner"}, {}, TRUE) }

ApprovalOnly == {Setting({plan}, {t1}, {"runner"}, {}, {}, FALSE)}

(* The vault saved by the runner and by two threads of the control room,   *)
(* which share a name because they share a process (vault/bundle.py).      *)
ProcessTemp == [w \in Writers |-> IF w = cli THEN p1 ELSE p2]

SuiteInit ==
  /\ Init /\ InitWrite
  /\ part \in {"room", "write"}
  /\ part = "write" => scenario = CHOOSE s \in Scenarios : TRUE

Room == part = "room" /\ UNCHANGED <<writeVars, part>>

SuiteNext ==
  \/ Room /\ Next
  \/ part = "write" /\ NextWrite /\ UNCHANGED <<roomVars, part>>

SuiteSpec ==
  /\ SuiteInit /\ [][SuiteNext]_suiteVars
  /\ WF_suiteVars(Room /\ RunnerStep /\ UNCHANGED scenario)
  /\ \A t \in Threads : WF_suiteVars(Room /\ ThreadStep(t) /\ UNCHANGED scenario)

=============================================================================
