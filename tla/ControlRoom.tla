---------------------------- MODULE ControlRoom ----------------------------
(***************************************************************************)
(* The runner and the control room around gates.json and the vault.        *)
(*                                                                         *)
(* The runner (cli.py) works through its gates: it checks whether a gate   *)
(* is satisfied, records it as waiting if not, sleeps, and checks again.   *)
(* The control room (runner/control_room/server.py) is another process,    *)
(* with a thread per click of the user.  Both load gates.json, change      *)
(* their copy and save it whole, with no lock; the vault is treated alike. *)
(* Every load and every save is a step of its own.                         *)
(*                                                                         *)
(* Approval gates are satisfied by the gate's own status or an answer at   *)
(* the terminal, token gates by the vault on disk, the environment or a    *)
(* hidden prompt, and pack gates by the copy of the vault that             *)
(* _apply_loaded_manifest opened when it began and saves when it ends.     *)
(* The runner holds such a copy three times: when it starts, when it       *)
(* stores a token, and during an apply.                                    *)
(***************************************************************************)
EXTENDS GateService, Naturals

CONSTANTS
  ApprovalGates, PackGates,  \* the other gates are token gates
  Threads,   \* control-room handlers
  Scenarios, \* the settings a behaviour may have, see Scenario
  MaxDeaths  \* bound on the deaths of handlers and runner, together

ASSUME KindsAssumption   == ApprovalGates \subseteq Gates /\ PackGates \subseteq Gates
                            /\ ApprovalGates \cap PackGates = {}
ASSUME TargetAssumption  == Targets # {} /\ Gates # {}
ASSUME DeathsAssumption  == MaxDeaths \in Nat

(* The gates the launch needs, the handlers there are, whose loads and     *)
(* saves may overlap (a handler's with the runner's, of gates.json or of   *)
(* the vault; two handlers'), who may die, what the runner's environment   *)
(* holds, and whether a user sits at its terminal.                         *)
Scenario == [gates: SUBSET Gates, threads: SUBSET Threads,
             overlap: SUBSET {"runner", "vault", "handlers"},
             faults: SUBSET {"thread", "runner"}, env: SUBSET Targets, prompt: BOOLEAN]

ASSUME ScenarioAssumption == Scenarios \subseteq Scenario

VARIABLES
  scenario,    \* the setting, fixed for the behaviour
  file,        \* gates.json
  captureLog,  \* the clipboard_captured events in gate_events.jsonl
  minted,      \* resume events of a gate since it last surfaced, at most 2 counted
  vault,       \* targets with a record in the vault on disk
  thread,      \* what each handler is doing
  runner,      \* what the runner is doing
  done,        \* gates the running launch has behind it
  clicked,     \* gates the user ever approved or completed in the control room
  typed,       \* gates the user ever answered at the terminal
  deaths       \* deaths so far

roomVars == <<scenario, file, captureLog, minted, vault, thread, runner, done, clicked, typed, deaths>>

TokenGates == Gates \ (ApprovalGates \cup PackGates)

File == [Gates -> GateRecord]

Idle == [phase |-> "idle"]

Handler == [phase: {"open", "vault", "vault_save", "mark", "mark_log", "resume", "resume_log"},
            gate: Gates, target: Targets, copy: File, secrets: SUBSET Targets]

(* secrets is the copy of the vault while one is open, and the token in    *)
(* hand while a token gate passes.                                         *)
Runner == [phase: {"start", "start_save", "next", "check", "ask", "wait", "wait_save", "pass",
                   "pass_wait_save", "pass_save", "token", "token_save", "apply_save", "sleep",
                   "done", "failed"},
           gate: Gates, copy: File, secrets: SUBSET Targets]

TypeOK ==
  /\ scenario \in Scenarios
  /\ file \in File
  /\ captureLog \subseteq Gates \X Targets
  /\ minted \in [Gates -> 0..2]
  /\ vault \subseteq Targets
  /\ thread \in [Threads -> Handler \cup {Idle}]
  /\ runner \in Runner
  /\ done \subseteq Gates
  /\ clicked \subseteq Gates
  /\ typed \subseteq Gates
  /\ deaths \in 0..MaxDeaths

NoCopy == [g \in Gates |-> Absent]

Start == [phase |-> "start", gate |-> CHOOSE g \in Gates : TRUE, copy |-> NoCopy, secrets |-> {}]

Init ==
  /\ scenario \in Scenarios
  /\ file = NoCopy
  /\ captureLog = {}
  /\ minted = [g \in Gates |-> 0]
  /\ vault = {}
  /\ thread = [t \in Threads |-> Idle]
  /\ runner = Start
  /\ done = {}
  /\ clicked = {}
  /\ typed = {}
  /\ deaths = 0

InSave(phase) == phase \in {"wait_save", "pass_wait_save", "pass_save"}

(* The runner has a copy of the vault open.                                *)
Holding ==
  \/ runner.phase \in {"start_save", "token_save"}
  \/ runner.gate \in PackGates /\ runner.phase \in {"check", "wait", "wait_save", "apply_save"}

AllIdle == \A t \in Threads : thread[t] = Idle

On(t, phase) == thread[t].phase = phase

(* When loads and saves do not overlap, nobody loads while another is      *)
(* between load and save.                                                  *)
RunnerMayLoad == "runner" \in scenario.overlap \/ AllIdle

RunnerMayOpen ==
  /\ RunnerMayLoad
  /\ "vault" \in scenario.overlap \/ \A t \in Threads : ~On(t, "vault_save")

HandlerMayLoad ==
  /\ "handlers" \in scenario.overlap \/ AllIdle
  /\ "runner" \in scenario.overlap \/ (~InSave(runner.phase) /\ ~Holding)

HandlerMayOpen == "vault" \in scenario.overlap \/ ~Holding

-----------------------------------------------------------------------------
(* The runner.                                                             *)

Goto(phase) == runner' = [runner EXCEPT !.phase = phase, !.copy = NoCopy]

(* A launch opens the vault, bootstraps and captures the LLM key, which    *)
(* may take long, and saves the vault whole.                               *)
LaunchOpen ==
  /\ runner.phase = "start" /\ RunnerMayOpen
  /\ runner' = [runner EXCEPT !.phase = "start_save", !.secrets = vault]
  /\ UNCHANGED <<file, captureLog, minted, vault, thread, done, clicked, typed, deaths>>

LaunchSave ==
  /\ runner.phase = "start_save"
  /\ vault' = runner.secrets
  /\ Goto("next")
  /\ UNCHANGED <<file, captureLog, minted, thread, done, clicked, typed, deaths>>

(* A launch asks for approval, then authorizes providers, then applies.    *)
Before(h, g) ==
  \/ h \in ApprovalGates /\ g \notin ApprovalGates
  \/ h \notin PackGates /\ g \in PackGates

MayBegin(g) ==
  /\ runner.phase = "next" /\ g \in scenario.gates \ done
  /\ \A h \in scenario.gates : Before(h, g) => h \in done

HasToken(g) == TargetsOf[g] \subseteq vault \/ TargetsOf[g] \subseteq scenario.env

(* A provider whose token is in the environment or in the vault is not     *)
(* asked for one.                                                          *)
_has_provider_token ==
  \E g \in TokenGates :
    /\ MayBegin(g) /\ HasToken(g)
    /\ done' = done \cup {g}
    /\ UNCHANGED <<file, captureLog, minted, vault, thread, runner, clicked, typed, deaths>>

(* The vault an apply opens, with the environment's values put in.         *)
Opened(g) == IF g \in PackGates THEN vault \cup scenario.env ELSE {}

(* The next gate of the launch; an apply opens the vault before it sets    *)
(* its providers up.                                                       *)
NextGate ==
  \E g \in Gates :
    /\ MayBegin(g)
    /\ g \in TokenGates => ~HasToken(g)
    /\ g \in PackGates => RunnerMayOpen
    /\ runner' = [runner EXCEPT !.phase = "check", !.gate = g, !.secrets = Opened(g)]
    /\ UNCHANGED <<file, captureLog, minted, vault, thread, done, clicked, typed, deaths>>

Finish ==
  /\ runner.phase = "next" /\ done = scenario.gates
  /\ Goto("done")
  /\ UNCHANGED <<file, captureLog, minted, vault, thread, done, clicked, typed, deaths>>

(* Mutant: a gate is satisfied once it is on file.                         *)
gate_on_file(g) == file[g] # Absent

_gate_resume_requested(g) == file[g].status \in {"passed", "resume_requested"}

(* Mutant: the runner trusts the status of a token gate.                   *)
satisfied_by_status(g) ==
  IF g \in PackGates THEN TargetsOf[g] \subseteq runner.secrets ELSE _gate_resume_requested(g)

Satisfied(g) ==
  CASE g \in ApprovalGates -> _gate_resume_requested(g)
    [] g \in PackGates     -> TargetsOf[g] \subseteq runner.secrets
    [] OTHER               -> TargetsOf[g] \subseteq vault

(* The check that ends a wait.  A token in the vault is taken in hand.  A  *)
(* pack whose setup went through writes no gate; its apply goes on to save *)
(* its artifacts.                                                          *)
Check ==
  LET g == runner.gate
  IN /\ runner.phase = "check"
     /\ runner' = [runner EXCEPT
                     !.phase = CASE Satisfied(g) /\ g \in PackGates       -> "apply_save"
                                 [] Satisfied(g) /\ g \notin PackGates    -> "pass"
                                 [] ~Satisfied(g) /\ scenario.prompt
                                      /\ g \notin PackGates               -> "ask"
                                 [] OTHER                                 -> "wait",
                     !.secrets = IF g \in PackGates THEN @ ELSE TargetsOf[g]]
     /\ done' = IF Satisfied(g) /\ g \in PackGates THEN done \cup {g} ELSE done
     /\ UNCHANGED <<file, captureLog, minted, vault, thread, clicked, typed, deaths>>

(* At the terminal the user approves, or types a token, which may be too   *)
(* short; or gives no answer.                                              *)
Answer ==
  /\ runner.phase = "ask"
  /\ \E secrets \in {{}, TargetsOf[runner.gate]} :
       runner' = [runner EXCEPT !.phase = "pass", !.secrets = secrets]
  /\ typed' = typed \cup {runner.gate}
  /\ UNCHANGED <<file, captureLog, minted, vault, thread, done, clicked, deaths>>

NoAnswer ==
  /\ runner.phase = "ask"
  /\ Goto("wait")
  /\ UNCHANGED <<file, captureLog, minted, vault, thread, done, clicked, typed, deaths>>

(* _record_gate_waiting loads the file and lets the gate surface.          *)
WaitLoad ==
  /\ runner.phase = "wait" /\ RunnerMayLoad
  /\ runner' = [runner EXCEPT !.phase = "wait_save", !.copy = file]
  /\ UNCHANGED <<file, captureLog, minted, vault, thread, done, clicked, typed, deaths>>

_record_gate_waiting ==
  /\ runner.phase = "wait_save"
  /\ IF runner.copy[runner.gate].status = "passed"
     THEN UNCHANGED <<file, minted>>
     ELSE /\ file' = [runner.copy EXCEPT ![runner.gate] = wait(@)]
          /\ minted' = [minted EXCEPT ![runner.gate] = 0]
  /\ Goto(IF runner.gate \in PackGates THEN "apply_save" ELSE "sleep")
  /\ UNCHANGED <<captureLog, vault, thread, done, clicked, typed, deaths>>

PassLoad ==
  /\ runner.phase = "pass" /\ RunnerMayLoad
  /\ runner' = [runner EXCEPT !.copy = file,
                  !.phase = IF file[runner.gate] = Absent THEN "pass_wait_save" ELSE "pass_save"]
  /\ UNCHANGED <<file, captureLog, minted, vault, thread, done, clicked, typed, deaths>>

(* An absent gate is recorded as waiting, and saved, before it passes.     *)
PassWait ==
  LET copy == [runner.copy EXCEPT ![runner.gate] = wait(@)]
  IN /\ runner.phase = "pass_wait_save"
     /\ file' = copy
     /\ runner' = [runner EXCEPT !.phase = "pass_save", !.copy = copy]
     /\ UNCHANGED <<captureLog, minted, vault, thread, done, clicked, typed, deaths>>

(* A plan approval ends here; a token in hand is still to be stored.       *)
_record_gate_passed ==
  LET g == runner.gate
  IN /\ runner.phase = "pass_save"
     /\ file' = [runner.copy EXCEPT ![g] = pass_gate(@)]
     /\ done' = IF g \in ApprovalGates THEN done \cup {g} ELSE done
     /\ Goto(IF g \in ApprovalGates THEN "next" ELSE "token")
     /\ UNCHANGED <<captureLog, minted, vault, thread, clicked, typed, deaths>>

(* A short token ends the launch; any other is put into the vault, opened  *)
(* for it and saved whole.                                                 *)
ShortToken ==
  /\ runner.phase = "token" /\ ~(TargetsOf[runner.gate] \subseteq runner.secrets)
  /\ Goto("failed")
  /\ UNCHANGED <<file, captureLog, minted, vault, thread, done, clicked, typed, deaths>>

TokenOpen ==
  /\ runner.phase = "token" /\ TargetsOf[runner.gate] \subseteq runner.secrets /\ RunnerMayOpen
  /\ runner' = [runner EXCEPT !.phase = "token_save", !.secrets = @ \cup vault]
  /\ UNCHANGED <<file, captureLog, minted, vault, thread, done, clicked, typed, deaths>>

_authorize_provider ==
  /\ runner.phase = "token_save"
  /\ vault' = runner.secrets
  /\ done' = done \cup {runner.gate}
  /\ Goto("next")
  /\ UNCHANGED <<file, captureLog, minted, thread, clicked, typed, deaths>>

(* The apply ends and saves the vault it opened when it began; with its    *)
(* gate open, the remote loop starts it again later.                       *)
_write_apply_artifacts ==
  /\ runner.phase = "apply_save"
  /\ vault' = runner.secrets
  /\ Goto(IF runner.gate \in done THEN "next" ELSE "sleep")
  /\ UNCHANGED <<file, captureLog, minted, thread, done, clicked, typed, deaths>>

(* The sleep ends, by time or because the gate was resumed.                *)
_sleep_for_gate ==
  /\ runner.phase = "sleep"
  /\ runner.gate \in PackGates => RunnerMayOpen
  /\ runner' = [runner EXCEPT !.phase = "check", !.secrets = Opened(runner.gate)]
  /\ UNCHANGED <<file, captureLog, minted, vault, thread, done, clicked, typed, deaths>>

(* The runner dies, or has failed, and is started again from the top.      *)
RunnerDies ==
  /\ "runner" \in scenario.faults /\ deaths < MaxDeaths /\ runner.phase # "done"
  /\ runner' = Start
  /\ done' = {}
  /\ deaths' = deaths + 1
  /\ UNCHANGED <<file, captureLog, minted, vault, thread, clicked, typed>>

-----------------------------------------------------------------------------
(* The control room.                                                       *)

Handle(t, g, x, phase) ==
  thread' = [thread EXCEPT ![t] = [phase |-> phase, gate |-> g, target |-> x,
                                   copy |-> file, secrets |-> {}]]

(* What the handlers without a capture target carry.                       *)
AnyTarget == CHOOSE x \in Targets : TRUE

Then(t, phase) == thread' = [thread EXCEPT ![t] = [@ EXCEPT !.phase = phase]]

End(t) == thread' = [thread EXCEPT ![t] = Idle]

(* Mutant: the route only asks whether the gate is still waiting.          *)
pass_uncaptured(t, g) ==
  /\ thread[t] = Idle /\ HandlerMayLoad
  /\ Waiting(file[g])
  /\ Handle(t, g, AnyTarget, "resume")
  /\ UNCHANGED <<file, captureLog, minted, vault, runner, done, clicked, typed, deaths>>
(* Mutant: a gate that passed is resumed again.                            *)
pass_any_status(t, g) ==
  /\ thread[t] = Idle /\ HandlerMayLoad
  /\ file[g].status \in GateStatus /\ TargetsOf[g] \subseteq file[g].captured
  /\ Handle(t, g, AnyTarget, "resume")
  /\ UNCHANGED <<file, captureLog, minted, vault, runner, done, clicked, typed, deaths>>
(* POST /pass: a waiting gate with everything captured is resumed; any     *)
(* other click only gets an answer.                                        *)
ClickFinished(t, g) ==
  /\ thread[t] = Idle /\ HandlerMayLoad
  /\ Waiting(file[g]) /\ TargetsOf[g] \subseteq file[g].captured
  /\ Handle(t, g, AnyTarget, "resume")
  /\ UNCHANGED <<file, captureLog, minted, vault, runner, done, clicked, typed, deaths>>

(* POST /open: unless its tab is open already, the gate's page is opened   *)
(* in the browser and then the record, loaded before, is saved.            *)
ClickOpen(t, g) ==
  /\ thread[t] = Idle /\ HandlerMayLoad
  /\ Waiting(file[g]) /\ ~file[g].opened
  /\ Handle(t, g, AnyTarget, "open")
  /\ UNCHANGED <<file, captureLog, minted, vault, runner, done, clicked, typed, deaths>>

OpenSave(t) ==
  /\ On(t, "open")
  /\ file' = [thread[t].copy EXCEPT ![thread[t].gate] = mark_opened(@)]
  /\ End(t)
  /\ UNCHANGED <<captureLog, minted, vault, runner, done, clicked, typed, deaths>>

(* Mutant: the record is marked and the vault is never written.            *)
mark_before_vault(t, g, x) ==
  /\ thread[t] = Idle /\ HandlerMayLoad
  /\ Waiting(file[g]) /\ x \in TargetsOf[g]
  /\ Handle(t, g, x, "mark")
  /\ UNCHANGED <<file, captureLog, minted, vault, runner, done, clicked, typed, deaths>>

(* Mutant: the capture does not ask whether the gate is resuming already.  *)
capture_resuming(t, g, x) ==
  /\ thread[t] = Idle /\ HandlerMayLoad
  /\ file[g].status \in GateStatus \ {"passed"} /\ x \in TargetsOf[g]
  /\ x \in file[g].captured => TargetsOf[g] \subseteq file[g].captured
  /\ Handle(t, g, x, IF x \in file[g].captured THEN "mark" ELSE "vault")
  /\ UNCHANGED <<file, captureLog, minted, vault, runner, done, clicked, typed, deaths>>

(* POST /capture-clipboard: a value that is not captured yet goes to the   *)
(* vault; for a captured one, if it was the last and the resume is still   *)
(* missing, the resume is repaired; else there is only an answer.          *)
_capture_gate_clipboard_secret(t, g, x) ==
  /\ thread[t] = Idle /\ HandlerMayLoad
  /\ Waiting(file[g]) /\ x \in TargetsOf[g]
  /\ x \in file[g].captured => TargetsOf[g] \subseteq file[g].captured
  /\ Handle(t, g, x, IF x \in file[g].captured THEN "mark" ELSE "vault")
  /\ UNCHANGED <<file, captureLog, minted, vault, runner, done, clicked, typed, deaths>>

VaultOpen(t) ==
  /\ On(t, "vault") /\ HandlerMayOpen
  /\ thread' = [thread EXCEPT ![t] = [@ EXCEPT !.phase = "vault_save", !.secrets = vault]]
  /\ UNCHANGED <<file, captureLog, minted, vault, runner, done, clicked, typed, deaths>>

VaultSave(t) ==
  /\ On(t, "vault_save")
  /\ vault' = thread[t].secrets \cup {thread[t].target}
  /\ Then(t, "mark")
  /\ UNCHANGED <<file, captureLog, minted, runner, done, clicked, typed, deaths>>

AllCaptured(t, copy) == TargetsOf[thread[t].gate] \subseteq copy[thread[t].gate].captured

(* mark_captured saves the record, unless the capture event of this target *)
(* is found in the log.                                                    *)
MarkCaptured(t) ==
  LET g == thread[t].gate
      x == thread[t].target
      copy == [thread[t].copy EXCEPT ![g] = mark_captured(@, x)]
  IN /\ On(t, "mark")
     /\ IF x \in thread[t].copy[g].captured /\ <<g, x>> \in captureLog
        THEN /\ UNCHANGED file
             /\ Then(t, "resume")
        ELSE /\ file' = copy
             /\ thread' = [thread EXCEPT ![t] = [@ EXCEPT !.phase = "mark_log", !.copy = copy]]
     /\ UNCHANGED <<captureLog, minted, vault, runner, done, clicked, typed, deaths>>

AppendCaptured(t) ==
  /\ On(t, "mark_log")
  /\ captureLog' = captureLog \cup {<<thread[t].gate, thread[t].target>>}
  /\ IF AllCaptured(t, thread[t].copy) THEN Then(t, "resume") ELSE End(t)
  /\ UNCHANGED <<file, minted, vault, runner, done, clicked, typed, deaths>>

(* A resume that was requested already mints no new event.                 *)
RequestResume(t) ==
  LET g == thread[t].gate
      copy == thread[t].copy
  IN /\ On(t, "resume")
     /\ IF Resuming(copy[g])
        THEN /\ UNCHANGED <<file, minted>>
             /\ End(t)
        ELSE /\ file' = [copy EXCEPT ![g] = request_resume(@)]
             /\ minted' = [minted EXCEPT ![g] = IF @ = 2 THEN 2 ELSE @ + 1]
             /\ Then(t, "resume_log")
     /\ clicked' = clicked \cup {g}
     /\ UNCHANGED <<captureLog, vault, runner, done, typed, deaths>>

AppendResume(t) ==
  /\ On(t, "resume_log")
  /\ End(t)
  /\ UNCHANGED <<file, captureLog, minted, vault, runner, done, clicked, typed, deaths>>

ThreadDies(t) ==
  /\ "thread" \in scenario.faults /\ deaths < MaxDeaths /\ thread[t] # Idle
  /\ End(t)
  /\ deaths' = deaths + 1
  /\ UNCHANGED <<file, captureLog, minted, vault, runner, done, clicked, typed>>

-----------------------------------------------------------------------------

RunnerStep ==
  \/ LaunchOpen \/ LaunchSave \/ _has_provider_token \/ NextGate \/ Finish
  \/ Check \/ WaitLoad \/ _record_gate_waiting
  \/ PassLoad \/ PassWait \/ _record_gate_passed
  \/ ShortToken \/ TokenOpen \/ _authorize_provider
  \/ _write_apply_artifacts \/ _sleep_for_gate

ThreadStep(t) ==
  \/ OpenSave(t) \/ VaultOpen(t) \/ VaultSave(t) \/ MarkCaptured(t) \/ AppendCaptured(t)
  \/ RequestResume(t) \/ AppendResume(t)

Click(t) ==
  \E g \in Gates :
    \/ ClickFinished(t, g) \/ ClickOpen(t, g)
    \/ \E x \in Targets : _capture_gate_clipboard_secret(t, g, x)

Next ==
  \/ (RunnerStep \/ Answer \/ NoAnswer \/ RunnerDies) /\ UNCHANGED scenario
  \/ \E t \in scenario.threads :
       (Click(t) \/ ThreadStep(t) \/ ThreadDies(t)) /\ UNCHANGED scenario

Spec == Init /\ [][Next]_roomVars

(* The runner and a handler that took a click go on; nobody has to click,  *)
(* or to answer at the terminal.                                           *)
FairSpec ==
  /\ Spec
  /\ WF_roomVars(RunnerStep /\ UNCHANGED scenario)
  /\ \A t \in Threads : WF_roomVars(ThreadStep(t) /\ UNCHANGED scenario)

-----------------------------------------------------------------------------

Serial == scenario.overlap = {}

(* Nobody opens the vault while another holds a copy to be saved: neither  *)
(* the runner's three copies overlap a capture, nor two captures.          *)
VaultShared == scenario.overlap \subseteq {"runner"}

(* A value the control room says is captured is in the vault.              *)
CapturedInVault == VaultShared => \A g \in Gates : file[g].captured \subseteq vault

(* A gate asks the runner to go on only when everything it wanted is in    *)
(* the vault, whichever button was used last.                              *)
ResumeComplete ==
  VaultShared =>
    \A g \in Gates : file[g].status = "resume_requested" => TargetsOf[g] \subseteq vault

(* A passed gate was approved by the user, or its token is in the vault or *)
(* was typed in, also when the saves of runner and handlers overwrite each *)
(* other; and a launch has a token gate behind it only with the token in   *)
(* the vault or the environment, whatever was typed before.                *)
PassedEarned ==
  VaultShared =>
    /\ \A g \in Gates : file[g].status = "passed" =>
         \/ g \in typed
         \/ IF g \in ApprovalGates THEN g \in clicked ELSE TargetsOf[g] \subseteq vault
    /\ \A g \in TokenGates \cap done : HasToken(g)

(* When saves do not overlap, clicking repeatedly mints one resume event   *)
(* each time a gate surfaces.                                              *)
OneWakePerRound == Serial => \A g \in Gates : minted[g] <= 1

(* When saves do not overlap, a passed gate is never waiting again.        *)
PassedStays ==
  [][Serial =>
       \A g \in Gates : file[g].status = "passed" => file'[g].status = "passed"]_roomVars

(* A token that reached the vault lets its gate pass, however the saves of *)
(* the two processes overwrite each other, unless the runner may die or a  *)
(* prompt keeps it waiting.                                                *)
TokenPickedUp ==
  \A g \in TokenGates :
    /\ runner.gate = g /\ runner.phase \notin {"start", "start_save", "next", "done"}
    /\ TargetsOf[g] \subseteq vault
    /\ VaultShared /\ "runner" \notin scenario.faults /\ ~scenario.prompt
    ~> g \in done

(* An approval is not taken back before the runner heard it ("FuseKit will *)
(* continue immediately after this approval is recorded", cli.py 3708):    *)
(* only passing the gate ends it.                                          *)
ApprovalHeard ==
  [][\A g \in ApprovalGates : file[g].status = "resume_requested" =>
       file'[g].status \in {"resume_requested", "passed"}]_roomVars

=============================================================================
