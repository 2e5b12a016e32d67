------------------------- MODULE ControlRoomProofs -------------------------
(***************************************************************************)
(* Proofs about ControlRoom, for any set of gates, targets, handlers and   *)
(* scenarios, and any number of deaths.                                    *)
(***************************************************************************)
EXTENDS ControlRoom, TLAPS

(* What a handler or the runner carries fits the phase it is in.           *)
RunnerFits(r) ==
  /\ r.phase \notin {"start", "start_save", "next", "done"} => r.gate \in scenario.gates
  /\ r.phase = "pass_wait_save" => r.copy[r.gate] = Absent
  /\ r.phase = "apply_save" => r.gate \in PackGates
  /\ r.phase \in {"ask", "pass", "pass_wait_save", "pass_save"} => r.gate \notin PackGates
  /\ r.phase \in {"token", "token_save"} => r.gate \in TokenGates
  /\ r.phase = "token_save" => TargetsOf[r.gate] \subseteq r.secrets

WellFormed ==
  /\ \A t \in Threads : thread[t] # Idle => Waiting(thread[t].copy[thread[t].gate])
  /\ RunnerFits(runner)

NoneOpen == \A t \in Threads : ~On(t, "vault_save")

(* Where loads and saves may not overlap, one at most is at it.            *)
Exclusion ==
  /\ "handlers" \notin scenario.overlap =>
       \A t, u \in Threads : thread[t] # Idle /\ thread[u] # Idle => t = u
  /\ "runner" \notin scenario.overlap /\ (InSave(runner.phase) \/ Holding) => AllIdle
  /\ "vault" \notin scenario.overlap /\ Holding => NoneOpen

RoomShape == TypeOK /\ WellFormed /\ Exclusion

(* Gate g may have passed, when the vault, the user's clicks and the       *)
(* answers at the terminal are these.                                      *)
EarnedBy(g, secrets, approved, answered) ==
  \/ g \in answered
  \/ IF g \in ApprovalGates THEN g \in approved ELSE TargetsOf[g] \subseteq secrets

(* What a copy of the gate file, however old, says of the vault and of the *)
(* user is true now.                                                       *)
HonestOf(copy, secrets, approved, answered) ==
  \A g \in Gates :
    /\ copy[g].captured \subseteq secrets
    /\ copy[g].status = "resume_requested" => TargetsOf[g] \subseteq secrets /\ g \in approved
    /\ copy[g].status = "passed" => EarnedBy(g, secrets, approved, answered)

Honest(copy) == HonestOf(copy, vault, clicked, typed)

(* A capture on its way has saved its value before it marks it, from a     *)
(* copy of the vault that has everything the vault has; a gate about to    *)
(* resume has all its targets captured.                                    *)
CaptureBacked(handler, secrets) ==
  LET g == handler.gate
      captured == handler.copy[g].captured
  IN /\ handler.phase = "vault_save" => secrets \subseteq handler.secrets
     /\ handler.phase = "mark" => handler.target \in secrets
     /\ handler.phase \in {"vault", "vault_save", "mark"} /\ handler.target \in captured
          => TargetsOf[g] \subseteq captured
     /\ handler.phase = "resume" => TargetsOf[g] \subseteq captured

Passing(phase) == phase \in {"pass", "pass_wait_save", "pass_save"}

(* Whoever holds a copy of the vault has in it all that the vault has.     *)
AllHonest ==
  /\ Honest(file)
  /\ InSave(runner.phase) => Honest(runner.copy)
  /\ \A t \in Threads : thread[t] # Idle =>
       Honest(thread[t].copy) /\ CaptureBacked(thread[t], vault)
  /\ Holding => vault \subseteq runner.secrets
  /\ Passing(runner.phase) => EarnedBy(runner.gate, vault, clicked, typed)
  /\ \A g \in TokenGates \cap done : HasToken(g)

Backed == VaultShared => AllHonest

(* In a serial scenario a copy about to be saved is what the file holds,   *)
(* and only a gate that resumed or passed has minted its wake event.       *)
CopiesFresh ==
  /\ \A t \in Threads : thread[t] # Idle /\ ~On(t, "resume_log") => thread[t].copy = file
  /\ InSave(runner.phase) => runner.copy = file

MintedOnce ==
  \A g \in Gates :
    /\ minted[g] \in {0, 1}
    /\ file[g].status \notin {"resume_requested", "passed"} => minted[g] = 0

InStep == Serial => CopiesFresh /\ MintedOnce

RoomInv == RoomShape /\ Backed /\ InStep

-----------------------------------------------------------------------------
(* Records and copies. *)

LEMMA RecordTypes ==
  ASSUME NEW record \in GateRecord
  PROVE  /\ wait(record) \in GateRecord
         /\ pass_gate(record) \in GateRecord
         /\ request_resume(record) \in GateRecord
         /\ record.captured \subseteq Targets
         /\ Waiting(record) => mark_opened(record) \in GateRecord
         /\ Waiting(record) => \A x \in Targets : mark_captured(record, x) \in GateRecord
  <1>1. CASE record = Absent
    <2>1. ~Waiting(record)
      BY <1>1 DEF Absent, Waiting
    <2>0. wait(record) = [record EXCEPT !.status = "waiting"]
      <3>1. record.status = "absent"
        BY <1>1 DEF Absent
      <3> QED
        BY <1>1, <3>1 DEF wait
    <2>2. record \in [status: GateStatus \cup {"absent"}, captured: SUBSET Targets,
                      opened: BOOLEAN, woken: BOOLEAN]
      BY <1>1 DEF Absent
    <2>3. \A status \in GateStatus, woken \in BOOLEAN :
            /\ [record EXCEPT !.status = status] \in GateRecord
            /\ [record EXCEPT !.status = status, !.woken = woken] \in GateRecord
      BY <2>2 DEF GateRecord
    <2>4. record.captured = {}
      BY <1>1 DEF Absent
    <2> QED
      BY <2>0, <2>1, <2>3, <2>4 DEF GateStatus, pass_gate, request_resume, Resuming
  <1>2. CASE record # Absent
    <2>1. record \in [status: GateStatus, captured: SUBSET Targets, opened: BOOLEAN,
                      woken: BOOLEAN]
      BY <1>2 DEF GateRecord
    <2>2. wait(record) \in GateRecord
      BY <1>2, <2>1 DEF wait, GateStatus, GateRecord
    <2> QED
      BY <2>1, <2>2
      DEF GateRecord, GateStatus, pass_gate, request_resume, Resuming, mark_opened, mark_captured
  <1> QED
    BY <1>1, <1>2

(* What the operations on a record do to its fields.                       *)
LEMMA RecordFields ==
  ASSUME NEW record \in GateRecord
  PROVE  /\ wait(record).captured \subseteq record.captured
         /\ record.status = "passed" => wait(record) = record
         /\ record.status # "passed" => Waiting(wait(record))
         /\ pass_gate(record).captured = record.captured
         /\ pass_gate(record).status = "passed"
         /\ request_resume(record).captured = record.captured
         /\ request_resume(record).status = "resume_requested"
         /\ mark_opened(record).captured = record.captured
         /\ mark_opened(record).status = record.status
         /\ \A x : /\ mark_captured(record, x).captured = record.captured \cup {x}
                   /\ mark_captured(record, x).status = record.status
  BY DEF GateRecord, GateStatus, Absent, wait, pass_gate, request_resume, Resuming, mark_opened,
         mark_captured, Waiting

LEMMA HandlerType ==
  ASSUME TypeOK, NEW t \in Threads, thread[t] # Idle
  PROVE  /\ thread[t] \in Handler
         /\ thread[t].gate \in Gates /\ thread[t].target \in Targets
         /\ thread[t].copy \in File /\ thread[t].secrets \subseteq Targets
         /\ thread[t].copy[thread[t].gate] \in GateRecord
  BY DEF TypeOK, Handler, File

LEMMA RunnerType ==
  ASSUME TypeOK
  PROVE  /\ runner.gate \in Gates /\ runner.copy \in File /\ runner.secrets \subseteq Targets
         /\ runner.copy[runner.gate] \in GateRecord
         /\ NoCopy \in File
  BY DEF TypeOK, Runner, File, NoCopy, GateRecord

(* A step that gives handler t the state new.                              *)
LEMMA HandlerMoves ==
  ASSUME TypeOK, NEW t \in Threads, NEW new \in Handler \cup {Idle},
         thread' = [thread EXCEPT ![t] = new]
  PROVE  /\ thread'[t] = new
         /\ \A u \in Threads : u # t => thread'[u] = thread[u]
         /\ thread' \in [Threads -> Handler \cup {Idle}]
  BY DEF TypeOK

-----------------------------------------------------------------------------
(* Steps of the handlers. *)

(* While a handler has a click in hand, or may take one, the runner does   *)
(* not save anything it may not save beside it.                            *)
LEMMA NoSaveOpen ==
  ASSUME RoomShape, NEW t \in Threads, thread[t] # Idle \/ HandlerMayLoad
  PROVE  /\ "runner" \notin scenario.overlap => ~Holding /\ ~InSave(runner.phase)
         /\ Serial => ~InSave(runner.phase)
  BY DEF RoomShape, Exclusion, HandlerMayLoad, AllIdle, Serial

LEMMA Alone ==
  ASSUME RoomShape, NEW t \in Threads, thread[t] # Idle \/ HandlerMayLoad,
         "handlers" \notin scenario.overlap
  PROVE  \A u \in Threads : u # t => thread[u] = Idle
  BY DEF RoomShape, Exclusion, HandlerMayLoad, AllIdle

LEMMA HandlerKeeps ==
  ASSUME RoomInv, NEW t \in Threads, NEW new \in Handler \cup {Idle},
         thread' = [thread EXCEPT ![t] = new],
         UNCHANGED <<scenario, runner, done, typed>>,
         thread[t] # Idle \/ HandlerMayLoad,
         new # Idle => Waiting(new.copy[new.gate]),
         new.phase = "vault_save" => HandlerMayOpen,
         file' \in File, captureLog' \subseteq Gates \X Targets, minted' \in [Gates -> 0..2],
         vault' \subseteq Targets, clicked' \subseteq Gates, deaths' \in 0..MaxDeaths,
         VaultShared /\ AllHonest =>
           /\ vault' = vault \/ (~Holding /\ vault \subseteq vault')
           /\ clicked \subseteq clicked'
           /\ HonestOf(file', vault', clicked', typed')
           /\ new # Idle => HonestOf(new.copy, vault', clicked', typed') /\ CaptureBacked(new, vault'),
         Serial /\ CopiesFresh /\ MintedOnce =>
           /\ new # Idle /\ new.phase # "resume_log" => new.copy = file'
           /\ MintedOnce'
  PROVE  RoomInv'
  <1>1. /\ thread'[t] = new
        /\ \A u \in Threads : u # t => thread'[u] = thread[u]
        /\ thread' \in [Threads -> Handler \cup {Idle}]
    BY HandlerMoves DEF RoomInv, RoomShape
  <1>2. TypeOK'
    BY <1>1 DEF RoomInv, RoomShape, TypeOK
  <1>3. WellFormed'
    BY <1>1 DEF RoomInv, RoomShape, WellFormed, RunnerFits
  <1>4. Exclusion'
    <2>1. "handlers" \notin scenario.overlap => \A u \in Threads : u # t => thread'[u] = Idle
      BY <1>1, Alone DEF RoomInv
    <2>2. "runner" \notin scenario.overlap => ~Holding' /\ ~InSave(runner.phase)'
      BY NoSaveOpen DEF RoomInv, Holding, InSave
    <2>3. "vault" \notin scenario.overlap /\ Holding' => NoneOpen'
      BY <1>1 DEF RoomInv, RoomShape, Exclusion, NoneOpen, On, HandlerMayOpen, Holding
    <2> QED
      BY <2>1, <2>2, <2>3 DEF Exclusion
  <1>5. Backed'
    <2> SUFFICES ASSUME VaultShared PROVE AllHonest'
      BY DEF Backed, VaultShared
    <2>1. /\ AllHonest /\ vault \subseteq vault' /\ clicked \subseteq clicked'
          /\ vault' = vault \/ ~Holding
      BY DEF RoomInv, Backed
    <2>2. \A u \in Threads : u # t => thread'[u] = Idle
      BY <1>1, Alone DEF RoomInv, VaultShared
    <2>3. Holding' => vault' \subseteq runner.secrets
      BY <2>1 DEF AllHonest, Holding
    <2>4. InSave(runner.phase) => HonestOf(runner.copy, vault', clicked', typed')
      BY <2>1 DEF AllHonest, Honest, HonestOf, EarnedBy
    <2>5. \A g \in Gates : EarnedBy(g, vault, clicked, typed) => EarnedBy(g, vault', clicked', typed')
      BY <2>1 DEF EarnedBy
    <2>6. runner.gate \in Gates
      BY RunnerType DEF RoomInv, RoomShape
    <2>7. \A g \in TokenGates \cap done : HasToken(g)'
      BY <2>1 DEF AllHonest, HasToken
    <2> QED
      BY <1>1, <2>1, <2>2, <2>3, <2>4, <2>5, <2>6, <2>7 DEF AllHonest, Honest
  <1>6. InStep'
    <2> SUFFICES ASSUME Serial PROVE CopiesFresh' /\ MintedOnce'
      BY DEF InStep, Serial
    <2>1. CopiesFresh /\ MintedOnce /\ ~InSave(runner.phase)
      BY NoSaveOpen DEF RoomInv, InStep
    <2>2. \A u \in Threads : u # t => thread'[u] = Idle
      BY <1>1, Alone DEF RoomInv, Serial
    <2> QED
      BY <1>1, <2>1, <2>2 DEF CopiesFresh, InSave, On
  <1> QED
    BY <1>2, <1>3, <1>4, <1>5, <1>6 DEF RoomInv, RoomShape

(* A click takes the file as its copy.                                     *)
LEMMA ClickKeeps ==
  ASSUME RoomInv, NEW t \in Threads, Click(t), UNCHANGED scenario
  PROVE  RoomInv'
  <1>1. PICK g \in Gates, x \in Targets, phase \in {"open", "resume", "vault", "mark"} :
          /\ thread[t] = Idle /\ HandlerMayLoad /\ Waiting(file[g])
          /\ Handle(t, g, x, phase)
          /\ phase = "resume" => TargetsOf[g] \subseteq file[g].captured
          /\ phase = "mark" => x \in file[g].captured
          /\ phase \in {"vault", "mark"} /\ x \in file[g].captured
               => TargetsOf[g] \subseteq file[g].captured
    <2>1. PICK g \in Gates : \/ ClickFinished(t, g) \/ ClickOpen(t, g)
                             \/ \E x \in Targets : _capture_gate_clipboard_secret(t, g, x)
      BY DEF Click
    <2>2. AnyTarget \in Targets
      BY TargetAssumption DEF AnyTarget
    <2>3. CASE ClickFinished(t, g) \/ ClickOpen(t, g)
      BY <2>2, <2>3 DEF ClickFinished, ClickOpen
    <2>4. CASE \E x \in Targets : _capture_gate_clipboard_secret(t, g, x)
      BY <2>4 DEF _capture_gate_clipboard_secret
    <2> QED
      BY <2>1, <2>3, <2>4
  <1>2. UNCHANGED <<file, captureLog, minted, vault, runner, done, clicked, typed, deaths>>
    BY DEF Click, ClickFinished, ClickOpen, _capture_gate_clipboard_secret
  <1> DEFINE new == [phase |-> phase, gate |-> g, target |-> x, copy |-> file, secrets |-> {}]
  <1>3. /\ new \in Handler /\ new.phase = phase /\ new.gate = g /\ new.target = x
        /\ new.copy = file
    BY DEF Handler, RoomInv, RoomShape, TypeOK
  <1>4. thread' = [thread EXCEPT ![t] = new]
    BY <1>1 DEF Handle
  <1> HIDE DEF new
  <1>5. VaultShared /\ AllHonest => HonestOf(file, vault, clicked, typed) /\ CaptureBacked(new, vault)
    BY <1>1, <1>3 DEF AllHonest, Honest, HonestOf, CaptureBacked
  <1>6. MintedOnce => MintedOnce'
    BY <1>2 DEF MintedOnce
  <1> QED
    BY <1>1, <1>2, <1>3, <1>4, <1>5, <1>6, HandlerKeeps DEF RoomInv, RoomShape, TypeOK

(* A handler that ends, having saved copy or nothing.                      *)
LEMMA EndKeeps ==
  ASSUME RoomInv, NEW t \in Threads, thread[t] # Idle, End(t),
         UNCHANGED <<scenario, runner, done, typed, vault, clicked, minted>>,
         captureLog' \subseteq Gates \X Targets, deaths' \in 0..MaxDeaths,
         \/ UNCHANGED file
         \/ /\ file' = [thread[t].copy EXCEPT ![thread[t].gate] = mark_opened(@)]
            /\ ~On(t, "resume_log")
  PROVE  RoomInv'
  <1> DEFINE h == thread[t]
  <1>1. /\ h.gate \in Gates /\ h.copy \in File /\ h.copy[h.gate] \in GateRecord
        /\ Waiting(h.copy[h.gate])
    BY HandlerType DEF RoomInv, RoomShape, WellFormed
  <1>2. /\ mark_opened(h.copy[h.gate]) \in GateRecord
        /\ mark_opened(h.copy[h.gate]).captured = h.copy[h.gate].captured
        /\ mark_opened(h.copy[h.gate]).status = h.copy[h.gate].status
    BY <1>1, RecordTypes, RecordFields
  <1>3. file' \in File /\ (VaultShared /\ AllHonest => HonestOf(file', vault, clicked, typed))
    BY <1>1, <1>2 DEF RoomInv, RoomShape, TypeOK, File, AllHonest, Honest, HonestOf
  <1>4. Serial /\ CopiesFresh /\ MintedOnce => MintedOnce'
    BY <1>1, <1>2 DEF CopiesFresh, MintedOnce, File
  <1> QED
    BY <1>3, <1>4, HandlerKeeps DEF End, Idle, RoomInv, RoomShape, TypeOK

LEMMA NotIdle ==
  ASSUME NEW t, NEW phase, phase # "idle", On(t, phase)
  PROVE  thread[t] # Idle
  BY DEF On, Idle

(* What is known of a handler that has a click in hand.                    *)
LEMMA InHand ==
  ASSUME RoomInv, NEW t \in Threads, thread[t] # Idle
  PROVE  /\ thread[t].gate \in Gates /\ thread[t].target \in Targets
         /\ thread[t].copy \in File /\ thread[t].secrets \in SUBSET Targets
         /\ thread[t].copy[thread[t].gate] \in GateRecord
         /\ Waiting(thread[t].copy[thread[t].gate])
         /\ VaultShared /\ AllHonest =>
              HonestOf(thread[t].copy, vault, clicked, typed) /\ CaptureBacked(thread[t], vault)
         /\ Serial /\ CopiesFresh /\ ~On(t, "resume_log") => thread[t].copy = file
  BY HandlerType DEF RoomInv, RoomShape, WellFormed, AllHonest, Honest, CopiesFresh

LEMMA VaultOpenKeeps ==
  ASSUME RoomInv, NEW t \in Threads, VaultOpen(t), UNCHANGED scenario
  PROVE  RoomInv'
  <1> DEFINE new == [thread[t] EXCEPT !.phase = "vault_save", !.secrets = vault]
  <1>1. thread[t] # Idle /\ thread[t].phase = "vault" /\ vault \in SUBSET Targets
    BY NotIdle DEF VaultOpen, On, RoomInv, RoomShape, TypeOK
  <1>2. /\ new \in Handler
        /\ new.phase = "vault_save" /\ new.copy = thread[t].copy /\ new.secrets = vault
        /\ new.gate = thread[t].gate /\ new.target = thread[t].target
    BY <1>1, InHand, HandlerType DEF Handler, RoomInv, RoomShape
  <1>3. thread' = [thread EXCEPT ![t] = new]
    BY DEF VaultOpen
  <1> HIDE DEF new
  <1>4. /\ UNCHANGED <<file, captureLog, minted, vault, runner, done, clicked, typed, deaths>>
        /\ HandlerMayOpen
    BY DEF VaultOpen
  <1>5. VaultShared /\ AllHonest =>
          HonestOf(new.copy, vault, clicked, typed) /\ CaptureBacked(new, vault)
    BY <1>1, <1>2, InHand DEF CaptureBacked
  <1>6. MintedOnce => MintedOnce'
    BY <1>4 DEF MintedOnce
  <1> QED
    BY <1>1, <1>2, <1>3, <1>4, <1>5, <1>6, InHand, HandlerKeeps
    DEF RoomInv, RoomShape, TypeOK, AllHonest, Honest, On

LEMMA VaultSaveKeeps ==
  ASSUME RoomInv, NEW t \in Threads, VaultSave(t), UNCHANGED scenario
  PROVE  RoomInv'
  <1> DEFINE new == [thread[t] EXCEPT !.phase = "mark"]
  <1>1. thread[t] # Idle /\ thread[t].phase = "vault_save"
    BY NotIdle DEF VaultSave, On
  <1>2. /\ new \in Handler
        /\ new.phase = "mark" /\ new.copy = thread[t].copy
        /\ new.gate = thread[t].gate /\ new.target = thread[t].target
    BY <1>1, InHand, HandlerType DEF Handler, RoomInv, RoomShape
  <1>3. thread' = [thread EXCEPT ![t] = new]
    BY DEF VaultSave, Then
  <1> HIDE DEF new
  <1>4. /\ UNCHANGED <<file, captureLog, minted, runner, done, clicked, typed, deaths>>
        /\ vault' = thread[t].secrets \cup {thread[t].target}
        /\ vault' \subseteq Targets
    BY <1>1, InHand DEF VaultSave
  <1>5. ASSUME VaultShared, AllHonest
        PROVE  /\ vault \subseteq vault' /\ ~Holding /\ HonestOf(file, vault', clicked, typed)
               /\ HonestOf(new.copy, vault', clicked, typed) /\ CaptureBacked(new, vault')
    <2>1. vault \subseteq vault' /\ thread[t].target \in vault'
      BY <1>1, <1>4, <1>5, InHand DEF CaptureBacked
    <2>2. HonestOf(file, vault', clicked, typed) /\ HonestOf(new.copy, vault', clicked, typed)
      BY <1>1, <1>2, <1>5, <2>1, InHand DEF AllHonest, Honest, HonestOf, EarnedBy
    <2>3. CaptureBacked(new, vault')
      BY <1>1, <1>2, <1>5, <2>1, InHand DEF CaptureBacked
    <2>4. ~Holding
      BY <1>1, <1>5 DEF RoomInv, RoomShape, Exclusion, VaultShared, NoneOpen, On
    <2> QED
      BY <2>1, <2>2, <2>3, <2>4
  <1>6. MintedOnce => MintedOnce'
    BY <1>4 DEF MintedOnce
  <1> QED
    BY <1>1, <1>2, <1>3, <1>4, <1>5, <1>6, InHand, HandlerKeeps
    DEF RoomInv, RoomShape, TypeOK, On

LEMMA MarkKeeps ==
  ASSUME RoomInv, NEW t \in Threads, MarkCaptured(t), UNCHANGED scenario
  PROVE  RoomInv'
  <1> DEFINE h == thread[t]
             marked == mark_captured(h.copy[h.gate], h.target)
             copy == [h.copy EXCEPT ![h.gate] = marked]
  <1>1. h # Idle /\ h.phase = "mark"
    BY NotIdle DEF MarkCaptured, On
  <1>2. /\ h.gate \in Gates /\ h.target \in Targets /\ h.copy \in File
        /\ h.secrets \in SUBSET Targets
        /\ h.copy[h.gate] \in GateRecord /\ Waiting(h.copy[h.gate])
    BY <1>1, InHand
  <1>3. /\ marked \in GateRecord
        /\ marked.captured = h.copy[h.gate].captured \cup {h.target}
        /\ marked.status = h.copy[h.gate].status
    <2>1. \A x \in Targets : mark_captured(h.copy[h.gate], x) \in GateRecord
      BY <1>2, RecordTypes
    <2>2. \A x : /\ mark_captured(h.copy[h.gate], x).captured = h.copy[h.gate].captured \cup {x}
                /\ mark_captured(h.copy[h.gate], x).status = h.copy[h.gate].status
      BY <1>2, RecordFields
    <2> QED
      BY <1>2, <2>1, <2>2
  <1>4. UNCHANGED <<captureLog, minted, vault, runner, done, clicked, typed, deaths>>
    BY DEF MarkCaptured
  <1>5. CASE /\ h.target \in h.copy[h.gate].captured
             /\ UNCHANGED file /\ Then(t, "resume")
    <2> DEFINE new == [h EXCEPT !.phase = "resume"]
    <2>1. /\ new \in Handler /\ new.phase = "resume" /\ new.copy = h.copy
          /\ new.gate = h.gate /\ new.target = h.target
      BY <1>1, <1>2, HandlerType DEF Handler, RoomInv, RoomShape
    <2>2. thread' = [thread EXCEPT ![t] = new]
      BY <1>5 DEF Then
    <2> HIDE DEF new
    <2>3. VaultShared /\ AllHonest =>
            HonestOf(new.copy, vault, clicked, typed) /\ CaptureBacked(new, vault)
      BY <1>1, <1>5, <2>1, InHand DEF CaptureBacked
    <2>4. MintedOnce => MintedOnce'
      BY <1>4, <1>5 DEF MintedOnce
    <2> QED
      BY <1>1, <1>2, <1>4, <1>5, <2>1, <2>2, <2>3, <2>4, InHand, HandlerKeeps
      DEF RoomInv, RoomShape, TypeOK, AllHonest, Honest, On
  <1>6. CASE /\ file' = copy
             /\ thread' = [thread EXCEPT ![t] = [@ EXCEPT !.phase = "mark_log", !.copy = copy]]
    <2> DEFINE new == [h EXCEPT !.phase = "mark_log", !.copy = copy]
    <2>1. copy \in File
      BY <1>2, <1>3 DEF File
    <2>2. /\ new \in Handler /\ new.phase = "mark_log" /\ new.copy = copy
          /\ new.gate = h.gate /\ new.target = h.target
      BY <1>1, <1>2, <2>1, HandlerType DEF Handler, RoomInv, RoomShape
    <2>3. thread' = [thread EXCEPT ![t] = new]
      BY <1>6
    <2>4. \A g \in Gates : copy[g] = IF g = h.gate THEN marked ELSE h.copy[g]
      BY <1>2 DEF File
    <2> HIDE DEF new, copy, marked
    <2>5. VaultShared /\ AllHonest =>
            HonestOf(copy, vault, clicked, typed) /\ CaptureBacked(new, vault)
      BY <1>1, <1>2, <1>3, <2>2, <2>4, InHand DEF CaptureBacked, HonestOf
    <2>6. Serial /\ CopiesFresh /\ MintedOnce => MintedOnce'
      BY <1>1, <1>3, <1>4, <1>6, <2>4, InHand DEF MintedOnce, On
    <2>7. Waiting(new.copy[new.gate])
      BY <1>2, <1>3, <2>2, <2>4 DEF Waiting
    <2> QED
      BY <1>1, <1>4, <1>6, <2>1, <2>2, <2>3, <2>5, <2>6, <2>7, HandlerKeeps
      DEF RoomInv, RoomShape, TypeOK
  <1> QED
    BY <1>5, <1>6 DEF MarkCaptured

LEMMA AppendKeeps ==
  ASSUME RoomInv, NEW t \in Threads, AppendCaptured(t), UNCHANGED scenario
  PROVE  RoomInv'
  <1>1. thread[t] # Idle /\ thread[t].phase = "mark_log"
    BY NotIdle DEF AppendCaptured, On
  <1>2. /\ UNCHANGED <<file, minted, vault, runner, done, clicked, typed, deaths>>
        /\ captureLog' \subseteq Gates \X Targets
    BY <1>1, InHand DEF AppendCaptured, RoomInv, RoomShape, TypeOK
  <1>3. CASE End(t)
    BY <1>1, <1>2, <1>3, EndKeeps DEF RoomInv, RoomShape, TypeOK
  <1>4. CASE AllCaptured(t, thread[t].copy) /\ Then(t, "resume")
    <2> DEFINE new == [thread[t] EXCEPT !.phase = "resume"]
    <2>1. /\ new \in Handler /\ new.phase = "resume" /\ new.copy = thread[t].copy
          /\ new.gate = thread[t].gate /\ new.target = thread[t].target
      BY <1>1, InHand, HandlerType DEF Handler, RoomInv, RoomShape
    <2>2. thread' = [thread EXCEPT ![t] = new]
      BY <1>4 DEF Then
    <2> HIDE DEF new
    <2>3. VaultShared /\ AllHonest =>
            HonestOf(new.copy, vault, clicked, typed) /\ CaptureBacked(new, vault)
      BY <1>1, <1>4, <2>1, InHand DEF CaptureBacked, AllCaptured
    <2>4. MintedOnce => MintedOnce'
      BY <1>2 DEF MintedOnce
    <2> QED
      BY <1>1, <1>2, <2>1, <2>2, <2>3, <2>4, InHand, HandlerKeeps
      DEF RoomInv, RoomShape, TypeOK, AllHonest, Honest, On
  <1> QED
    BY <1>3, <1>4 DEF AppendCaptured

LEMMA ResumeKeeps ==
  ASSUME RoomInv, NEW t \in Threads, RequestResume(t), UNCHANGED scenario
  PROVE  RoomInv'
  <1> DEFINE h == thread[t]
             resumed == request_resume(h.copy[h.gate])
             new == [h EXCEPT !.phase = "resume_log"]
  <1>1. h # Idle /\ h.phase = "resume"
    BY NotIdle DEF RequestResume, On
  <1>2. /\ h.gate \in Gates /\ h.copy \in File /\ h.copy[h.gate] \in GateRecord
        /\ h.secrets \in SUBSET Targets /\ Waiting(h.copy[h.gate])
    BY <1>1, InHand
  <1>3. /\ resumed \in GateRecord /\ resumed.status = "resume_requested"
        /\ resumed.captured = h.copy[h.gate].captured
    BY <1>2, RecordTypes, RecordFields
  <1>4a. ~Resuming(h.copy[h.gate])
    BY <1>2 DEF Resuming, Waiting
  <1>4. /\ UNCHANGED <<captureLog, vault, runner, done, typed, deaths>>
        /\ clicked' = clicked \cup {h.gate}
        /\ file' = [h.copy EXCEPT ![h.gate] = resumed]
        /\ minted' = [minted EXCEPT ![h.gate] = IF @ = 2 THEN 2 ELSE @ + 1]
        /\ thread' = [thread EXCEPT ![t] = new]
    BY <1>4a DEF RequestResume, Then
  <1>5. /\ new \in Handler /\ new.phase = "resume_log" /\ new.copy = h.copy
        /\ new.gate = h.gate /\ new.target = h.target
    BY <1>1, <1>2, InHand, HandlerType DEF Handler, RoomInv, RoomShape
  <1> HIDE DEF new, resumed
  <1>6. /\ file' \in File
        /\ \A g \in Gates : file'[g] = IF g = h.gate THEN resumed ELSE h.copy[g]
    BY <1>2, <1>3, <1>4 DEF File
  <1>7. /\ minted' \in [Gates -> 0..2]
        /\ \A g \in Gates : minted'[g] = IF g # h.gate THEN minted[g]
                                         ELSE IF minted[g] = 2 THEN 2 ELSE minted[g] + 1
    BY <1>2, <1>4 DEF RoomInv, RoomShape, TypeOK
  <1>8. ASSUME VaultShared, AllHonest
        PROVE  /\ HonestOf(file', vault', clicked', typed') /\ HonestOf(new.copy, vault', clicked', typed')
               /\ CaptureBacked(new, vault')
    <2>1. /\ TargetsOf[h.gate] \subseteq h.copy[h.gate].captured
          /\ h.copy[h.gate].captured \subseteq vault
          /\ HonestOf(h.copy, vault, clicked, typed)
      BY <1>1, <1>2, <1>8, InHand DEF CaptureBacked, HonestOf
    <2>2. HonestOf(h.copy, vault', clicked', typed')
      BY <1>4, <2>1 DEF HonestOf, EarnedBy
    <2>3. HonestOf(file', vault', clicked', typed')
      BY <1>3, <1>4, <1>6, <2>1, <2>2 DEF HonestOf
    <2> QED
      BY <1>5, <2>2, <2>3 DEF CaptureBacked
  <1>9. Serial /\ CopiesFresh /\ MintedOnce => MintedOnce'
    <2> SUFFICES ASSUME Serial, CopiesFresh, MintedOnce PROVE MintedOnce'
      OBVIOUS
    <2>1. h.copy = file
      BY <1>1, InHand DEF On
    <2>2. minted[h.gate] = 0
      BY <1>2, <2>1 DEF MintedOnce, Waiting
    <2> QED
      BY <1>2, <1>3, <1>6, <1>7, <2>1, <2>2 DEF MintedOnce
  <1> QED
    BY <1>1, <1>2, <1>4, <1>5, <1>6, <1>7, <1>8, <1>9, HandlerKeeps
    DEF RoomInv, RoomShape, TypeOK

LEMMA HandlerStep ==
  ASSUME RoomInv, NEW t \in Threads, Click(t) \/ ThreadStep(t) \/ ThreadDies(t),
         UNCHANGED scenario
  PROVE  RoomInv'
  <1>1. CASE OpenSave(t)
    BY <1>1, NotIdle, EndKeeps DEF OpenSave, On, RoomInv, RoomShape, TypeOK
  <1>2. CASE AppendResume(t)
    BY <1>2, NotIdle, EndKeeps DEF AppendResume, RoomInv, RoomShape, TypeOK
  <1>3. CASE ThreadDies(t)
    BY <1>3, EndKeeps, DeathsAssumption DEF ThreadDies, RoomInv, RoomShape, TypeOK
  <1> QED
    BY <1>1, <1>2, <1>3, ClickKeeps, VaultOpenKeeps, VaultSaveKeeps, MarkKeeps, AppendKeeps,
       ResumeKeeps DEF ThreadStep

-----------------------------------------------------------------------------
(* Steps of the runner. *)

LEMMA RunnerKeeps ==
  ASSUME RoomInv, runner' \in Runner, UNCHANGED <<scenario, thread, captureLog, clicked>>,
         done' \subseteq Gates, file' \in File, minted' \in [Gates -> 0..2],
         vault' \subseteq Targets, deaths' \in 0..MaxDeaths,
         typed' \subseteq Gates, typed \subseteq typed',
         RunnerFits(runner'),
         (InSave(runner.phase) \/ Holding)' => RunnerMayLoad,
         Holding' /\ "vault" \notin scenario.overlap => NoneOpen,
         VaultShared /\ AllHonest =>
           /\ vault' = vault \/ (NoneOpen /\ vault \subseteq vault')
           /\ HonestOf(file', vault', clicked, typed')
           /\ InSave(runner'.phase) => HonestOf(runner'.copy, vault', clicked, typed')
           /\ Holding' => vault' \subseteq runner'.secrets
           /\ Passing(runner'.phase) => EarnedBy(runner'.gate, vault', clicked, typed')
           /\ \A g \in TokenGates \cap (done' \ done) : HasToken(g)',
         Serial /\ CopiesFresh /\ MintedOnce =>
           /\ file' = file \/ AllIdle
           /\ InSave(runner'.phase) => runner'.copy = file'
           /\ MintedOnce'
  PROVE  RoomInv'
  <1>1. TypeOK'
    BY DEF RoomInv, RoomShape, TypeOK
  <1>2. WellFormed'
    BY DEF RoomInv, RoomShape, WellFormed, RunnerFits
  <1>3. Exclusion'
    BY DEF RoomInv, RoomShape, Exclusion, RunnerMayLoad, AllIdle, NoneOpen, On
  <1>4. Backed'
    <2> SUFFICES ASSUME VaultShared PROVE AllHonest'
      BY DEF Backed, VaultShared
    <2>1. AllHonest
      BY DEF RoomInv, Backed
    <2>2. \A t \in Threads : thread'[t] # Idle =>
            HonestOf(thread'[t].copy, vault', clicked', typed') /\ CaptureBacked(thread'[t], vault')
      <3> SUFFICES ASSUME NEW t \in Threads, thread[t] # Idle
                   PROVE  /\ HonestOf(thread[t].copy, vault', clicked, typed')
                          /\ CaptureBacked(thread[t], vault')
        OBVIOUS
      <3>1. HonestOf(thread[t].copy, vault, clicked, typed) /\ CaptureBacked(thread[t], vault)
        BY <2>1 DEF AllHonest, Honest
      <3>2. vault \subseteq vault' /\ (vault' = vault \/ thread[t].phase # "vault_save")
        BY <2>1 DEF NoneOpen, On
      <3>3. CaptureBacked(thread[t], vault')
        BY <3>1, <3>2 DEF CaptureBacked
      <3>4. HonestOf(thread[t].copy, vault', clicked, typed')
        BY <3>1, <3>2 DEF HonestOf, EarnedBy
      <3> QED
        BY <3>3, <3>4
    <2>3. \A g \in TokenGates \cap done' : HasToken(g)'
      BY <2>1 DEF AllHonest, HasToken
    <2> QED
      BY <2>1, <2>2, <2>3 DEF AllHonest, Honest
  <1>5. InStep'
    BY DEF RoomInv, InStep, Serial, CopiesFresh, On, AllIdle
  <1> QED
    BY <1>1, <1>2, <1>3, <1>4, <1>5 DEF RoomInv, RoomShape

(* The runner goes to another phase and lets go of its copy.               *)
LEMMA GotoType ==
  ASSUME TypeOK,
         NEW phase \in {"next", "wait", "token", "apply_save", "sleep", "done", "failed"},
         Goto(phase)
  PROVE  /\ runner' \in Runner /\ runner'.phase = phase /\ runner'.copy = NoCopy
         /\ runner'.gate = runner.gate /\ runner'.secrets = runner.secrets
         /\ ~InSave(runner'.phase) /\ ~Passing(runner'.phase)
         /\ Holding' <=> runner.gate \in PackGates /\ phase \in {"wait", "apply_save"}
  BY RunnerType DEF TypeOK, Runner, Goto, InSave, Holding, Passing

(* Steps of the runner that save nothing.                                  *)
Unwritten == UNCHANGED <<file, captureLog, minted, vault, thread, clicked, deaths>>

LEMMA LookingKeeps ==
  ASSUME RoomInv, runner' \in Runner, Unwritten, UNCHANGED scenario, done' \subseteq Gates,
         typed' \subseteq Gates, typed \subseteq typed',
         RunnerFits(runner'),
         (InSave(runner.phase) \/ Holding)' => RunnerMayLoad,
         Holding' /\ "vault" \notin scenario.overlap => NoneOpen,
         InSave(runner'.phase) => runner'.copy = file,
         VaultShared /\ AllHonest =>
           /\ Holding' => vault \subseteq runner'.secrets
           /\ Passing(runner'.phase) => EarnedBy(runner'.gate, vault, clicked, typed')
           /\ \A g \in TokenGates \cap (done' \ done) : HasToken(g)
  PROVE  RoomInv'
  <1>1. /\ file' \in File /\ minted' \in [Gates -> 0..2] /\ vault' \subseteq Targets
        /\ deaths' \in 0..MaxDeaths
    BY DEF Unwritten, RoomInv, RoomShape, TypeOK
  <1>2. MintedOnce => MintedOnce'
    BY DEF Unwritten, MintedOnce
  <1>3. AllHonest => HonestOf(file, vault, clicked, typed')
    BY DEF AllHonest, Honest, HonestOf, EarnedBy
  <1>4. \A g : HasToken(g)' <=> HasToken(g)
    BY DEF Unwritten, HasToken
  <1> QED
    BY <1>1, <1>2, <1>3, <1>4, RunnerKeeps DEF Unwritten

(* What a runner that is past its check may do next.                       *)
LEMMA HeldByRunner ==
  ASSUME RoomInv
  PROVE  /\ RunnerFits(runner)
         /\ (InSave(runner.phase) \/ Holding) => RunnerMayLoad
         /\ Holding /\ "vault" \notin scenario.overlap => NoneOpen
         /\ RunnerMayOpen => RunnerMayLoad /\ ("vault" \notin scenario.overlap => NoneOpen)
         /\ scenario.gates \subseteq Gates /\ scenario.env \subseteq Targets
  BY ScenarioAssumption
  DEF RoomInv, RoomShape, TypeOK, Scenario, WellFormed, Exclusion, RunnerMayLoad, RunnerMayOpen,
      NoneOpen

LEMMA LaunchOpenKeeps ==
  ASSUME RoomInv, LaunchOpen, UNCHANGED scenario
  PROVE  RoomInv'
  <1>1. /\ runner' \in Runner /\ runner'.phase = "start_save" /\ runner'.secrets = vault
        /\ RunnerMayOpen
    BY DEF LaunchOpen, RoomInv, RoomShape, TypeOK, Runner
  <1>2. Unwritten /\ done' = done /\ done \subseteq Gates /\ typed' = typed /\ typed \subseteq Gates
    BY DEF LaunchOpen, Unwritten, RoomInv, RoomShape, TypeOK
  <1> QED
    BY <1>1, <1>2, HeldByRunner, LookingKeeps DEF RunnerFits, InSave, Passing

(* The two saves of the vault in which the runner takes nothing out.       *)
LEMMA VaultSavedKeeps ==
  ASSUME RoomInv, UNCHANGED <<scenario, file, captureLog, minted, thread, clicked, typed, deaths>>,
         Holding, vault' = runner.secrets,
         NEW phase \in {"next", "sleep"}, Goto(phase),
         phase = "sleep" => runner.gate \in scenario.gates,
         done' \subseteq Gates,
         \A g \in TokenGates \cap (done' \ done) : TargetsOf[g] \subseteq runner.secrets
  PROVE  RoomInv'
  <1>1. /\ runner' \in Runner /\ runner'.phase = phase /\ runner'.gate = runner.gate
        /\ ~InSave(runner'.phase) /\ ~Holding' /\ ~Passing(runner'.phase)
    BY GotoType DEF RoomInv, RoomShape
  <1>2. RunnerFits(runner')
    BY <1>1 DEF RunnerFits
  <1>3. /\ vault' \subseteq Targets /\ deaths' \in 0..MaxDeaths
        /\ file' \in File /\ minted' \in [Gates -> 0..2]
        /\ typed' \subseteq Gates /\ typed \subseteq typed'
    BY RunnerType DEF RoomInv, RoomShape, TypeOK
  <1>4. ASSUME VaultShared, AllHonest
        PROVE  /\ NoneOpen /\ vault \subseteq vault'
               /\ HonestOf(file', vault', clicked, typed')
               /\ \A g \in TokenGates \cap (done' \ done) : HasToken(g)'
    <2>1. NoneOpen
      BY <1>4, HeldByRunner DEF VaultShared
    <2>2. vault \subseteq vault'
      BY <1>4 DEF AllHonest
    <2>3. HonestOf(file, vault, clicked, typed)
      BY <1>4 DEF AllHonest, Honest
    <2>4. HonestOf(file', vault', clicked, typed')
      BY <2>2, <2>3 DEF HonestOf, EarnedBy
    <2>5. \A g \in TokenGates \cap (done' \ done) : HasToken(g)'
      BY DEF HasToken
    <2> QED
      BY <2>1, <2>2, <2>4, <2>5
  <1>5. MintedOnce => MintedOnce'
    BY DEF MintedOnce
  <1> QED
    BY <1>1, <1>2, <1>3, <1>4, <1>5, RunnerKeeps

LEMMA LaunchSaveKeeps ==
  ASSUME RoomInv, LaunchSave, UNCHANGED scenario
  PROVE  RoomInv'
  <1>1. /\ UNCHANGED <<scenario, file, captureLog, minted, thread, clicked, typed, deaths>>
        /\ Holding /\ vault' = runner.secrets /\ Goto("next") /\ done' = done /\ done \subseteq Gates
    BY DEF LaunchSave, Holding, RoomInv, RoomShape, TypeOK
  <1> QED
    BY <1>1, VaultSavedKeeps

LEMMA AuthorizedKeeps ==
  ASSUME RoomInv, _authorize_provider, UNCHANGED scenario
  PROVE  RoomInv'
  <1>1. /\ UNCHANGED <<scenario, file, captureLog, minted, thread, clicked, typed, deaths>>
        /\ Holding /\ vault' = runner.secrets /\ Goto("next")
        /\ runner.phase = "token_save" /\ done' = done \cup {runner.gate}
    BY DEF _authorize_provider, Holding
  <1>2. TargetsOf[runner.gate] \subseteq runner.secrets
    BY <1>1, HeldByRunner DEF RunnerFits
  <1>3. done' \subseteq Gates
    BY <1>1, RunnerType DEF RoomInv, RoomShape, TypeOK
  <1> QED
    BY <1>1, <1>2, <1>3, VaultSavedKeeps

(* The apply has all of the vault in its copy.                             *)
LEMMA WriteArtifactsKeeps ==
  ASSUME RoomInv, _write_apply_artifacts, UNCHANGED scenario
  PROVE  RoomInv'
  <1>1. /\ runner.phase = "apply_save" /\ runner.gate \in PackGates \cap scenario.gates /\ Holding
    BY HeldByRunner DEF _write_apply_artifacts, RunnerFits, Holding
  <1>2. /\ UNCHANGED <<scenario, file, captureLog, minted, thread, clicked, typed, deaths>>
        /\ vault' = runner.secrets /\ done' = done /\ done \subseteq Gates
    BY DEF _write_apply_artifacts, RoomInv, RoomShape, TypeOK
  <1>3. PICK phase \in {"next", "sleep"} : Goto(phase)
    BY DEF _write_apply_artifacts
  <1> QED
    BY <1>1, <1>2, <1>3, VaultSavedKeeps

LEMMA SkipKeeps ==
  ASSUME RoomInv, _has_provider_token, UNCHANGED scenario
  PROVE  RoomInv'
  <1>1. PICK g \in TokenGates :
          /\ runner.phase = "next" /\ HasToken(g) /\ done' = done \cup {g}
          /\ UNCHANGED <<file, captureLog, minted, vault, thread, runner, clicked, typed, deaths>>
    BY DEF _has_provider_token, MayBegin
  <1>2. /\ Unwritten /\ done' \subseteq Gates /\ runner' = runner /\ runner \in Runner
        /\ typed' = typed /\ typed \subseteq Gates
    BY <1>1 DEF Unwritten, RoomInv, RoomShape, TypeOK, TokenGates
  <1>3. ~InSave(runner.phase) /\ ~Holding' /\ ~Passing(runner.phase)
    BY <1>1 DEF InSave, Holding, Passing
  <1> QED
    BY <1>1, <1>2, <1>3, HeldByRunner, LookingKeeps

(* Going to check a gate, the runner opens the vault for an apply only.    *)
LEMMA CheckingKeeps ==
  ASSUME RoomInv, Unwritten, UNCHANGED <<scenario, done, typed>>, NEW g \in Gates,
         g \in scenario.gates, g \in PackGates => RunnerMayOpen,
         runner' = [runner EXCEPT !.phase = "check", !.gate = g, !.secrets = Opened(g)]
  PROVE  RoomInv'
  <1>1. Opened(g) \subseteq Targets /\ (g \in PackGates => vault \subseteq Opened(g))
    BY HeldByRunner DEF Opened, RoomInv, RoomShape, TypeOK
  <1>2. /\ runner' \in Runner /\ runner'.phase = "check" /\ runner'.gate = g
        /\ runner'.secrets = Opened(g)
    BY <1>1 DEF RoomInv, RoomShape, TypeOK, Runner
  <1>3. done' = done /\ done \subseteq Gates /\ typed' = typed /\ typed \subseteq Gates
    BY DEF RoomInv, RoomShape, TypeOK
  <1>4. /\ RunnerFits(runner') /\ ~InSave(runner'.phase) /\ ~Passing(runner'.phase)
        /\ Holding' => g \in PackGates
    BY <1>2 DEF RunnerFits, InSave, Holding, Passing
  <1> QED
    BY <1>1, <1>2, <1>3, <1>4, HeldByRunner, LookingKeeps

LEMMA NextGateKeeps ==
  ASSUME RoomInv, NextGate, UNCHANGED scenario
  PROVE  RoomInv'
  BY CheckingKeeps DEF NextGate, MayBegin, Unwritten

LEMMA SleepKeeps ==
  ASSUME RoomInv, _sleep_for_gate, UNCHANGED scenario
  PROVE  RoomInv'
  <1>1. /\ runner.gate \in Gates /\ runner.gate \in scenario.gates
        /\ runner.gate \in PackGates => RunnerMayOpen
    BY HeldByRunner, RunnerType DEF _sleep_for_gate, RunnerFits, RoomInv, RoomShape
  <1>2. runner' = [runner EXCEPT !.phase = "check", !.gate = runner.gate,
                                 !.secrets = Opened(runner.gate)]
    BY DEF _sleep_for_gate, RoomInv, RoomShape, TypeOK, Runner
  <1> QED
    BY <1>1, <1>2, CheckingKeeps DEF _sleep_for_gate, Unwritten

LEMMA CheckKeeps ==
  ASSUME RoomInv, Check, UNCHANGED scenario
  PROVE  RoomInv'
  <1> DEFINE g == runner.gate
  <1>1. runner.phase = "check" /\ g \in Gates /\ TargetsOf[g] \subseteq Targets
    BY RunnerType, TargetsAssumption DEF Check, RoomInv, RoomShape
  <1>2. Unwritten /\ done' \subseteq Gates /\ typed' = typed /\ typed \subseteq Gates
    BY <1>1 DEF Check, Unwritten, RoomInv, RoomShape, TypeOK
  <1>3. PICK phase \in {"apply_save", "pass", "ask", "wait"} :
          /\ runner' = [runner EXCEPT !.phase = phase,
                          !.secrets = IF g \in PackGates THEN @ ELSE TargetsOf[g]]
          /\ phase = "apply_save" => g \in PackGates
          /\ phase = "pass" => g \notin PackGates /\ Satisfied(g)
          /\ phase = "ask" => g \notin PackGates
    BY DEF Check
  <1>4. /\ runner' \in Runner /\ runner'.phase = phase /\ runner'.gate = g
        /\ g \in PackGates => runner'.secrets = runner.secrets
    BY <1>1, <1>3, RunnerType DEF RoomInv, RoomShape, TypeOK, Runner
  <1>5. g \in PackGates => Holding
    BY <1>1 DEF Holding
  <1>6. g \notin PackGates /\ Satisfied(g) /\ AllHonest => EarnedBy(g, vault, clicked, typed)
    BY <1>1 DEF Satisfied, _gate_resume_requested, EarnedBy, AllHonest, Honest, HonestOf
  <1>7. /\ RunnerFits(runner') /\ ~InSave(runner'.phase)
        /\ Holding' => g \in PackGates
        /\ Passing(runner'.phase) => phase = "pass"
    BY <1>1, <1>3, <1>4, HeldByRunner DEF RunnerFits, InSave, Holding, Passing
  <1>8. AllHonest /\ Holding' => vault \subseteq runner'.secrets
    BY <1>4, <1>5, <1>7 DEF AllHonest
  <1>9. done' \ done \subseteq PackGates
    BY DEF Check
  <1> QED
    BY <1>2, <1>3, <1>4, <1>5, <1>6, <1>7, <1>8, <1>9, HeldByRunner, LookingKeeps DEF TokenGates

LEMMA AskKeeps ==
  ASSUME RoomInv, Answer \/ NoAnswer, UNCHANGED scenario
  PROVE  RoomInv'
  <1>1. /\ runner.phase = "ask" /\ runner.gate \in scenario.gates \ PackGates
        /\ runner.gate \in Gates /\ TargetsOf[runner.gate] \subseteq Targets
    BY HeldByRunner, RunnerType, TargetsAssumption
    DEF Answer, NoAnswer, RunnerFits, RoomInv, RoomShape
  <1>2. Unwritten /\ done' = done /\ done \subseteq Gates
    BY DEF Answer, NoAnswer, Unwritten, RoomInv, RoomShape, TypeOK
  <1>3. CASE Answer
    <2>1. PICK secrets \in {{}, TargetsOf[runner.gate]} :
            runner' = [runner EXCEPT !.phase = "pass", !.secrets = secrets]
      BY <1>3 DEF Answer
    <2>2. runner' \in Runner /\ runner'.phase = "pass" /\ runner'.gate = runner.gate
      BY <1>1, <2>1 DEF RoomInv, RoomShape, TypeOK, Runner
    <2>3. typed' \subseteq Gates /\ typed \subseteq typed' /\ runner.gate \in typed'
      BY <1>1, <1>3 DEF Answer, RoomInv, RoomShape, TypeOK
    <2>4. RunnerFits(runner') /\ ~InSave(runner'.phase) /\ ~Holding'
      BY <1>1, <2>2 DEF RunnerFits, InSave, Holding
    <2> QED
      BY <1>2, <2>2, <2>3, <2>4, LookingKeeps DEF EarnedBy
  <1>4. CASE NoAnswer
    <2>1. typed' = typed /\ typed \subseteq Gates /\ Goto("wait")
      BY <1>4 DEF NoAnswer, RoomInv, RoomShape, TypeOK
    <2>2. /\ runner' \in Runner /\ runner'.phase = "wait" /\ runner'.gate = runner.gate
          /\ ~InSave(runner'.phase) /\ ~Passing(runner'.phase) /\ ~Holding'
      BY <1>1, <2>1, GotoType DEF RoomInv, RoomShape
    <2>3. RunnerFits(runner')
      BY <1>1, <2>2 DEF RunnerFits
    <2> QED
      BY <1>2, <2>1, <2>2, <2>3, LookingKeeps
  <1> QED
    BY <1>3, <1>4

LEMMA LoadKeeps ==
  ASSUME RoomInv, WaitLoad \/ PassLoad, UNCHANGED scenario
  PROVE  RoomInv'
  <1>1. PICK phase \in {"wait_save", "pass_wait_save", "pass_save"} :
          /\ runner' = [runner EXCEPT !.phase = phase, !.copy = file]
          /\ phase = "pass_wait_save" => file[runner.gate] = Absent
          /\ phase = "wait_save" => runner.phase = "wait"
          /\ phase # "wait_save" => runner.phase = "pass"
          /\ RunnerMayLoad
    <2>1. CASE WaitLoad
      BY <2>1 DEF WaitLoad
    <2>2. CASE PassLoad
      <3> DEFINE next == IF file[runner.gate] = Absent THEN "pass_wait_save" ELSE "pass_save"
      <3>1. runner' = [runner EXCEPT !.phase = next, !.copy = file]
        BY <2>2, RunnerType DEF PassLoad, RoomInv, RoomShape, TypeOK, Runner
      <3> QED
        BY <2>2, <3>1 DEF PassLoad
    <2> QED
      BY <2>1, <2>2
  <1>2. /\ Unwritten /\ done' = done /\ done \subseteq Gates
        /\ typed' = typed /\ typed \subseteq Gates
    BY DEF WaitLoad, PassLoad, Unwritten, RoomInv, RoomShape, TypeOK
  <1>3. /\ runner' \in Runner /\ runner'.phase = phase /\ runner'.gate = runner.gate
        /\ runner'.copy = file /\ runner'.secrets = runner.secrets
    BY <1>1 DEF RoomInv, RoomShape, TypeOK, Runner
  <1>4. RunnerFits(runner') /\ (Passing(runner'.phase) => runner.phase = "pass")
    BY <1>1, <1>3, HeldByRunner DEF RunnerFits, Passing
  <1>5. Holding' => Holding
    BY <1>1, <1>3, HeldByRunner DEF Holding, RunnerFits
  <1>6. AllHonest /\ runner.phase = "pass" => EarnedBy(runner.gate, vault, clicked, typed)
    BY DEF AllHonest, Passing
  <1>7. AllHonest /\ Holding' => vault \subseteq runner'.secrets
    BY <1>3, <1>5 DEF AllHonest
  <1> QED
    BY <1>1, <1>2, <1>3, <1>4, <1>5, <1>6, <1>7, HeldByRunner, LookingKeeps

(* A copy whose own gate is given another record. *)
LEMMA SavedCopy ==
  ASSUME NEW copy \in File, NEW g \in Gates, NEW record \in GateRecord
  PROVE  /\ [copy EXCEPT ![g] = record] \in File
         /\ \A h \in Gates : [copy EXCEPT ![g] = record][h] = IF h = g THEN record ELSE copy[h]
  BY DEF File

LEMMA RecordWaitingKeeps ==
  ASSUME RoomInv, _record_gate_waiting, UNCHANGED scenario
  PROVE  RoomInv'
  <1> DEFINE g == runner.gate
             waited == wait(runner.copy[g])
  <1>1. /\ runner.phase = "wait_save" /\ InSave(runner.phase) /\ g \in scenario.gates
        /\ g \in Gates /\ runner.copy \in File /\ runner.copy[g] \in GateRecord
    BY RunnerType, HeldByRunner DEF _record_gate_waiting, InSave, RunnerFits, RoomInv, RoomShape
  <1>2. /\ UNCHANGED <<captureLog, vault, thread, done, clicked, typed>>
        /\ done' \subseteq Gates /\ vault' \subseteq Targets /\ deaths' \in 0..MaxDeaths
        /\ typed' = typed /\ typed \subseteq Gates
    BY DEF _record_gate_waiting, RoomInv, RoomShape, TypeOK
  <1>3. PICK phase \in {"apply_save", "sleep"} :
          Goto(phase) /\ (phase = "apply_save" => g \in PackGates)
    BY DEF _record_gate_waiting
  <1>4. /\ runner' \in Runner /\ runner'.phase = phase /\ runner'.gate = g
        /\ runner'.secrets = runner.secrets /\ ~InSave(runner'.phase) /\ ~Passing(runner'.phase)
        /\ Holding' => Holding
    BY <1>1, <1>3, GotoType DEF RoomInv, RoomShape, Holding
  <1>5. \/ UNCHANGED <<file, minted>>
        \/ /\ runner.copy[g].status # "passed"
           /\ file' = [runner.copy EXCEPT ![g] = waited]
           /\ minted' = [minted EXCEPT ![g] = 0]
    BY DEF _record_gate_waiting
  <1>6. /\ waited \in GateRecord /\ waited.captured \subseteq runner.copy[g].captured
        /\ runner.copy[g].status # "passed" => Waiting(waited)
    BY <1>1, RecordTypes, RecordFields
  <1>7. file' \in File /\ minted' \in [Gates -> 0..2]
    BY <1>1, <1>5, <1>6 DEF RoomInv, RoomShape, TypeOK, File
  <1>8. AllHonest => HonestOf(file', vault, clicked, typed)
    <2> SUFFICES ASSUME AllHonest PROVE HonestOf(file', vault, clicked, typed)
      OBVIOUS
    <2>1. HonestOf(runner.copy, vault, clicked, typed) /\ HonestOf(file, vault, clicked, typed)
      BY <1>1 DEF AllHonest, Honest
    <2> HIDE DEF waited
    <2> QED
      BY <1>1, <1>5, <1>6, <2>1, SavedCopy DEF HonestOf, Waiting
  <1>9. Serial /\ CopiesFresh /\ MintedOnce => AllIdle /\ MintedOnce'
    <2> SUFFICES ASSUME Serial, CopiesFresh, MintedOnce PROVE AllIdle /\ MintedOnce'
      OBVIOUS
    <2>1. AllIdle /\ runner.copy = file
      BY <1>1, HeldByRunner DEF CopiesFresh, RunnerMayLoad, Serial
    <2> HIDE DEF waited
    <2> QED
      BY <1>1, <1>5, <1>6, <2>1, SavedCopy DEF MintedOnce, RoomInv, RoomShape, TypeOK
  <1>10. AllHonest /\ Holding' => vault \subseteq runner'.secrets
    BY <1>4 DEF AllHonest
  <1>11. RunnerFits(runner')
    BY <1>1, <1>3, <1>4 DEF RunnerFits
  <1> QED
    BY <1>1, <1>2, <1>4, <1>7, <1>8, <1>9, <1>10, <1>11, HeldByRunner, RunnerKeeps

LEMMA PassWaitKeeps ==
  ASSUME RoomInv, PassWait, UNCHANGED scenario
  PROVE  RoomInv'
  <1> DEFINE g == runner.gate
             waited == wait(runner.copy[g])
             copy == [runner.copy EXCEPT ![g] = waited]
  <1>1. /\ runner.phase = "pass_wait_save" /\ InSave(runner.phase) /\ Passing(runner.phase)
        /\ g \in Gates /\ g \in scenario.gates \ PackGates /\ runner.copy \in File
        /\ runner.copy[g] \in GateRecord /\ runner.copy[g] = Absent
    BY RunnerType, HeldByRunner DEF PassWait, InSave, Passing, RoomInv, RoomShape, RunnerFits
  <1>2. /\ UNCHANGED <<captureLog, minted, vault, thread, done, clicked, typed, deaths>>
        /\ file' = copy
        /\ done' \subseteq Gates /\ vault' \subseteq Targets /\ deaths' \in 0..MaxDeaths
        /\ minted' \in [Gates -> 0..2] /\ typed' = typed /\ typed \subseteq Gates
    BY DEF PassWait, RoomInv, RoomShape, TypeOK
  <1>3. /\ waited \in GateRecord /\ waited.captured \subseteq runner.copy[g].captured
        /\ Waiting(waited)
    <2>1. runner.copy[g].status # "passed"
      BY <1>1 DEF Absent
    <2> HIDE DEF copy
    <2> QED
      BY <1>1, <2>1, RecordTypes, RecordFields
  <1> HIDE DEF waited
  <1>4. copy \in File /\ copy[g] = waited /\ \A h \in Gates : h # g => copy[h] = runner.copy[h]
    BY <1>1, <1>3, SavedCopy
  <1>5. /\ runner' \in Runner /\ runner'.phase = "pass_save" /\ runner'.gate = g
        /\ runner'.copy = copy /\ ~Holding'
    <2>1. runner' = [runner EXCEPT !.phase = "pass_save", !.copy = copy]
      BY DEF PassWait, waited
    <2> HIDE DEF copy
    <2> QED
      BY <1>4, <2>1 DEF RoomInv, RoomShape, TypeOK, Runner, Holding
  <1>6. AllHonest => HonestOf(copy, vault, clicked, typed) /\ EarnedBy(g, vault, clicked, typed)
    <2> SUFFICES ASSUME AllHonest
                 PROVE  HonestOf(copy, vault, clicked, typed) /\ EarnedBy(g, vault, clicked, typed)
      OBVIOUS
    <2>1. HonestOf(runner.copy, vault, clicked, typed) /\ EarnedBy(g, vault, clicked, typed)
      BY <1>1 DEF AllHonest, Honest
    <2> HIDE DEF copy
    <2> QED
      BY <1>3, <1>4, <2>1 DEF HonestOf, Waiting
  <1>7. Serial /\ CopiesFresh /\ MintedOnce => AllIdle /\ MintedOnce'
    <2> SUFFICES ASSUME Serial, CopiesFresh, MintedOnce PROVE AllIdle /\ MintedOnce'
      OBVIOUS
    <2>1. AllIdle /\ runner.copy = file
      BY <1>1, HeldByRunner DEF CopiesFresh, RunnerMayLoad, Serial
    <2>2. minted[g] = 0
      BY <1>1, <2>1 DEF MintedOnce, Absent
    <2> HIDE DEF copy
    <2> QED
      BY <1>2, <1>3, <1>4, <2>1, <2>2 DEF MintedOnce
  <1>8. RunnerFits(runner')
    BY <1>1, <1>5 DEF RunnerFits
  <1> HIDE DEF copy
  <1> QED
    BY <1>1, <1>2, <1>4, <1>5, <1>6, <1>7, <1>8, HeldByRunner, RunnerKeeps

LEMMA RecordPassedKeeps ==
  ASSUME RoomInv, _record_gate_passed, UNCHANGED scenario
  PROVE  RoomInv'
  <1> DEFINE g == runner.gate
             passed == pass_gate(runner.copy[g])
             copy == [runner.copy EXCEPT ![g] = passed]
  <1>1. /\ runner.phase = "pass_save" /\ InSave(runner.phase) /\ Passing(runner.phase)
        /\ g \in Gates /\ g \in scenario.gates \ PackGates
        /\ runner.copy \in File /\ runner.copy[g] \in GateRecord
    BY RunnerType, HeldByRunner
    DEF _record_gate_passed, InSave, Passing, RunnerFits, RoomInv, RoomShape
  <1>2. /\ UNCHANGED <<captureLog, minted, vault, thread, clicked, typed, deaths>>
        /\ file' = copy
        /\ done' \subseteq Gates /\ vault' \subseteq Targets /\ deaths' \in 0..MaxDeaths
        /\ minted' \in [Gates -> 0..2] /\ typed' = typed /\ typed \subseteq Gates
        /\ done' \ done \subseteq ApprovalGates
    BY <1>1 DEF _record_gate_passed, RoomInv, RoomShape, TypeOK
  <1>3. /\ passed \in GateRecord /\ passed.captured = runner.copy[g].captured
        /\ passed.status = "passed"
    BY <1>1, RecordTypes, RecordFields
  <1> HIDE DEF passed
  <1>4. copy \in File /\ copy[g] = passed /\ \A h \in Gates : h # g => copy[h] = runner.copy[h]
    BY <1>1, <1>3, SavedCopy
  <1> HIDE DEF copy
  <1>5. PICK phase \in {"next", "token"} : Goto(phase) /\ (phase = "token" => g \notin ApprovalGates)
    BY DEF _record_gate_passed
  <1>6. /\ runner' \in Runner /\ runner'.phase = phase /\ runner'.gate = g
        /\ ~InSave(runner'.phase) /\ ~Passing(runner'.phase) /\ ~Holding'
    BY <1>1, <1>5, GotoType DEF RoomInv, RoomShape
  <1>7. AllHonest => HonestOf(copy, vault, clicked, typed)
    <2> SUFFICES ASSUME AllHonest PROVE HonestOf(copy, vault, clicked, typed)
      OBVIOUS
    <2>1. HonestOf(runner.copy, vault, clicked, typed) /\ EarnedBy(g, vault, clicked, typed)
      BY <1>1 DEF AllHonest, Honest
    <2> QED
      BY <1>1, <1>3, <1>4, <2>1 DEF HonestOf
  <1>8. Serial /\ CopiesFresh /\ MintedOnce => AllIdle /\ MintedOnce'
    <2> SUFFICES ASSUME Serial, CopiesFresh, MintedOnce PROVE AllIdle /\ MintedOnce'
      OBVIOUS
    <2>1. AllIdle /\ runner.copy = file
      BY <1>1, HeldByRunner DEF CopiesFresh, RunnerMayLoad, Serial
    <2> QED
      BY <1>2, <1>3, <1>4, <2>1 DEF MintedOnce
  <1>9. RunnerFits(runner')
    BY <1>1, <1>5, <1>6 DEF RunnerFits, TokenGates
  <1> QED
    BY <1>2, <1>4, <1>6, <1>7, <1>8, <1>9, RunnerKeeps DEF TokenGates

(* A token in hand is refused for its length, or put into an open vault.   *)
LEMMA TokenKeeps ==
  ASSUME RoomInv, ShortToken \/ TokenOpen, UNCHANGED scenario
  PROVE  RoomInv'
  <1>1. /\ runner.phase = "token" /\ runner.gate \in TokenGates \cap scenario.gates
        /\ runner.gate \in Gates /\ runner.secrets \subseteq Targets
    BY HeldByRunner, RunnerType DEF ShortToken, TokenOpen, RunnerFits, RoomInv, RoomShape
  <1>2. /\ Unwritten /\ done' = done /\ done \subseteq Gates
        /\ typed' = typed /\ typed \subseteq Gates
    BY DEF ShortToken, TokenOpen, Unwritten, RoomInv, RoomShape, TypeOK
  <1>3. CASE ShortToken
    <2>1. Goto("failed")
      BY <1>3 DEF ShortToken
    <2>2. /\ runner' \in Runner /\ runner'.phase = "failed" /\ runner'.gate = runner.gate
          /\ ~InSave(runner'.phase) /\ ~Passing(runner'.phase) /\ ~Holding'
      BY <2>1, GotoType DEF RoomInv, RoomShape
    <2>3. RunnerFits(runner')
      BY <1>1, <2>2 DEF RunnerFits
    <2> QED
      BY <1>2, <2>2, <2>3, LookingKeeps
  <1>4. CASE TokenOpen
    <2>1. /\ runner' = [runner EXCEPT !.phase = "token_save", !.secrets = @ \cup vault]
          /\ TargetsOf[runner.gate] \subseteq runner.secrets /\ RunnerMayOpen
      BY <1>4 DEF TokenOpen
    <2>2. /\ runner' \in Runner /\ runner'.phase = "token_save" /\ runner'.gate = runner.gate
          /\ runner'.secrets = runner.secrets \cup vault
      BY <1>1, <2>1 DEF RoomInv, RoomShape, TypeOK, Runner
    <2>3. RunnerFits(runner') /\ ~InSave(runner'.phase) /\ ~Passing(runner'.phase)
      BY <1>1, <2>1, <2>2 DEF RunnerFits, InSave, Passing
    <2> QED
      BY <1>2, <2>1, <2>2, <2>3, HeldByRunner, LookingKeeps
  <1> QED
    BY <1>3, <1>4

LEMMA FinishKeeps ==
  ASSUME RoomInv, Finish, UNCHANGED scenario
  PROVE  RoomInv'
  <1>1. /\ runner' \in Runner /\ runner'.phase = "done"
        /\ ~InSave(runner'.phase) /\ ~Holding' /\ ~Passing(runner'.phase)
    BY GotoType DEF Finish, RoomInv, RoomShape
  <1>2. /\ Unwritten /\ done' = done /\ done \subseteq Gates
        /\ typed' = typed /\ typed \subseteq Gates
    BY DEF Finish, Unwritten, RoomInv, RoomShape, TypeOK
  <1>3. RunnerFits(runner')
    BY <1>1 DEF RunnerFits
  <1> QED
    BY <1>1, <1>2, <1>3, LookingKeeps

LEMMA StartType == /\ Start \in Runner /\ Start.phase = "start" /\ NoCopy \in File
  BY TargetAssumption DEF Start, Runner, File, NoCopy, GateRecord

(* The runner that is started again has nothing in hand.                   *)
LEMMA RunnerDiesKeeps ==
  ASSUME RoomInv, RunnerDies, UNCHANGED scenario
  PROVE  RoomInv'
  <1>1. /\ runner' \in Runner /\ runner'.phase = "start" /\ RunnerFits(runner')
        /\ ~InSave(runner'.phase) /\ ~Holding' /\ ~Passing(runner'.phase)
    BY StartType, HeldByRunner DEF RunnerDies, InSave, Passing, RunnerFits, Holding
  <1>2. /\ UNCHANGED <<file, captureLog, minted, vault, thread, clicked, typed>>
        /\ done' \subseteq Gates /\ vault' \subseteq Targets /\ deaths' \in 0..MaxDeaths
        /\ file' \in File /\ minted' \in [Gates -> 0..2]
        /\ typed' = typed /\ typed \subseteq Gates /\ done' \ done = {}
    BY DeathsAssumption DEF RunnerDies, RoomInv, RoomShape, TypeOK
  <1>3. MintedOnce => MintedOnce'
    BY <1>2 DEF MintedOnce
  <1> QED
    BY <1>1, <1>2, <1>3, RunnerKeeps DEF AllHonest, Honest

-----------------------------------------------------------------------------
(* The theorems. *)

LEMMA InitRoom == Init => RoomInv
  <1> SUFFICES ASSUME Init PROVE RoomInv
    OBVIOUS
  <1>1. \A t \in Threads : thread[t] = Idle
    BY DEF Init
  <1>2. \A g \in Gates : file[g] = Absent /\ minted[g] = 0
    BY DEF Init, NoCopy
  <1>3. ~InSave(runner.phase) /\ ~Holding /\ ~Passing(runner.phase) /\ RunnerFits(runner)
    BY StartType DEF Init, InSave, Holding, Passing, RunnerFits, Start
  <1>4. TypeOK
    BY StartType, DeathsAssumption DEF Init, TypeOK
  <1>5. WellFormed /\ Exclusion
    BY <1>1, <1>3 DEF WellFormed, Exclusion
  <1>6. AllHonest
    BY <1>1, <1>2, <1>3 DEF Init, AllHonest, Honest, HonestOf, Absent
  <1>7. CopiesFresh /\ MintedOnce
    BY <1>1, <1>2, <1>3 DEF CopiesFresh, MintedOnce
  <1> QED
    BY <1>4, <1>5, <1>6, <1>7 DEF RoomInv, RoomShape, Backed, InStep

LEMMA RoomStep == RoomInv /\ [Next]_roomVars => RoomInv'
  <1> SUFFICES ASSUME RoomInv, [Next]_roomVars PROVE RoomInv'
    OBVIOUS
  <1>1. CASE RunnerStep /\ UNCHANGED scenario
    BY <1>1, LaunchOpenKeeps, LaunchSaveKeeps, SkipKeeps, NextGateKeeps, FinishKeeps, CheckKeeps,
       LoadKeeps, RecordWaitingKeeps, PassWaitKeeps, RecordPassedKeeps, TokenKeeps,
       AuthorizedKeeps, WriteArtifactsKeeps, SleepKeeps DEF RunnerStep
  <1>2. CASE (Answer \/ NoAnswer \/ RunnerDies) /\ UNCHANGED scenario
    BY <1>2, AskKeeps, RunnerDiesKeeps
  <1>3. CASE \E t \in scenario.threads :
               (Click(t) \/ ThreadStep(t) \/ ThreadDies(t)) /\ UNCHANGED scenario
    <2>1. scenario.threads \subseteq Threads
      BY ScenarioAssumption DEF RoomInv, RoomShape, TypeOK, Scenario
    <2> QED
      BY <1>3, <2>1, HandlerStep
  <1>4. CASE UNCHANGED roomVars
    BY <1>4 DEF roomVars, RoomInv, RoomShape, TypeOK, WellFormed, Exclusion, AllIdle, InSave,
                Holding, NoneOpen, Backed, VaultShared, AllHonest, Honest, HasToken, RunnerFits,
                Passing, InStep, Serial, CopiesFresh, On, MintedOnce
  <1> QED
    BY <1>1, <1>2, <1>3, <1>4 DEF Next

LEMMA RoomInvariant == Spec => []RoomInv
  BY InitRoom, RoomStep, PTL DEF Spec

(* What runner, handlers, files and vault hold has its type in every state *)
(* of any setting of gates, handlers, overlaps and deaths.                 *)
THEOREM RoomTyped == Spec => []TypeOK
  <1>1. RoomInv => TypeOK
    BY DEF RoomInv, RoomShape
  <1> QED
    BY <1>1, RoomInvariant, PTL

(* A value gates.json calls captured is in the vault, as long as no two    *)
(* holders of a copy of the vault overlap (_capture_gate_clipboard_secret, *)
(* _apply_loaded_manifest).                                                *)
THEOREM CapturedReachedVault == Spec => []CapturedInVault
  <1>1. RoomInv => CapturedInVault
    BY DEF RoomInv, Backed, AllHonest, Honest, HonestOf, CapturedInVault
  <1> QED
    BY <1>1, RoomInvariant, PTL

(* A gate asks the runner to go on only with all its values in the vault,  *)
(* whichever route asked (/pass, /capture-clipboard).                      *)
THEOREM ResumeHasAll == Spec => []ResumeComplete
  <1>1. RoomInv => ResumeComplete
    BY DEF RoomInv, Backed, AllHonest, Honest, HonestOf, ResumeComplete
  <1> QED
    BY <1>1, RoomInvariant, PTL

(* A gate passes only if the user approved it in the control room or at    *)
(* the terminal, or its values are in the vault; and a launch goes past a  *)
(* token gate only with the token in the vault or the environment          *)
(* (_await_provider_token, _authorize_provider): however the saves of      *)
(* gates.json by the runner and the handlers overlap.                      *)
THEOREM PassedIsEarned == Spec => []PassedEarned
  <1>1. RoomInv => PassedEarned
    BY DEF RoomInv, Backed, AllHonest, Honest, HonestOf, EarnedBy, PassedEarned
  <1> QED
    BY <1>1, RoomInvariant, PTL

(* Clicking again and again wakes the runner once per surfacing of a gate, *)
(* when saves do not overlap (request_resume, gates.py).                   *)
THEOREM WokenOnce == Spec => []OneWakePerRound
  <1>1. RoomInv => OneWakePerRound
    <2> SUFFICES ASSUME RoomInv, Serial, NEW g \in Gates PROVE minted[g] <= 1
      BY DEF OneWakePerRound
    <2>1. minted[g] \in {0, 1}
      BY DEF RoomInv, InStep, MintedOnce
    <2> QED
      BY <2>1
  <1> QED
    BY <1>1, RoomInvariant, PTL

(* A step that saves gates.json gives gate g its record by one of the      *)
(* operations on a record, or leaves the gates it is not about alone.      *)
LEMMA SerialSave ==
  ASSUME RoomInv, Serial, NEW g \in Gates, file[g].status = "passed", [Next]_roomVars
  PROVE  file'[g].status = "passed"
  <1>1. CopiesFresh /\ file \in File /\ file[g] \in GateRecord
    BY DEF RoomInv, RoomShape, TypeOK, InStep, File
  <1>2. CASE _record_gate_waiting
    <2> DEFINE h == runner.gate
               waited == wait(runner.copy[h])
    <2>1. /\ runner.copy = file /\ h \in Gates
          /\ \/ UNCHANGED file
             \/ runner.copy[h].status # "passed" /\ file' = [runner.copy EXCEPT ![h] = waited]
      BY <1>1, <1>2, RunnerType DEF _record_gate_waiting, CopiesFresh, InSave, RoomInv, RoomShape
    <2> HIDE DEF waited
    <2> QED
      BY <1>1, <2>1 DEF File
  <1>3. CASE PassWait
    <2> DEFINE h == runner.gate
               waited == wait(runner.copy[h])
    <2>1. /\ runner.copy = file /\ h \in Gates
          /\ runner.copy[h] = Absent /\ file' = [runner.copy EXCEPT ![h] = waited]
      BY <1>1, <1>3, RunnerType
      DEF PassWait, CopiesFresh, InSave, RoomInv, RoomShape, WellFormed, RunnerFits
    <2> HIDE DEF waited
    <2> QED
      BY <1>1, <2>1 DEF File, Absent
  <1>4. CASE _record_gate_passed
    <2>1. /\ runner.copy = file /\ runner.gate \in Gates
          /\ file' = [runner.copy EXCEPT ![runner.gate] = pass_gate(runner.copy[runner.gate])]
      BY <1>1, <1>4, RunnerType DEF _record_gate_passed, CopiesFresh, InSave, RoomInv, RoomShape
    <2>2. pass_gate(file[runner.gate]).status = "passed"
      BY <1>1, <2>1, RecordFields DEF File
    <2> QED
      BY <1>1, <2>1, <2>2 DEF File
  <1>5. ASSUME NEW t \in Threads, Click(t) \/ ThreadStep(t) \/ ThreadDies(t)
        PROVE  file'[g].status = "passed"
    <2> DEFINE h == thread[t]
    <2>1. ASSUME thread[t] # Idle, ~On(t, "resume_log"),
                 NEW record, record.status = h.copy[h.gate].status \/ ~Waiting(h.copy[h.gate]),
                 file' = [h.copy EXCEPT ![h.gate] = record]
          PROVE  file'[g].status = "passed"
      <3>1. h.copy = file /\ h.gate \in Gates /\ Waiting(h.copy[h.gate])
        BY <1>1, <2>1, InHand
      <3> QED
        BY <1>1, <2>1, <3>1 DEF File, Waiting
    <2>2. CASE OpenSave(t)
      <3>1. /\ thread[t] # Idle /\ ~On(t, "resume_log")
            /\ file' = [h.copy EXCEPT ![h.gate] = mark_opened(h.copy[h.gate])]
        BY <2>2, NotIdle DEF OpenSave, On
      <3>2. mark_opened(h.copy[h.gate]).status = h.copy[h.gate].status
        BY <3>1, InHand, RecordFields
      <3> QED
        BY <2>1, <3>1, <3>2
    <2>3. CASE MarkCaptured(t)
      <3>1. /\ thread[t] # Idle /\ ~On(t, "resume_log")
            /\ \/ UNCHANGED file
               \/ file' = [h.copy EXCEPT ![h.gate] = mark_captured(h.copy[h.gate], h.target)]
        BY <2>3, NotIdle DEF MarkCaptured, On
      <3>2. mark_captured(h.copy[h.gate], h.target).status = h.copy[h.gate].status
        BY <3>1, InHand, RecordFields
      <3> QED
        BY <2>1, <3>1, <3>2
    <2>4. CASE RequestResume(t)
      <3>1. /\ thread[t] # Idle /\ ~On(t, "resume_log")
            /\ \/ UNCHANGED file
               \/ file' = [h.copy EXCEPT ![h.gate] = request_resume(h.copy[h.gate])]
        BY <2>4, NotIdle DEF RequestResume, On
      <3>2. h.copy = file /\ h.gate \in Gates /\ Waiting(h.copy[h.gate])
        BY <1>1, <3>1, InHand
      <3> QED
        BY <1>1, <3>1, <3>2 DEF File, Waiting
    <2> QED
      BY <1>5, <2>2, <2>3, <2>4
      DEF Click, ClickFinished, ClickOpen, _capture_gate_clipboard_secret, ThreadStep, VaultOpen,
          VaultSave, AppendCaptured, AppendResume, ThreadDies
  <1>6. scenario.threads \subseteq Threads
    BY ScenarioAssumption DEF RoomInv, RoomShape, TypeOK, Scenario
  <1>7. CASE UNCHANGED file
    BY <1>7
  <1>8. [Next]_roomVars =>
          \/ _record_gate_waiting \/ PassWait \/ _record_gate_passed \/ UNCHANGED file
          \/ \E t \in scenario.threads : Click(t) \/ ThreadStep(t) \/ ThreadDies(t)
    BY DEF Next, RunnerStep, LaunchOpen, LaunchSave, _has_provider_token, NextGate, Finish, Check,
           Answer, NoAnswer, WaitLoad, PassLoad, ShortToken, TokenOpen, _authorize_provider,
           _write_apply_artifacts, _sleep_for_gate, RunnerDies, roomVars
  <1> QED
    BY <1>2, <1>3, <1>4, <1>5, <1>6, <1>7, <1>8

(* A gate that passed never waits again, when loads and saves do not       *)
(* overlap: no save of a copy takes the pass back.                         *)
THEOREM PassedForGood == Spec => PassedStays
  <1>1. RoomInv /\ [Next]_roomVars =>
          [Serial => \A g \in Gates :
             file[g].status = "passed" => file'[g].status = "passed"]_roomVars
    BY SerialSave
  <1> QED
    BY <1>1, RoomInvariant, PTL DEF Spec, PassedStays

=============================================================================
