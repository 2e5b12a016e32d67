------------------------- MODULE WorkerDispatchProofs -------------------------
(***************************************************************************)
(* Proofs about WorkerDispatch, for any number of receivers, keys and      *)
(* bindings and every set of faults.                                       *)
(***************************************************************************)
EXTENDS WorkerDispatch, TLAPS

(* A receiver that created the marker and has not let go of it holds the   *)
(* reservation.  There is at most one such receiver per key, and while it  *)
(* is between the marker and the spawn no worker exists.                   *)
Holds(r) == Phase(r, "write") \/ Phase(r, "spawn") \/ Phase(r, "answer")

KeyOf(r)     == work[r].dispatch.key
BindingOf(r) == work[r].dispatch.binding

HolderInv ==
  \A r \in Receivers :
    /\ Holds(r) \/ Phase(r, "reserve") \/ Phase(r, "duplicate") => BindingOf(r) \in PaidBindings
    /\ Phase(r, "write") => marker[KeyOf(r)] = Partial
    /\ Phase(r, "write") \/ Phase(r, "spawn") => spawns[KeyOf(r)] = 0
    /\ Phase(r, "answer") => spawns[KeyOf(r)] = 1
    /\ Phase(r, "spawn") \/ Phase(r, "answer") \/ Phase(r, "duplicate") =>
         marker[KeyOf(r)] = BindingOf(r)

OneHolder ==
  \A q, r \in Receivers : Holds(q) /\ Holds(r) /\ KeyOf(q) = KeyOf(r) => q = r

SpawnInv ==
  \A k \in Keys : spawns[k] = 0 \/ (spawns[k] = 1 /\ marker[k] \in PaidBindings)

ReceiptInv ==
  \A c \in receipts :
    /\ marker[c.dispatch.key] = c.dispatch.binding
    /\ ~c.duplicate => spawns[c.dispatch.key] = 1

DispatchInv == TypeOK /\ HolderInv /\ OneHolder /\ SpawnInv /\ ReceiptInv

-----------------------------------------------------------------------------

LEMMA DispatchInit == Init => DispatchInv
  BY MaxSpawnsAssumption
  DEF Init, DispatchInv, TypeOK, HolderInv, OneHolder, SpawnInv, ReceiptInv, Holds, Phase,
      MarkerFile

(* A step of receiver r that touches neither marker nor worker keeps the   *)
(* invariant if the phase r goes to is justified.                          *)
LEMMA QuietStep ==
  ASSUME DispatchInv, NEW r \in Receivers, UNCHANGED <<marker, spawns>>,
         NEW new \in Work \cup {NoDispatch}, work' = [work EXCEPT ![r] = new],
         new # NoDispatch =>
           \/ new.phase = "verify" \/ new.phase = "refuse"
           \/ new.phase = "reserve" /\ new.dispatch.binding \in PaidBindings
           \/ /\ new.phase = "duplicate" /\ new.dispatch.binding \in PaidBindings
              /\ marker[new.dispatch.key] = new.dispatch.binding
  PROVE  HolderInv' /\ OneHolder' /\ SpawnInv'
  <1>1. \A q \in Receivers : work'[q] = IF q = r THEN new ELSE work[q]
    BY DEF DispatchInv, TypeOK
  <1>2. SpawnInv'
    BY DEF DispatchInv, SpawnInv
  <1>3. HolderInv'
    BY <1>1 DEF DispatchInv, HolderInv, Holds, Phase, KeyOf, BindingOf
  <1>4. OneHolder'
    BY <1>1 DEF DispatchInv, OneHolder, Holds, Phase, KeyOf
  <1> QED
    BY <1>2, <1>3, <1>4

LEMMA WorkType ==
  ASSUME TypeOK, NEW r \in Receivers, work[r] # NoDispatch
  PROVE  /\ work[r] \in Work
         /\ KeyOf(r) \in Keys /\ BindingOf(r) \in Bindings
         /\ \A p \in {"reserve", "write", "spawn", "answer", "duplicate", "refuse"} :
              /\ [work[r] EXCEPT !.phase = p] \in Work
              /\ [work[r] EXCEPT !.phase = p].phase = p
              /\ [work[r] EXCEPT !.phase = p].dispatch = work[r].dispatch
  <1>1. work[r] \in Work
    BY DEF TypeOK
  <1> QED
    BY <1>1 DEF Work, Dispatch, KeyOf, BindingOf

LEMMA TypeStep ==
  ASSUME TypeOK, NEW r \in Receivers,
         Step(r) \/ WriteFails(r) \/ SpawnFails(r) \/ Crash(r)
  PROVE  TypeOK'
  <1>0. work[r] # NoDispatch
    BY DEF Step, verify_hosted_worker_dispatch, _reserve_dispatch, WriteMarker, _spawn_worker,
           accept_hosted_worker_dispatch, Refuse, WriteFails, SpawnFails, Crash, Phase
  <1>1. /\ work[r] \in Work /\ work[r].dispatch.key \in Keys
        /\ work[r].dispatch.binding \in Bindings
        /\ \A p \in {"reserve", "write", "spawn", "answer", "duplicate", "refuse"} :
              [work[r] EXCEPT !.phase = p] \in Work
    BY <1>0, WorkType DEF KeyOf, BindingOf
  <1>2. \A p \in {"reserve", "write", "spawn", "answer", "duplicate", "refuse"} :
          Goto(r, p) => work' \in [Receivers -> Work \cup {NoDispatch}]
    BY <1>1 DEF TypeOK, Goto
  <1>3. Finish(r) => work' \in [Receivers -> Work \cup {NoDispatch}]
    BY DEF TypeOK, Finish
  <1>4. CASE verify_hosted_worker_dispatch(r)
    BY <1>2, <1>4 DEF verify_hosted_worker_dispatch, TypeOK
  <1>5. CASE _reserve_dispatch(r)
    BY <1>1, <1>2, <1>5 DEF _reserve_dispatch, TypeOK, MarkerFile
  <1>6. CASE WriteMarker(r)
    BY <1>1, <1>2, <1>6 DEF WriteMarker, TypeOK, MarkerFile
  <1>7. CASE WriteFails(r)
    BY <1>1, <1>2, <1>7 DEF WriteFails, TypeOK, MarkerFile
  <1>8. CASE _spawn_worker(r)
    BY <1>1, <1>2, <1>8, MaxSpawnsAssumption DEF _spawn_worker, TypeOK
  <1>9. CASE accept_hosted_worker_dispatch(r)
    <2>1. [dispatch |-> work[r].dispatch, duplicate |-> Phase(r, "duplicate")] \in Receipt
      BY <1>1 DEF Work, Receipt, Phase
    <2> QED
      BY <1>3, <1>9, <2>1 DEF accept_hosted_worker_dispatch, TypeOK
  <1>10. CASE Refuse(r) \/ SpawnFails(r) \/ Crash(r)
    BY <1>2, <1>3, <1>10 DEF Refuse, SpawnFails, Crash, TypeOK
  <1> QED
    BY <1>4, <1>5, <1>6, <1>7, <1>8, <1>9, <1>10 DEF Step

(* The exclusive create: nobody else holds the key, since the marker of a  *)
(* key that is held exists.                                                *)
LEMMA ReserveStep ==
  ASSUME DispatchInv, NEW r \in Receivers, _reserve_dispatch(r)
  PROVE  HolderInv' /\ OneHolder' /\ SpawnInv' /\ ReceiptInv'
  <1> DEFINE d == work[r].dispatch
  <1>1. /\ work[r] # NoDispatch /\ Phase(r, "reserve") /\ d.binding \in PaidBindings
        /\ UNCHANGED <<spawns, receipts>>
    BY DEF _reserve_dispatch, Phase, DispatchInv, HolderInv, BindingOf
  <1>2. CASE marker[d.key] = NoMarker
    <2> DEFINE new == [work[r] EXCEPT !.phase = "write"]
    <2>1. /\ new.phase = "write" /\ new.dispatch = d /\ d.key \in Keys
          /\ new # NoDispatch => new \in Work
      BY <1>1, WorkType DEF DispatchInv, KeyOf
    <2>2. /\ marker' = [marker EXCEPT ![d.key] = Partial]
          /\ work' = [work EXCEPT ![r] = new]
      BY <1>2 DEF _reserve_dispatch, Goto
    <2> HIDE DEF new
    <2>3. /\ \A q \in Receivers : work'[q] = IF q = r THEN new ELSE work[q]
          /\ \A k \in Keys : marker'[k] = IF k = d.key THEN Partial ELSE marker[k]
      BY <2>1, <2>2 DEF DispatchInv, TypeOK
    <2>4. spawns[d.key] = 0
      BY <1>2, <2>1, BindingsAssumption, MarkerAssumption DEF DispatchInv, SpawnInv
    <2>5. \A q \in Receivers : q # r /\ Holds(q) => KeyOf(q) # d.key
      BY <1>2, WorkType, BindingsAssumption, MarkerAssumption
      DEF DispatchInv, HolderInv, Holds, KeyOf, Phase
    <2>6. \A q \in Receivers : q # r /\ Phase(q, "duplicate") => KeyOf(q) # d.key
      BY <1>2, WorkType, BindingsAssumption, MarkerAssumption
      DEF DispatchInv, HolderInv, KeyOf, Phase
    <2>7. \A c \in receipts : c.dispatch.key # d.key
      BY <1>2, MarkerAssumption DEF DispatchInv, ReceiptInv, TypeOK, Receipt, Dispatch
    <2>8. \A q \in Receivers : work[q] # NoDispatch => KeyOf(q) \in Keys
      BY WorkType DEF DispatchInv
    <2>9. HolderInv'
      BY <1>1, <2>1, <2>3, <2>4, <2>5, <2>6, <2>8
      DEF DispatchInv, HolderInv, Holds, Phase, KeyOf, BindingOf
    <2>10. OneHolder'
      BY <2>1, <2>3, <2>5 DEF DispatchInv, OneHolder, Holds, Phase, KeyOf
    <2>11. SpawnInv'
      BY <1>1, <2>3, <2>4 DEF DispatchInv, SpawnInv
    <2>12. ReceiptInv'
      BY <1>1, <2>3, <2>7 DEF DispatchInv, ReceiptInv, TypeOK, Receipt, Dispatch
    <2> QED
      BY <2>9, <2>10, <2>11, <2>12
  <1>3. CASE marker[d.key] # NoMarker
    <2> DEFINE phase == IF marker[d.key] = d.binding THEN "duplicate" ELSE "refuse"
               new   == [work[r] EXCEPT !.phase = phase]
    <2>1. new \in Work /\ new.phase = phase /\ new.dispatch = d
      BY <1>1, WorkType DEF DispatchInv
    <2>2. UNCHANGED marker /\ work' = [work EXCEPT ![r] = new]
      BY <1>3 DEF _reserve_dispatch, Goto, _dispatch_marker_matches
    <2> HIDE DEF new
    <2> QED
      BY <1>1, <2>1, <2>2, QuietStep DEF DispatchInv, ReceiptInv
  <1> QED
    BY <1>2, <1>3

(* Goto moves one receiver and leaves its dispatch alone.                   *)
LEMMA GotoMoves ==
  ASSUME work \in [Receivers -> Work \cup {NoDispatch}], NEW r \in Receivers,
         work[r] \in Work, NEW phase, Goto(r, phase)
  PROVE  /\ work'[r].phase = phase
         /\ work'[r].dispatch = work[r].dispatch
         /\ \A q \in Receivers : q # r => work'[q] = work[q]
  <1> DEFINE moved == [work[r] EXCEPT !.phase = phase]
  <1>1. moved.phase = phase /\ moved.dispatch = work[r].dispatch
    BY DEF Work
  <1>2. work' = [work EXCEPT ![r] = moved]
    BY DEF Goto
  <1> HIDE DEF moved
  <1> QED
    BY <1>1, <1>2

(* Writing the marker, whether the call then succeeds or not.              *)
LEMMA WriteStep ==
  ASSUME DispatchInv, NEW r \in Receivers, Phase(r, "write"),
         marker' = [marker EXCEPT ![KeyOf(r)] = BindingOf(r)],
         Goto(r, "spawn") \/ Goto(r, "refuse"), UNCHANGED <<spawns, receipts>>
  PROVE  HolderInv' /\ OneHolder' /\ SpawnInv' /\ ReceiptInv'
  <1> DEFINE new == work'[r]
  <1>1. /\ work[r] # NoDispatch /\ BindingOf(r) \in PaidBindings /\ KeyOf(r) \in Keys
        /\ marker[KeyOf(r)] = Partial /\ spawns[KeyOf(r)] = 0
    BY WorkType DEF DispatchInv, HolderInv, Holds, Phase
  <1>2. /\ new.phase \in {"spawn", "refuse"} /\ new.dispatch = work[r].dispatch
        /\ \A q \in Receivers : q # r => work'[q] = work[q]
    BY <1>1, WorkType, GotoMoves DEF DispatchInv, TypeOK
  <1>3. \A k \in Keys : marker'[k] = IF k = KeyOf(r) THEN BindingOf(r) ELSE marker[k]
    BY <1>1 DEF DispatchInv, TypeOK
  <1> HIDE DEF new
  <1>4. \A q \in Receivers : q # r /\ Holds(q) => KeyOf(q) # KeyOf(r)
    BY DEF DispatchInv, OneHolder, Holds
  <1>5. \A q \in Receivers : q # r /\ Phase(q, "duplicate") => KeyOf(q) # KeyOf(r)
    BY <1>1, BindingsAssumption, MarkerAssumption DEF DispatchInv, HolderInv
  <1>6. \A c \in receipts : c.dispatch.key # KeyOf(r)
    BY <1>1, MarkerAssumption DEF DispatchInv, ReceiptInv, TypeOK, Receipt, Dispatch
  <1>7. \A q \in Receivers : work[q] # NoDispatch => KeyOf(q) \in Keys
    BY WorkType DEF DispatchInv
  <1>8. HolderInv'
    BY <1>1, <1>2, <1>3, <1>4, <1>5, <1>7
    DEF DispatchInv, HolderInv, Holds, Phase, KeyOf, BindingOf, new
  <1>9. OneHolder'
    BY <1>1, <1>2, <1>4 DEF DispatchInv, OneHolder, Holds, Phase, KeyOf, new
  <1>10. SpawnInv'
    BY <1>1, <1>3 DEF DispatchInv, SpawnInv
  <1>11. ReceiptInv'
    BY <1>3, <1>6 DEF DispatchInv, ReceiptInv, TypeOK, Receipt, Dispatch
  <1> QED
    BY <1>8, <1>9, <1>10, <1>11

LEMMA SpawnStep ==
  ASSUME DispatchInv, NEW r \in Receivers, _spawn_worker(r)
  PROVE  HolderInv' /\ OneHolder' /\ SpawnInv' /\ ReceiptInv'
  <1> DEFINE new == work'[r]
  <1>1. /\ Phase(r, "spawn") /\ work[r] # NoDispatch /\ BindingOf(r) \in PaidBindings
        /\ KeyOf(r) \in Keys /\ marker[KeyOf(r)] = BindingOf(r) /\ spawns[KeyOf(r)] = 0
        /\ UNCHANGED <<marker, receipts>>
    BY WorkType DEF _spawn_worker, DispatchInv, HolderInv, Holds, Phase
  <1>2. /\ new.phase = "answer" /\ new.dispatch = work[r].dispatch
        /\ \A q \in Receivers : q # r => work'[q] = work[q]
    BY <1>1, WorkType, GotoMoves DEF _spawn_worker, DispatchInv, TypeOK
  <1>3. \A k \in Keys : spawns'[k] = IF k = KeyOf(r) THEN 1 ELSE spawns[k]
    BY <1>1 DEF _spawn_worker, DispatchInv, TypeOK, KeyOf
  <1> HIDE DEF new
  <1>4. \A q \in Receivers : q # r /\ Holds(q) => KeyOf(q) # KeyOf(r)
    BY <1>1 DEF DispatchInv, OneHolder, Holds
  <1>5. \A q \in Receivers : work[q] # NoDispatch => KeyOf(q) \in Keys
    BY WorkType DEF DispatchInv
  <1>6. HolderInv'
    BY <1>1, <1>2, <1>3, <1>4, <1>5
    DEF DispatchInv, HolderInv, Holds, Phase, KeyOf, BindingOf, new
  <1>7. OneHolder'
    BY <1>1, <1>2, <1>4 DEF DispatchInv, OneHolder, Holds, Phase, KeyOf, new
  <1>8. SpawnInv'
    BY <1>1, <1>3 DEF DispatchInv, SpawnInv
  <1>9. ReceiptInv'
    BY <1>1, <1>3 DEF DispatchInv, ReceiptInv, TypeOK, Receipt, Dispatch
  <1> QED
    BY <1>6, <1>7, <1>8, <1>9

LEMMA AnswerStep ==
  ASSUME DispatchInv, NEW r \in Receivers, accept_hosted_worker_dispatch(r)
  PROVE  HolderInv' /\ OneHolder' /\ SpawnInv' /\ ReceiptInv'
  <1>1. UNCHANGED <<marker, spawns>> /\ work' = [work EXCEPT ![r] = NoDispatch]
    BY DEF accept_hosted_worker_dispatch, Finish
  <1>2. /\ marker[KeyOf(r)] = BindingOf(r)
        /\ ~Phase(r, "duplicate") => spawns[KeyOf(r)] = 1
    BY DEF accept_hosted_worker_dispatch, DispatchInv, HolderInv
  <1>3. ReceiptInv'
    BY <1>1, <1>2 DEF accept_hosted_worker_dispatch, DispatchInv, ReceiptInv, KeyOf, BindingOf
  <1> QED
    BY <1>1, <1>3, QuietStep

LEMMA OtherStep ==
  ASSUME DispatchInv, NEW r \in Receivers, UNCHANGED <<marker, spawns, receipts>>,
         \/ verify_hosted_worker_dispatch(r)
         \/ Goto(r, "refuse") /\ work[r] # NoDispatch
         \/ Finish(r)
  PROVE  HolderInv' /\ OneHolder' /\ SpawnInv' /\ ReceiptInv'
  <1>1. ReceiptInv'
    BY DEF DispatchInv, ReceiptInv
  <1>2. CASE Finish(r)
    BY <1>1, <1>2, QuietStep DEF Finish
  <1>3. CASE Goto(r, "refuse") /\ work[r] # NoDispatch
    <2> DEFINE new == [work[r] EXCEPT !.phase = "refuse"]
    <2>1. new \in Work /\ new.phase = "refuse"
      BY <1>3, WorkType DEF DispatchInv
    <2>2. work' = [work EXCEPT ![r] = new]
      BY <1>3 DEF Goto
    <2> HIDE DEF new
    <2> QED
      BY <1>1, <2>1, <2>2, QuietStep
  <1>4. CASE verify_hosted_worker_dispatch(r)
    <2> DEFINE phase == IF BindingOf(r) \in PaidBindings THEN "reserve" ELSE "refuse"
               new   == [work[r] EXCEPT !.phase = phase]
    <2>1. new \in Work /\ new.phase = phase /\ new.dispatch = work[r].dispatch
      BY <1>4, WorkType DEF DispatchInv, verify_hosted_worker_dispatch, Phase
    <2>2. work' = [work EXCEPT ![r] = new]
      BY <1>4 DEF verify_hosted_worker_dispatch, Goto, BindingOf
    <2> HIDE DEF new
    <2> QED
      BY <1>1, <2>1, <2>2, QuietStep DEF BindingOf
  <1> QED
    BY <1>2, <1>3, <1>4

LEMMA ReceiveStep ==
  ASSUME DispatchInv, NEW r \in Receivers, NEW d \in Dispatch, Receive(r, d)
  PROVE  DispatchInv'
  <1> DEFINE new == [dispatch |-> d, phase |-> "verify"]
  <1>1. new \in Work
    BY DEF Work
  <1>2. /\ UNCHANGED <<marker, spawns, receipts>>
        /\ work' = [work EXCEPT ![r] = new]
    BY DEF Receive
  <1>3. new.phase = "verify"
    OBVIOUS
  <1> HIDE DEF new
  <1>4. HolderInv' /\ OneHolder' /\ SpawnInv'
    BY <1>1, <1>2, <1>3, QuietStep
  <1> QED
    BY <1>1, <1>2, <1>4 DEF DispatchInv, TypeOK, ReceiptInv

LEMMA DispatchStep == DispatchInv /\ [Next]_dispatchVars => DispatchInv'
  <1> SUFFICES ASSUME DispatchInv, [Next]_dispatchVars
               PROVE  DispatchInv'
    OBVIOUS
  <1>1. CASE UNCHANGED dispatchVars
    BY <1>1 DEF dispatchVars, DispatchInv, TypeOK, HolderInv, OneHolder, SpawnInv, ReceiptInv,
                Holds, Phase, KeyOf, BindingOf
  <1>2. ASSUME NEW r \in Receivers, Step(r) \/ WriteFails(r) \/ SpawnFails(r) \/ Crash(r)
        PROVE  DispatchInv'
    <2>1. TypeOK'
      BY <1>2, TypeStep DEF DispatchInv
    <2>2. CASE _reserve_dispatch(r)
      BY <2>1, <2>2, ReserveStep DEF DispatchInv
    <2>3. CASE WriteMarker(r)
      BY <2>1, <2>3, WriteStep DEF DispatchInv, WriteMarker, KeyOf, BindingOf
    <2>4. CASE WriteFails(r)
      BY <2>1, <2>4, WriteStep, OtherStep DEF DispatchInv, WriteFails, KeyOf, BindingOf, Phase
    <2>5. CASE _spawn_worker(r)
      BY <2>1, <2>5, SpawnStep DEF DispatchInv
    <2>6. CASE accept_hosted_worker_dispatch(r)
      BY <2>1, <2>6, AnswerStep DEF DispatchInv
    <2>7. CASE verify_hosted_worker_dispatch(r)
      BY <2>1, <2>7, OtherStep DEF DispatchInv, verify_hosted_worker_dispatch
    <2>8. CASE SpawnFails(r) \/ Refuse(r) \/ Crash(r)
      BY <2>1, <2>8, OtherStep DEF DispatchInv, SpawnFails, Refuse, Crash, Phase
    <2> QED
      BY <1>2, <2>2, <2>3, <2>4, <2>5, <2>6, <2>7, <2>8 DEF Step
  <1> QED
    BY <1>1, <1>2, ReceiveStep DEF Next

(* The inductive invariant of the receivers.                               *)
THEOREM DispatchInvariance == Spec => []DispatchInv
  BY DispatchInit, DispatchStep, PTL DEF Spec

(* The receivers' state has its type in every behaviour.                   *)
THEOREM DispatchTypeCorrect == Spec => []TypeOK
  <1>1. DispatchInv => TypeOK
    BY DEF DispatchInv
  <1> QED
    BY <1>1, DispatchInvariance, PTL

(* The cost guard of the dispatch state directory: at most one worker per  *)
(* job and action, for any number of receivers, retries and crashes.  The  *)
(* bound MaxSpawns plays no part: a receiver about to spawn finds 0.       *)
THEOREM AtMostOneWorker == Spec => []OneSpawn
  <1>1. DispatchInv => OneSpawn
    <2>1. DispatchInv => \A k \in Keys : spawns[k] \in {0, 1}
      BY DEF DispatchInv, SpawnInv
    <2>2. \A n \in {0, 1} : n <= 1
      OBVIOUS
    <2> QED
      BY <2>1, <2>2 DEF OneSpawn
  <1> QED
    BY <1>1, DispatchInvariance, PTL

(* Workers and receipts go with the paid binding the key was reserved for. *)
THEOREM BoundReservation == Spec => []BoundToReservation
  <1>1. DispatchInv => BoundToReservation
    BY DEF DispatchInv, SpawnInv, ReceiptInv, BoundToReservation, TypeOK
  <1> QED
    BY <1>1, DispatchInvariance, PTL

(* A receipt that is not a duplicate vouches for a spawned worker.         *)
THEOREM ReceiptVouches == Spec => []ReceiptMeansSpawned
  <1>1. DispatchInv => ReceiptMeansSpawned
    BY DEF DispatchInv, ReceiptInv, ReceiptMeansSpawned
  <1> QED
    BY <1>1, DispatchInvariance, PTL

-----------------------------------------------------------------------------
(* The receivers implement SpawnOnce. *)

(* Creating a marker reserves nothing: the reservation shows when the      *)
(* marker has its content.                                                 *)
LEMMA ReservedBy ==
  ASSUME DispatchInv, NEW k \in Keys
  PROVE  /\ marker[k] \in Bindings => Reserved[k] = marker[k] /\ Reserved[k] # NoMarker
         /\ marker[k] \in {NoMarker, Partial} => Reserved[k] = NoMarker
  BY MarkerAssumption DEF Reserved

LEMMA CreateIsQuiet ==
  ASSUME DispatchInv, NEW r \in Receivers, _reserve_dispatch(r)
  PROVE  UNCHANGED <<Reserved, spawns, receipts>>
  <1> DEFINE k == work[r].dispatch.key
  <1>1. k \in Keys /\ UNCHANGED <<spawns, receipts>>
    BY WorkType DEF _reserve_dispatch, Phase, DispatchInv, KeyOf
  <1>2. \A i \in Keys : \/ marker'[i] = marker[i]
                        \/ marker[i] = NoMarker /\ marker'[i] = Partial
    BY <1>1 DEF _reserve_dispatch, DispatchInv, TypeOK
  <1>3. Reserved' = Reserved
    BY <1>2 DEF Reserved
  <1> QED
    BY <1>1, <1>3

LEMMA WriteReserves ==
  ASSUME DispatchInv, NEW r \in Receivers, Phase(r, "write"),
         marker' = [marker EXCEPT ![KeyOf(r)] = BindingOf(r)], UNCHANGED <<spawns, receipts>>
  PROVE  Once!Reserve(KeyOf(r), BindingOf(r)) /\ KeyOf(r) \in Keys
                                              /\ BindingOf(r) \in PaidBindings
  <1>1. /\ KeyOf(r) \in Keys /\ BindingOf(r) \in PaidBindings
        /\ BindingOf(r) \in Bindings /\ marker[KeyOf(r)] = Partial
    BY WorkType DEF DispatchInv, HolderInv, Holds, Phase
  <1>2. Reserved[KeyOf(r)] = NoMarker
    BY <1>1, ReservedBy
  <1>3. \A k \in Keys : marker'[k] = IF k = KeyOf(r) THEN BindingOf(r) ELSE marker[k]
    BY <1>1 DEF DispatchInv, TypeOK
  <1>4. BindingOf(r) # Partial
    BY <1>1, MarkerAssumption
  <1>5. Reserved' = [Reserved EXCEPT ![KeyOf(r)] = BindingOf(r)]
    BY <1>3, <1>4 DEF Reserved
  <1> QED
    BY <1>1, <1>2, <1>5 DEF Once!Reserve

LEMMA SpawnsReserved ==
  ASSUME DispatchInv, NEW r \in Receivers, _spawn_worker(r)
  PROVE  Once!Spawn(KeyOf(r)) /\ KeyOf(r) \in Keys
  <1>1. /\ KeyOf(r) \in Keys /\ BindingOf(r) \in Bindings
        /\ marker[KeyOf(r)] = BindingOf(r) /\ spawns[KeyOf(r)] = 0
    BY WorkType DEF _spawn_worker, DispatchInv, HolderInv, Holds, Phase
  <1>2. Reserved[KeyOf(r)] # NoMarker
    BY <1>1, ReservedBy
  <1>3. spawns' = [spawns EXCEPT ![KeyOf(r)] = 1]
    BY <1>1 DEF _spawn_worker, DispatchInv, TypeOK, KeyOf
  <1>4. UNCHANGED <<Reserved, receipts>>
    BY DEF _spawn_worker, Reserved
  <1> QED
    BY <1>1, <1>2, <1>3, <1>4 DEF Once!Spawn

LEMMA AnswerVouches ==
  ASSUME DispatchInv, NEW r \in Receivers, accept_hosted_worker_dispatch(r)
  PROVE  Once!Vouch(KeyOf(r), Phase(r, "duplicate")) /\ KeyOf(r) \in Keys
  <1>1. /\ KeyOf(r) \in Keys /\ BindingOf(r) \in Bindings
        /\ marker[KeyOf(r)] = BindingOf(r) /\ work[r] \in Work
        /\ Phase(r, "duplicate") \/ spawns[KeyOf(r)] = 1
    BY WorkType DEF accept_hosted_worker_dispatch, DispatchInv, HolderInv, Holds, Phase
  <1>2. Reserved[KeyOf(r)] = BindingOf(r) /\ Reserved[KeyOf(r)] # NoMarker
    BY <1>1, ReservedBy
  <1>3. work[r].dispatch = [key |-> KeyOf(r), binding |-> Reserved[KeyOf(r)]]
    BY <1>1, <1>2 DEF Work, Dispatch, KeyOf, BindingOf
  <1>4. UNCHANGED <<Reserved, spawns>>
    BY DEF accept_hosted_worker_dispatch, Reserved
  <1> QED
    BY <1>1, <1>2, <1>3, <1>4 DEF accept_hosted_worker_dispatch, Once!Vouch

LEMMA OnceInit == Init => Once!Init
  BY MarkerAssumption DEF Init, Once!Init, Reserved

LEMMA OnceStep ==
  DispatchInv /\ [Next]_dispatchVars => [Once!Next]_<<Reserved, spawns, receipts>>
  <1> SUFFICES ASSUME DispatchInv, [Next]_dispatchVars
               PROVE  Once!Next \/ UNCHANGED <<Reserved, spawns, receipts>>
    OBVIOUS
  <1>0. UNCHANGED <<marker, spawns, receipts>> => UNCHANGED <<Reserved, spawns, receipts>>
    BY DEF Reserved
  <1>1. CASE UNCHANGED dispatchVars
    BY <1>0, <1>1 DEF dispatchVars
  <1>2. ASSUME NEW r \in Receivers, NEW d \in Dispatch, Receive(r, d)
        PROVE  UNCHANGED <<Reserved, spawns, receipts>>
    BY <1>0, <1>2 DEF Receive
  <1>3. ASSUME NEW r \in Receivers, Step(r) \/ WriteFails(r) \/ SpawnFails(r) \/ Crash(r)
        PROVE  Once!Next \/ UNCHANGED <<Reserved, spawns, receipts>>
    <2>1. CASE _reserve_dispatch(r)
      BY <2>1, CreateIsQuiet
    <2>2. CASE WriteMarker(r)
      <3>1. /\ Phase(r, "write") /\ UNCHANGED <<spawns, receipts>>
            /\ marker' = [marker EXCEPT ![KeyOf(r)] = BindingOf(r)]
        BY <2>2 DEF WriteMarker, KeyOf, BindingOf
      <3> QED
        BY <3>1, WriteReserves DEF Once!Next
    <2>3. CASE WriteFails(r)
      <3>1. /\ UNCHANGED <<spawns, receipts>>
            /\ \/ UNCHANGED marker
               \/ /\ Phase(r, "write")
                  /\ marker' = [marker EXCEPT ![KeyOf(r)] = BindingOf(r)]
        BY <2>3 DEF WriteFails, KeyOf, BindingOf
      <3> QED
        BY <1>0, <3>1, WriteReserves DEF Once!Next
    <2>4. CASE _spawn_worker(r)
      BY <2>4, SpawnsReserved DEF Once!Next
    <2>5. CASE accept_hosted_worker_dispatch(r)
      <3>1. Phase(r, "duplicate") \in BOOLEAN
        BY DEF Phase
      <3> QED
        BY <2>5, <3>1, AnswerVouches DEF Once!Next
    <2>6. CASE verify_hosted_worker_dispatch(r) \/ SpawnFails(r) \/ Refuse(r) \/ Crash(r)
      BY <1>0, <2>6 DEF verify_hosted_worker_dispatch, SpawnFails, Refuse, Crash
    <2> QED
      BY <1>3, <2>1, <2>2, <2>3, <2>4, <2>5, <2>6 DEF Step
  <1> QED
    BY <1>1, <1>2, <1>3 DEF Next

(* The receivers implement their promise: a key is reserved for one paid   *)
(* binding, its worker is spawned once, receipts name that binding, and    *)
(* nothing is taken back, whichever step a receiver dies or fails at.      *)
THEOREM SpawnOnceKept == Spec => ImplementsSpawnOnce
  <1>1. Init => Once!Init
    BY OnceInit
  <1>2. DispatchInv /\ [Next]_dispatchVars => [Once!Next]_<<Reserved, spawns, receipts>>
    BY OnceStep
  <1> QED
    BY <1>1, <1>2, DispatchInvariance, PTL DEF Spec, ImplementsSpawnOnce, Once!Spec

=============================================================================
