------------------------- MODULE AtomicWriteProofs -------------------------
(***************************************************************************)
(* A save implements DurableFile up to the step in which two saves through *)
(* one temporary name overlap, for any number of writers, contents and     *)
(* inodes, any way of sharing the names, and every set of faults.          *)
(***************************************************************************)
EXTENDS AtomicWrite, TLAPS

(* Each name has an inode of its own, no name has the target's, and a      *)
(* writer's descriptor is its own name's inode: empty until it is written, *)
(* whole afterwards.                                                       *)
OwnInode ==
  /\ \A m, n \in Temps : temp[m] # NoFile /\ temp[m] = temp[n] => m = n
  /\ \A n \in Temps : temp[n] # NoFile => temp[n] # target

Descriptor ==
  \A w \in Writers :
    saves[w] # NotSaving =>
      /\ temp[TempOf[w]] = saves[w].fd
      /\ data[saves[w].fd] = IF saves[w].phase = "opened" THEN Empty ELSE saves[w].content

TargetWhole == target # NoFile => data[target] \in Contents

(* No two saves in progress share a temporary name.                        *)
Alone ==
  \A v, w \in Writers :
    saves[v] # NotSaving /\ saves[w] # NotSaving /\ TempOf[v] = TempOf[w] => v = w

WriteInv == TypeOKWrite /\ OwnInode /\ Descriptor /\ TargetWhole /\ Alone

UnlessClashed == TypeOKWrite /\ (~clashed => WriteInv)

-----------------------------------------------------------------------------

LEMMA WriteInit == InitWrite => WriteInv
  BY DEF InitWrite, WriteInv, TypeOKWrite, OwnInode, Descriptor, TargetWhole, Alone

LEMMA SaveType ==
  ASSUME TypeOKWrite, NEW w \in Writers, saves[w] # NotSaving
  PROVE  /\ saves[w] \in Save /\ saves[w].fd \in Inodes /\ saves[w].content \in Contents
         /\ saves[w].phase \in {"opened", "written"} /\ TempOf[w] \in Temps
  BY TempOfAssumption DEF TypeOKWrite, Save

LEMMA OpenPreserves ==
  ASSUME WriteInv, NEW w \in Writers, NEW c \in Contents, OpenTemp(w, c), ~InUse(w)
  PROVE  WriteInv' /\ Found' = Found
  <1>1. PICK i \in Inodes :
          /\ IF temp[TempOf[w]] = NoFile THEN Unused(i) ELSE i = temp[TempOf[w]]
          /\ temp' = [temp EXCEPT ![TempOf[w]] = i]
          /\ data' = [data EXCEPT ![i] = Empty]
          /\ saves' = [saves EXCEPT ![w] = [phase |-> "opened", content |-> c, fd |-> i]]
    BY DEF OpenTemp
  <1>2. saves[w] = NotSaving /\ target' = target /\ TempOf[w] \in Temps
    BY TempOfAssumption DEF OpenTemp
  <1>3. \A v \in Writers : v # w /\ saves[v] # NotSaving => TempOf[v] # TempOf[w]
    BY DEF InUse
  <1>4. i # target /\ i # NoFile
    BY <1>1, <1>2, InodeAssumption DEF WriteInv, OwnInode, Unused
  <1>5. \A n \in Temps : n # TempOf[w] => temp[n] # i
    BY <1>1, <1>2, InodeAssumption DEF WriteInv, OwnInode, Unused
  <1>6. \A v \in Writers : v # w /\ saves[v] # NotSaving => saves[v].fd # i
    <2> SUFFICES ASSUME NEW v \in Writers, v # w, saves[v] # NotSaving PROVE saves[v].fd # i
      OBVIOUS
    <2>1. TempOf[v] \in Temps /\ temp[TempOf[v]] = saves[v].fd
      BY TempOfAssumption DEF WriteInv, Descriptor
    <2> QED
      BY <2>1, <1>3, <1>5
  <1>7. [phase |-> "opened", content |-> c, fd |-> i] \in Save
    BY DEF Save
  <1>8. TypeOKWrite'
    BY <1>1, <1>2, <1>7 DEF WriteInv, TypeOKWrite, OpenTemp
  <1>9. OwnInode'
    BY <1>1, <1>2, <1>4, <1>5 DEF WriteInv, TypeOKWrite, OwnInode
  <1>10. Descriptor'
    <2> SUFFICES ASSUME NEW v \in Writers, saves'[v] # NotSaving
                 PROVE  /\ temp'[TempOf[v]] = saves'[v].fd
                        /\ data'[saves'[v].fd] = IF saves'[v].phase = "opened"
                                                 THEN Empty ELSE saves'[v].content
      BY DEF Descriptor
    <2>1. CASE v = w
      BY <2>1, <1>1, <1>2 DEF WriteInv, TypeOKWrite
    <2>2. CASE v # w
      <3>1. saves'[v] = saves[v]
        BY <2>2, <1>1 DEF WriteInv, TypeOKWrite
      <3>2. TempOf[v] \in Temps /\ saves[v].fd \in Inodes
        BY <3>1, SaveType DEF WriteInv
      <3>3. temp'[TempOf[v]] = temp[TempOf[v]]
        BY <2>2, <3>1, <3>2, <1>1, <1>3 DEF WriteInv, TypeOKWrite
      <3>4. data'[saves[v].fd] = data[saves[v].fd]
        BY <2>2, <3>1, <3>2, <1>1, <1>6 DEF WriteInv, TypeOKWrite
      <3> QED
        BY <3>1, <3>3, <3>4 DEF WriteInv, Descriptor
    <2> QED
      BY <2>1, <2>2
  <1>11. TargetWhole' /\ Found' = Found
    BY <1>1, <1>2, <1>4 DEF WriteInv, TypeOKWrite, TargetWhole, Found
  <1>12. Alone'
    BY <1>1, <1>3 DEF WriteInv, TypeOKWrite, Alone
  <1> QED
    BY <1>8, <1>9, <1>10, <1>11, <1>12 DEF WriteInv

(* A step that writes d into the inode of w's descriptor.                  *)
LEMMA WritePreserves ==
  ASSUME WriteInv, NEW w \in Writers, WriteContent(w)
  PROVE  WriteInv' /\ Found' = Found
  <1> DEFINE i == saves[w].fd
  <1>1. saves[w] # NotSaving /\ saves[w].phase = "opened"
    BY DEF WriteContent, NotSaving
  <1>2. /\ i \in Inodes /\ saves[w].content \in Contents
        /\ TempOf[w] \in Temps /\ saves[w] \in Save
    BY <1>1, SaveType DEF WriteInv
  <1>3. data[i] = Empty /\ temp[TempOf[w]] = i
    BY <1>1 DEF WriteInv, Descriptor
  <1>4. data' = [data EXCEPT ![i] = saves[w].content] /\ UNCHANGED <<target, temp>>
    BY <1>3 DEF WriteContent
  <1>5. saves' = [saves EXCEPT ![w].phase = "written"]
    BY DEF WriteContent
  <1>6. i # target /\ i # NoFile
    BY <1>2, <1>3, InodeAssumption DEF WriteInv, OwnInode
  <1>7. /\ [saves[w] EXCEPT !.phase = "written"] \in Save
        /\ [saves[w] EXCEPT !.phase = "written"].fd = i
        /\ [saves[w] EXCEPT !.phase = "written"].content = saves[w].content
        /\ [saves[w] EXCEPT !.phase = "written"].phase = "written"
    BY <1>2 DEF Save
  <1>8. TypeOKWrite'
    BY <1>2, <1>4, <1>5, <1>7 DEF WriteInv, TypeOKWrite, WriteContent
  <1>9. OwnInode'
    BY <1>4 DEF WriteInv, OwnInode
  <1>10. Descriptor'
    <2> SUFFICES ASSUME NEW v \in Writers, saves'[v] # NotSaving
                 PROVE  /\ temp'[TempOf[v]] = saves'[v].fd
                        /\ data'[saves'[v].fd] = IF saves'[v].phase = "opened"
                                                 THEN Empty ELSE saves'[v].content
      BY DEF Descriptor
    <2>1. CASE v = w
      <3>1. saves'[v] = [saves[w] EXCEPT !.phase = "written"]
        BY <2>1, <1>5 DEF WriteInv, TypeOKWrite
      <3>2. data'[i] = saves[w].content
        BY <1>2, <1>4 DEF WriteInv, TypeOKWrite
      <3> QED
        BY <2>1, <3>1, <3>2, <1>3, <1>4, <1>7
    <2>2. CASE v # w
      <3>1. saves'[v] = saves[v]
        BY <2>2, <1>5 DEF WriteInv, TypeOKWrite
      <3>2. TempOf[v] \in Temps /\ saves[v].fd \in Inodes /\ temp[TempOf[v]] = saves[v].fd
        BY <3>1, SaveType DEF WriteInv, Descriptor
      <3>3. TempOf[v] # TempOf[w]
        BY <2>2, <3>1, <1>1 DEF WriteInv, Alone
      <3>4. saves[v].fd # i
        BY <3>2, <3>3, <1>2, <1>3, <1>6 DEF WriteInv, OwnInode
      <3>5. data'[saves[v].fd] = data[saves[v].fd]
        BY <3>2, <3>4, <1>4 DEF WriteInv, TypeOKWrite
      <3> QED
        BY <3>1, <3>5, <1>4 DEF WriteInv, Descriptor
    <2> QED
      BY <2>1, <2>2
  <1>11. TargetWhole' /\ Found' = Found
    BY <1>4, <1>6 DEF WriteInv, TypeOKWrite, TargetWhole, Found
  <1>12. Alone'
    <2>1. \A v \in Writers : saves'[v] # NotSaving => saves[v] # NotSaving
      BY <1>1, <1>5 DEF WriteInv, TypeOKWrite
    <2> QED
      BY <2>1 DEF WriteInv, Alone
  <1> QED
    BY <1>8, <1>9, <1>10, <1>11, <1>12 DEF WriteInv

(* The steps that end a save of w and free its name, or not.               *)
LEMMA EndPreserves ==
  ASSUME WriteInv, NEW w \in Writers, saves[w] # NotSaving,
         saves' = [saves EXCEPT ![w] = NotSaving],
         temp' = temp \/ temp' = [temp EXCEPT ![TempOf[w]] = NoFile]
  PROVE  /\ \A v \in Writers : saves'[v] # NotSaving => v # w /\ saves'[v] = saves[v]
         /\ \A n \in Temps : temp'[n] = temp[n] \/ (n = TempOf[w] /\ temp'[n] = NoFile)
         /\ \A v \in Writers : saves'[v] # NotSaving =>
              /\ temp'[TempOf[v]] = saves[v].fd /\ saves[v].fd # saves[w].fd
              /\ saves[v].fd \in Inodes
         /\ temp' \in [Temps -> Inodes \cup {NoFile}]
         /\ saves' \in [Writers -> Save \cup {NotSaving}]
  <1>1. \A v \in Writers : saves'[v] # NotSaving => v # w /\ saves'[v] = saves[v]
    BY DEF WriteInv, TypeOKWrite
  <1>2. \A n \in Temps : temp'[n] = temp[n] \/ (n = TempOf[w] /\ temp'[n] = NoFile)
    BY DEF WriteInv, TypeOKWrite
  <1>3. TempOf[w] \in Temps /\ temp[TempOf[w]] = saves[w].fd /\ saves[w].fd \in Inodes
    BY SaveType DEF WriteInv, Descriptor
  <1>4. ASSUME NEW v \in Writers, saves'[v] # NotSaving
        PROVE  /\ temp'[TempOf[v]] = saves[v].fd /\ saves[v].fd # saves[w].fd
               /\ saves[v].fd \in Inodes
    <2>1. v # w /\ saves[v] # NotSaving /\ TempOf[v] # TempOf[w]
      BY <1>1, <1>4 DEF WriteInv, Alone
    <2>2. TempOf[v] \in Temps /\ temp[TempOf[v]] = saves[v].fd /\ saves[v].fd \in Inodes
      BY <2>1, SaveType DEF WriteInv, Descriptor
    <2>3. saves[v].fd # saves[w].fd
      BY <2>1, <2>2, <1>3, InodeAssumption DEF WriteInv, OwnInode
    <2> QED
      BY <2>1, <2>2, <2>3, <1>2
  <1>5. temp' \in [Temps -> Inodes \cup {NoFile}] /\ saves' \in [Writers -> Save \cup {NotSaving}]
    BY <1>3 DEF WriteInv, TypeOKWrite
  <1> QED
    BY <1>1, <1>2, <1>4, <1>5

LEMMA FailPreserves ==
  ASSUME WriteInv, NEW w \in Writers, WriteFails(w) \/ WriterDies(w)
  PROVE  WriteInv' /\ Found' = Found
  <1>1. saves[w] # NotSaving /\ UNCHANGED target /\ saves' = [saves EXCEPT ![w] = NotSaving]
    BY DEF WriteFails, WriterDies, NotSaving
  <1>2. temp' = temp \/ temp' = [temp EXCEPT ![TempOf[w]] = NoFile]
    BY DEF WriteFails, WriterDies
  <1>3. saves[w].fd \in Inodes /\ temp[TempOf[w]] = saves[w].fd /\ TempOf[w] \in Temps
    BY <1>1, SaveType DEF WriteInv, Descriptor
  <1>4. /\ data' \in [Inodes -> Contents \cup {Empty, Torn}]
        /\ \A i \in Inodes : i # saves[w].fd => data'[i] = data[i]
    BY <1>3 DEF WriteFails, WriterDies, WriteInv, TypeOKWrite
  <1>5. saves[w].fd # target
    BY <1>3, InodeAssumption DEF WriteInv, OwnInode
  <1>a. /\ \A v \in Writers : saves'[v] # NotSaving => v # w /\ saves'[v] = saves[v]
        /\ \A n \in Temps : temp'[n] = temp[n] \/ (n = TempOf[w] /\ temp'[n] = NoFile)
        /\ \A v \in Writers : saves'[v] # NotSaving =>
             /\ temp'[TempOf[v]] = saves[v].fd /\ saves[v].fd # saves[w].fd
             /\ saves[v].fd \in Inodes
        /\ temp' \in [Temps -> Inodes \cup {NoFile}]
        /\ saves' \in [Writers -> Save \cup {NotSaving}]
    BY <1>1, <1>2, EndPreserves
  <1>6. TypeOKWrite'
    BY <1>1, <1>4, <1>a DEF WriteInv, TypeOKWrite, WriteFails, WriterDies
  <1>7. OwnInode'
    BY <1>1, <1>a DEF WriteInv, OwnInode
  <1>8. Descriptor'
    BY <1>1, <1>4, <1>a DEF WriteInv, Descriptor
  <1>9. TargetWhole' /\ Found' = Found
    BY <1>1, <1>4, <1>5 DEF WriteInv, TypeOKWrite, TargetWhole, Found
  <1>10. Alone'
    BY <1>a DEF WriteInv, Alone
  <1> QED
    BY <1>6, <1>7, <1>8, <1>9, <1>10 DEF WriteInv

LEMMA ReplacePreserves ==
  ASSUME WriteInv, NEW w \in Writers, Replace(w)
  PROVE  WriteInv' /\ saves[w] # NotSaving /\ Found' = saves[w].content
  <1>1. /\ saves[w] # NotSaving /\ saves[w].phase = "written" /\ data' = data
        /\ saves' = [saves EXCEPT ![w] = NotSaving]
        /\ temp' = [temp EXCEPT ![TempOf[w]] = NoFile]
    BY DEF Replace, NotSaving
  <1>2. /\ saves[w].fd \in Inodes /\ temp[TempOf[w]] = saves[w].fd /\ TempOf[w] \in Temps
        /\ saves[w].content \in Contents
    BY <1>1, SaveType DEF WriteInv, Descriptor
  <1>3. data[saves[w].fd] = saves[w].content
    BY <1>1 DEF WriteInv, Descriptor
  <1>4. target' = saves[w].fd /\ target' # NoFile
    BY <1>2, InodeAssumption DEF Replace
  <1>a. /\ \A v \in Writers : saves'[v] # NotSaving => v # w /\ saves'[v] = saves[v]
        /\ \A n \in Temps : temp'[n] = temp[n] \/ (n = TempOf[w] /\ temp'[n] = NoFile)
        /\ \A v \in Writers : saves'[v] # NotSaving =>
             /\ temp'[TempOf[v]] = saves[v].fd /\ saves[v].fd # saves[w].fd
             /\ saves[v].fd \in Inodes
        /\ temp' \in [Temps -> Inodes \cup {NoFile}]
        /\ saves' \in [Writers -> Save \cup {NotSaving}]
    BY <1>1, EndPreserves
  <1>5. TypeOKWrite'
    BY <1>1, <1>2, <1>4, <1>a DEF WriteInv, TypeOKWrite, Replace
  <1>6. OwnInode'
    <2>1. \A n \in Temps : temp'[n] # NoFile => n # TempOf[w] /\ temp'[n] = temp[n]
      BY <1>1, <1>2 DEF WriteInv, TypeOKWrite
    <2> QED
      BY <2>1, <1>2, <1>4 DEF WriteInv, OwnInode
  <1>7. Descriptor'
    BY <1>1, <1>a DEF WriteInv, Descriptor
  <1>8. TargetWhole' /\ Found' = saves[w].content
    BY <1>1, <1>2, <1>3, <1>4 DEF TargetWhole, Found
  <1>9. Alone'
    BY <1>a DEF WriteInv, Alone
  <1> QED
    BY <1>1, <1>5, <1>6, <1>7, <1>8, <1>9 DEF WriteInv

-----------------------------------------------------------------------------

(* What a step does to the pending saves.                                  *)
LEMMA SavingStep ==
  ASSUME TypeOKWrite, NEW w \in Writers, NEW s \in Save \cup {NotSaving},
         saves' = [saves EXCEPT ![w] = s]
  PROVE  Saving' = [Saving EXCEPT ![w] = IF s = NotSaving THEN NoFile ELSE s.content]
  <1>1. \A v \in Writers : saves'[v] = IF v = w THEN s ELSE saves[v]
    BY DEF TypeOKWrite
  <1>2. \A v \in Writers : Saving'[v] = IF saves'[v] = NotSaving THEN NoFile ELSE saves'[v].content
    BY DEF Saving
  <1>3. \A v \in Writers : Saving[v] = IF saves[v] = NotSaving THEN NoFile ELSE saves[v].content
    BY DEF Saving
  <1>4. \A v \in Writers : Saving'[v] =
          [Saving EXCEPT ![w] = IF s = NotSaving THEN NoFile ELSE s.content][v]
    BY <1>1, <1>2, <1>3 DEF Saving
  <1>5. DOMAIN Saving' = Writers /\ Saving' = [v \in Writers |-> Saving'[v]]
    BY DEF Saving
  <1> QED
    BY <1>4, <1>5 DEF Saving

LEMMA StepRefines ==
  ASSUME WriteInv, [NextWrite]_writeVars, ~clashed'
  PROVE  WriteInv' /\ [Durable!Next]_(Durable!fileVars)
  <1>1. ASSUME NEW w \in Writers, NEW c \in Contents, OpenTemp(w, c)
        PROVE  WriteInv' /\ Durable!Begin(w, c)
    <2>1. PICK i \in Inodes :
            saves' = [saves EXCEPT ![w] = [phase |-> "opened", content |-> c, fd |-> i]]
      BY <1>1 DEF OpenTemp
    <2> DEFINE s == [phase |-> "opened", content |-> c, fd |-> i]
    <2>2. s \in Save
      BY DEF Save
    <2>3. s # NotSaving /\ s.content = c
      BY DEF NotSaving
    <2>a. saves' = [saves EXCEPT ![w] = s]
      BY <2>1
    <2> HIDE DEF s
    <2>4. Saving' = [Saving EXCEPT ![w] = c]
      BY <2>a, <2>2, <2>3, SavingStep DEF WriteInv
    <2>5. Saving[w] = NoFile
      BY <1>1 DEF OpenTemp, Saving
    <2> QED
      <3>1. ~InUse(w)
        BY <1>1 DEF OpenTemp
      <3> QED
        BY <1>1, <2>4, <2>5, <3>1, OpenPreserves DEF Durable!Begin
  <1>2. ASSUME NEW w \in Writers, WriteContent(w)
        PROVE  WriteInv' /\ UNCHANGED Durable!fileVars
    <2>1. saves[w] # NotSaving /\ saves[w] \in Save
      BY <1>2, SaveType DEF WriteInv, WriteContent, NotSaving
    <2> DEFINE s == [saves[w] EXCEPT !.phase = "written"]
    <2>2. s \in Save /\ s.content = saves[w].content /\ s # NotSaving
      BY <2>1 DEF Save, NotSaving
    <2>3. saves' = [saves EXCEPT ![w] = s]
      BY <1>2, <2>1 DEF WriteContent, WriteInv, TypeOKWrite
    <2>4. Saving' = [Saving EXCEPT ![w] = saves[w].content]
      BY <2>2, <2>3, SavingStep DEF WriteInv
    <2>5. Saving[w] = saves[w].content
      BY <2>1 DEF Saving
    <2>6. Saving' = Saving
      BY <2>4, <2>5 DEF Saving
    <2> QED
      BY <1>2, <2>6, WritePreserves DEF Durable!fileVars
  <1>3. ASSUME NEW w \in Writers, WriteFails(w) \/ WriterDies(w)
        PROVE  WriteInv' /\ Durable!Abort(w)
    <2>1. saves[w] # NotSaving /\ saves' = [saves EXCEPT ![w] = NotSaving]
      BY <1>3 DEF WriteFails, WriterDies, NotSaving
    <2>2. Saving' = [Saving EXCEPT ![w] = NoFile]
      BY <2>1, SavingStep DEF WriteInv
    <2>3. Saving[w] # NoFile
      BY <2>1, SaveType, ContentAssumption DEF Saving, WriteInv
    <2> QED
      BY <1>3, <2>2, <2>3, FailPreserves DEF Durable!Abort
  <1>4. ASSUME NEW w \in Writers, Replace(w)
        PROVE  WriteInv' /\ Durable!Commit(w)
    <2>1. saves[w] # NotSaving /\ saves' = [saves EXCEPT ![w] = NotSaving]
      BY <1>4 DEF Replace, NotSaving
    <2>2. Saving' = [Saving EXCEPT ![w] = NoFile]
      BY <2>1, SavingStep DEF WriteInv
    <2>3. Saving[w] = saves[w].content /\ Saving[w] # NoFile
      BY <2>1, SaveType, ContentAssumption DEF Saving, WriteInv
    <2> QED
      BY <1>4, <2>2, <2>3, ReplacePreserves DEF Durable!Commit
  <1>5. CASE UNCHANGED writeVars
    BY <1>5 DEF writeVars, WriteInv, TypeOKWrite, OwnInode, Descriptor, TargetWhole,
                Alone, Durable!fileVars, Found, Saving
  <1> QED
    BY <1>1, <1>2, <1>3, <1>4, <1>5 DEF NextWrite, Durable!Next

(* A step that is no clash comes from a state without one.                 *)
LEMMA ClashStays == [NextWrite]_writeVars /\ ~clashed' => ~clashed
  BY DEF NextWrite, writeVars, OpenTemp, WriteContent, WriteFails, Replace, WriterDies

(* The types survive a clash.                                              *)
LEMMA TypeStep ==
  ASSUME TypeOKWrite, [NextWrite]_writeVars
  PROVE  TypeOKWrite'
  <1>1. ASSUME NEW w \in Writers, NEW c \in Contents, OpenTemp(w, c)
        PROVE  TypeOKWrite'
    <2>1. PICK i \in Inodes :
            /\ temp' = [temp EXCEPT ![TempOf[w]] = i]
            /\ data' = [data EXCEPT ![i] = Empty]
            /\ saves' = [saves EXCEPT ![w] = [phase |-> "opened", content |-> c, fd |-> i]]
      BY <1>1 DEF OpenTemp
    <2>2. [phase |-> "opened", content |-> c, fd |-> i] \in Save
      BY DEF Save
    <2>3. UNCHANGED target /\ clashed' \in BOOLEAN
      BY <1>1 DEF OpenTemp, TypeOKWrite
    <2> QED
      BY <2>1, <2>2, <2>3 DEF TypeOKWrite
  <1>2. ASSUME NEW w \in Writers, WriteContent(w)
        PROVE  TypeOKWrite'
    <2>1. saves[w] # NotSaving /\ saves[w].phase = "opened"
      BY <1>2 DEF WriteContent, NotSaving
    <2>2. saves[w] \in Save /\ saves[w].fd \in Inodes /\ saves[w].content \in Contents
      BY <2>1, SaveType
    <2>3. [saves[w] EXCEPT !.phase = "written"] \in Save
      BY <2>2 DEF Save
    <2>4. saves' = [saves EXCEPT ![w] = [saves[w] EXCEPT !.phase = "written"]]
      BY <1>2 DEF WriteContent
    <2>5. PICK d \in Contents \cup {Torn} : data' = [data EXCEPT ![saves[w].fd] = d]
      BY <1>2, <2>2 DEF WriteContent
    <2> QED
      BY <1>2, <2>2, <2>3, <2>4, <2>5 DEF WriteContent, TypeOKWrite
  <1>3. ASSUME NEW w \in Writers, WriteFails(w)
        PROVE  TypeOKWrite'
    <2>1. saves[w] # NotSaving
      BY <1>3 DEF WriteFails, NotSaving
    <2>2. saves[w].fd \in Inodes
      BY <2>1, SaveType
    <2> QED
      BY <1>3, <2>2 DEF WriteFails, TypeOKWrite
  <1>4. ASSUME NEW w \in Writers, Replace(w) \/ WriterDies(w)
        PROVE  TypeOKWrite'
    BY <1>4, TempOfAssumption DEF Replace, WriterDies, TypeOKWrite
  <1>5. CASE UNCHANGED writeVars
    BY <1>5 DEF writeVars, TypeOKWrite
  <1> QED
    BY <1>1, <1>2, <1>3, <1>4, <1>5 DEF NextWrite

LEMMA UnlessClashedStep ==
  UnlessClashed /\ [NextWrite]_writeVars =>
    UnlessClashed' /\ [clashed' \/ Durable!Next]_(Durable!fileVars)
  BY TypeStep, ClashStays, StepRefines DEF UnlessClashed

LEMMA UnlessClashedInv == SpecWrite => []UnlessClashed
  BY WriteInit, UnlessClashedStep, PTL DEF SpecWrite, UnlessClashed, WriteInv

(* Every reader of a saved file finds a whole content: saves, failures and *)
(* crashes are steps of DurableFile (vault/bundle.py 209-223,              *)
(* vault/session.py, runner/gates.py 409-424), up to the step in which two *)
(* saves through one temporary name overlap.                               *)
THEOREM SaveRefines == SpecWrite => ImplementsDurableFile
  <1>1. InitWrite => UnlessClashed /\ Durable!Init
    BY WriteInit DEF InitWrite, Durable!Init, Found, Saving, UnlessClashed, WriteInv
  <1>2. UnlessClashed /\ [NextWrite]_writeVars =>
          UnlessClashed' /\ [clashed' \/ Durable!Next]_<<Found, Saving>>
    BY UnlessClashedStep DEF Durable!fileVars
  <1> QED
    BY <1>1, <1>2, PTL DEF SpecWrite, ImplementsDurableFile

(* In particular the file is readable until then.                          *)
THEOREM SaveReadable == SpecWrite => []Readable
  <1>1. UnlessClashed => Readable
    BY DEF UnlessClashed, WriteInv, TargetWhole, Readable, Found
  <1> QED
    BY <1>1, UnlessClashedInv, PTL

(* The state of the writers keeps its type, clash or not.                  *)
THEOREM WriteTypeCorrect == SpecWrite => []TypeOKWrite
  <1>1. UnlessClashed => TypeOKWrite
    BY DEF UnlessClashed
  <1> QED
    BY <1>1, UnlessClashedInv, PTL

=============================================================================
