---------------------------- MODULE SkillsProofs ----------------------------
(***************************************************************************)
(* Proofs about Skills, for any number of turns and skills and any bounds: *)
(* variables keep their types, and every approval the program acts on was  *)
(* given by a validation of that very content.                             *)
(***************************************************************************)
EXTENDS Skills, SequenceTheorems, FiniteSetTheorems, TLAPS

\* What a turn has read and still acts on was approved, wherever it is.
Justified(t) ==
    /\ pc[t] = "staling" /\ superseded[t] \in Keys => superseded[t] \in approvals
    /\ pc[t] = "loadingTrusted" => Wanted(t) \in approvals
    /\ pc[t] \in {"savingApproval", "savingStale"} =>
            <<Wanted(t)[1], loaded[t]>> \in approvals
    /\ pc[t] \in {"starting", "running"} => licence[t] \in approvals

VerdictInv ==
    /\ ApprovalsHaveVerdicts
    /\ InstructionsWereApproved
    /\ \A t \in Turns : Justified(t)

-----------------------------------------------------------------------------
(* Facts about the data                                                    *)

LEMMA SavedStatusDomain ==
    /\ DOMAIN SavedStatus = {"savingApproval", "savingRejection", "savingStale"}
    /\ \A step \in DOMAIN SavedStatus : SavedStatus[step] \in Statuses
    /\ SavedStatus["savingRejection"] = "REJECTED"
BY DEF SavedStatus, Statuses

LEMMA KeyParts ==
    /\ \A k \in Keys : k = <<k[1], k[2]>> /\ k[1] \in Names /\ k[2] \in Bundles
    /\ \A s \in Names, b \in Bundles :
        <<s, b>> \in Keys /\ <<s, b>>[1] = s /\ <<s, b>>[2] = b
BY DEF Keys

LEMMA WantedIsKey ==
    ASSUME TypeOK, NEW t \in Turns, todo[t] # <<>>
    PROVE  /\ Wanted(t) \in Keys
           /\ Wanted(t)[1] \in Names
           /\ Wanted(t)[2] \in Bundles
           /\ Tail(todo[t]) \in Seq(Keys)
           /\ Temp(t) \in Temps
<1>1. todo[t] \in Seq(Keys)
  BY DEF TypeOK
<1>2. Head(todo[t]) \in Keys /\ Tail(todo[t]) \in Seq(Keys)
      /\ Len(todo[t]) \in Nat
  BY <1>1, HeadTailProperties, LenProperties
<1> QED
  BY <1>2, KeyParts DEF Wanted, Temp, Temps

LEMMA ScriptsChange ==
    ASSUME NEW d \in [Names -> Bundles], NEW s \in Names, NEW script \in Scripts
    PROVE  /\ [d EXCEPT ![s].scripts = @ \cup {script}] \in [Names -> Bundles]
           /\ [d EXCEPT ![s].scripts = @ \ {script}] \in [Names -> Bundles]
<1>1. \A S \in SUBSET Scripts : [d[s] EXCEPT !.scripts = S] \in Bundles
  BY DEF Bundles
<1>2. d[s].scripts \in SUBSET Scripts
  BY DEF Bundles
<1>3. d[s].scripts \cup {script} \in SUBSET Scripts
      /\ d[s].scripts \ {script} \in SUBSET Scripts
  BY <1>2
<1>4. [d[s] EXCEPT !.scripts = @ \cup {script}] \in Bundles
      /\ [d[s] EXCEPT !.scripts = @ \ {script}] \in Bundles
  BY <1>1, <1>3
<1> QED
  BY <1>4

LEMMA VersionChange ==
    ASSUME NEW d \in [Names -> Bundles], NEW s \in Names, NEW v \in Versions
    PROVE  [d EXCEPT ![s].version = v] \in [Names -> Bundles]
<1>1. [d[s] EXCEPT !.version = v] \in Bundles
  BY DEF Bundles
<1> QED
  BY <1>1

-----------------------------------------------------------------------------
(* Types                                                                   *)

\* The types of the variables, without what a turn's place requires.
Shapes ==
    /\ disk \in [Names -> Bundles]
    /\ records \in [Keys -> Statuses]
    /\ pc \in [Turns -> Steps]
    /\ catalog \in [Turns -> [Names -> Bundles] \cup {Nothing}]
    /\ todo \in [Turns -> Seq(Keys)]
    /\ others \in [Turns -> SUBSET (Keys \cup Temps)]
    /\ superseded \in [Turns -> Keys \cup Temps \cup {Nothing}]
    /\ loaded \in [Turns -> Bundles \cup {Nothing}]
    /\ injected \in [Turns -> SUBSET Keys]
    /\ licence \in [Turns -> Keys \cup {Nothing}]
    /\ calls \in [Turns -> 0..MaxCalls]
    /\ started \in [Turns -> Bundles \cup {Nothing}]
    /\ disturbed \subseteq Turns
    /\ stopped \subseteq Turns
    /\ approvals \subseteq Keys
    /\ met \subseteq Names
    /\ edits \in 0..MaxEdits /\ faults \in 0..MaxFaults
    /\ crashes \in 0..MaxCrashes

\* What the place of a turn requires of its locals.
Placed(t) ==
    /\ pc[t] = "selecting" => catalog[t] # Nothing
    /\ pc[t] \in ApprovalSteps => todo[t] # <<>>
    /\ pc[t] = "staling" => superseded[t] # Nothing
    /\ pc[t] \in {"validating"} \cup DOMAIN SavedStatus => loaded[t] # Nothing
    /\ pc[t] \in CommandSteps => licence[t] # Nothing /\ calls[t] > 0

LEMMA TypeParts == TypeOK <=> Shapes /\ \A t \in Turns : Placed(t)
BY DEF TypeOK, Shapes, Placed

LEMMA FaultCounted ==
    ASSUME faults \in 0..MaxFaults, Fault
    PROVE  faults' \in 0..MaxFaults
BY SkillsAssumption DEF Fault

\* Skip and Activate, the two ways a selected skill is done with.
LEMMA SkipTypes ==
    ASSUME TypeOK, NEW t \in Turns, todo[t] # <<>>, Skip(t)
    PROVE  todo' \in [Turns -> Seq(Keys)] /\ pc' \in [Turns -> Steps]
           /\ pc'[t] = "next"
<1>1. Tail(todo[t]) \in Seq(Keys)
  BY WantedIsKey
<1> QED
  BY <1>1 DEF Skip, Goto, TypeOK, Steps

LEMMA ActivateTypes ==
    ASSUME TypeOK, NEW t \in Turns, todo[t] # <<>>, NEW b \in Bundles,
           Activate(t, b)
    PROVE  /\ todo' \in [Turns -> Seq(Keys)] /\ pc' \in [Turns -> Steps]
           /\ pc'[t] = "next"
           /\ injected' \in [Turns -> SUBSET Keys]
<1>1. <<Wanted(t)[1], b>> \in Keys
  BY WantedIsKey, KeyParts
<1> QED
  BY <1>1, SkipTypes DEF Activate, TypeOK

-----------------------------------------------------------------------------
(* Every step keeps the types                                              *)

LEMMA NodeEntryTypes ==
    ASSUME TypeOK, NEW t \in Turns, List(t) \/ Select(t) \/ Begin(t) \/ NodeDone(t)
    PROVE  TypeOK'
<1>1. CASE List(t)
  BY <1>1, SavedStatusDomain, NothingAssumption
     DEF List, Goto, TypeOK, Steps, ApprovalSteps, CommandSteps, files, tool,
         history, budgets
<1>2. CASE Select(t)
  <2>0. PICK n \in 0..MaxSelected : \E chosen \in [1..n -> Names] :
            todo' = [todo EXCEPT ![t] =
                        [i \in 1..n |-> <<chosen[i], catalog[t][chosen[i]]>>]]
    BY <1>2 DEF Select
  <2>1. PICK chosen \in [1..n -> Names] :
            todo' = [todo EXCEPT ![t] =
                        [i \in 1..n |-> <<chosen[i], catalog[t][chosen[i]]>>]]
    BY <2>0
  <2>2. catalog[t] \in [Names -> Bundles]
    BY <1>2 DEF TypeOK, Select
  <2>3. [i \in 1..n |-> <<chosen[i], catalog[t][chosen[i]]>>] \in Seq(Keys)
    <3>1. n \in Nat
      BY SkillsAssumption
    <3>2. \A i \in 1..n : <<chosen[i], catalog[t][chosen[i]]>> \in Keys
      BY <2>2, KeyParts
    <3> QED
      BY <3>1, <3>2
  <2>4. todo' \in [Turns -> Seq(Keys)]
    BY <2>1, <2>3 DEF TypeOK
  <2> QED
    BY <1>2, <2>1, <2>4, SavedStatusDomain
       DEF Select, Goto, TypeOK, Steps, ApprovalSteps, CommandSteps, files, tool,
           history, budgets
<1>3. CASE Begin(t)
  <2>1. Wanted(t)[1] \in Names
    BY <1>3, WantedIsKey DEF Begin
  <2>2. OtherFiles(t) \subseteq Keys \cup Temps
    <3>1. \A u \in Turns : pc[u] = "savingApproval" => Temp(u) \in Temps
      BY WantedIsKey DEF TypeOK, ApprovalSteps
    <3> QED
      BY <3>1 DEF OtherFiles, Validating
  <2> QED
    BY <1>3, <2>1, <2>2, SavedStatusDomain
       DEF Begin, Goto, TypeOK, Steps, ApprovalSteps, CommandSteps, files, tool,
           budgets
<1>4. CASE NodeDone(t)
  BY <1>4, SavedStatusDomain
     DEF NodeDone, Goto, TypeOK, Steps, ApprovalSteps, CommandSteps, files, node,
         tool, history, budgets
<1> QED
  BY <1>1, <1>2, <1>3, <1>4

LEMMA InvalidateTypes ==
    ASSUME TypeOK, NEW t \in Turns,
           InvalidateRead(t) \/ InvalidateUnread(t) \/ InvalidateWrite(t)
    PROVE  TypeOK'
<1>1. CASE InvalidateRead(t)
  <2>1. PICK k \in others[t] :
            /\ others' = [others EXCEPT ![t] = @ \ {k}]
            /\ IF Supersedes(Says(k))
               THEN superseded' = [superseded EXCEPT ![t] = k] /\ Goto(t, "staling")
               ELSE UNCHANGED <<superseded, pc>>
    BY <1>1 DEF InvalidateRead
  <2>2. k \in Keys \cup Temps /\ k # Nothing
    BY <2>1, NothingAssumption DEF TypeOK
  <2>3. others' \in [Turns -> SUBSET (Keys \cup Temps)]
    BY <2>1 DEF TypeOK
  <2>4. /\ superseded' \in [Turns -> Keys \cup Temps \cup {Nothing}]
        /\ pc' \in [Turns -> Steps]
        /\ \A u \in Turns \ {t} : superseded'[u] = superseded[u] /\ pc'[u] = pc[u]
        /\ \/ pc'[t] = "staling" /\ superseded'[t] # Nothing
           \/ pc'[t] = "invalidating"
    <3>1. CASE superseded' = [superseded EXCEPT ![t] = k] /\ Goto(t, "staling")
      BY <3>1, <2>2 DEF Goto, TypeOK, Steps, ApprovalSteps
    <3>2. CASE UNCHANGED <<superseded, pc>>
      BY <3>2, <1>1 DEF TypeOK, InvalidateRead
    <3> QED
      BY <2>1, <3>1, <3>2
  <2> QED
    BY <1>1, <2>3, <2>4, SavedStatusDomain
       DEF InvalidateRead, TypeOK, ApprovalSteps, CommandSteps, files, tool,
           history, budgets
<1>2. CASE InvalidateUnread(t)
  <2>1. faults' \in 0..MaxFaults
    BY <1>2, FaultCounted DEF InvalidateUnread, TypeOK
  <2> QED
    BY <1>2, <2>1, SavedStatusDomain
       DEF InvalidateUnread, TypeOK, files, tool, history
<1>3. CASE InvalidateWrite(t)
  <2>1. faults' \in 0..MaxFaults
    BY <1>3, FaultCounted DEF InvalidateWrite, TypeOK
  <2>2. records' \in [Keys -> Statuses]
    BY <1>3 DEF InvalidateWrite, TypeOK, Statuses
  <2>3. /\ pc' \in [Turns -> Steps]
        /\ pc'[t] = "invalidating"
        /\ \A u \in Turns \ {t} : \/ pc'[u] = pc[u]
                                  \/ pc[u] = "savingApproval" /\ pc'[u] = "savingStale"
    <3>1. CASE Goto(t, "invalidating")
      BY <3>1 DEF Goto, TypeOK, Steps, ApprovalSteps
    <3>2. CASE pc' = [u \in Turns |->
                        CASE u = t -> "invalidating"
                          [] u # t /\ pc[u] = "savingApproval"
                                   /\ Temp(u) = superseded[t] -> "savingStale"
                          [] OTHER -> pc[u]]
      BY <3>2 DEF TypeOK, Steps, ApprovalSteps
    <3> QED
      BY <1>3, <3>1, <3>2 DEF InvalidateWrite
  <2>4. /\ superseded' \in [Turns -> Keys \cup Temps \cup {Nothing}]
        /\ \A u \in Turns \ {t} : superseded'[u] = superseded[u]
    BY <1>3 DEF InvalidateWrite, TypeOK
  <2> QED
    BY <1>3, <2>1, <2>2, <2>3, <2>4, SavedStatusDomain
       DEF InvalidateWrite, TypeOK, Steps, ApprovalSteps, CommandSteps, tool,
           history
<1> QED
  BY <1>1, <1>2, <1>3

LEMMA ApprovalTypes ==
    ASSUME TypeOK, NEW t \in Turns,
           \/ Get(t) \/ LoadTrusted(t) \/ LoadFresh(t) \/ Validate(t)
           \/ SaveVerdict(t)
    PROVE  TypeOK'
<1>0. todo[t] # <<>>
  BY SavedStatusDomain
     DEF TypeOK, Get, LoadTrusted, LoadFresh, Validate, SaveVerdict, ApprovalSteps
<1>1. CASE Get(t)
  <2>1. faults' \in 0..MaxFaults
    BY <1>1, FaultCounted DEF Get, TypeOK
  <2>2. CASE Skip(t)
    <3>1. /\ todo' \in [Turns -> Seq(Keys)] /\ pc' \in [Turns -> Steps]
          /\ pc'[t] = "next"
      BY <1>0, <2>2, SkipTypes
    <3> QED
      BY <1>1, <2>1, <2>2, <3>1, SavedStatusDomain
         DEF Get, Skip, Goto, TypeOK, ApprovalSteps, CommandSteps, files, tool,
             history
  <2>3. CASE UNCHANGED todo /\ (Goto(t, "loadingFresh") \/ Goto(t, "loadingTrusted"))
    BY <1>1, <1>0, <2>1, <2>3, SavedStatusDomain
       DEF Get, Goto, TypeOK, Steps, ApprovalSteps, CommandSteps, files, tool,
           history
  <2> QED
    BY <1>1, <2>2, <2>3 DEF Get
<1>2. CASE LoadTrusted(t)
  <2>1. CASE Skip(t) /\ UNCHANGED injected
    <3>1. /\ todo' \in [Turns -> Seq(Keys)] /\ pc' \in [Turns -> Steps]
          /\ pc'[t] = "next"
      BY <1>0, <2>1, SkipTypes
    <3> QED
      BY <1>2, <2>1, <3>1, SavedStatusDomain
         DEF LoadTrusted, Skip, Goto, TypeOK, ApprovalSteps, CommandSteps, files,
             tool, history, budgets
  <2>2. CASE Activate(t, disk[Wanted(t)[1]])
    <3>1. disk[Wanted(t)[1]] \in Bundles
      BY <1>0, WantedIsKey DEF TypeOK
    <3>2. /\ todo' \in [Turns -> Seq(Keys)] /\ pc' \in [Turns -> Steps]
          /\ pc'[t] = "next" /\ injected' \in [Turns -> SUBSET Keys]
      BY <1>0, <2>2, <3>1, ActivateTypes
    <3> QED
      BY <1>2, <2>2, <3>2, SavedStatusDomain
         DEF LoadTrusted, Activate, Skip, Goto, TypeOK, ApprovalSteps,
             CommandSteps, files, tool, history, budgets
  <2> QED
    BY <1>2, <2>1, <2>2 DEF LoadTrusted
<1>3. CASE LoadFresh(t)
  <2>1. CASE Skip(t) /\ UNCHANGED loaded
    <3>1. /\ todo' \in [Turns -> Seq(Keys)] /\ pc' \in [Turns -> Steps]
          /\ pc'[t] = "next"
      BY <1>0, <2>1, SkipTypes
    <3> QED
      BY <1>3, <2>1, <3>1, SavedStatusDomain
         DEF LoadFresh, Skip, Goto, TypeOK, ApprovalSteps, CommandSteps, files,
             tool, history, budgets
  <2>2. CASE /\ loaded' = [loaded EXCEPT ![t] = disk[Wanted(t)[1]]]
             /\ Goto(t, "validating") /\ UNCHANGED todo
    <3>1. disk[Wanted(t)[1]] \in Bundles /\ disk[Wanted(t)[1]] # Nothing
      BY <1>0, WantedIsKey, NothingAssumption DEF TypeOK
    <3> QED
      BY <1>3, <1>0, <2>2, <3>1, SavedStatusDomain
         DEF LoadFresh, Goto, TypeOK, Steps, ApprovalSteps, CommandSteps, files,
             tool, history, budgets
  <2> QED
    BY <1>3, <2>1, <2>2 DEF LoadFresh
<1>4. CASE Validate(t)
  <2>1. <<Wanted(t)[1], loaded[t]>> \in Keys
    BY <1>4, <1>0, WantedIsKey, KeyParts DEF Validate, TypeOK
  <2> QED
    BY <1>4, <1>0, <2>1, SavedStatusDomain
       DEF Validate, Goto, TypeOK, Steps, ApprovalSteps, CommandSteps, files, node,
           tool, budgets
<1>5. CASE SaveVerdict(t)
  <2>1. faults' \in 0..MaxFaults
    BY <1>5, FaultCounted DEF SaveVerdict, TypeOK
  <2>2. loaded[t] \in Bundles
    BY <1>5 DEF SaveVerdict, TypeOK
  <2>3. <<Wanted(t)[1], loaded[t]>> \in Keys
    BY <1>0, <2>2, WantedIsKey, KeyParts
  <2>4. records' \in [Keys -> Statuses]
    BY <1>5, <2>3, SavedStatusDomain DEF SaveVerdict, TypeOK
  <2>5. /\ todo' \in [Turns -> Seq(Keys)] /\ pc' \in [Turns -> Steps]
        /\ pc'[t] = "next" /\ injected' \in [Turns -> SUBSET Keys]
    <3>1. CASE Skip(t) /\ UNCHANGED injected
      BY <1>0, <3>1, SkipTypes DEF TypeOK
    <3>2. CASE Activate(t, loaded[t])
      BY <1>0, <2>2, <3>2, ActivateTypes
    <3> QED
      BY <1>5, <3>1, <3>2 DEF SaveVerdict
  <2>6. \A u \in Turns \ {t} : pc'[u] = pc[u] /\ todo'[u] = todo[u]
    BY <1>5 DEF SaveVerdict, Activate, Skip, Goto, TypeOK
  <2> QED
    BY <1>5, <2>1, <2>4, <2>5, <2>6, SavedStatusDomain
       DEF SaveVerdict, TypeOK, ApprovalSteps, CommandSteps, tool, history
<1> QED
  BY <1>1, <1>2, <1>3, <1>4, <1>5

LEMMA ToolTypes ==
    ASSUME TypeOK, NEW t \in Turns, ToolStep(t)
    PROVE  TypeOK'
<1>1. CASE Call(t)
  <2>1. PICK s \in Names : licence' = [licence EXCEPT ![t] = <<s, disk[s]>>]
    BY <1>1 DEF Call
  <2>2. <<s, disk[s]>> \in Keys /\ <<s, disk[s]>> # Nothing
    BY KeyParts, NothingAssumption DEF TypeOK
  <2>3. calls[t] + 1 \in 0..MaxCalls /\ calls[t] + 1 > 0
    BY <1>1, SkillsAssumption DEF Call, TypeOK
  <2> QED
    BY <1>1, <2>1, <2>2, <2>3, SavedStatusDomain
       DEF Call, Goto, TypeOK, Steps, ApprovalSteps, CommandSteps, files, node,
           history, budgets
<1>2. CASE Authorize(t)
  <2>1. faults' \in 0..MaxFaults
    BY <1>2, FaultCounted DEF Authorize, TypeOK
  <2>2. CASE Goto(t, "starting") /\ UNCHANGED licence
    BY <1>2, <2>1, <2>2, SavedStatusDomain
       DEF Authorize, Goto, TypeOK, Steps, ApprovalSteps, CommandSteps, files,
           node, history
  <2>3. CASE licence' = [licence EXCEPT ![t] = Nothing] /\ Goto(t, "acting")
    BY <1>2, <2>1, <2>3, SavedStatusDomain
       DEF Authorize, Goto, TypeOK, Steps, ApprovalSteps, CommandSteps, files,
           node, history
  <2> QED
    BY <1>2, <2>2, <2>3 DEF Authorize
<1>3. CASE Start(t)
  <2>1. licence[t] \in Keys /\ Script(t) \in Scripts
    BY <1>3, SkillsAssumption DEF Start, TypeOK, CommandSteps, Script, Scripts
  <2>2. disk' \in [Names -> Bundles]
    <3>1. disk \in [Names -> Bundles] /\ licence[t][1] \in Names
      BY <2>1, KeyParts DEF TypeOK
    <3>2. [disk EXCEPT ![licence[t][1]].scripts = @ \cup {Script(t)}]
                \in [Names -> Bundles]
      BY <2>1, <3>1, ScriptsChange
    <3> QED
      BY <1>3, <3>1, <3>2 DEF Start
  <2>3. started' \in [Turns -> Bundles \cup {Nothing}]
    BY <1>3, <2>1, KeyParts DEF Start, TypeOK
  <2>4. disturbed' \subseteq Turns
    BY <1>3 DEF Start, TypeOK, Awaiting
  <2> QED
    BY <1>3, <2>2, <2>3, <2>4, SavedStatusDomain
       DEF Start, Goto, TypeOK, Steps, ApprovalSteps, CommandSteps, node, tool,
           history, budgets
<1>4. CASE Finish(t)
  <2>1. licence[t] \in Keys /\ Script(t) \in Scripts
    BY <1>4, SkillsAssumption DEF Finish, TypeOK, CommandSteps, Script, Scripts
  <2>2. disk' \in [Names -> Bundles]
    <3>1. disk \in [Names -> Bundles] /\ licence[t][1] \in Names
      BY <2>1, KeyParts DEF TypeOK
    <3>2. [disk EXCEPT ![licence[t][1]].scripts = @ \ {Script(t)}]
                \in [Names -> Bundles]
      BY <2>1, <3>1, ScriptsChange
    <3> QED
      BY <1>4, <3>1, <3>2 DEF Finish
  <2>3. started' \in [Turns -> Bundles \cup {Nothing}]
    BY <1>4 DEF Finish, TypeOK
  <2>4. disturbed' \subseteq Turns
    BY <1>4 DEF Finish, TypeOK, Awaiting
  <2> QED
    BY <1>4, <2>2, <2>3, <2>4, SavedStatusDomain
       DEF Finish, Goto, TypeOK, Steps, ApprovalSteps, CommandSteps, node,
           history, budgets
<1>5. CASE EndTurn(t)
  BY <1>5, SavedStatusDomain
     DEF EndTurn, Goto, TypeOK, Steps, ApprovalSteps, CommandSteps, files, tool,
         history, budgets
<1> QED
  BY <1>1, <1>2, <1>3, <1>4, <1>5 DEF ToolStep

LEMMA EnvironmentTypes ==
    ASSUME TypeOK,
           (\E t \in Turns : Stop(t)) \/ (\E s \in Names : Edit(s)) \/ Crash
    PROVE  TypeOK'
<1>1. CASE \E t \in Turns : Stop(t)
  BY <1>1 DEF Stop, TypeOK, files, node, tool, history, budgets
<1>2. CASE \E s \in Names : Edit(s)
  <2>1. disk' \in [Names -> Bundles]
    <3>1. PICK s \in Names, v \in Versions : disk' = [disk EXCEPT ![s].version = v]
      BY <1>2 DEF Edit
    <3>2. [disk EXCEPT ![s].version = v] \in [Names -> Bundles]
      BY VersionChange DEF TypeOK
    <3> QED
      BY <3>1, <3>2
  <2>2. edits' \in 0..MaxEdits
    BY <1>2, SkillsAssumption DEF Edit, TypeOK
  <2>3. disturbed' \subseteq Turns
    BY <1>2 DEF Edit, TypeOK, Awaiting
  <2> QED
    BY <1>2, <2>1, <2>2, <2>3 DEF Edit, TypeOK, node, history
<1>3. CASE Crash
  <2>1. crashes' \in 0..MaxCrashes
    BY <1>3, SkillsAssumption DEF Crash, TypeOK
  <2>2. todo' \in [Turns -> Seq(Keys)]
    BY <1>3 DEF Crash
  <2>3. pc' \in [Turns -> Steps] /\ \A t \in Turns : pc'[t] \in {"idle", "over"}
    BY <1>3 DEF Crash, Steps
  <2> QED
    BY <1>3, <2>1, <2>2, <2>3, SavedStatusDomain
       DEF Crash, TypeOK, ApprovalSteps, CommandSteps, files, history
<1> QED
  BY <1>1, <1>2, <1>3

\* The variables keep their types, and each turn holds what its place in the
\* skills node or in RunSkillCommand needs.
THEOREM SkillsTypes == Spec => []TypeOK
<1>1. Init => TypeOK
  <2> SUFFICES ASSUME Init PROVE TypeOK
    OBVIOUS
  <2>1. todo \in [Turns -> Seq(Keys)]
    BY DEF Init
  <2>2. disk \in [Names -> Bundles]
    BY SkillsAssumption DEF Init, Bundles
  <2>3. {edits, faults, crashes} \subseteq Nat /\ edits = 0 /\ faults = 0 /\ crashes = 0
    BY DEF Init
  <2>4. calls \in [Turns -> 0..MaxCalls] /\ edits \in 0..MaxEdits
        /\ faults \in 0..MaxFaults /\ crashes \in 0..MaxCrashes
    BY <2>3, SkillsAssumption DEF Init
  <2> QED
    BY <2>1, <2>2, <2>4, SavedStatusDomain
       DEF Init, TypeOK, Steps, ApprovalSteps, CommandSteps, Statuses
<1>2. TypeOK /\ [Next]_vars => TypeOK'
  <2> SUFFICES ASSUME TypeOK, [Next]_vars PROVE TypeOK'
    OBVIOUS
  <2>1. CASE \E t \in Turns : NodeStep(t)
    BY <2>1, NodeEntryTypes, InvalidateTypes, ApprovalTypes DEF NodeStep
  <2>2. CASE \E t \in Turns : ToolStep(t)
    BY <2>2, ToolTypes
  <2>3. CASE (\E t \in Turns : Stop(t)) \/ (\E s \in Names : Edit(s)) \/ Crash
    BY <2>3, EnvironmentTypes
  <2>4. CASE UNCHANGED vars
    BY <2>4 DEF TypeOK, vars, files, node, tool, history, budgets
  <2> QED
    BY <2>1, <2>2, <2>3, <2>4 DEF Next, Quiet
<1> QED
  BY <1>1, <1>2, PTL DEF Spec

-----------------------------------------------------------------------------
(* Every approval acted on was given                                       *)

\* A turn whose own state does not change stays justified: approvals grow.
LEMMA JustifiedElsewhere ==
    ASSUME NEW u \in Turns, Justified(u), approvals \subseteq approvals',
           UNCHANGED <<pc[u], todo[u], superseded[u], loaded[u], injected[u],
                       licence[u]>>
    PROVE  Justified(u)'
BY DEF Justified, Wanted

\* Activating a skill with an approved bundle, and passing over one.
LEMMA ActivateJustified ==
    ASSUME TypeOK, VerdictInv, NEW t \in Turns, todo[t] # <<>>, NEW b,
           Activate(t, b), <<Wanted(t)[1], b>> \in approvals, UNCHANGED approvals
    PROVE  InstructionsWereApproved' /\ pc'[t] = "next"
BY DEF TypeOK, Activate, Skip, Goto, VerdictInv, InstructionsWereApproved

LEMMA NextJustified ==
    ASSUME NEW t \in Turns,
           pc'[t] \in {"selecting", "next", "invalidating", "loadingFresh",
                       "validating", "savingRejection", "acting", "over"}
    PROVE  Justified(t)'
BY DEF Justified, CommandSteps

LEMMA NodeEntryVerdicts ==
    ASSUME TypeOK, VerdictInv, NEW t \in Turns,
           List(t) \/ Select(t) \/ Begin(t) \/ NodeDone(t)
    PROVE  VerdictInv'
<1>1. UNCHANGED <<records, superseded, loaded, injected, licence, approvals>>
  BY DEF List, Select, Begin, NodeDone, files, node, tool, history
<1>2. pc'[t] \in {"selecting", "next", "invalidating", "acting"}
  BY DEF List, Select, Begin, NodeDone, Goto, TypeOK
<1>3. \A u \in Turns \ {t} : pc'[u] = pc[u] /\ todo'[u] = todo[u]
  BY DEF List, Select, Begin, NodeDone, Goto, TypeOK, node
<1>4. \A u \in Turns : Justified(u)'
  BY <1>1, <1>2, <1>3, NextJustified, JustifiedElsewhere DEF VerdictInv
<1> QED
  BY <1>1, <1>4 DEF VerdictInv, ApprovalsHaveVerdicts, InstructionsWereApproved

LEMMA InvalidateVerdicts ==
    ASSUME TypeOK, VerdictInv, NEW t \in Turns,
           InvalidateRead(t) \/ InvalidateUnread(t) \/ InvalidateWrite(t)
    PROVE  VerdictInv'
<1>1. UNCHANGED <<todo, loaded, injected, licence, approvals>>
  BY DEF InvalidateRead, InvalidateUnread, InvalidateWrite, tool, history
<1>2. InstructionsWereApproved'
  BY <1>1 DEF VerdictInv, InstructionsWereApproved
<1>3. CASE InvalidateRead(t)
  <2>1. PICK k \in others[t] :
            IF Supersedes(Says(k))
            THEN superseded' = [superseded EXCEPT ![t] = k] /\ Goto(t, "staling")
            ELSE UNCHANGED <<superseded, pc>>
    BY <1>3 DEF InvalidateRead
  <2>2. \A u \in Turns \ {t} : pc'[u] = pc[u] /\ superseded'[u] = superseded[u]
    BY <2>1 DEF Goto, TypeOK
  <2>3. Justified(t)'
    <3>1. CASE ~Supersedes(Says(k))
      BY <3>1, <2>1, <1>3, NextJustified DEF InvalidateRead
    <3>2. CASE Supersedes(Says(k))
      <4>1. k \in Keys => k \in approvals
        BY <3>2 DEF Supersedes, Says, VerdictInv, ApprovalsHaveVerdicts
      <4>2. pc'[t] = "staling" /\ superseded'[t] = k
        BY <3>2, <2>1 DEF Goto, TypeOK
      <4> QED
        BY <4>1, <4>2, <1>1 DEF Justified, CommandSteps
    <3> QED
      BY <3>1, <3>2
  <2>4. \A u \in Turns : Justified(u)'
    BY <1>1, <2>2, <2>3, JustifiedElsewhere DEF VerdictInv
  <2> QED
    BY <1>1, <1>2, <1>3, <2>4
       DEF InvalidateRead, VerdictInv, ApprovalsHaveVerdicts, files
<1>4. CASE InvalidateUnread(t)
  <2>1. UNCHANGED <<records, pc, superseded>>
    BY <1>4 DEF InvalidateUnread, files
  <2>2. \A u \in Turns : Justified(u)'
    BY <1>1, <2>1, JustifiedElsewhere DEF VerdictInv
  <2> QED
    BY <1>1, <1>2, <2>1, <2>2 DEF VerdictInv, ApprovalsHaveVerdicts
<1>5. CASE InvalidateWrite(t)
  <2>1. ApprovalsHaveVerdicts'
    <3>1. CASE /\ superseded[t] \in Keys
               /\ records' = [records EXCEPT ![superseded[t]] = "STALE"]
      <4>1. superseded[t] \in approvals
        BY <1>5, <3>1 DEF InvalidateWrite, VerdictInv, Justified
      <4> QED
        BY <3>1, <4>1, <1>1 DEF TypeOK, VerdictInv, ApprovalsHaveVerdicts
    <3>2. CASE UNCHANGED records
      BY <3>2, <1>1 DEF VerdictInv, ApprovalsHaveVerdicts
    <3> QED
      BY <1>5, <3>1, <3>2 DEF InvalidateWrite
  <2>2. pc'[t] = "invalidating"
    BY <1>5 DEF InvalidateWrite, Goto, TypeOK
  <2>3. \A u \in Turns \ {t} :
            /\ superseded'[u] = superseded[u]
            /\ \/ pc'[u] = pc[u]
               \/ pc[u] = "savingApproval" /\ pc'[u] = "savingStale"
    <3>1. CASE Goto(t, "invalidating")
      BY <1>5, <3>1 DEF InvalidateWrite, Goto, TypeOK
    <3>2. CASE pc' = [u \in Turns |->
                        CASE u = t -> "invalidating"
                          [] u # t /\ pc[u] = "savingApproval"
                                   /\ Temp(u) = superseded[t] -> "savingStale"
                          [] OTHER -> pc[u]]
      BY <1>5, <3>2 DEF InvalidateWrite, TypeOK
    <3> QED
      BY <1>5, <3>1, <3>2 DEF InvalidateWrite
  <2>4. ASSUME NEW u \in Turns \ {t} PROVE Justified(u)'
    BY <1>1, <2>3 DEF VerdictInv, Justified, Wanted, CommandSteps
  <2> QED
    BY <1>2, <2>1, <2>2, <2>4, NextJustified DEF VerdictInv
<1> QED
  BY <1>3, <1>4, <1>5

LEMMA ApprovalVerdicts ==
    ASSUME TypeOK, VerdictInv, NEW t \in Turns,
           \/ Get(t) \/ LoadTrusted(t) \/ LoadFresh(t) \/ Validate(t)
           \/ SaveVerdict(t)
    PROVE  VerdictInv'
<1>0. todo[t] # <<>>
  BY SavedStatusDomain
     DEF TypeOK, Get, LoadTrusted, LoadFresh, Validate, SaveVerdict, ApprovalSteps
<1>1. \A u \in Turns \ {t} :
            UNCHANGED <<pc[u], todo[u], superseded[u], loaded[u], injected[u],
                        licence[u]>>
  BY DEF Get, LoadTrusted, LoadFresh, Validate, SaveVerdict, Activate, Skip, Goto,
         TypeOK, node, tool
<1>2. approvals \subseteq approvals'
  BY DEF Get, LoadTrusted, LoadFresh, Validate, SaveVerdict, history
<1>3. \A u \in Turns \ {t} : Justified(u)'
  BY <1>1, <1>2, JustifiedElsewhere DEF VerdictInv
<1>4. SUFFICES /\ ApprovalsHaveVerdicts'
               /\ InstructionsWereApproved'
               /\ Justified(t)'
  BY <1>3 DEF VerdictInv
<1>5. CASE Get(t)
  <2>1. UNCHANGED <<records, injected, approvals>>
    BY <1>5 DEF Get, files, history
  <2>2. ApprovalsHaveVerdicts' /\ InstructionsWereApproved'
    BY <2>1 DEF VerdictInv, ApprovalsHaveVerdicts, InstructionsWereApproved
  <2>3. Justified(t)'
    <3>1. CASE Goto(t, "loadingTrusted") /\ UNCHANGED todo
               /\ Trusts(records[Wanted(t)])
      <4>1. Wanted(t) \in approvals
        BY <3>1, <1>0, WantedIsKey DEF Trusts, VerdictInv, ApprovalsHaveVerdicts
      <4>2. pc'[t] = "loadingTrusted" /\ Wanted(t)' = Wanted(t)
        BY <3>1 DEF Goto, TypeOK, Wanted
      <4> QED
        BY <4>1, <4>2, <1>2 DEF Justified, CommandSteps
    <3>2. CASE Skip(t) \/ Goto(t, "loadingFresh")
      <4>1. pc'[t] \in {"next", "loadingFresh"}
        BY <3>2 DEF Skip, Goto, TypeOK
      <4> QED
        BY <4>1, NextJustified
    <3> QED
      BY <1>5, <3>1, <3>2 DEF Get
  <2> QED
    BY <2>2, <2>3
<1>6. CASE LoadTrusted(t)
  <2>1. UNCHANGED <<records, approvals>>
    BY <1>6 DEF LoadTrusted, files, history
  <2>2. ApprovalsHaveVerdicts'
    BY <2>1 DEF VerdictInv, ApprovalsHaveVerdicts
  <2>3. CASE SameContent(t) /\ Activate(t, disk[Wanted(t)[1]])
    <3>1. Wanted(t) \in approvals
      BY <1>6 DEF LoadTrusted, VerdictInv, Justified
    <3>2. <<Wanted(t)[1], disk[Wanted(t)[1]]>> = Wanted(t)
      BY <2>3, <1>0, WantedIsKey, KeyParts DEF SameContent
    <3>3. InstructionsWereApproved' /\ pc'[t] = "next"
      BY <1>0, <2>1, <2>3, <3>1, <3>2, ActivateJustified
    <3> QED
      BY <2>2, <3>3, NextJustified
  <2>4. CASE Skip(t) /\ UNCHANGED injected
    <3>1. InstructionsWereApproved' /\ pc'[t] = "next"
      BY <2>1, <2>4 DEF Skip, Goto, TypeOK, VerdictInv, InstructionsWereApproved
    <3> QED
      BY <2>2, <3>1, NextJustified
  <2> QED
    BY <1>6, <2>3, <2>4 DEF LoadTrusted
<1>7. CASE LoadFresh(t)
  <2>1. UNCHANGED <<records, approvals, injected>>
    BY <1>7 DEF LoadFresh, files, history
  <2>2. pc'[t] \in {"next", "validating"}
    BY <1>7 DEF LoadFresh, Skip, Goto, TypeOK
  <2> QED
    BY <2>1, <2>2, NextJustified
       DEF VerdictInv, ApprovalsHaveVerdicts, InstructionsWereApproved
<1>8. CASE Validate(t)
  <2>1. UNCHANGED <<records, injected, todo, loaded>>
    BY <1>8 DEF Validate, files, node
  <2>2. \/ pc'[t] = "savingRejection"
        \/ /\ pc'[t] = "savingApproval"
           /\ <<Wanted(t)[1], loaded[t]>> \in approvals'
    BY <1>8 DEF Validate, Goto, TypeOK
  <2>3. Justified(t)'
    BY <2>1, <2>2 DEF Justified, Wanted, CommandSteps
  <2> QED
    BY <1>2, <2>1, <2>3
       DEF VerdictInv, ApprovalsHaveVerdicts, InstructionsWereApproved
<1>9. CASE SaveVerdict(t)
  <2>1. UNCHANGED approvals
    BY <1>9 DEF SaveVerdict, history
  <2>2. pc[t] \in {"savingApproval", "savingRejection", "savingStale"}
    BY <1>9, SavedStatusDomain DEF SaveVerdict
  <2>3. pc[t] # "savingRejection" => <<Wanted(t)[1], loaded[t]>> \in approvals
    BY <2>2 DEF VerdictInv, Justified
  <2>4. ApprovalsHaveVerdicts'
    <3>1. CASE records' = [records EXCEPT ![<<Wanted(t)[1], loaded[t]>>] =
                                                 SavedStatus[pc[t]]]
      BY <3>1, <2>1, <2>2, <2>3, SavedStatusDomain
         DEF TypeOK, VerdictInv, ApprovalsHaveVerdicts
    <3>2. CASE UNCHANGED records
      BY <3>2, <2>1 DEF VerdictInv, ApprovalsHaveVerdicts
    <3> QED
      BY <1>9, <3>1, <3>2 DEF SaveVerdict
  <2>5. InstructionsWereApproved' /\ pc'[t] = "next"
    <3>1. CASE pc[t] = "savingRejection"
      BY <1>9, <3>1, <2>1
         DEF SaveVerdict, Skip, Goto, TypeOK, VerdictInv, InstructionsWereApproved
    <3>2. CASE pc[t] # "savingRejection"
      BY <1>0, <1>9, <3>2, <2>1, <2>3, ActivateJustified DEF SaveVerdict
    <3> QED
      BY <3>1, <3>2
  <2> QED
    BY <2>4, <2>5, NextJustified
<1> QED
  BY <1>5, <1>6, <1>7, <1>8, <1>9

LEMMA ToolVerdicts ==
    ASSUME TypeOK, VerdictInv, NEW t \in Turns, ToolStep(t)
    PROVE  VerdictInv'
<1>1. UNCHANGED <<records, approvals>>
  BY DEF ToolStep, Call, Authorize, Start, Finish, EndTurn, files, history
<1>2. \A u \in Turns \ {t} :
            UNCHANGED <<pc[u], todo[u], superseded[u], loaded[u], injected[u],
                        licence[u]>>
  BY DEF ToolStep, Call, Authorize, Start, Finish, EndTurn, Goto, TypeOK, node, tool
<1>3. \A u \in Turns \ {t} : Justified(u)'
  BY <1>1, <1>2, JustifiedElsewhere DEF VerdictInv
<1>4. ApprovalsHaveVerdicts'
  BY <1>1 DEF VerdictInv, ApprovalsHaveVerdicts
<1>5. InstructionsWereApproved'
  <2>1. \A u \in Turns : injected'[u] \subseteq injected[u]
    BY DEF ToolStep, Call, Authorize, Start, Finish, EndTurn, TypeOK, node
  <2> QED
    BY <1>1, <2>1 DEF VerdictInv, InstructionsWereApproved
<1>6. Justified(t)'
  <2>1. CASE Call(t)
    <3>1. pc'[t] = "authorizing"
      BY <2>1 DEF Call, Goto, TypeOK
    <3> QED
      BY <3>1 DEF Justified
  <2>2. CASE Authorize(t)
    <3>1. CASE pc'[t] = "acting"
      BY <3>1, NextJustified
    <3>2. CASE /\ pc'[t] = "starting" /\ UNCHANGED licence
               /\ Licensed(records[licence[t]])
      <4>1. licence[t] \in approvals
        BY <2>2, <3>2
           DEF Authorize, TypeOK, CommandSteps, Licensed, VerdictInv,
               ApprovalsHaveVerdicts
      <4> QED
        BY <1>1, <2>2, <3>2, <4>1 DEF Authorize, Justified, node
    <3> QED
      BY <2>2, <3>1, <3>2 DEF Authorize, Goto, TypeOK
  <2>3. CASE Start(t)
    <3>1. pc[t] = "starting" /\ pc'[t] = "running"
      BY <2>3 DEF Start, Goto, TypeOK
    <3> QED
      BY <1>1, <2>3, <3>1
         DEF Start, VerdictInv, Justified, CommandSteps, node, tool
  <2>4. CASE Finish(t) \/ EndTurn(t)
    <3>1. pc'[t] \in {"acting", "over"}
      BY <2>4 DEF Finish, EndTurn, Goto, TypeOK
    <3> QED
      BY <3>1, NextJustified
  <2> QED
    BY <2>1, <2>2, <2>3, <2>4 DEF ToolStep
<1> QED
  BY <1>3, <1>4, <1>5, <1>6 DEF VerdictInv

LEMMA EnvironmentVerdicts ==
    ASSUME TypeOK, VerdictInv,
           (\E t \in Turns : Stop(t)) \/ (\E s \in Names : Edit(s)) \/ Crash
    PROVE  VerdictInv'
<1>1. UNCHANGED <<records, approvals>>
  BY DEF Stop, Edit, Crash, files, history
<1>2. CASE (\E t \in Turns : Stop(t)) \/ (\E s \in Names : Edit(s))
  <2>1. UNCHANGED <<pc, todo, superseded, loaded, injected, licence>>
    BY <1>2 DEF Stop, Edit, node, tool
  <2>2. \A u \in Turns : Justified(u)'
    BY <1>1, <2>1, JustifiedElsewhere DEF VerdictInv
  <2> QED
    BY <1>1, <2>1, <2>2
       DEF VerdictInv, ApprovalsHaveVerdicts, InstructionsWereApproved
<1>3. CASE Crash
  <2>1. \A u \in Turns : pc'[u] \in {"idle", "over"} /\ injected'[u] = {}
    BY <1>3 DEF Crash
  <2>2. \A u \in Turns : Justified(u)'
    BY <2>1 DEF Justified, CommandSteps
  <2> QED
    BY <1>1, <2>1, <2>2
       DEF VerdictInv, ApprovalsHaveVerdicts, InstructionsWereApproved
<1> QED
  BY <1>2, <1>3

LEMMA VerdictsHold == Spec => []VerdictInv
<1>1. Init => VerdictInv
  BY DEF Init, VerdictInv, ApprovalsHaveVerdicts, InstructionsWereApproved,
         Justified, CommandSteps
<1>2. TypeOK /\ VerdictInv /\ [Next]_vars => VerdictInv'
  <2> SUFFICES ASSUME TypeOK, VerdictInv, [Next]_vars PROVE VerdictInv'
    OBVIOUS
  <2>1. CASE \E t \in Turns : NodeStep(t)
    BY <2>1, NodeEntryVerdicts, InvalidateVerdicts, ApprovalVerdicts DEF NodeStep
  <2>2. CASE \E t \in Turns : ToolStep(t)
    BY <2>2, ToolVerdicts
  <2>3. CASE (\E t \in Turns : Stop(t)) \/ (\E s \in Names : Edit(s)) \/ Crash
    BY <2>3, EnvironmentVerdicts
  <2>4. CASE UNCHANGED vars
    <3>1. UNCHANGED <<records, pc, todo, superseded, loaded, injected, licence,
                      approvals>>
      BY <2>4 DEF vars, files, node, tool, history
    <3>2. \A u \in Turns : Justified(u)'
      BY <3>1, JustifiedElsewhere DEF VerdictInv
    <3> QED
      BY <3>1, <3>2 DEF VerdictInv, ApprovalsHaveVerdicts, InstructionsWereApproved
  <2> QED
    BY <2>1, <2>2, <2>3, <2>4 DEF Next, Quiet
<1> QED
  BY <1>1, <1>2, SkillsTypes, PTL DEF Spec

\* Instructions in a prompt come from content a validation approved, whatever
\* other turns, the owner of the skill and failing files do meanwhile
\* (activateSkills, ensureApproved).
THEOREM OnlyApprovedInstructions == Spec => []InstructionsWereApproved
<1>1. VerdictInv => InstructionsWereApproved
  BY DEF VerdictInv
<1> QED
  BY <1>1, VerdictsHold, PTL

\* As long as the directory is left alone, a command waits for what authorize
\* saw, and finds it when it starts.
Undisturbed ==
    \A t \in Turns \ disturbed :
        /\ pc[t] \in {"authorizing", "starting"} =>
                disk[licence[t][1]] = licence[t][2]
        /\ pc[t] = "running" => started[t] = licence[t][2]

\* Steps that change neither a directory nor a command.
LEMMA UndisturbedElsewhere ==
    ASSUME Undisturbed, UNCHANGED <<disk, licence, started, disturbed>>,
           \A u \in Turns : pc'[u] = pc[u] \/ pc'[u] \notin CommandSteps
    PROVE  Undisturbed'
BY DEF Undisturbed, CommandSteps

LEMMA ToolUndisturbed ==
    ASSUME TypeOK, Undisturbed, NEW t \in Turns, ToolStep(t)
    PROVE  Undisturbed'
<1>1. \A u \in Turns \ {t} : pc'[u] = pc[u] /\ licence'[u] = licence[u]
                              /\ started'[u] = started[u]
  BY DEF ToolStep, Call, Authorize, Start, Finish, EndTurn, Goto, TypeOK, tool
<1>2. CASE Call(t)
  <2>1. PICK s \in Names : licence' = [licence EXCEPT ![t] = <<s, disk[s]>>]
    BY <1>2 DEF Call
  <2>2. UNCHANGED <<disk, disturbed>> /\ pc'[t] = "authorizing"
        /\ licence'[t] = <<s, disk[s]>>
    BY <1>2, <2>1 DEF Call, Goto, TypeOK, files
  <2> QED
    BY <1>1, <2>2 DEF Undisturbed
<1>3. CASE Authorize(t)
  <2>1. /\ UNCHANGED <<disk, started>> /\ pc[t] = "authorizing"
        /\ \/ pc'[t] = "starting" /\ UNCHANGED <<licence, disturbed>>
           \/ pc'[t] = "acting" /\ disturbed' = disturbed \ {t}
    BY <1>3 DEF Authorize, Goto, TypeOK, files
  <2> QED
    BY <1>1, <2>1 DEF Undisturbed
<1>4. CASE Start(t)
  <2>1. /\ pc[t] = "starting" /\ pc'[t] = "running"
        /\ UNCHANGED licence /\ started'[t] = disk[licence[t][1]]
    BY <1>4 DEF Start, Goto, TypeOK
  <2>2. disturbed \subseteq disturbed'
    BY <1>4 DEF Start
  <2>3. ASSUME NEW u \in Turns \ disturbed', u # t,
               pc[u] \in {"authorizing", "starting"}
        PROVE  disk'[licence[u][1]] = disk[licence[u][1]]
    <3>1. licence[u][1] # licence[t][1] \/ UNCHANGED disk
      BY <1>4, <2>3 DEF Start, Awaiting
    <3>2. licence[u] \in Keys
      BY <2>3 DEF TypeOK, CommandSteps
    <3>3. licence[u][1] \in Names
      BY <3>2, KeyParts
    <3>4. \A x \in Names : x # licence[t][1] => disk'[x] = disk[x]
      BY <1>4 DEF Start, TypeOK
    <3> QED
      BY <3>1, <3>3, <3>4
  <2>4. ASSUME NEW u \in Turns \ disturbed', u # t
        PROVE  /\ pc'[u] \in {"authorizing", "starting"} =>
                       disk'[licence'[u][1]] = licence'[u][2]
               /\ pc'[u] = "running" => started'[u] = licence'[u][2]
    BY <1>1, <2>2, <2>3, <2>4 DEF Undisturbed
  <2>5. t \notin disturbed' => started'[t] = licence'[t][2]
    BY <2>1, <2>2 DEF Undisturbed
  <2> QED
    BY <2>1, <2>4, <2>5 DEF Undisturbed
<1>5. CASE Finish(t)
  <2>1. pc[t] = "running" /\ pc'[t] = "acting"
    BY <1>5 DEF Finish, Goto, TypeOK
  <2>2. disturbed \ {t} \subseteq disturbed'
    BY <1>5 DEF Finish
  <2>3. ASSUME NEW u \in Turns \ disturbed', u # t,
               pc[u] \in {"authorizing", "starting"}
        PROVE  disk'[licence[u][1]] = disk[licence[u][1]]
    <3> DEFINE s == licence[t][1]
    <3>1. licence[u][1] # s \/ Script(t) \notin disk[s].scripts
      BY <1>5, <2>3 DEF Finish, Awaiting
    <3>2. licence[u] \in Keys /\ licence[t] \in Keys
      BY <2>1, <2>3 DEF TypeOK, CommandSteps
    <3>3. licence[u][1] \in Names /\ s \in Names
      BY <3>2, KeyParts
    <3>4. Script(t) \notin disk[s].scripts =>
              [disk[s] EXCEPT !.scripts = @ \ {Script(t)}] = disk[s]
      <4>1. disk[s] \in Bundles
        BY <3>3 DEF TypeOK
      <4>2. Script(t) \notin disk[s].scripts =>
                disk[s].scripts \ {Script(t)} = disk[s].scripts
        OBVIOUS
      <4> QED
        BY <4>1, <4>2 DEF Bundles
    <3>5. disk' = [disk EXCEPT ![s].scripts = @ \ {Script(t)}]
      BY <1>5 DEF Finish
    <3>6. /\ disk'[s] = [disk[s] EXCEPT !.scripts = @ \ {Script(t)}]
          /\ \A x \in Names : x # s => disk'[x] = disk[x]
      BY <3>3, <3>5 DEF TypeOK
    <3> QED
      BY <3>1, <3>3, <3>4, <3>6
  <2>4. ASSUME NEW u \in Turns \ disturbed', u # t
        PROVE  /\ pc'[u] \in {"authorizing", "starting"} =>
                       disk'[licence'[u][1]] = licence'[u][2]
               /\ pc'[u] = "running" => started'[u] = licence'[u][2]
    BY <1>1, <2>2, <2>3, <2>4 DEF Undisturbed
  <2> QED
    BY <2>1, <2>4 DEF Undisturbed
<1>6. CASE EndTurn(t)
  <2>1. UNCHANGED <<disk, licence, started, disturbed>> /\ pc'[t] = "over"
    BY <1>6 DEF EndTurn, Goto, TypeOK, files, tool
  <2> QED
    BY <1>1, <2>1, UndisturbedElsewhere DEF CommandSteps
<1> QED
  BY <1>2, <1>3, <1>4, <1>5, <1>6 DEF ToolStep

LEMMA EditUndisturbed ==
    ASSUME TypeOK, Undisturbed, NEW s \in Names, Edit(s)
    PROVE  Undisturbed'
<1>1. /\ UNCHANGED <<pc, licence, started>>
      /\ disturbed' = disturbed \cup Awaiting(s)
      /\ \A x \in Names : x # s => disk'[x] = disk[x]
  BY DEF Edit, TypeOK
<1>2. ASSUME NEW u \in Turns \ disturbed', pc[u] \in {"authorizing", "starting"}
      PROVE  disk'[licence[u][1]] = disk[licence[u][1]]
  <2>1. licence[u][1] # s
    BY <1>1, <1>2 DEF Awaiting
  <2>2. licence[u][1] \in Names
    BY <1>2, KeyParts DEF TypeOK, CommandSteps
  <2> QED
    BY <1>1, <2>1, <2>2
<1> QED
  BY <1>1, <1>2 DEF Undisturbed

LEMMA UndisturbedHolds == Spec => []Undisturbed
<1>1. Init => Undisturbed
  BY DEF Init, Undisturbed
<1>2. TypeOK /\ Undisturbed /\ [Next]_vars => Undisturbed'
  <2> SUFFICES ASSUME TypeOK, Undisturbed, [Next]_vars PROVE Undisturbed'
    OBVIOUS
  <2>1. ASSUME NEW t \in Turns, NodeStep(t) PROVE Undisturbed'
    <3>1. UNCHANGED <<disk, licence, started, disturbed>>
      BY <2>1 DEF NodeStep, List, Select, Begin, NodeDone, InvalidateRead,
             InvalidateUnread, InvalidateWrite, Get, LoadTrusted, LoadFresh,
             Validate, SaveVerdict, files, tool
    <3>2. \A u \in Turns : pc'[u] = pc[u] \/ pc'[u] \notin CommandSteps
      <4>1. CASE InvalidateWrite(t)
        BY <4>1 DEF InvalidateWrite, Goto, TypeOK, CommandSteps
      <4>2. CASE ~InvalidateWrite(t)
        BY <2>1, <4>2, SavedStatusDomain
           DEF NodeStep, List, Select, Begin, NodeDone, InvalidateRead,
               InvalidateUnread, Get, LoadTrusted, LoadFresh, Validate,
               SaveVerdict, Activate, Skip, Goto, TypeOK, CommandSteps
      <4> QED
        BY <4>1, <4>2
    <3> QED
      BY <3>1, <3>2, UndisturbedElsewhere
  <2>2. CASE \E t \in Turns : ToolStep(t)
    BY <2>2, ToolUndisturbed
  <2>3. CASE \E s \in Names : Edit(s)
    BY <2>3, EditUndisturbed
  <2>4. CASE (\E t \in Turns : Stop(t)) \/ UNCHANGED vars
    <3>1. UNCHANGED <<disk, licence, started, disturbed, pc>>
      BY <2>4 DEF Stop, vars, files, tool
    <3> QED
      BY <3>1, UndisturbedElsewhere
  <2>5. CASE Crash
    BY <2>5 DEF Crash, Undisturbed
  <2> QED
    BY <2>1, <2>2, <2>3, <2>4, <2>5 DEF Next, Quiet
<1> QED
  BY <1>1, <1>2, SkillsTypes, PTL DEF Spec

\* A command finds, when it starts, a bundle of its skill that a validation
\* approved, if the directory was left alone since authorize looked at it
\* (RunSkillCommand.Execute, authorize, run).
THEOREM OnlyApprovedCommands == Spec => []CommandsWereApproved
<1>1. TypeOK /\ VerdictInv /\ Undisturbed => CommandsWereApproved
  <2> SUFFICES ASSUME TypeOK, VerdictInv, Undisturbed,
                      NEW t \in Turns, pc[t] = "running", t \notin disturbed
               PROVE  <<licence[t][1], started[t]>> \in approvals
    BY DEF CommandsWereApproved
  <2>1. licence[t] \in approvals /\ started[t] = licence[t][2]
    BY DEF VerdictInv, Justified, Undisturbed
  <2>2. licence[t] = <<licence[t][1], licence[t][2]>>
    BY <2>1, KeyParts DEF TypeOK
  <2> QED
    BY <2>1, <2>2
<1> QED
  BY <1>1, VerdictsHold, UndisturbedHolds, SkillsTypes, PTL

\* Records say APPROVED or STALE only about content that was approved once
\* (Validate, Store.Save, Store.InvalidateOthers).
THEOREM RecordsHaveVerdicts == Spec => []ApprovalsHaveVerdicts
<1>1. VerdictInv => ApprovalsHaveVerdicts
  BY DEF VerdictInv
<1> QED
  BY <1>1, VerdictsHold, PTL

-----------------------------------------------------------------------------
(* One approved bundle per skill                                           *)

Approved(s, b) == records[<<s, b>>] = "APPROVED"

\* t is inside ensureApproved for skill s.
Works(t, s) == pc[t] \in ApprovalSteps /\ Wanted(t)[1] = s

\* What t knows of the records of s: InvalidateOthers still has to deal with
\* every approved bundle but the one t is about to use, none of them is left
\* when it is through, and the verdict will be about that very bundle.
Superseding(t, s) ==
    /\ \A b \in Bundles : Approved(s, b) /\ <<s, b>> # Wanted(t) =>
         /\ pc[t] \in {"invalidating", "staling"}
         /\ \/ <<s, b>> \in others[t]
            \/ pc[t] = "staling" /\ superseded[t] = <<s, b>>
    /\ pc[t] \in {"validating"} \cup DOMAIN SavedStatus =>
         <<s, loaded[t]>> = Wanted(t)

OneBundle(s) ==
    /\ \A b, c \in Bundles : Approved(s, b) /\ Approved(s, c) => b = c
    /\ \A t, u \in Turns : Works(t, s) /\ Works(u, s) => t = u
    /\ \A t \in Turns : Works(t, s) => Superseding(t, s)

SupersessionInv ==
    \A s \in Names : faults = 0 /\ s \notin met => OneBundle(s)

\* Steps that leave the records alone, and every turn that is in ensureApproved
\* afterwards.
LEMMA OneBundleElsewhere ==
    ASSUME NEW s \in Names, OneBundle(s), UNCHANGED records,
           \A u \in Turns :
              \/ pc'[u] \notin ApprovalSteps
              \/ UNCHANGED <<pc[u], todo[u], others[u], superseded[u], loaded[u]>>
    PROVE  OneBundle(s)'
<1>1. \A b \in Bundles : Approved(s, b)' <=> Approved(s, b)
  BY DEF Approved
<1>2. ASSUME NEW u \in Turns, Works(u, s)'
      PROVE  Works(u, s) /\ Superseding(u, s)'
  <2>1. UNCHANGED <<pc[u], todo[u], others[u], superseded[u], loaded[u]>>
    BY <1>2 DEF Works
  <2>2. Works(u, s) /\ Wanted(u)' = Wanted(u)
    BY <1>2, <2>1 DEF Works, Wanted
  <2>3. Superseding(u, s)
    BY <2>2 DEF OneBundle
  <2> QED
    BY <1>1, <2>1, <2>2, <2>3 DEF Superseding
<1> QED
  BY <1>1, <1>2 DEF OneBundle

\* A step of the one turn that works on s, or of another one on its own skill,
\* that approves nothing of s.
LEMMA OneBundleStep ==
    ASSUME NEW s \in Names, OneBundle(s), NEW t \in Turns,
           \A b \in Bundles : Approved(s, b)' => Approved(s, b),
           \A u \in Turns \ {t} :
              /\ UNCHANGED <<todo[u], others[u], superseded[u], loaded[u]>>
              /\ \/ pc'[u] = pc[u]
                 \/ pc[u] = "savingApproval" /\ pc'[u] = "savingStale",
           Works(t, s)' => Works(t, s),
           Works(t, s)' => Superseding(t, s)'
    PROVE  OneBundle(s)'
<1>1. ASSUME NEW u \in Turns \ {t}, Works(u, s)'
      PROVE  Works(u, s) /\ Superseding(u, s)'
  <2>1. Works(u, s) /\ Wanted(u)' = Wanted(u)
    BY <1>1 DEF Works, Wanted, ApprovalSteps
  <2>2. Superseding(u, s)
    BY <2>1 DEF OneBundle
  <2> QED
    BY <2>1, <2>2, SavedStatusDomain DEF Superseding
<1> QED
  BY <1>1 DEF OneBundle

LEMMA EntryKeepsOneBundle ==
    ASSUME TypeOK, NEW s \in Names, OneBundle(s), NEW t \in Turns, Begin(t),
           s \notin met'
    PROVE  OneBundle(s)'
<1>1. /\ pc' = [pc EXCEPT ![t] = "invalidating"]
      /\ others' = [others EXCEPT ![t] = OtherFiles(t)]
      /\ UNCHANGED <<records, todo, superseded, loaded>>
      /\ todo[t] # <<>>
  BY DEF Begin, Goto, files
<1>2. CASE Wanted(t)[1] = s
  <2>1. Validating(s) = {}
    BY <1>2 DEF Begin
  <2>2. \A u \in Turns : ~Works(u, s)
    BY <2>1 DEF Validating, Works
  <2>3. \A u \in Turns : u # t => ~Works(u, s)'
    BY <1>1, <2>2 DEF TypeOK, Works, Wanted
  <2>4. Superseding(t, s)'
    <3>1. pc'[t] = "invalidating" /\ others'[t] = OtherFiles(t)
      BY <1>1 DEF TypeOK
    <3>2. ASSUME NEW b \in Bundles, Approved(s, b), <<s, b>> # Wanted(t)
          PROVE  <<s, b>> \in OtherFiles(t)
      BY <1>2, <3>2, KeyParts DEF OtherFiles, Approved
    <3>3. Wanted(t)' = Wanted(t) /\ \A b \in Bundles : Approved(s, b)' <=> Approved(s, b)
      BY <1>1 DEF Wanted, Approved
    <3> QED
      BY <3>1, <3>2, <3>3, SavedStatusDomain DEF Superseding
  <2>5. \A b \in Bundles : Approved(s, b)' <=> Approved(s, b)
    BY <1>1 DEF Approved
  <2> QED
    BY <2>3, <2>4, <2>5 DEF OneBundle
<1>3. CASE Wanted(t)[1] # s
  <2>1. ~Works(t, s)'
    BY <1>1, <1>3 DEF Works, Wanted
  <2>2. \A b \in Bundles : Approved(s, b)' => Approved(s, b)
    BY <1>1 DEF Approved
  <2> QED
    BY <1>1, <2>1, <2>2, OneBundleStep DEF TypeOK
<1> QED
  BY <1>2, <1>3

LEMMA InvalidateKeepsOneBundle ==
    ASSUME TypeOK, NEW s \in Names, OneBundle(s), faults' = 0, NEW t \in Turns,
           InvalidateRead(t) \/ InvalidateUnread(t) \/ InvalidateWrite(t)
    PROVE  OneBundle(s)'
<1>1. ~Fault
  BY DEF Fault, TypeOK
<1>2. CASE InvalidateRead(t)
  <2>1. PICK k \in others[t] :
            /\ others' = [others EXCEPT ![t] = @ \ {k}]
            /\ IF Supersedes(Says(k))
               THEN superseded' = [superseded EXCEPT ![t] = k] /\ Goto(t, "staling")
               ELSE UNCHANGED <<superseded, pc>>
    BY <1>2 DEF InvalidateRead
  <2>2. UNCHANGED <<records, todo, loaded>> /\ pc[t] = "invalidating"
    BY <1>2 DEF InvalidateRead, files
  <2>3. /\ \A u \in Turns \ {t} :
              UNCHANGED <<pc[u], others[u], superseded[u]>>
        /\ others'[t] = others[t] \ {k}
        /\ \/ pc'[t] = "staling" /\ superseded'[t] = k
           \/ pc'[t] = "invalidating" /\ ~Supersedes(Says(k))
    BY <2>1, <2>2 DEF Goto, TypeOK
  <2>4. Works(t, s)' => Works(t, s)
    BY <2>2 DEF Works, Wanted, ApprovalSteps
  <2>5. ASSUME Works(t, s)' PROVE Superseding(t, s)'
    <3>1. Superseding(t, s) /\ Wanted(t)' = Wanted(t)
      BY <2>2, <2>4, <2>5 DEF OneBundle, Wanted
    <3>2. ASSUME NEW b \in Bundles, Approved(s, b), <<s, b>> # Wanted(t)
          PROVE  /\ pc'[t] \in {"invalidating", "staling"}
                 /\ \/ <<s, b>> \in others'[t]
                    \/ pc'[t] = "staling" /\ superseded'[t] = <<s, b>>
      <4>1. <<s, b>> \in others[t]
        BY <2>2, <3>1, <3>2 DEF Superseding
      <4>2. <<s, b>> = k => Supersedes(Says(k))
        BY <3>2, KeyParts DEF Supersedes, Says, Approved
      <4> QED
        BY <2>3, <4>1, <4>2
    <3>3. pc'[t] \in {"invalidating", "staling"}
      BY <2>3
    <3>4. \A b \in Bundles : Approved(s, b)' <=> Approved(s, b)
      BY <2>2 DEF Approved
    <3> QED
      BY <3>1, <3>2, <3>3, <3>4, SavedStatusDomain DEF Superseding
  <2>6. \A b \in Bundles : Approved(s, b)' => Approved(s, b)
    BY <2>2 DEF Approved
  <2> QED
    BY <2>2, <2>3, <2>4, <2>5, <2>6, OneBundleStep
<1>3. CASE InvalidateWrite(t)
  <2>1. UNCHANGED <<todo, others, loaded>> /\ pc[t] = "staling"
    BY <1>3 DEF InvalidateWrite
  <2>2. superseded' = [superseded EXCEPT ![t] = Nothing]
    BY <1>3 DEF InvalidateWrite
  <2>3. \/ /\ superseded[t] \in Keys
           /\ records' = [records EXCEPT ![superseded[t]] = "STALE"]
           /\ pc' = [pc EXCEPT ![t] = "invalidating"]
        \/ /\ superseded[t] \notin Keys
           /\ pc' = [u \in Turns |->
                        CASE u = t -> "invalidating"
                          [] u # t /\ pc[u] = "savingApproval"
                                   /\ Temp(u) = superseded[t] -> "savingStale"
                          [] OTHER -> pc[u]]
           /\ UNCHANGED records
    BY <1>1, <1>3 DEF InvalidateWrite, Goto
  <2>4. /\ pc'[t] = "invalidating"
        /\ \A u \in Turns \ {t} :
             /\ superseded'[u] = superseded[u]
             /\ \/ pc'[u] = pc[u]
                \/ pc[u] = "savingApproval" /\ pc'[u] = "savingStale"
    BY <2>2, <2>3 DEF TypeOK
  <2>5. ASSUME NEW b \in Bundles, Approved(s, b)'
        PROVE  Approved(s, b) /\ superseded[t] # <<s, b>>
    <3>1. <<s, b>> \in Keys
      BY KeyParts
    <3>2. records \in [Keys -> Statuses]
      BY DEF TypeOK
    <3> QED
      BY <2>3, <2>5, <3>1, <3>2 DEF Approved
  <2>6. Works(t, s)' => Works(t, s)
    BY <2>1 DEF Works, Wanted, ApprovalSteps
  <2>7. ASSUME Works(t, s)' PROVE Superseding(t, s)'
    <3>1. Superseding(t, s) /\ Wanted(t)' = Wanted(t)
      BY <2>1, <2>6, <2>7 DEF OneBundle, Wanted
    <3>2. ASSUME NEW b \in Bundles, Approved(s, b)', <<s, b>> # Wanted(t)
          PROVE  <<s, b>> \in others'[t]
      BY <2>1, <2>5, <3>1, <3>2 DEF Superseding
    <3> QED
      BY <2>4, <3>1, <3>2, SavedStatusDomain DEF Superseding
  <2> QED
    BY <2>1, <2>4, <2>5, <2>6, <2>7, OneBundleStep
<1> QED
  BY <1>1, <1>2, <1>3 DEF InvalidateUnread

LEMMA ApprovalKeepsOneBundle ==
    ASSUME TypeOK, NEW s \in Names, OneBundle(s), faults' = 0, NEW t \in Turns,
           \/ Get(t) \/ LoadTrusted(t) \/ LoadFresh(t) \/ Validate(t)
           \/ SaveVerdict(t)
    PROVE  OneBundle(s)'
<1>0. todo[t] # <<>> /\ pc[t] \in ApprovalSteps
  BY SavedStatusDomain
     DEF TypeOK, Get, LoadTrusted, LoadFresh, Validate, SaveVerdict, ApprovalSteps
<1>1. \A u \in Turns \ {t} :
            UNCHANGED <<pc[u], todo[u], others[u], superseded[u], loaded[u]>>
  BY DEF Get, LoadTrusted, LoadFresh, Validate, SaveVerdict, Activate, Skip, Goto,
         TypeOK, node
<1>2. ~Fault
  BY DEF Fault, TypeOK
<1>3. CASE pc'[t] = "next" /\ UNCHANGED records
  BY <1>1, <1>3, OneBundleElsewhere DEF ApprovalSteps
<1>4. CASE /\ UNCHANGED <<records, todo>>
           /\ pc'[t] \in {"loadingFresh", "loadingTrusted", "validating",
                          "savingApproval", "savingRejection"}
           /\ pc[t] = "invalidating" => others[t] = {}
           /\ pc[t] # "staling"
           /\ pc'[t] \in {"validating", "savingApproval", "savingRejection"} =>
                 \/ loaded'[t] = Wanted(t)[2]
                 \/ pc[t] = "validating" /\ loaded'[t] = loaded[t]
  <2>1. \A b \in Bundles : Approved(s, b)' <=> Approved(s, b)
    BY <1>4 DEF Approved
  <2>2. Wanted(t)' = Wanted(t) /\ (Works(t, s)' => Works(t, s))
    BY <1>0, <1>4 DEF Works, Wanted
  <2>3. ASSUME Works(t, s)' PROVE Superseding(t, s)'
    <3>1. Superseding(t, s) /\ Wanted(t)[1] = s
      BY <2>2, <2>3 DEF OneBundle, Works
    <3>2. \A b \in Bundles : ~(Approved(s, b) /\ <<s, b>> # Wanted(t))
      BY <1>4, <3>1 DEF Superseding
    <3>3. Wanted(t) = <<s, Wanted(t)[2]>>
      BY <1>0, <3>1, WantedIsKey, KeyParts
    <3>4. pc'[t] \in {"validating", "savingApproval", "savingRejection"} =>
             <<s, loaded'[t]>> = Wanted(t)
      BY <1>4, <3>1, <3>3 DEF Superseding
    <3> QED
      BY <1>4, <2>1, <2>2, <3>2, <3>4, SavedStatusDomain DEF Superseding
  <2> QED
    BY <1>1, <2>1, <2>2, <2>3, OneBundleStep
<1>5. CASE Get(t)
  <2>1. CASE Skip(t)
    BY <1>3, <1>5, <2>1 DEF Get, Skip, Goto, TypeOK, files
  <2>2. CASE UNCHANGED todo /\ (Goto(t, "loadingFresh") \/ Goto(t, "loadingTrusted"))
    BY <1>4, <1>5, <2>2 DEF Get, Goto, TypeOK, files
  <2> QED
    BY <1>2, <1>5, <2>1, <2>2 DEF Get
<1>6. CASE LoadTrusted(t)
  BY <1>3, <1>6 DEF LoadTrusted, Activate, Skip, Goto, TypeOK, files
<1>7. CASE LoadFresh(t)
  <2>1. CASE Skip(t)
    BY <1>3, <1>7, <2>1 DEF LoadFresh, Skip, Goto, TypeOK, files
  <2>2. CASE /\ loaded' = [loaded EXCEPT ![t] = disk[Wanted(t)[1]]]
             /\ Goto(t, "validating") /\ UNCHANGED todo /\ SameContent(t)
    <3>1. /\ pc[t] = "loadingFresh" /\ pc'[t] = "validating"
          /\ UNCHANGED <<records, todo>>
      BY <1>7, <2>2 DEF LoadFresh, Goto, TypeOK, files
    <3>2. loaded'[t] = Wanted(t)[2]
      BY <2>2 DEF SameContent, TypeOK
    <3>3. /\ pc[t] = "invalidating" => others[t] = {}
          /\ pc[t] # "staling"
          /\ pc'[t] \in {"loadingFresh", "loadingTrusted", "validating",
                         "savingApproval", "savingRejection"}
          /\ pc'[t] \in {"validating", "savingApproval", "savingRejection"} =>
               \/ loaded'[t] = Wanted(t)[2]
               \/ pc[t] = "validating" /\ loaded'[t] = loaded[t]
      BY <3>1, <3>2
    <3> QED
      BY <1>4, <3>1, <3>3
  <2> QED
    BY <1>7, <2>1, <2>2 DEF LoadFresh
<1>8. CASE Validate(t)
  BY <1>4, <1>8 DEF Validate, Goto, TypeOK, files, node
<1>9. CASE SaveVerdict(t)
  <2>1. /\ pc'[t] = "next"
        /\ records' = [records EXCEPT ![<<Wanted(t)[1], loaded[t]>>] =
                                             SavedStatus[pc[t]]]
    BY <1>2, <1>9 DEF SaveVerdict, Activate, Skip, Goto, TypeOK
  <2>2. pc[t] \in DOMAIN SavedStatus
    BY <1>9 DEF SaveVerdict
  <2>3. CASE Wanted(t)[1] = s
    <3>1. Works(t, s) /\ Superseding(t, s)
      BY <1>0, <2>3 DEF OneBundle, Works
    <3>2. <<s, loaded[t]>> = Wanted(t) /\ Wanted(t) \in Keys
      BY <1>0, <2>2, <3>1, WantedIsKey DEF Superseding
    <3>3. \A b \in Bundles : Approved(s, b) => <<s, b>> = Wanted(t)
      BY <2>2, <3>1, SavedStatusDomain DEF Superseding
    <3>4. records' = [records EXCEPT ![Wanted(t)] = SavedStatus[pc[t]]]
      BY <2>1, <2>3, <3>2
    <3>5. ASSUME NEW b \in Bundles, Approved(s, b)' PROVE <<s, b>> = Wanted(t)
      <4>1. <<s, b>> \in Keys
        BY KeyParts
      <4> QED
        BY <3>2, <3>3, <3>4, <3>5, <4>1 DEF Approved, TypeOK
    <3>6. \A b, c \in Bundles : Approved(s, b)' /\ Approved(s, c)' => b = c
      BY <3>5, KeyParts
    <3>7. \A u \in Turns : ~Works(u, s)'
      BY <1>1, <2>1, <3>1 DEF OneBundle, Works, Wanted, ApprovalSteps
    <3> QED
      BY <3>6, <3>7 DEF OneBundle
  <2>4. CASE Wanted(t)[1] # s
    <3>1. \A b \in Bundles : Approved(s, b)' <=> Approved(s, b)
      <4> TAKE b \in Bundles
      <4>1. <<s, b>> \in Keys /\ <<s, b>> # <<Wanted(t)[1], loaded[t]>>
        BY <2>4, KeyParts
      <4> QED
        BY <2>1, <4>1 DEF Approved, TypeOK
    <3>2. ~Works(t, s)'
      BY <2>1 DEF Works, ApprovalSteps
    <3> QED
      BY <1>1, <3>1, <3>2, OneBundleStep
  <2> QED
    BY <2>3, <2>4
<1> QED
  BY <1>5, <1>6, <1>7, <1>8, <1>9

\* A skill that no two turns validated at the same time has at most one
\* approved bundle as long as no record file failed, whatever its owner edits,
\* whichever turns are stopped and whenever the process dies
\* (ensureApproved, Store.InvalidateOthers, Store.Save).
THEOREM OnlyOneBundle == Spec => []OneBundleApproved
<1>1. Init => SupersessionInv
  <2>1. ASSUME Init, NEW s \in Names PROVE OneBundle(s)
    <3>1. \A b \in Bundles : ~Approved(s, b)
      BY <2>1, KeyParts DEF Init, Approved
    <3>2. \A t \in Turns : ~Works(t, s)
      BY <2>1 DEF Init, Works, ApprovalSteps
    <3> QED
      BY <3>1, <3>2 DEF OneBundle
  <2> QED
    BY <2>1 DEF SupersessionInv
<1>2. TypeOK /\ SupersessionInv /\ [Next]_vars => SupersessionInv'
  <2> SUFFICES ASSUME TypeOK, SupersessionInv, [Next]_vars,
                      NEW s \in Names, faults' = 0, s \notin met'
               PROVE  OneBundle(s)'
    BY DEF SupersessionInv
  <2>1. faults = 0 /\ s \notin met
    <3>1. UNCHANGED faults \/ Fault
      BY DEF Next, NodeStep, ToolStep, List, Select, Begin, NodeDone,
             InvalidateRead, InvalidateUnread, InvalidateWrite, Get, LoadTrusted,
             LoadFresh, Validate, SaveVerdict, Call, Authorize, Start, Finish,
             EndTurn, Stop, Edit, Crash, Quiet, vars, budgets
    <3>2. met \subseteq met'
      BY DEF Next, NodeStep, ToolStep, List, Select, Begin, NodeDone,
             InvalidateRead, InvalidateUnread, InvalidateWrite, Get, LoadTrusted,
             LoadFresh, Validate, SaveVerdict, Call, Authorize, Start, Finish,
             EndTurn, Stop, Edit, Crash, Quiet, vars, history
    <3> QED
      BY <3>1, <3>2 DEF Fault, TypeOK
  <2>2. OneBundle(s)
    BY <2>1 DEF SupersessionInv
  <2>3. ASSUME NEW t \in Turns, NodeStep(t) PROVE OneBundle(s)'
    <3>1. CASE List(t) \/ Select(t) \/ NodeDone(t)
      <4>1. UNCHANGED records /\ pc'[t] \in {"selecting", "next", "acting"}
        BY <3>1 DEF List, Select, NodeDone, Goto, TypeOK, files
      <4>2. \A u \in Turns \ {t} :
              UNCHANGED <<pc[u], todo[u], others[u], superseded[u], loaded[u]>>
        BY <3>1 DEF List, Select, NodeDone, Goto, TypeOK, node
      <4> QED
        BY <2>2, <4>1, <4>2, OneBundleElsewhere DEF ApprovalSteps
    <3>2. CASE Begin(t)
      BY <2>2, <3>2, EntryKeepsOneBundle
    <3>3. CASE InvalidateRead(t) \/ InvalidateUnread(t) \/ InvalidateWrite(t)
      BY <2>2, <3>3, InvalidateKeepsOneBundle
    <3>4. CASE \/ Get(t) \/ LoadTrusted(t) \/ LoadFresh(t) \/ Validate(t)
               \/ SaveVerdict(t)
      BY <2>2, <3>4, ApprovalKeepsOneBundle
    <3> QED
      BY <2>3, <3>1, <3>2, <3>3, <3>4 DEF NodeStep
  <2>4. ASSUME NEW t \in Turns, ToolStep(t) PROVE OneBundle(s)'
    <3>1. /\ UNCHANGED <<records, todo, others, superseded, loaded>>
          /\ pc'[t] \in {"acting", "authorizing", "starting", "running", "over"}
          /\ \A u \in Turns \ {t} : pc'[u] = pc[u]
      BY <2>4 DEF ToolStep, Call, Authorize, Start, Finish, EndTurn, Goto, TypeOK,
                  files, node
    <3> QED
      BY <2>2, <3>1, OneBundleElsewhere DEF ApprovalSteps
  <2>5. CASE (\E t \in Turns : Stop(t)) \/ (\E x \in Names : Edit(x))
             \/ UNCHANGED vars
    BY <2>2, <2>5, OneBundleElsewhere DEF Stop, Edit, vars, files, node
  <2>6. CASE Crash
    <3>1. UNCHANGED records /\ \A u \in Turns : pc'[u] \in {"idle", "over"}
      BY <2>6 DEF Crash, files
    <3> QED
      BY <2>2, <3>1, OneBundleElsewhere DEF ApprovalSteps
  <2> QED
    BY <2>3, <2>4, <2>5, <2>6 DEF Next, Quiet
<1>3. SupersessionInv => OneBundleApproved
  <2> SUFFICES ASSUME SupersessionInv, NEW s \in Names, faults = 0, s \notin met
               PROVE  Cardinality({b \in Bundles :
                                      records[<<s, b>>] = "APPROVED"}) <= 1
    BY DEF OneBundleApproved
  <2> DEFINE B == {b \in Bundles : records[<<s, b>>] = "APPROVED"}
  <2>1. \A b, c \in B : b = c
    BY DEF SupersessionInv, OneBundle, Approved
  <2>2. CASE B = {}
    <3>1. Cardinality(B) = 0
      BY <2>2, FS_EmptySet
    <3> QED
      BY <3>1
  <2>3. CASE B # {}
    <3>1. PICK b \in B : TRUE
      BY <2>3
    <3>2. B = {b}
      BY <2>1, <3>1
    <3>3. Cardinality(B) = 1
      BY <3>2, FS_Singleton
    <3> QED
      BY <3>3
  <2> QED
    BY <2>2, <2>3
<1> QED
  BY <1>1, <1>2, <1>3, SkillsTypes, PTL DEF Spec

=============================================================================
