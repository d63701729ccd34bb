--------------------------- MODULE HostOvsProofs ---------------------------
(***************************************************************************)
(* Proofs about HostOvs, for any number of attachments and containers, any *)
(* configuration, any names and any bounds.                                *)
(***************************************************************************)
EXTENDS HostOvs, TLAPS

-----------------------------------------------------------------------------
(* Type correctness. *)

Pcs == {"idle"} \cup AddPc \cup DelPc

Phases == {"absent", "added", "addFailed", "delFailed"}

Saves == {"none", "torn", "unnamed", "named"}

(* A request that goes on keeps the types of what its step changes. *)
LEMMA GotoType ==
  ASSUME TypeOK, NEW a \in Att, NEW l \in AddPc \cup DelPc, Goto(a, l),
         named' \subseteq named \cup {a}
  PROVE  /\ pc' \in [Att -> Pcs] /\ phase' \in [Att -> Phases]
         /\ marred' \subseteq Att /\ named' \subseteq Running'
  BY DEF TypeOK, Goto, Pcs, Phases, Running, Idle, AddPc, DelPc

(* So does one that ends. *)
LEMMA ReturnType ==
  ASSUME TypeOK, NEW a \in Att, NEW p \in Phases, Return(a, p)
  PROVE  /\ pc' \in [Att -> Pcs] /\ phase' \in [Att -> Phases]
         /\ marred' \subseteq Att /\ named' \subseteq Running'
  BY DEF TypeOK, Return, End, Pcs, Phases, Running, Idle, AddPc, DelPc

(* The end of addLocalDeviceVhost is one or the other. *)
LEMMA AfterVhostType ==
  ASSUME TypeOK, NEW a \in Att, AfterVhost(a)
  PROVE  /\ pc' \in [Att -> Pcs] /\ phase' \in [Att -> Phases]
         /\ marred' \subseteq Att /\ named' \subseteq Running'
<1>1. CASE Conf[a].net = "interface"
  BY <1>1, ReturnType DEF AfterVhost, Phases
<1>2. CASE Conf[a].net # "interface"
  <2>1. Goto(a, "statData") /\ named' = named \cup {a}
    BY <1>2 DEF AfterVhost
  <2> QED  BY <2>1, GotoType DEF AddPc
<1> QED  BY <1>1, <1>2

(* The types, with the parts that every step has to establish apart. *)
LEMMA TypeParts ==
  ASSUME pc' \in [Att -> Pcs], phase' \in [Att -> Phases],
         marred' \subseteq Att, named' \subseteq Running',
         port' \subseteq Att, runFile' \subseteq Att, sockFile' \subseteq Att,
         folder' \subseteq Cid, saved' \in [Att -> Saves], dataDir' \in BOOLEAN,
         faults' \in 0..MaxFaults, swallowed' \in 0..MaxSwallowed
  PROVE  TypeOK'
  BY DEF TypeOK, Pcs, Phases, Saves

(* Every step of an ADD keeps the types. *)
LEMMA AddType == ASSUME TypeOK, NEW a \in Att, StartAdd(a) \/ AddStep(a) PROVE TypeOK'
<1> USE DEF ovsVars, dataVars, envVars
<1>0. /\ port \subseteq Att /\ runFile \subseteq Att /\ sockFile \subseteq Att
      /\ folder \subseteq Cid /\ saved \in [Att -> Saves] /\ dataDir \in BOOLEAN
      /\ faults \in 0..MaxFaults /\ swallowed \in 0..MaxSwallowed
  BY DEF TypeOK, Saves
<1>1. CASE StartAdd(a)
  <2>1. CASE Goto(a, "statDir") /\ UNCHANGED named
    BY <1>0, <1>1, <2>1, GotoType, TypeParts DEF StartAdd, AddPc
  <2>2. CASE Return(a, "addFailed")
    BY <1>0, <1>1, <2>2, ReturnType, TypeParts DEF StartAdd, Phases
  <2> QED  BY <1>1, <2>1, <2>2 DEF StartAdd
<1>2. CASE StatDir(a)
  <2>1. \E l \in AddPc : Goto(a, l)
    BY <1>2 DEF StatDir, AddPc
  <2> QED  BY <1>0, <1>2, <2>1, GotoType, TypeParts DEF StatDir
<1>3. CASE MakeDir(a)
  <2>1. folder' \subseteq Cid
    BY <1>0, <1>3, HostOvsConstants DEF MakeDir
  <2> QED  BY <1>0, <1>3, <2>1, GotoType, TypeParts DEF MakeDir, AddPc
<1>4. CASE AddPort(a)
  BY <1>0, <1>4, GotoType, TypeParts DEF AddPort, AddPc
<1>5. CASE MoveSocket(a)
  BY <1>0, <1>5, AfterVhostType, TypeParts DEF MoveSocket
<1>6. CASE StatData(a)
  <2>1. \E l \in AddPc : Goto(a, l)
    BY <1>6 DEF StatData, AddPc
  <2> QED  BY <1>0, <1>6, <2>1, GotoType, TypeParts DEF StatData
<1>7. CASE MakeData(a)
  BY <1>0, <1>7, GotoType, TypeParts DEF MakeData, AddPc
<1>8. CASE OpenSaved(a)
  <2>1. saved' \in [Att -> Saves]
    BY <1>0, <1>8 DEF OpenSaved, Saves
  <2>2. CASE dataDir
    BY <1>0, <1>8, <2>1, <2>2, GotoType, TypeParts DEF OpenSaved, AddPc
  <2>3. CASE ~dataDir
    BY <1>0, <1>8, <2>1, <2>3, ReturnType, TypeParts DEF OpenSaved, Phases
  <2> QED  BY <2>2, <2>3
<1>9. CASE WriteSaved(a)
  <2>1. saved' \in [Att -> Saves]
    BY <1>0, <1>9 DEF WriteSaved, Saves
  <2> QED  BY <1>0, <1>9, <2>1, ReturnType, TypeParts DEF WriteSaved, Phases
<1> QED  BY <1>1, <1>2, <1>3, <1>4, <1>5, <1>6, <1>7, <1>8, <1>9 DEF AddStep

(* Every step of a DEL keeps the types. *)
LEMMA DelType == ASSUME TypeOK, NEW a \in Att, StartDel(a) \/ DelStep(a) PROVE TypeOK'
<1> USE DEF ovsVars, dataVars, envVars, reqVars, TakeName, AfterLoad
<1>0. /\ port \subseteq Att /\ runFile \subseteq Att /\ sockFile \subseteq Att
      /\ folder \subseteq Cid /\ saved \in [Att -> Saves] /\ dataDir \in BOOLEAN
      /\ faults \in 0..MaxFaults /\ swallowed \in 0..MaxSwallowed
  BY DEF TypeOK, Saves
<1>1. CASE StartDel(a)
  BY <1>0, <1>1, GotoType, TypeParts DEF StartDel, DelPc
<1>2. CASE LoadSaved(a)
  <2>1. saved' \in [Att -> Saves]
    BY <1>0, <1>2 DEF LoadSaved, Saves
  <2>2. CASE saved[a] = "torn"
    BY <1>0, <1>2, <2>1, <2>2, ReturnType, TypeParts DEF LoadSaved, Phases
  <2>3. CASE saved[a] # "torn"
    <3>1. Goto(a, "rmData") /\ named' \subseteq named \cup {a}
      BY <1>2, <2>3 DEF LoadSaved
    <3> QED  BY <1>0, <1>2, <2>1, <3>1, GotoType, TypeParts DEF LoadSaved, DelPc
  <2> QED  BY <2>2, <2>3
<1>3. CASE RemoveData(a)
  <2>1. dataDir' \in BOOLEAN
    BY <1>3 DEF RemoveData
  <2>2. CASE Conf[a].ifType = "vhostuser"
    BY <1>0, <1>3, <2>1, <2>2, GotoType, TypeParts DEF RemoveData, DelPc
  <2>3. CASE Conf[a].ifType # "vhostuser"
    BY <1>0, <1>3, <2>1, <2>3, ReturnType, TypeParts DEF RemoveData, Phases
  <2> QED  BY <2>2, <2>3
<1>4. CASE DeletePort(a)
  BY <1>0, <1>4, GotoType, TypeParts DEF DeletePort, DelPc
<1>5. CASE ListFiles(a)
  <2>1. CASE Goto(a, "rmFiles") /\ UNCHANGED named
    BY <1>0, <1>5, <2>1, GotoType, TypeParts DEF ListFiles, DelPc
  <2>2. CASE Return(a, "delFailed")
    BY <1>0, <1>5, <2>2, ReturnType, TypeParts DEF ListFiles, Phases
  <2> QED  BY <1>5, <2>1, <2>2 DEF ListFiles
<1>6. CASE RemoveFile(a)
  BY <1>6 DEF RemoveFile, TypeOK, Running, Idle
<1>7. CASE NoMoreFiles(a)
  <2>1. CASE Goto(a, "rmFolder") /\ UNCHANGED named
    BY <1>0, <1>7, <2>1, GotoType, TypeParts DEF NoMoreFiles, DelPc
  <2>2. CASE Return(a, "absent")
    BY <1>0, <1>7, <2>2, ReturnType, TypeParts DEF NoMoreFiles, Phases
  <2> QED  BY <1>7, <2>1, <2>2 DEF NoMoreFiles
<1>8. CASE RemoveFolder(a)
  <2>1. folder' \subseteq Cid /\ \E p \in Phases : Return(a, p)
    BY <1>0, <1>8 DEF RemoveFolder, Phases
  <2> QED  BY <1>0, <1>8, <2>1, ReturnType, TypeParts DEF RemoveFolder
<1> QED  BY <1>1, <1>2, <1>3, <1>4, <1>5, <1>6, <1>7, <1>8 DEF DelStep

(* So do the faults. *)
LEMMA FaultType ==
  ASSUME TypeOK, NEW a \in Att, Abort(a) \/ Unnoticed(a)
  PROVE  TypeOK'
<1> USE DEF ovsVars, dataVars, envVars
<1>0. /\ port \subseteq Att /\ runFile \subseteq Att /\ sockFile \subseteq Att
      /\ folder \subseteq Cid /\ saved \in [Att -> Saves] /\ dataDir \in BOOLEAN
      /\ faults \in 0..MaxFaults /\ swallowed \in 0..MaxSwallowed
  BY DEF TypeOK, Saves
<1>1. CASE Abort(a)
  <2>1. faults' \in 0..MaxFaults
    BY <1>0, <1>1, HostOvsConstants DEF Abort
  <2>2. pc' \in [Att -> Pcs] /\ phase' \in [Att -> Phases] /\ marred' \subseteq Att
    BY <1>1 DEF Abort, TypeOK, Pcs, Phases
  <2>3. named' \subseteq Running'
    BY <1>1 DEF Abort, TypeOK, Running, Idle
  <2> QED  BY <1>0, <1>1, <2>1, <2>2, <2>3, TypeParts DEF Abort
<1>2. ASSUME Swallow PROVE swallowed' \in 0..MaxSwallowed
  BY <1>0, <1>2, HostOvsConstants DEF Swallow
<1>3. CASE ScriptError(a)
  <2>1. CASE Goto(a, "statData") /\ UNCHANGED named
    BY <1>0, <1>2, <1>3, <2>1, GotoType, TypeParts DEF ScriptError, AddPc
  <2>2. CASE \E p \in Phases : Return(a, p)
    BY <1>0, <1>2, <1>3, <2>2, ReturnType, TypeParts DEF ScriptError
  <2> QED  BY <1>3, <2>1, <2>2 DEF ScriptError, Phases
<1>4. CASE CommandError(a)
  <2>1. CASE \E l \in AddPc \cup DelPc : Goto(a, l) /\ UNCHANGED named
    BY <1>0, <1>2, <1>4, <2>1, GotoType, TypeParts DEF CommandError
  <2>2. CASE AfterVhost(a)
    BY <1>0, <1>2, <1>4, <2>2, AfterVhostType, TypeParts DEF CommandError
  <2> QED  BY <1>4, <2>1, <2>2 DEF CommandError, AddPc, DelPc
<1>5. CASE KeepSaved(a) \/ MissSaved(a)
  <2>1. Goto(a, "rmData") /\ named' \subseteq named \cup {a}
    BY <1>5 DEF KeepSaved, MissSaved, TakeName
  <2> QED  BY <1>0, <1>2, <1>5, <2>1, GotoType, TypeParts DEF KeepSaved, MissSaved, DelPc
<1>6. CASE KeepDir(a)
  <2>1. CASE Conf[a].ifType = "vhostuser"
    BY <1>0, <1>2, <1>6, <2>1, GotoType, TypeParts DEF KeepDir, AfterLoad, DelPc
  <2>2. CASE Conf[a].ifType # "vhostuser"
    BY <1>0, <1>2, <1>6, <2>2, ReturnType, TypeParts DEF KeepDir, AfterLoad, Phases
  <2> QED  BY <2>1, <2>2
<1> QED  BY <1>1, <1>3, <1>4, <1>5, <1>6 DEF Unnoticed

(* Every step keeps the types. *)
LEMMA NextType == TypeOK /\ [Next]_vars => TypeOK'
<1> SUFFICES ASSUME TypeOK, [Next]_vars PROVE TypeOK'
  OBVIOUS
<1>1. CASE UNCHANGED vars
  BY <1>1 DEF vars, ovsVars, dataVars, reqVars, envVars, TypeOK, Running, Idle
<1>2. ASSUME NEW a \in Att,
             \/ StartAdd(a) \/ StartDel(a) \/ AddStep(a) \/ DelStep(a)
             \/ Abort(a) \/ Unnoticed(a)
      PROVE  TypeOK'
  BY <1>2, AddType, DelType, FaultType
<1> QED  BY <1>1, <1>2 DEF Next

(* The initial state is well typed. *)
LEMMA InitType == Init => TypeOK
<1> SUFFICES ASSUME Init PROVE TypeOK
  OBVIOUS
<1>1. faults \in 0..MaxFaults /\ swallowed \in 0..MaxSwallowed
  BY HostOvsConstants DEF Init
<1> QED  BY <1>1 DEF Init, TypeOK

(* The variables of the OVS engine, its files and its requests have their  *)
(* types, and only a request under way has a Vhostname in hand.            *)
THEOREM OvsTypeCorrect == Spec => []TypeOK
<1>1. Init => TypeOK
  BY InitType
<1>2. TypeOK /\ [Next]_vars => TypeOK'
  BY NextType
<1> QED  BY <1>1, <1>2, PTL DEF Spec

-----------------------------------------------------------------------------
(* The inductive invariant. *)

(* What a step leaves alone of an attachment. *)
Kept(a) ==
  /\ pc'[a] = pc[a] /\ phase'[a] = phase[a] /\ saved'[a] = saved[a]
  /\ (a \in port') <=> (a \in port)
  /\ (a \in named') <=> (a \in named)

InvOf(a) ==
  /\ SavedOnce(a)
  /\ swallowed = 0 => PortInHand(a) /\ (Added(a) => a \in port /\ saved[a] = "named")

Action(b) ==
  \/ StartAdd(b) \/ StartDel(b) \/ AddStep(b) \/ DelStep(b)
  \/ Abort(b) \/ Unnoticed(b)

(* A step of one request leaves the port and the data of the others alone. *)
LEMMA OthersKept ==
  ASSUME TypeOK, NEW a \in Att, NEW b \in Att, a # b, Action(b)
  PROVE  Kept(a)
<1> USE DEF TypeOK, Kept, Goto, Return, End, TakeName,
               AfterLoad, AfterVhost, ovsVars, dataVars, reqVars, envVars
<1>1. CASE StartAdd(b) \/ StartDel(b)
  BY <1>1 DEF StartAdd, StartDel
<1>2. CASE StatDir(b) \/ MakeDir(b) \/ AddPort(b) \/ MoveSocket(b)
  BY <1>2 DEF StatDir, MakeDir, AddPort, MoveSocket
<1>3. CASE StatData(b) \/ MakeData(b) \/ OpenSaved(b) \/ WriteSaved(b)
  BY <1>3 DEF StatData, MakeData, OpenSaved, WriteSaved
<1>4. CASE LoadSaved(b) \/ RemoveData(b) \/ DeletePort(b)
  BY <1>4 DEF LoadSaved, RemoveData, DeletePort
<1>5. CASE ListFiles(b) \/ RemoveFile(b) \/ NoMoreFiles(b) \/ RemoveFolder(b)
  BY <1>5 DEF ListFiles, RemoveFile, NoMoreFiles, RemoveFolder
<1>6. CASE Abort(b) \/ Unnoticed(b)
  BY <1>6 DEF Abort, Unnoticed, ScriptError, CommandError, KeepSaved, MissSaved, KeepDir
<1> QED  BY <1>1, <1>2, <1>3, <1>4, <1>5, <1>6 DEF Action, AddStep, DelStep

(* No step takes an unnoticed failure back. *)
LEMMA SwallowedStays ==
  ASSUME TypeOK, NEW b \in Att, Action(b), swallowed' = 0
  PROVE  swallowed = 0 /\ ~Unnoticed(b)
<1>1. swallowed \in Nat
  BY HostOvsConstants DEF TypeOK
<1>2. ~Unnoticed(b)
  BY <1>1 DEF Unnoticed, ScriptError, CommandError, KeepSaved, MissSaved, KeepDir, Swallow
<1> QED
  BY <1>2 DEF Action, AddStep, DelStep, envVars, StartAdd, StartDel, StatDir, MakeDir,
     AddPort, MoveSocket, StatData, MakeData, OpenSaved, WriteSaved, LoadSaved,
     RemoveData, DeletePort, ListFiles, RemoveFile, NoMoreFiles, RemoveFolder, Abort

(* A step of an ADD keeps the invariant of its own attachment. *)
LEMMA AddOwn ==
  ASSUME TypeOK, NEW a \in Att, InvOf(a), StartAdd(a) \/ AddStep(a)
  PROVE  InvOf(a)'
<1> USE DEF TypeOK, InvOf, SavedOnce, PortInHand, Added, Gone, Idle, AddPc, DelPc,
        Goto, Return, End, TakeName, AfterLoad, ovsVars, dataVars, envVars
<1>1. CASE StartAdd(a)
  <2>1. a \notin named
    BY <1>1 DEF StartAdd, MayStart, Running
  <2> QED  BY <1>1, <2>1 DEF StartAdd, MayStart
<1>2. CASE StatDir(a) \/ MakeDir(a) \/ AddPort(a)
  BY <1>2 DEF StatDir, MakeDir, AddPort
<1>3. CASE MoveSocket(a)
  BY <1>3 DEF MoveSocket, AfterVhost
<1>4. CASE StatData(a) \/ MakeData(a)
  BY <1>4 DEF StatData, MakeData
<1>5. CASE OpenSaved(a)
  BY <1>5 DEF OpenSaved
<1>6. CASE WriteSaved(a)
  BY <1>6 DEF WriteSaved
<1> QED  BY <1>1, <1>2, <1>3, <1>4, <1>5, <1>6 DEF AddStep

(* So does a step of a DEL. *)
LEMMA DelOwn ==
  ASSUME TypeOK, NEW a \in Att, InvOf(a), StartDel(a) \/ DelStep(a)
  PROVE  InvOf(a)'
<1> USE DEF TypeOK, InvOf, SavedOnce, PortInHand, Added, Gone, Idle, AddPc, DelPc,
        Goto, Return, End, TakeName, AfterLoad, ovsVars, dataVars, envVars, reqVars
<1>1. CASE StartDel(a)
  <2>1. a \notin named
    BY <1>1 DEF StartDel, MayStart, Running
  <2> QED  BY <1>1, <2>1 DEF StartDel, MayStart
<1>2. CASE LoadSaved(a)
  BY <1>2 DEF LoadSaved
<1>3. CASE RemoveData(a)
  BY <1>3 DEF RemoveData
<1>4. CASE DeletePort(a)
  BY <1>4 DEF DeletePort
<1>5. CASE ListFiles(a) \/ RemoveFile(a)
  BY <1>5 DEF ListFiles, RemoveFile
<1>6. CASE NoMoreFiles(a) \/ RemoveFolder(a)
  BY <1>6 DEF NoMoreFiles, RemoveFolder
<1> QED  BY <1>1, <1>2, <1>3, <1>4, <1>5, <1>6 DEF DelStep

(* So does a fault. *)
LEMMA FaultOwn ==
  ASSUME TypeOK, NEW a \in Att, InvOf(a), Abort(a) \/ Unnoticed(a)
  PROVE  InvOf(a)'
<1> USE DEF TypeOK, InvOf, SavedOnce, PortInHand, Added, Gone, Idle, AddPc, DelPc,
        Goto, Return, End, TakeName, AfterLoad, ovsVars, dataVars, envVars
<1>1. CASE Abort(a)
  BY <1>1 DEF Abort
<1>2. CASE ScriptError(a) \/ CommandError(a)
  <2>1. swallowed' # 0
    BY <1>2, HostOvsConstants DEF ScriptError, CommandError, Swallow
  <2> QED  BY <1>2, <2>1 DEF ScriptError, CommandError, AfterVhost
<1>3. CASE KeepSaved(a) \/ MissSaved(a) \/ KeepDir(a)
  <2>1. swallowed' # 0
    BY <1>3, HostOvsConstants DEF KeepSaved, MissSaved, KeepDir, Swallow
  <2> QED  BY <1>3, <2>1 DEF KeepSaved, MissSaved, KeepDir
<1> QED  BY <1>1, <1>2, <1>3 DEF Unnoticed

(* Every step keeps the invariant. *)
LEMMA NextPorts == PortInv /\ [Next]_vars => PortInv'
<1> SUFFICES ASSUME PortInv, [Next]_vars PROVE PortInv'
  OBVIOUS
<1>1. TypeOK /\ TypeOK'
  BY NextType DEF PortInv
<1>2. \A a \in Att : InvOf(a)
  BY DEF PortInv, InvOf, AddedHasPort
<1>3. CASE UNCHANGED vars
  BY <1>1, <1>3 DEF PortInv, AddedHasPort, SavedOnce, PortInHand, Added, Gone, Idle,
     vars, ovsVars, dataVars, reqVars, envVars
<1>4. CASE Next
  <2>1. PICK b \in Att : Action(b)
    BY <1>4 DEF Next, Action
  <2>2. ASSUME NEW a \in Att PROVE InvOf(a)'
    <3>1. CASE a = b
      BY <1>1, <1>2, <2>1, <3>1, AddOwn, DelOwn, FaultOwn DEF Action
    <3>2. CASE a # b
      <4>1. Kept(a) /\ (swallowed' = 0 => swallowed = 0)
        BY <1>1, <2>1, <3>2, OthersKept, SwallowedStays
      <4> QED
        BY <1>2, <4>1 DEF InvOf, Kept, SavedOnce, PortInHand, Added, Gone, Idle
    <3> QED  BY <3>1, <3>2
  <2> QED  BY <1>1, <2>2 DEF PortInv, InvOf, AddedHasPort
<1> QED  BY <1>3, <1>4

(* It holds at the start. *)
LEMMA InitPorts == Init => PortInv
  BY InitType DEF Init, PortInv, AddedHasPort, SavedOnce, PortInHand, Added, Gone,
     Idle, AddPc, DelPc

(* However the requests interleave and fail, what a request has in hand    *)
(* and what the saved data says agree with the ports of br0.               *)
LEMMA OvsPorts == Spec => []PortInv
<1> QED  BY InitPorts, NextPorts, PTL DEF Spec

(* An attachment whose ADD succeeded has its port, and saved data that     *)
(* names it for the DEL.                                                   *)
THEOREM AddedKeepsPort == Spec => []AddedHasPort
<1>1. PortInv => AddedHasPort
  BY DEF PortInv
<1> QED  BY <1>1, OvsPorts, PTL

-----------------------------------------------------------------------------
(* The promise to the caller, step by step. *)

PortMap == [a \in Att |-> IF a \in port THEN a ELSE NoAtt]

StageMap == [a \in Att |-> StageOf(a)]

HeldMap == [a \in Att |-> Held(a)]

(* How far a step of b has moved what the promise is about: the stage of b *)
(* becomes s, its port and what is remembered of it become p and h.        *)
Moves(b, s, p, h) ==
  /\ StageMap' = [StageMap EXCEPT ![b] = s]
  /\ PortMap' = [PortMap EXCEPT ![b] = p]
  /\ HeldMap' = [HeldMap EXCEPT ![b] = h]

PortOf(a) == IF a \in port THEN a ELSE NoAtt

(* What a step leaves alone of an attachment, the promise sees unchanged.  *)
LEMMA KeptMaps ==
  ASSUME NEW b \in Att, \A a \in Att : a # b => Kept(a)
  PROVE  Moves(b, StageOf(b)', PortOf(b)', Held(b)')
<1>1. ASSUME NEW a \in Att, a # b
      PROVE  /\ StageOf(a)' = StageOf(a) /\ PortOf(a)' = PortOf(a) /\ Held(a)' = Held(a)
  <2>1. Kept(a)
    BY <1>1
  <2> QED  BY <2>1 DEF Kept, StageOf, PortOf, Held
<1>2. StageMap' = [StageMap EXCEPT ![b] = StageOf(b)']
  BY <1>1 DEF StageMap
<1>3. PortMap' = [PortMap EXCEPT ![b] = PortOf(b)']
  BY <1>1 DEF PortMap, PortOf
<1>4. HeldMap' = [HeldMap EXCEPT ![b] = Held(b)']
  BY <1>1 DEF HeldMap
<1> QED  BY <1>2, <1>3, <1>4 DEF Moves

(* The steps of the promise in these terms. *)
LEMMA PromiseSteps ==
  ASSUME NEW b \in Att, NEW s, NEW p, NEW h, Moves(b, s, p, h)
  PROVE  /\ s = StageOf(b) /\ p = PortOf(b) /\ h = Held(b) => UNCHANGED Ports!vars
         /\ StageOf(b) = "absent" /\ s = "adding" /\ p = PortOf(b) /\ h = Held(b)
              => Ports!BeginAdd(b)
         /\ StageOf(b) = "adding" /\ Held(b) = NoPort /\ s = "adding" /\ p = b /\ h = b
              => Ports!Provide(b)
         /\ StageOf(b) = "adding" /\ Held(b) # NoPort /\ s = "added" /\ p = PortOf(b) /\ h = Held(b)
              => Ports!Added(b)
         /\ StageOf(b) \in {"added", "failed"} /\ s = "deleting" /\ p = PortOf(b) /\ h = Held(b)
              => Ports!BeginDel(b)
         /\ StageOf(b) = "deleting" /\ Held(b) = b /\ s = "deleting" /\ p = NoAtt /\ h = NoPort
              /\ NoPort \notin Att => Ports!Withdraw(b)
         /\ StageOf(b) = "deleting" /\ Held(b) = NoPort /\ s = "absent" /\ p = PortOf(b) /\ h = Held(b)
              => Ports!Deleted(b)
         /\ StageOf(b) \in {"absent", "adding", "deleting"} /\ s = "failed" /\ p = PortOf(b)
              /\ h \in {Held(b), NoPort} => Ports!Fail(b)
<1>a. p = PortOf(b) => PortMap' = PortMap
  BY DEF Moves, PortMap, PortOf
<1>b. h = Held(b) => HeldMap' = HeldMap
  BY DEF Moves, HeldMap
<1>c. s = StageOf(b) => StageMap' = StageMap
  BY DEF Moves, StageMap
<1>d. StageMap[b] = StageOf(b) /\ HeldMap[b] = Held(b)
  BY DEF StageMap, HeldMap
<1> USE <1>a, <1>b, <1>c, <1>d DEF Moves, StageMap, PortMap, HeldMap
<1>1. s = StageOf(b) /\ p = PortOf(b) /\ h = Held(b) => UNCHANGED Ports!vars
  BY DEF Ports!vars
<1>2. StageOf(b) = "absent" /\ s = "adding" /\ p = PortOf(b) /\ h = Held(b)
        => Ports!BeginAdd(b)
  BY DEF Ports!BeginAdd, Ports!Move
<1>3. StageOf(b) = "adding" /\ Held(b) = NoPort /\ s = "adding" /\ p = b /\ h = b
        => Ports!Provide(b)
  BY DEF Ports!Provide
<1>4. StageOf(b) = "adding" /\ Held(b) # NoPort /\ s = "added" /\ p = PortOf(b) /\ h = Held(b)
        => Ports!Added(b)
  BY DEF Ports!Added, Ports!Move
<1>5. StageOf(b) \in {"added", "failed"} /\ s = "deleting" /\ p = PortOf(b) /\ h = Held(b)
        => Ports!BeginDel(b)
  BY DEF Ports!BeginDel, Ports!Move
<1>6. StageOf(b) = "deleting" /\ Held(b) = b /\ s = "deleting" /\ p = NoAtt /\ h = NoPort
        /\ NoPort \notin Att => Ports!Withdraw(b)
  BY DEF Ports!Withdraw
<1>7. StageOf(b) = "deleting" /\ Held(b) = NoPort /\ s = "absent" /\ p = PortOf(b) /\ h = Held(b)
        => Ports!Deleted(b)
  BY DEF Ports!Deleted, Ports!Move
<1>8. StageOf(b) \in {"absent", "adding", "deleting"} /\ s = "failed" /\ p = PortOf(b)
        /\ h \in {Held(b), NoPort} => Ports!Fail(b)
  BY DEF Ports!Fail, Ports!Move
<1> QED  BY <1>1, <1>2, <1>3, <1>4, <1>5, <1>6, <1>7, <1>8

(* What a step may do to the stage, the port and the memory of its own     *)
(* attachment: one disjunct for each step of the promise.                  *)
Stutters(b) == StageOf(b)' = StageOf(b) /\ PortOf(b)' = PortOf(b) /\ Held(b)' = Held(b)

Begins(b) ==
  /\ \/ StageOf(b) = "absent" /\ StageOf(b)' = "adding"
     \/ StageOf(b) \in {"added", "failed"} /\ StageOf(b)' = "deleting"
  /\ PortOf(b)' = PortOf(b) /\ Held(b)' = Held(b)

Changes(b) ==
  \/ /\ StageOf(b) = "adding" /\ StageOf(b)' = "adding"
     /\ Held(b) = NoPort /\ PortOf(b)' = b /\ Held(b)' = b
  \/ /\ StageOf(b) = "deleting" /\ StageOf(b)' = "deleting"
     /\ Held(b) = b /\ PortOf(b)' = NoAtt /\ Held(b)' = NoPort

Ends(b) ==
  /\ PortOf(b)' = PortOf(b)
  /\ \/ /\ StageOf(b) = "adding" /\ StageOf(b)' = "added"
        /\ Held(b) # NoPort /\ Held(b)' = Held(b)
     \/ /\ StageOf(b) = "deleting" /\ StageOf(b)' = "absent"
        /\ Held(b) = NoPort /\ Held(b)' = Held(b)
     \/ /\ StageOf(b) \in {"absent", "adding", "deleting"} /\ StageOf(b)' = "failed"
        /\ Held(b)' \in {Held(b), NoPort}

(* Each of them is a step of the promise, or none. *)
LEMMA Promised ==
  ASSUME NEW b \in Att, \A a \in Att : a # b => Kept(a),
         Stutters(b) \/ Begins(b) \/ Changes(b) \/ Ends(b)
  PROVE  [Ports!Next]_(Ports!vars)
<1>1. PICK s, p, h : /\ Moves(b, s, p, h)
                     /\ s = StageOf(b)' /\ p = PortOf(b)' /\ h = Held(b)'
  BY KeptMaps
<1>2. CASE Stutters(b)
  BY <1>1, <1>2, PromiseSteps DEF Stutters
<1>3. CASE Begins(b)
  <2>1. Ports!BeginAdd(b) \/ Ports!BeginDel(b)
    BY <1>1, <1>3, PromiseSteps DEF Begins
  <2> QED  BY <2>1 DEF Ports!Next
<1>4. CASE Changes(b)
  <2>1. Ports!Provide(b) \/ Ports!Withdraw(b)
    BY <1>1, <1>4, PromiseSteps, HostOvsConstants DEF Changes
  <2> QED  BY <2>1 DEF Ports!Next
<1>5. CASE Ends(b)
  <2>1. Ports!Added(b) \/ Ports!Deleted(b) \/ Ports!Fail(b)
    BY <1>1, <1>5, PromiseSteps DEF Ends
  <2> QED  BY <2>1 DEF Ports!Next
<1> QED  BY <1>2, <1>3, <1>4, <1>5

(* The steps of an ADD keep the promise, *)
LEMMA AddPromised ==
  ASSUME TypeOK, swallowed = 0, NEW b \in Att, InvOf(b), StartAdd(b) \/ AddStep(b)
  PROVE  Stutters(b) \/ Begins(b) \/ Changes(b) \/ Ends(b)
<1> USE HostOvsConstants
    DEF TypeOK, InvOf, SavedOnce, PortInHand, Added, Gone, Idle, AddPc, DelPc,
        Goto, Return, End, TakeName, AfterLoad, StageOf, PortOf, Held, ovsVars,
            dataVars, envVars
<1>1. CASE StartAdd(b)
  <2>1. pc[b] = "idle" /\ phase[b] = "absent" /\ b \notin named
    BY <1>1 DEF StartAdd, MayStart, Running
  <2>2. Begins(b) \/ Ends(b)
    BY <1>1, <2>1 DEF StartAdd, Begins, Ends
  <2> QED  BY <2>2
<1>2. CASE StatDir(b) \/ MakeDir(b)
  <2>1. Stutters(b)
    BY <1>2 DEF StatDir, MakeDir, Stutters
  <2> QED  BY <2>1
<1>3. CASE AddPort(b)
  <2>1. Changes(b)
    BY <1>3 DEF AddPort, Changes
  <2> QED  BY <2>1
<1>4. CASE MoveSocket(b)
  <2>1. Stutters(b) \/ Ends(b)
    BY <1>4 DEF MoveSocket, AfterVhost, Stutters, Ends
  <2> QED  BY <2>1
<1>5. CASE StatData(b) \/ MakeData(b)
  <2>1. Stutters(b)
    BY <1>5 DEF StatData, MakeData, Stutters
  <2> QED  BY <2>1
<1>6. CASE OpenSaved(b)
  <2>1. Stutters(b) \/ Ends(b)
    BY <1>6 DEF OpenSaved, Stutters, Ends
  <2> QED  BY <2>1
<1>7. CASE WriteSaved(b)
  <2>1. Ends(b)
    BY <1>7 DEF WriteSaved, Ends
  <2> QED  BY <2>1
<1> QED  BY <1>1, <1>2, <1>3, <1>4, <1>5, <1>6, <1>7 DEF AddStep

(* those of a DEL as well, *)
LEMMA DelPromised ==
  ASSUME TypeOK, swallowed = 0, NEW b \in Att, InvOf(b), StartDel(b) \/ DelStep(b)
  PROVE  Stutters(b) \/ Begins(b) \/ Changes(b) \/ Ends(b)
<1> USE HostOvsConstants
    DEF TypeOK, InvOf, SavedOnce, PortInHand, Added, Gone, Idle, AddPc, DelPc,
        Goto, Return, End, TakeName, AfterLoad, StageOf, PortOf, Held, ovsVars,
            dataVars, envVars, reqVars
<1>1. CASE StartDel(b)
  <2>1. pc[b] = "idle" /\ phase[b] \in {"added", "addFailed", "delFailed"} /\ b \notin named
    BY <1>1 DEF StartDel, MayStart, Running
  <2>2. Begins(b)
    BY <1>1, <2>1 DEF StartDel, Begins
  <2> QED  BY <2>2
<1>2. CASE LoadSaved(b)
  <2>1. Stutters(b) \/ Ends(b)
    BY <1>2 DEF LoadSaved, Stutters, Ends
  <2> QED  BY <2>1
<1>3. CASE RemoveData(b)
  <2>1. Stutters(b) \/ Ends(b)
    BY <1>3 DEF RemoveData, Stutters, Ends
  <2> QED  BY <2>1
<1>4. CASE DeletePort(b)
  <2>1. Stutters(b) \/ Changes(b)
    BY <1>4 DEF DeletePort, Stutters, Changes
  <2> QED  BY <2>1
<1>5. CASE ListFiles(b) \/ RemoveFile(b)
  <2>1. Stutters(b) \/ Ends(b)
    BY <1>5 DEF ListFiles, RemoveFile, Stutters, Ends
  <2> QED  BY <2>1
<1>6. CASE NoMoreFiles(b) \/ RemoveFolder(b)
  <2>1. Stutters(b) \/ Ends(b)
    BY <1>6 DEF NoMoreFiles, RemoveFolder, Stutters, Ends
  <2> QED  BY <2>1
<1> QED  BY <1>1, <1>2, <1>3, <1>4, <1>5, <1>6 DEF DelStep

(* and a request that is cut short fails. *)
LEMMA AbortPromised ==
  ASSUME TypeOK, NEW b \in Att, InvOf(b), Abort(b)
  PROVE  Ends(b)
  BY HostOvsConstants
  DEF TypeOK, InvOf, SavedOnce, PortInHand, Added, Gone, Idle, AddPc, DelPc, Abort, Ends,
      StageOf, PortOf, Held, ovsVars, dataVars

(* AddOnHost and DelFromHost of the OVS engine implement the promise of    *)
(* HostPorts to cmdAdd and cmdDel, whatever fails and however requests     *)
(* interleave, until a command fails without the engine noticing.          *)
THEOREM OvsKeepsPromise == Spec => KeepsPromise
<1>1. Init => Ports!Init
  BY DEF Init, Ports!Init, StageOf, Held, AddPc, DelPc
<1>2. PortInv /\ [Next]_vars => [swallowed' = 0 => Ports!Next]_(Ports!vars)
  <2> SUFFICES ASSUME PortInv, [Next]_vars, swallowed' = 0
               PROVE  [Ports!Next]_(Ports!vars)
    OBVIOUS
  <2>1. CASE UNCHANGED vars
    <3>1. UNCHANGED Ports!vars
      BY <2>1 DEF vars, ovsVars, dataVars, reqVars, Ports!vars, StageOf, Held
    <3> QED  BY <3>1
  <2>2. ASSUME NEW b \in Att, Action(b) PROVE [Ports!Next]_(Ports!vars)
    <3>1. TypeOK /\ InvOf(b)
      BY DEF PortInv, InvOf, AddedHasPort
    <3>2. \A a \in Att : a # b => Kept(a)
      BY <2>2, <3>1, OthersKept
    <3>3. swallowed = 0 /\ ~Unnoticed(b)
      BY <2>2, <3>1, SwallowedStays
    <3>4. Stutters(b) \/ Begins(b) \/ Changes(b) \/ Ends(b)
      BY <2>2, <3>1, <3>3, AddPromised, DelPromised, AbortPromised DEF Action
    <3> QED  BY <3>2, <3>4, Promised
  <2> QED  BY <2>1, <2>2 DEF Next, Action
<1> QED  BY <1>1, <1>2, OvsPorts, PTL DEF Spec, KeepsPromise

-----------------------------------------------------------------------------
(* The files: sockets, directories and what becomes of the DELs.           *)

(* What a step leaves alone of the files of an attachment of another       *)
(* request: all, but the socket that a DEL takes for one of its own names, *)
(* and the directory that a DEL has emptied.                               *)
Untouched(a, b) ==
  /\ (a \in marred') <=> (a \in marred)
  /\ (a \in runFile') <=> (a \in runFile)
  /\ a \in sockFile' => a \in sockFile
  /\ a \in sockFile /\ a \notin sockFile' => pc[b] = "rmFiles" /\ a \in Names[b]
  /\ ContainerId[a] \in folder /\ ContainerId[a] \notin folder'
       => pc[b] = "rmFolder" /\ Left(b) = {} /\ ContainerId[a] = ContainerId[b]

LEMMA OthersUntouched ==
  ASSUME TypeOK, NEW a \in Att, NEW b \in Att, a # b, Action(b)
  PROVE  Untouched(a, b)
<1> USE DEF TypeOK, Untouched, Goto, Return, End, TakeName,
               AfterLoad, AfterVhost, ovsVars, dataVars, reqVars, envVars
<1>1. CASE StartAdd(b) \/ StartDel(b)
  BY <1>1 DEF StartAdd, StartDel
<1>2. CASE StatDir(b) \/ MakeDir(b) \/ AddPort(b) \/ MoveSocket(b)
  BY <1>2 DEF StatDir, MakeDir, AddPort, MoveSocket
<1>3. CASE StatData(b) \/ MakeData(b) \/ OpenSaved(b) \/ WriteSaved(b)
  BY <1>3 DEF StatData, MakeData, OpenSaved, WriteSaved
<1>4. CASE LoadSaved(b) \/ RemoveData(b) \/ DeletePort(b)
  BY <1>4 DEF LoadSaved, RemoveData, DeletePort
<1>5. CASE ListFiles(b) \/ RemoveFile(b) \/ NoMoreFiles(b)
  BY <1>5 DEF ListFiles, RemoveFile, NoMoreFiles, Matches
<1>6. CASE RemoveFolder(b)
  BY <1>6 DEF RemoveFolder
<1>7. CASE Abort(b) \/ Unnoticed(b)
  BY <1>7 DEF Abort, Unnoticed, ScriptError, CommandError, KeepSaved, MissSaved, KeepDir
<1> QED  BY <1>1, <1>2, <1>3, <1>4, <1>5, <1>6, <1>7 DEF Action, AddStep, DelStep

(* A step is one of a request under way, or it starts one.                 *)
LEMMA ActsWhen ==
  ASSUME TypeOK, NEW b \in Att, Action(b)
  PROVE  /\ ~Idle(b) \/ MayStart(b)
         /\ pc'[b] \in DelPc => pc[b] \in DelPc \/ StartDel(b)
<1> USE DEF TypeOK, Idle, AddPc, DelPc, Goto, Return, End, TakeName,
               AfterLoad, AfterVhost, ovsVars, reqVars
<1>1. CASE StartAdd(b) \/ StartDel(b)
  BY <1>1 DEF StartAdd, StartDel, MayStart
<1>2. CASE AddStep(b)
  BY <1>2 DEF AddStep, StatDir, MakeDir, AddPort, MoveSocket, StatData, MakeData,
     OpenSaved, WriteSaved
<1>3. CASE DelStep(b)
  BY <1>3 DEF DelStep, LoadSaved, RemoveData, DeletePort, ListFiles, RemoveFile,
     NoMoreFiles, RemoveFolder
<1>4. CASE Abort(b) \/ Unnoticed(b)
  BY <1>4 DEF Abort, Unnoticed, ScriptError, CommandError, KeepSaved, MissSaved, KeepDir
<1> QED  BY <1>1, <1>2, <1>3, <1>4 DEF Action

(* While b acts, no other request of its container is under way.           *)
LEMMA ActsAlone ==
  ASSUME TypeOK, Exclusive, NEW a \in Att, NEW b \in Att, Action(b),
         a # b, ContainerId[a] = ContainerId[b]
  PROVE  Idle(a)
<1>1. ~Idle(b) \/ MayStart(b)
  BY ActsWhen
<1>2. CASE ~Idle(b)
  BY <1>2 DEF Exclusive
<1>3. CASE MayStart(b)
  BY <1>3 DEF MayStart, Running, SameContainer
<1> QED  BY <1>1, <1>2, <1>3

(* Every step keeps the order of the requests of a container.              *)
LEMMA NextOrder ==
  ASSUME TypeOK, Exclusive, LatestFirst, NEW b \in Att, Action(b)
  PROVE  Exclusive' /\ LatestFirst'
<1>1. \A a \in Att : a # b => Kept(a)
  BY OthersKept
<1>2. Exclusive'
  <2> SUFFICES ASSUME NEW a \in Att, NEW d \in Att, a # d, ContainerId[a] = ContainerId[d]
               PROVE  Idle(a)' \/ Idle(d)'
    BY DEF Exclusive
  <2>1. CASE a = b \/ d = b
    BY <1>1, <2>1, ActsAlone DEF Kept, Idle
  <2>2. CASE a # b /\ d # b
    BY <1>1, <2>2 DEF Kept, Idle, Exclusive
  <2> QED  BY <2>1, <2>2
<1>3. LatestFirst'
  <2> SUFFICES ASSUME NEW a \in Att, NEW d \in Att, pc'[a] \in DelPc,
                      d \in SameContainer(a), Order[d] > Order[a]
               PROVE  phase'[d] = "absent"
    BY DEF LatestFirst
  <2>1. a # d
    BY HostOvsConstants
  <2>2. CASE a = b
    <3>1. phase[d] = "absent"
      BY <2>2, ActsWhen DEF LatestFirst, StartDel
    <3> QED  BY <1>1, <2>1, <2>2, <3>1 DEF Kept
  <2>3. CASE a # b
    <3>1. pc[a] \in DelPc /\ ~Idle(a)
      BY <1>1, <2>3 DEF Kept, Idle, DelPc
    <3>2. d # b
      BY <2>3, <3>1, ActsAlone DEF SameContainer
    <3> QED  BY <1>1, <3>1, <3>2 DEF Kept, LatestFirst
  <2> QED  BY <2>2, <2>3
<1> QED  BY <1>2, <1>3

Quiet(b) == swallowed = 0 /\ swallowed' = 0 /\ ~Unnoticed(b)

(* A step keeps what is cleared of its own attachment, *)
LEMMA ClearedOwn ==
  ASSUME TypeOK, NEW a \in Att, Cleared(a), Action(a), Quiet(a)
  PROVE  Cleared(a)'
<1> USE DEF TypeOK, Cleared, Gone, Idle, AddPc, DelPc, Left, SameContainer,
        Goto, Return, End, TakeName, AfterLoad, ovsVars, dataVars, envVars, reqVars
<1>1. CASE StartAdd(a) \/ StartDel(a)
  BY <1>1 DEF StartAdd, StartDel, MayStart
<1>2. CASE StatDir(a) \/ MakeDir(a) \/ AddPort(a)
  BY <1>2 DEF StatDir, MakeDir, AddPort
<1>3. CASE MoveSocket(a)
  BY <1>3 DEF MoveSocket, AfterVhost
<1>4. CASE StatData(a) \/ MakeData(a) \/ OpenSaved(a) \/ WriteSaved(a)
  BY <1>4 DEF StatData, MakeData, OpenSaved, WriteSaved
<1>5. CASE LoadSaved(a) \/ RemoveData(a) \/ DeletePort(a)
  BY <1>5 DEF LoadSaved, RemoveData, DeletePort
<1>6. CASE ListFiles(a) \/ RemoveFile(a)
  BY <1>6 DEF ListFiles, RemoveFile
<1>7. CASE NoMoreFiles(a)
  <2>1. a \notin sockFile
    BY <1>7, HostOvsConstants DEF NoMoreFiles, Matches
  <2> QED  BY <1>7, <2>1 DEF NoMoreFiles
<1>8. CASE RemoveFolder(a)
  BY <1>8 DEF RemoveFolder
<1>9. CASE Abort(a)
  BY <1>9 DEF Abort
<1> QED  BY <1>1, <1>2, <1>3, <1>4, <1>5, <1>6, <1>7, <1>8, <1>9 DEF Action, AddStep,
            DelStep, Quiet

(* and of any other. *)
LEMMA ClearedOther ==
  ASSUME TypeOK, Exclusive, NEW a \in Att, NEW b \in Att, a # b, Cleared(a), Action(b)
  PROVE  Cleared(a)'
<1>1. Kept(a) /\ Untouched(a, b)
  BY OthersKept, OthersUntouched
<1>2. ASSUME pc'[a] = "rmFolder" PROVE Left(a)' = {}
  <2>1. pc[a] = "rmFolder" /\ Left(a) = {}
    BY <1>1, <1>2 DEF Kept, Cleared
  <2>2. b \notin SameContainer(a)
    BY <2>1, ActsAlone DEF SameContainer, Idle
  <2>3. \A d \in SameContainer(a) : d \in sockFile' => d \in sockFile
    BY <2>2, OthersUntouched DEF SameContainer, Untouched
  <2> QED  BY <2>1, <2>3 DEF Left
<1> QED  BY <1>1, <1>2 DEF Kept, Untouched, Cleared, Gone, Idle

(* A directory keeps an attachment that is not gone.                       *)
LEMMA NextInUse ==
  ASSUME TypeOK, InUse, \A a \in Att : Cleared(a), NEW b \in Att, Action(b), Quiet(b)
  PROVE  InUse'
<1>1. \A a \in Att : a # b => Kept(a)
  BY OthersKept
<1> SUFFICES ASSUME NEW c \in folder' PROVE \E a \in Att : ContainerId[a] = c /\ ~Gone(a)'
  BY DEF InUse
<1>2. CASE ~Gone(b)' /\ c = ContainerId[b]
  BY <1>2
<1>3. CASE c # ContainerId[b]
  <2>1. c \in folder
    BY <1>3 DEF Action, AddStep, DelStep, Goto, StartAdd, StartDel, StatDir, MakeDir,
       AddPort, MoveSocket, StatData, MakeData, OpenSaved, WriteSaved, LoadSaved,
       RemoveData, DeletePort, ListFiles, RemoveFile, NoMoreFiles, RemoveFolder, Abort,
       Unnoticed, ScriptError, CommandError, KeepSaved, MissSaved, KeepDir
  <2>2. PICK a \in Att : ContainerId[a] = c /\ ~Gone(a)
    BY <2>1 DEF InUse
  <2> QED  BY <1>1, <1>3, <2>2 DEF Kept, Gone, Idle
<1>4. CASE Gone(b)' /\ c = ContainerId[b]
  <2>1. c \in folder' /\ NoMoreFiles(b) /\ Left(b) # {}
    <3> USE <1>4 DEF TypeOK, Cleared, Gone, Idle, AddPc, DelPc, Goto, Return, End,
              TakeName, AfterLoad, ovsVars, dataVars, envVars, reqVars
    <3>1. ~StartAdd(b) /\ ~StartDel(b)
      BY DEF StartAdd, StartDel
    <3>2. ~StatDir(b) /\ ~MakeDir(b) /\ ~AddPort(b) /\ ~MoveSocket(b)
      BY DEF StatDir, MakeDir, AddPort, MoveSocket, AfterVhost
    <3>3. ~StatData(b) /\ ~MakeData(b) /\ ~OpenSaved(b) /\ ~WriteSaved(b)
      BY DEF StatData, MakeData, OpenSaved, WriteSaved
    <3>4. ~LoadSaved(b) /\ ~RemoveData(b) /\ ~DeletePort(b) /\ ~ListFiles(b) /\ ~RemoveFile(b)
      BY DEF LoadSaved, RemoveData, DeletePort, ListFiles, RemoveFile
    <3>5. ~RemoveFolder(b) /\ ~Abort(b)
      BY DEF RemoveFolder, Abort
    <3>6. NoMoreFiles(b)
      BY <3>1, <3>2, <3>3, <3>4, <3>5 DEF Action, AddStep, DelStep, Quiet
    <3> QED  BY <3>6 DEF NoMoreFiles
  <2>2. PICK a \in Att : a \in sockFile /\ ContainerId[a] = ContainerId[b] /\ a # b
    BY <2>1, HostOvsConstants DEF NoMoreFiles, Left, SameContainer, Matches
  <2>3. ~Gone(a)
    BY <2>2 DEF Cleared
  <2> QED  BY <1>1, <1>4, <2>2, <2>3 DEF Kept, Gone, Idle
<1> QED  BY <1>2, <1>3, <1>4

(* A step keeps its own attachment sound, or mars it: *)
LEMMA SoundOwn ==
  ASSUME TypeOK, NEW a \in Att, InvOf(a), Cleared(a), Sound(a), Action(a), Quiet(a)
  PROVE  a \in marred' \/ Sound(a)'
<1> USE DEF TypeOK, Sound, InvOf, SavedOnce, PortInHand, Cleared, Added, Gone, Idle, AddPc, DelPc,
        Goto, Return, End, TakeName, AfterLoad, ovsVars, dataVars, envVars, reqVars
<1>1. CASE StartAdd(a)
  BY <1>1, HostOvsConstants DEF StartAdd, MayStart, ConfType
<1>2. CASE StartDel(a)
  BY <1>2 DEF StartDel, MayStart, Quiet
<1>3. CASE StatDir(a) \/ MakeDir(a)
  BY <1>3 DEF StatDir, MakeDir
<1>4. CASE AddPort(a)
  BY <1>4 DEF AddPort
<1>5. CASE MoveSocket(a)
  BY <1>5 DEF MoveSocket, AfterVhost
<1>6. CASE StatData(a) \/ MakeData(a) \/ OpenSaved(a)
  BY <1>6 DEF StatData, MakeData, OpenSaved
<1>7. CASE WriteSaved(a)
  BY <1>7 DEF WriteSaved
<1>8. CASE LoadSaved(a) \/ RemoveData(a)
  BY <1>8 DEF LoadSaved, RemoveData
<1>9. CASE DeletePort(a)
  BY <1>9 DEF DeletePort
<1>10. CASE ListFiles(a) \/ RemoveFile(a)
  BY <1>10 DEF ListFiles, RemoveFile
<1>11. CASE NoMoreFiles(a)
  BY <1>11, HostOvsConstants DEF NoMoreFiles, Matches, Left
<1>12. CASE RemoveFolder(a)
  BY <1>12, HostOvsConstants DEF RemoveFolder, Left, SameContainer
<1>13. CASE Abort(a)
  BY <1>13 DEF Abort
<1> QED
  BY <1>1, <1>2, <1>3, <1>4, <1>5, <1>6, <1>7, <1>8, <1>9, <1>10, <1>11, <1>12, <1>13
  DEF Action, AddStep, DelStep, Quiet

(* and no other, as long as no name begins with a later one. *)
LEMMA SoundOther ==
  ASSUME TypeOK, Exclusive, LatestFirst, NamesInOrder,
         NEW a \in Att, NEW b \in Att, a # b, Sound(a), Action(b)
  PROVE  Sound(a)'
<1>1. Kept(a) /\ Untouched(a, b)
  BY OthersKept, OthersUntouched
<1>2. ASSUME a \in sockFile, ~Gone(a) PROVE a \in sockFile'
  <2> SUFFICES ASSUME a \notin sockFile' PROVE FALSE
    OBVIOUS
  <2>1. pc[b] = "rmFiles" /\ a \in Names[b]
    BY <1>1, <1>2 DEF Untouched
  <2>2. ContainerId[a] = ContainerId[b] /\ Order[a] > Order[b]
    BY <2>1, HostOvsConstants DEF NamesInOrder, SameContainer
  <2>3. phase[a] = "absent"
    BY <2>1, <2>2 DEF LatestFirst, SameContainer, DelPc
  <2>4. Idle(a)
    BY <2>2, ActsAlone
  <2> QED  BY <1>2, <2>3, <2>4 DEF Gone
<1>3. ASSUME ContainerId[a] \in folder, a \in sockFile \/ ~Idle(a) PROVE ContainerId[a] \in folder'
  BY <1>1, <1>3, ActsAlone DEF Untouched, Left, SameContainer
<1>4. /\ pc'[a] \in {"statData", "mkData", "open", "write", "load", "rmData", "delPort", "list"} \/ Added(a)'
           => a \in sockFile'
      /\ pc'[a] \in {"addPort", "mvSock"} \/ a \in sockFile' => ContainerId[a] \in folder'
  BY <1>1, <1>2, <1>3 DEF Kept, Untouched, Sound, Added, Gone, Idle
<1>5. /\ saved'[a] = "torn" => pc'[a] = "write"
      /\ phase'[a] \in {"absent", "added"}
      /\ phase'[a] = "added" \/ ~Idle(a)' => Conf[a].ifType = "vhostuser"
      /\ Gone(a)' \/ pc'[a] \in {"statDir", "mkDir", "addPort", "list", "rmFiles", "rmFolder"}
           => a \notin port'
      /\ pc'[a] = "mvSock" => a \in runFile'
      /\ pc'[a] = "load" => saved'[a] = "named"
      /\ pc'[a] \in {"rmData", "delPort"} => a \in named'
  BY <1>1 DEF Kept, Untouched, Sound, Gone, Idle
<1> QED  BY <1>4, <1>5 DEF Sound

(* Every step keeps the invariant of the files. *)
LEMMA NextFiles == IInv /\ [Next]_vars => FileInv'
<1> SUFFICES ASSUME IInv, [Next]_vars PROVE FileInv'
  OBVIOUS
<1>1. TypeOK /\ Exclusive /\ LatestFirst /\ \A a \in Att : InvOf(a)
  BY DEF IInv, PortInv, FileInv, InvOf, AddedHasPort
<1>2. CASE UNCHANGED vars
  BY <1>2 DEF IInv, FileInv, Exclusive, LatestFirst, InUse, Cleared, Sound, Added,
     Gone, Idle, Left, vars, ovsVars, dataVars, reqVars, envVars
<1>3. CASE Next
  <2>1. PICK b \in Att : Action(b)
    BY <1>3 DEF Next, Action
  <2>2. Exclusive' /\ LatestFirst'
    BY <1>1, <2>1, NextOrder
  <2>3. ASSUME swallowed' = 0 PROVE InUse' /\ \A a \in Att : Cleared(a)'
    <3>1. Quiet(b)
      BY <1>1, <2>1, <2>3, SwallowedStays DEF Quiet
    <3>2. InUse /\ \A a \in Att : Cleared(a)
      BY <3>1 DEF IInv, FileInv, Quiet
    <3>3. InUse'
      BY <1>1, <2>1, <3>1, <3>2, NextInUse
    <3>4. ASSUME NEW a \in Att PROVE Cleared(a)'
      BY <1>1, <2>1, <3>1, <3>2, ClearedOwn, ClearedOther
    <3> QED  BY <3>3, <3>4
  <2>4. ASSUME swallowed' = 0, NamesInOrder, NEW a \in Att PROVE a \in marred' \/ Sound(a)'
    <3>1. Quiet(b)
      BY <1>1, <2>1, <2>4, SwallowedStays DEF Quiet
    <3>2. Cleared(a) /\ (a \in marred \/ Sound(a))
      BY <2>4, <3>1 DEF IInv, FileInv, Quiet
    <3>3. CASE a = b
      <4>1. marred \subseteq marred'
        BY <1>1, <2>1 DEF TypeOK, Action, AddStep, DelStep, Goto, Return, End,
           TakeName, AfterLoad, AfterVhost, reqVars, StartAdd, StartDel, StatDir,
           MakeDir, AddPort, MoveSocket, StatData, MakeData, OpenSaved, WriteSaved,
           LoadSaved, RemoveData, DeletePort, ListFiles, RemoveFile, NoMoreFiles,
           RemoveFolder, Abort, Unnoticed, ScriptError, CommandError, KeepSaved,
           MissSaved, KeepDir
      <4> QED  BY <1>1, <2>1, <3>1, <3>2, <3>3, <4>1, SoundOwn
    <3>4. CASE a # b
      BY <1>1, <2>1, <2>4, <3>2, <3>4, SoundOther, OthersUntouched DEF Untouched
    <3> QED  BY <3>3, <3>4
  <2> QED  BY <2>2, <2>3, <2>4 DEF FileInv
<1> QED  BY <1>2, <1>3

(* However the requests interleave and fail, ports, sockets, directories   *)
(* and saved data of every attachment are where its life is, until      *)
(* something fails without the engine noticing.                            *)
THEOREM OvsInvariant == Spec => []IInv
<1>1. Init => IInv
  <2> SUFFICES ASSUME Init PROVE FileInv
    BY InitPorts DEF IInv
  <2>1. Exclusive /\ LatestFirst /\ InUse
    BY DEF Init, Exclusive, LatestFirst, InUse, Idle, DelPc
  <2>2. \A a \in Att : Cleared(a)
    BY DEF Init, Cleared, Left, AddPc, DelPc
  <2>3. \A a \in Att : Sound(a)
    BY DEF Init, Sound, Added, Idle
  <2> QED  BY <2>1, <2>2, <2>3 DEF FileInv
<1>2. IInv /\ [Next]_vars => IInv'
  BY NextPorts, NextFiles DEF IInv
<1> QED  BY <1>1, <1>2, PTL DEF Spec

(* A DEL that succeeds has removed the socket and the saved data of its    *)
(* attachment, and the last one of a container its directory, in every     *)
(* interleaving with other containers, whatever failed before with an      *)
(* error that was reported.                                                *)
THEOREM NoFileLeft == Spec => []DelLeavesNoFile
<1>1. IInv => DelLeavesNoFile
  BY DEF IInv, PortInv, FileInv, Cleared, SavedOnce, InUse, DelLeavesNoFile
<1> QED  BY <1>1, OvsInvariant, PTL

(* While no name of a container begins with a later one, an attachment     *)
(* whose ADD succeeded keeps its socket through the DELs of its neighbours, *)
(* unless an earlier request for it failed.                                *)
THEOREM AddedStaysWired == NamesInOrder => (Spec => []AddedIsWired)
<1> SUFFICES ASSUME NamesInOrder PROVE Spec => []AddedIsWired
  OBVIOUS
<1>1. IInv => AddedIsWired
  BY DEF IInv, FileInv, Sound, AddedIsWired
<1> QED  BY <1>1, OvsInvariant, PTL

(* Under the same names, no DEL of an attachment fails by itself unless an *)
(* earlier request for it failed: the two directories it shares are there  *)
(* when it comes to them.                                                  *)
THEOREM DelsSucceed == NamesInOrder => (Spec => []DelSucceeds)
<1> SUFFICES ASSUME NamesInOrder PROVE Spec => []DelSucceeds
  OBVIOUS
<1>1. IInv => DelSucceeds
  BY DEF IInv, FileInv, Sound, DelSucceeds
<1> QED  BY <1>1, OvsInvariant, PTL
=============================================================================
