--------------------------- MODULE HostVppProofs ---------------------------
(***************************************************************************)
(* Proofs about HostVpp, for any number of attachments, interfaces and     *)
(* concurrent requests, any configuration and any bounds.                  *)
(***************************************************************************)
EXTENDS HostVppInv, TLAPS

-----------------------------------------------------------------------------
(* Type correctness. *)

(* The initial state is well typed. *)
LEMMA InitType == Init => TypeOK
<1> SUFFICES ASSUME Init PROVE TypeOK
  OBVIOUS
<1>1. VppTypeOK
  BY DEF Init, VppInit, VppEmpty, VppTypeOK, SockId
<1>2. /\ idx \in [Att -> Index]
      /\ saved \in [Att -> Index \cup {NoFile, Torn}]
  BY HostVppConstants DEF Init, Index
<1>3. /\ faults \in 0..MaxFaults
      /\ restarts \in 0..MaxRestarts
  BY HostVppConstants DEF Init
<1>4. /\ pc \in [Att -> {"idle"} \cup AddPc \cup DelPc]
      /\ sid \in [Att -> SockId \cup {0}]
      /\ phase \in [Att -> Phase]
      /\ dataDir \in BOOLEAN
      /\ sockFile \subseteq Att
      /\ lost \subseteq Att
      /\ kept \subseteq Att
      /\ misled \in BOOLEAN
  BY DEF Init, Phase
<1> QED  BY <1>1, <1>2, <1>3, <1>4 DEF TypeOK

(* What the two ways to end a step do to the types. *)
LEMMA GotoType ==
  ASSUME TypeOK, NEW a \in Att, NEW l \in AddPc \cup DelPc, Goto(a, l)
  PROVE  /\ pc' \in [Att -> {"idle"} \cup AddPc \cup DelPc]
         /\ phase' \in [Att -> Phase]
         /\ lost' \subseteq Att
  BY DEF TypeOK, Goto

(* A request that ends keeps the types of its variables. *)
LEMMA ReturnType ==
  ASSUME TypeOK, NEW a \in Att, NEW p \in Phase, Return(a, p)
  PROVE  /\ pc' \in [Att -> {"idle"} \cup AddPc \cup DelPc]
         /\ idx' \in [Att -> Index]
         /\ sid' \in [Att -> SockId \cup {0}]
         /\ phase' \in [Att -> Phase]
         /\ lost' \subseteq Att
  BY HostVppConstants DEF TypeOK, Return, Index

(* So does a DEL that goes on after its network part. *)
LEMMA AfterNetType ==
  ASSUME TypeOK, NEW a \in Att, AfterNet(a)
  PROVE  /\ pc' \in [Att -> {"idle"} \cup AddPc \cup DelPc]
         /\ idx' \in [Att -> Index]
         /\ sid' \in [Att -> SockId \cup {0}]
         /\ phase' \in [Att -> Phase]
         /\ lost' \subseteq Att
<1>1. CASE Conf[a].ifType = "memif"
  <2>1. Goto(a, "memFind") /\ UNCHANGED <<idx, sid>>
    BY <1>1 DEF AfterNet
  <2> QED  BY <2>1, GotoType DEF TypeOK, DelPc
<1>2. CASE Conf[a].ifType # "memif"
  <2>1. Return(a, "delFailed")
    BY <1>2 DEF AfterNet
  <2> QED  BY <2>1, ReturnType DEF Phase
<1> QED  BY <1>1, <1>2

(* And one that has loaded its saved data. *)
LEMMA AfterLoadType ==
  ASSUME TypeOK, NEW a \in Att, AfterLoad(a)
  PROVE  /\ pc' \in [Att -> {"idle"} \cup AddPc \cup DelPc]
         /\ idx' \in [Att -> Index]
         /\ sid' \in [Att -> SockId \cup {0}]
         /\ phase' \in [Att -> Phase]
         /\ lost' \subseteq Att
<1>1. CASE Goto(a, "leave") /\ UNCHANGED <<idx, sid>>
  BY <1>1, GotoType DEF TypeOK, DelPc
<1>2. CASE AfterNet(a)
  BY <1>2, AfterNetType
<1> QED  BY <1>1, <1>2 DEF AfterLoad

(* Every message to VPP keeps the types of its tables. *)
LEMMA VppMessageType ==
  ASSUME VppTypeOK, NEW a \in Att, NEW s \in SockId \cup {0}, NEW i \in Index,
         NEW b \in Bd
  PROVE  /\ SocketAdd(s, a) => VppTypeOK'
         /\ SocketDel(s) => VppTypeOK'
         /\ i \in SwIf /\ MemifCreate(i, a, s) => VppTypeOK'
         /\ MemifDelete(i) => VppTypeOK'
         /\ IfUp(i) => VppTypeOK'
         /\ IfAddr(i) => VppTypeOK'
         /\ BdAddMsg(b) => VppTypeOK'
         /\ BdDelMsg(b) => VppTypeOK'
         /\ JoinMsg(i, b) => VppTypeOK'
         /\ LeaveMsg(i) => VppTypeOK'
<1> USE DEF VppTypeOK
<1>1. SocketAdd(s, a) => VppTypeOK'   BY DEF SocketAdd
<1>2. SocketDel(s) => VppTypeOK'      BY DEF SocketDel
<1>3. i \in SwIf /\ MemifCreate(i, a, s) => VppTypeOK'
  BY DEF MemifCreate
<1>4. MemifDelete(i) => VppTypeOK'    BY DEF MemifDelete, Live, vppVars
<1>5. IfUp(i) => VppTypeOK'           BY DEF IfUp, Live
<1>6. IfAddr(i) => VppTypeOK'         BY DEF IfAddr, Live
<1>7. BdAddMsg(b) => VppTypeOK'       BY DEF BdAddMsg
<1>8. BdDelMsg(b) => VppTypeOK'       BY DEF BdDelMsg
<1>9. JoinMsg(i, b) => VppTypeOK'     BY DEF JoinMsg, vppVars
<1>10. LeaveMsg(i) => VppTypeOK'      BY DEF LeaveMsg
<1> QED  BY <1>1, <1>2, <1>3, <1>4, <1>5, <1>6, <1>7, <1>8, <1>9, <1>10

(* A step that leaves VPP alone keeps the types of its tables. *)
LEMMA VppSameType == ASSUME VppTypeOK, UNCHANGED vppVars PROVE VppTypeOK'
  BY DEF VppTypeOK, vppVars

(* What the assumptions say of the configuration of one attachment. *)
LEMMA ConfFacts ==
  ASSUME NEW a \in Att
  PROVE  /\ Conf[a].bd \in Bd
         /\ NetStep(a) \in AddPc \cup DelPc
         /\ Failed(a) \in Phase
  BY HostVppConstants DEF ConfType, NetStep, AddPc, Failed, Phase

(* No step of ADD leaves the types. *)
LEMMA AddStepType ==
  ASSUME TypeOK, NEW a \in Att, AddStep(a)
  PROVE  TypeOK'
<1>0. /\ idx[a] \in Index
      /\ sid[a] \in SockId \cup {0}
      /\ VppTypeOK
  BY DEF TypeOK
<1>1. CASE FindSocket(a)
  <2>1. VppTypeOK'
    BY <1>0, <1>1, VppSameType DEF FindSocket
  <2>2. CASE 1 + Cardinality(UsedSock) > MaxUsed
    <3>1. Return(a, "addFailed")
      BY <1>1, <2>2 DEF FindSocket
    <3> QED  BY <1>1, <2>1, <3>1, ReturnType
             DEF FindSocket, TypeOK, Phase, fileVars, envVars
  <2>3. CASE ~(1 + Cardinality(UsedSock) > MaxUsed)
    <3>1. Goto(a, "addSock") /\ UNCHANGED idx
      BY <1>1, <2>3 DEF FindSocket
    <3>2. sid' \in [Att -> SockId \cup {0}]
      BY <1>1, <2>3 DEF FindSocket, TypeOK
    <3> QED  BY <1>1, <2>1, <3>1, <3>2, GotoType
             DEF FindSocket, TypeOK, AddPc, fileVars, envVars
  <2> QED  BY <2>2, <2>3
<1>2. CASE AddSocket(a)
  <2>1. VppTypeOK'
    BY <1>0, <1>2, VppMessageType, ConfFacts DEF AddSocket
  <2> QED  BY <1>2, <2>1, GotoType DEF AddSocket, TypeOK, AddPc, fileVars, envVars
<1>3. CASE CreateIf(a)
  <2>1. PICK i \in Index :
          /\ idx' = [idx EXCEPT ![a] = i]
          /\ \/ /\ i \in SwIf /\ MemifCreate(i, a, sid[a])
                /\ sockFile' = IF Conf[a].role = "master"
                               THEN sockFile \cup {sock[sid[a]]} ELSE sockFile
             \/ UNCHANGED <<vppVars, sockFile>>
    BY <1>3 DEF CreateIf
  <2>2. VppTypeOK'
    BY <1>0, <2>1, VppMessageType, VppSameType, ConfFacts
  <2>3. sockFile' \subseteq Att
    <3>1. MemifCreate(i, a, sid[a]) => sock[sid[a]] \in Att
      BY <1>0 DEF MemifCreate, CanCreate, UsedSock, VppTypeOK
    <3> QED  BY <2>1, <3>1 DEF TypeOK
  <2> QED  BY <1>3, <2>1, <2>2, <2>3, GotoType DEF CreateIf, TypeOK, AddPc, envVars
<1>4. CASE SetUp(a)
  <2>1. VppTypeOK'
    BY <1>0, <1>4, VppMessageType, ConfFacts DEF SetUp
  <2>2. CASE Return(a, "addFailed")
    BY <1>4, <2>1, <2>2, ReturnType DEF SetUp, TypeOK, Phase, fileVars, envVars
  <2>3. CASE Goto(a, NetStep(a)) /\ UNCHANGED <<idx, sid>>
    BY <1>4, <2>1, <2>3, GotoType, ConfFacts DEF SetUp, TypeOK, fileVars, envVars
  <2> QED  BY <1>4, <2>2, <2>3 DEF SetUp
<1>5. CASE FindBridge(a)
  <2>1. VppTypeOK'
    BY <1>0, <1>5, VppSameType DEF FindBridge
  <2>2. \E l \in AddPc : Goto(a, l)
    BY <1>5 DEF FindBridge, AddPc
  <2> QED  BY <1>5, <2>1, <2>2, GotoType DEF FindBridge, TypeOK, fileVars, envVars
<1>6. CASE AddBridge(a)
  <2>1. VppTypeOK'
    BY <1>0, <1>6, VppMessageType, ConfFacts DEF AddBridge
  <2> QED  BY <1>6, <2>1, GotoType DEF AddBridge, TypeOK, AddPc, fileVars, envVars
<1>7. CASE JoinBridge(a)
  <2>1. VppTypeOK'
    BY <1>0, <1>7, VppMessageType, ConfFacts DEF JoinBridge
  <2> QED  BY <1>7, <2>1, GotoType DEF JoinBridge, TypeOK, AddPc, fileVars, envVars
<1>8. CASE AddAddress(a)
  <2>1. VppTypeOK'
    BY <1>0, <1>8, VppMessageType, ConfFacts DEF AddAddress
  <2> QED  BY <1>8, <2>1, GotoType DEF AddAddress, TypeOK, AddPc, fileVars, envVars
<1>9. CASE StatDir(a)
  <2>1. VppTypeOK'
    BY <1>0, <1>9, VppSameType DEF StatDir
  <2>2. \E l \in AddPc : Goto(a, l)
    BY <1>9 DEF StatDir, AddPc
  <2> QED  BY <1>9, <2>1, <2>2, GotoType DEF StatDir, TypeOK, fileVars, envVars
<1>10. CASE MakeDir(a)
  <2>1. VppTypeOK'
    BY <1>0, <1>10, VppSameType DEF MakeDir
  <2> QED  BY <1>10, <2>1, GotoType DEF MakeDir, TypeOK, AddPc, envVars
<1>11. CASE OpenSaved(a)
  <2>1. VppTypeOK'
    BY <1>0, <1>11, VppSameType DEF OpenSaved
  <2>2. CASE dataDir
    <3>1. /\ saved' = [saved EXCEPT ![a] = Torn]
          /\ Goto(a, "write") /\ UNCHANGED <<idx, sid>>
      BY <1>11, <2>2 DEF OpenSaved
    <3> QED  BY <1>11, <2>1, <3>1, GotoType DEF OpenSaved, TypeOK, AddPc, envVars
  <2>3. CASE ~dataDir
    <3>1. Return(a, "addFailed") /\ UNCHANGED <<saved, kept>>
      BY <1>11, <2>3 DEF OpenSaved
    <3> QED  BY <1>11, <2>1, <3>1, ReturnType DEF OpenSaved, TypeOK, Phase, envVars
  <2> QED  BY <2>2, <2>3
<1>12. CASE WriteSaved(a)
  <2>1. VppTypeOK'
    BY <1>0, <1>12, VppSameType DEF WriteSaved
  <2>2. saved' \in [Att -> Index \cup {NoFile, Torn}]
    BY <1>0, <1>12 DEF WriteSaved, TypeOK
  <2> QED  BY <1>12, <2>1, <2>2, ReturnType DEF WriteSaved, TypeOK, Phase, envVars
<1> QED
  BY <1>1, <1>2, <1>3, <1>4, <1>5, <1>6, <1>7, <1>8, <1>9, <1>10, <1>11, <1>12
     DEF AddStep

(* No step of DEL leaves the types. *)
LEMMA DelStepType ==
  ASSUME TypeOK, NEW a \in Att, DelStep(a)
  PROVE  TypeOK'
<1>0. /\ idx[a] \in Index
      /\ sid[a] \in SockId \cup {0}
      /\ VppTypeOK
  BY DEF TypeOK
<1>1. CASE LoadSaved(a)
  <2>1. VppTypeOK'
    BY <1>0, <1>1, VppSameType DEF LoadSaved
  <2>2. CASE saved[a] = Torn
    <3>1. Return(a, "delFailed") /\ UNCHANGED <<saved, kept, misled>>
      BY <1>1, <2>2 DEF LoadSaved
    <3> QED  BY <1>1, <2>1, <3>1, ReturnType DEF LoadSaved, TypeOK, Phase
  <2>3. CASE saved[a] # Torn
    <3>1. /\ idx' = [idx EXCEPT ![a] = IF saved[a] = NoFile THEN Local0 ELSE saved[a]]
          /\ saved' = [saved EXCEPT ![a] = NoFile]
          /\ kept' = kept \ {a}
          /\ misled' = (misled \/ a \in kept)
          /\ Goto(a, "rmdir") /\ UNCHANGED sid
      BY <1>1, <2>3 DEF LoadSaved
    <3>2. idx' \in [Att -> Index]
      BY <2>3, <3>1, HostVppConstants DEF TypeOK, Index
    <3> QED  BY <1>1, <2>1, <3>1, <3>2, GotoType DEF LoadSaved, TypeOK, DelPc
  <2> QED  BY <2>2, <2>3
<1>2. CASE RemoveDir(a)
  <2>1. VppTypeOK'
    BY <1>0, <1>2, VppSameType DEF RemoveDir
  <2>2. dataDir' \in BOOLEAN
    BY <1>2 DEF RemoveDir
  <2> QED  BY <1>2, <2>1, <2>2, AfterLoadType DEF RemoveDir, TypeOK, envVars
<1>3. CASE LeaveBridge(a)
  <2>1. VppTypeOK'
    BY <1>0, <1>3, VppMessageType, ConfFacts DEF LeaveBridge
  <2> QED  BY <1>3, <2>1, GotoType DEF LeaveBridge, TypeOK, DelPc, fileVars, envVars
<1>4. CASE CountBridge(a)
  <2>1. VppTypeOK'
    BY <1>0, <1>4, VppSameType DEF CountBridge
  <2>2. CASE AfterNet(a)
    BY <1>4, <2>1, <2>2, AfterNetType DEF CountBridge, TypeOK, fileVars, envVars
  <2>3. CASE Goto(a, "bdDel") /\ UNCHANGED <<idx, sid>>
    BY <1>4, <2>1, <2>3, GotoType DEF CountBridge, TypeOK, DelPc, fileVars, envVars
  <2> QED  BY <1>4, <2>2, <2>3 DEF CountBridge
<1>5. CASE DeleteBridge(a)
  <2>1. VppTypeOK'
    BY <1>0, <1>5, VppMessageType, ConfFacts DEF DeleteBridge
  <2> QED  BY <1>5, <2>1, AfterNetType DEF DeleteBridge, TypeOK, fileVars, envVars
<1>6. CASE FindIf(a)
  <2>1. VppTypeOK'
    BY <1>0, <1>6, VppSameType DEF FindIf
  <2>2. sid' \in [Att -> SockId \cup {0}]
    BY <1>0, <1>6 DEF FindIf, TypeOK, VppTypeOK, Live
  <2> QED  BY <1>6, <2>1, <2>2, GotoType DEF FindIf, TypeOK, DelPc, fileVars, envVars
<1>7. CASE DeleteIf(a)
  <2>1. VppTypeOK'
    BY <1>0, <1>7, VppMessageType, ConfFacts DEF DeleteIf
  <2>2. \E l \in DelPc : Goto(a, l)
    BY <1>7 DEF DeleteIf, DelPc
  <2> QED  BY <1>7, <2>1, <2>2, GotoType DEF DeleteIf, TypeOK, fileVars, envVars
<1>8. CASE CountSocket(a)
  <2>1. VppTypeOK'
    BY <1>0, <1>8, VppSameType DEF CountSocket
  <2>2. \E l \in DelPc : Goto(a, l)
    BY <1>8 DEF CountSocket, DelPc
  <2> QED  BY <1>8, <2>1, <2>2, GotoType DEF CountSocket, TypeOK, fileVars, envVars
<1>9. CASE DeleteSocket(a)
  <2>1. VppTypeOK'
    BY <1>0, <1>9, VppMessageType, ConfFacts DEF DeleteSocket
  <2> QED  BY <1>9, <2>1, GotoType DEF DeleteSocket, TypeOK, DelPc, fileVars, envVars
<1>10. CASE Unlink(a)
  <2>1. VppTypeOK'
    BY <1>0, <1>10, VppSameType DEF Unlink
  <2>2. \E p \in Phase : Return(a, p)
    BY <1>10 DEF Unlink, Phase
  <2> QED  BY <1>10, <2>1, <2>2, ReturnType DEF Unlink, TypeOK, envVars
<1> QED
  BY <1>1, <1>2, <1>3, <1>4, <1>5, <1>6, <1>7, <1>8, <1>9, <1>10 DEF DelStep

(* Nor do the errors that nobody looks at. *)
LEMMA UnnoticedType ==
  ASSUME TypeOK, NEW a \in Att, Unnoticed(a)
  PROVE  TypeOK'
<1>1. VppTypeOK' /\ faults' \in 0..MaxFaults
  BY VppSameType, HostVppConstants
     DEF Unnoticed, KeepSaved, MissSaved, KeepDir, TypeOK
<1>2. CASE KeepSaved(a)
  <2>1. idx' \in [Att -> Index]
    BY <1>2 DEF KeepSaved, TypeOK
  <2> QED  BY <1>1, <1>2, <2>1, GotoType DEF KeepSaved, TypeOK, DelPc, fileVars
<1>3. CASE MissSaved(a)
  BY <1>1, <1>3, GotoType DEF MissSaved, TypeOK, DelPc, fileVars
<1>4. CASE KeepDir(a)
  BY <1>1, <1>4, AfterLoadType DEF KeepDir, TypeOK, fileVars
<1> QED  BY <1>2, <1>3, <1>4 DEF Unnoticed

(* Nor does anything else. *)
LEMMA OtherStepType ==
  ASSUME TypeOK, NEW a \in Att,
         StartAdd(a) \/ StartDel(a) \/ NoReply(a) \/ Fault(a) \/ PeerListens(a)
  PROVE  TypeOK'
<1>1. CASE StartAdd(a)
  <2>1. VppTypeOK'
    BY <1>1, VppSameType DEF StartAdd, TypeOK
  <2>2. CASE Return(a, "addFailed")
    BY <1>1, <2>1, <2>2, ReturnType DEF StartAdd, TypeOK, Phase, fileVars, envVars
  <2>3. CASE Goto(a, "find") /\ UNCHANGED <<idx, sid>>
    BY <1>1, <2>1, <2>3, GotoType DEF StartAdd, TypeOK, AddPc, fileVars, envVars
  <2> QED  BY <1>1, <2>2, <2>3 DEF StartAdd
<1>2. CASE StartDel(a)
  <2>1. VppTypeOK'
    BY <1>2, VppSameType DEF StartDel, TypeOK
  <2> QED  BY <1>2, <2>1, GotoType DEF StartDel, TypeOK, DelPc, fileVars, envVars
<1>3. CASE NoReply(a)
  <2>1. VppTypeOK'
    BY <1>3, VppSameType DEF NoReply, TypeOK
  <2>2. CASE Goto(a, "bdAdd") /\ UNCHANGED <<idx, sid>>
    BY <1>3, <2>1, <2>2, GotoType DEF NoReply, TypeOK, AddPc, fileVars, envVars
  <2>3. CASE AfterNet(a)
    BY <1>3, <2>1, <2>3, AfterNetType DEF NoReply, TypeOK, fileVars, envVars
  <2>4. CASE Return(a, Failed(a))
    BY <1>3, <2>1, <2>4, ReturnType, ConfFacts DEF NoReply, TypeOK, fileVars, envVars
  <2> QED  BY <1>3, <2>2, <2>3, <2>4 DEF NoReply
<1>4. CASE Abort(a)
  <2>1. VppTypeOK' /\ faults' \in 0..MaxFaults
    BY <1>4, VppSameType, HostVppConstants DEF Abort, TypeOK
  <2> QED  BY <1>4, <2>1, ReturnType, ConfFacts DEF Abort, TypeOK, fileVars
<1>5. CASE BridgeTimeout(a)
  <2>1. VppTypeOK' /\ faults' \in 0..MaxFaults
    BY <1>5, VppSameType, HostVppConstants DEF BridgeTimeout, TypeOK
  <2>2. CASE Goto(a, "bdAdd") /\ UNCHANGED <<idx, sid>>
    BY <1>5, <2>1, <2>2, GotoType DEF BridgeTimeout, TypeOK, AddPc, fileVars
  <2>3. CASE AfterNet(a)
    BY <1>5, <2>1, <2>3, AfterNetType DEF BridgeTimeout, TypeOK, fileVars
  <2> QED  BY <1>5, <2>2, <2>3 DEF BridgeTimeout
<1>6. CASE PeerListens(a)
  <2>1. VppTypeOK'
    BY <1>6, VppSameType DEF PeerListens, TypeOK
  <2> QED  BY <1>6, <2>1 DEF PeerListens, TypeOK, reqVars, envVars
<1>7. CASE Unnoticed(a)
  BY <1>7, UnnoticedType
<1> QED  BY <1>1, <1>2, <1>3, <1>4, <1>5, <1>6, <1>7 DEF Fault

(* A restart of VPP leaves no type. *)
LEMMA RestartType == ASSUME TypeOK, VppRestart PROVE TypeOK'
<1>1. VppTypeOK'
  BY DEF VppRestart, VppReset, VppEmpty, VppTypeOK, SockId
<1>2. restarts' \in 0..MaxRestarts /\ lost' \subseteq Att
  BY HostVppConstants DEF VppRestart, TypeOK, Running
<1> QED  BY <1>1, <1>2 DEF VppRestart, TypeOK, fileVars

(* The types are inductive. *)
LEMMA NextType == ASSUME TypeOK, [Next]_vars PROVE TypeOK'
<1>1. CASE Next
  BY <1>1, AddStepType, DelStepType, OtherStepType, RestartType DEF Next, Step
<1>2. CASE UNCHANGED vars
  <2>1. VppTypeOK'
    BY <1>2, VppSameType DEF vars, TypeOK
  <2> QED  BY <1>2, <2>1 DEF vars, TypeOK, reqVars, fileVars, envVars
<1> QED  BY <1>1, <1>2

(* Every variable always has its type, whatever the requests, the faults   *)
(* and the restarts of VPP.                                                *)
THEOREM TypeCorrect == Spec => []TypeOK
<1>1. Init => TypeOK
  BY InitType
<1>2. TypeOK /\ [Next]_vars => TypeOK'
  BY NextType
<1> QED  BY <1>1, <1>2, PTL DEF Spec

-----------------------------------------------------------------------------
(* An index in hand or in the saved data is that of an interface of one's  *)
(* own.  A request works on its own pc, index and saved data only, and     *)
(* only memif_create and memif_delete touch the owner of an interface, so  *)
(* it is enough to see what a step does to those of its own attachment.    *)
Own == SavedNamesOwn /\ HandNamesOwn /\ LoadedOnce

(* A step of a that creates and deletes no interface. *)
Harmless(a) ==
  /\ UNCHANGED <<owner, restarts>>
  /\ misled => misled'
  /\ \A b \in Att \ {a} :
       /\ pc'[b] = pc[b] /\ idx'[b] = idx[b] /\ saved'[b] = saved[b]
       /\ b \in kept' <=> b \in kept

(* It keeps the invariant if the saved data of a stays, goes or becomes    *)
(* the index in hand, if the request of a does not begin to hold an index  *)
(* but one that no DEL has used, and if a DEL leaves behind only the index *)
(* that it holds.                                                          *)
LEMMA HarmlessOwn ==
  ASSUME TypeOK, Own, NEW a \in Att, Harmless(a),
         \/ a \in kept'
         \/ saved'[a] \in {NoFile, Torn}
         \/ saved'[a] = saved[a] /\ a \notin kept
         \/ pc[a] \in Holding /\ saved'[a] = idx[a],
         \/ misled'
         \/ pc'[a] \notin Holding
         \/ pc[a] \in Holding /\ idx'[a] = idx[a]
         \/ idx'[a] = Local0
         \/ idx'[a] = saved[a] /\ a \notin kept,
         ~misled' /\ pc'[a] \in DelPc \ {"load"} =>
           saved'[a] = NoFile \/ (a \in kept' /\ saved'[a] = idx'[a])
  PROVE  Own'
<1> USE DEF Trusted
<1>0. misled' \in BOOLEAN => (Trusted' => Trusted)
  BY DEF Harmless, TypeOK
<1>1. SavedNamesOwn'
  <2> SUFFICES ASSUME Trusted', NEW b \in Att, b \notin kept', saved'[b] \in SwIf
               PROVE  owner[saved'[b]] = b
    BY DEF SavedNamesOwn, Harmless
  <2>1. CASE b = a
    BY <2>1, HostVppConstants DEF Own, SavedNamesOwn, HandNamesOwn, Harmless
  <2>2. CASE b # a
    BY <2>2 DEF Own, SavedNamesOwn, Harmless
  <2> QED  BY <2>1, <2>2
<1>2. HandNamesOwn'
  <2> SUFFICES ASSUME Trusted', NEW b \in Att, pc'[b] \in Holding, idx'[b] \in SwIf
               PROVE  owner[idx'[b]] = b
    BY DEF HandNamesOwn, Harmless
  <2>1. CASE b = a
    BY <2>1, VppConstants DEF Own, SavedNamesOwn, HandNamesOwn, Harmless
  <2>2. CASE b # a
    BY <2>2 DEF Own, HandNamesOwn, Harmless
  <2> QED  BY <2>1, <2>2
<1>3. LoadedOnce'
  BY DEF Own, LoadedOnce, Harmless
<1> QED  BY <1>1, <1>2, <1>3 DEF Own

(* A step that only goes on keeps the invariant. *)
LEMMA GotoOwn ==
  ASSUME TypeOK, Own, NEW a \in Att, NEW l, Goto(a, l),
         UNCHANGED <<idx, saved, owner, kept, misled, restarts>>,
         l \in Holding => pc[a] \in Holding,
         l \in DelPc \ {"load"} => pc[a] \in DelPc \ {"load"}
  PROVE  Own'
<1>1. Harmless(a) /\ pc'[a] = l
  BY DEF Harmless, Goto, TypeOK
<1>2. ~misled /\ l \in DelPc \ {"load"} =>
        saved[a] = NoFile \/ (a \in kept /\ saved[a] = idx[a])
  BY DEF Own, LoadedOnce
<1> QED  BY <1>1, <1>2, HarmlessOwn

(* The end of a request keeps the invariant. *)
LEMMA ReturnOwn ==
  ASSUME TypeOK, Own, NEW a \in Att, NEW p, Return(a, p),
         UNCHANGED <<saved, owner, kept, misled, restarts>>
  PROVE  Own'
<1>1. Harmless(a) /\ pc'[a] = "idle"
  BY DEF Harmless, Return, TypeOK
<1> QED  BY <1>1, HarmlessOwn DEF Holding, AddPc, DelPc

(* So does the end of the network part of a DEL. *)
LEMMA AfterNetOwn ==
  ASSUME TypeOK, Own, NEW a \in Att, AfterNet(a),
         UNCHANGED <<saved, owner, kept, misled, restarts>>,
         pc[a] \in Holding \cap (DelPc \ {"load"})
  PROVE  Own'
<1>1. CASE Goto(a, "memFind") /\ UNCHANGED <<idx, sid>>
  BY <1>1, GotoOwn
<1>2. CASE Return(a, "delFailed")
  BY <1>2, ReturnOwn
<1> QED  BY <1>1, <1>2 DEF AfterNet

(* And what follows the load of its saved data. *)
LEMMA AfterLoadOwn ==
  ASSUME TypeOK, Own, NEW a \in Att, AfterLoad(a),
         UNCHANGED <<saved, owner, kept, misled, restarts>>,
         pc[a] = "rmdir"
  PROVE  Own'
<1>1. CASE Goto(a, "leave") /\ UNCHANGED <<idx, sid>>
  BY <1>1, GotoOwn DEF Holding, AddPc, DelPc
<1>2. CASE AfterNet(a)
  BY <1>2, AfterNetOwn DEF Holding, DelPc
<1> QED  BY <1>1, <1>2 DEF AfterLoad

(* memif_create gives the new interface to the attachment that asked.      *)
LEMMA CreateOwn ==
  ASSUME TypeOK, Own, NEW a \in Att, CreateIf(a)
  PROVE  Own'
<1> USE DEF Trusted
<1>1. /\ pc[a] = "create" /\ pc' = [pc EXCEPT ![a] = "setUp"]
      /\ UNCHANGED <<saved, kept, misled, restarts>>
  BY DEF CreateIf, Connected, Goto, envVars
<1>2. PICK i \in Index :
        /\ idx' = [idx EXCEPT ![a] = i]
        /\ \/ /\ i \in SwIf /\ owner[i] = NoAtt
              /\ owner' = [owner EXCEPT ![i] = a]
           \/ i \in RefusedIdx /\ UNCHANGED owner
  BY DEF CreateIf, MemifCreate, vppVars
<1>3. owner' \in [SwIf -> Att \cup {NoAtt}]
  BY <1>2 DEF TypeOK, VppTypeOK
<1>4. \A j \in SwIf : owner[j] # NoAtt => owner'[j] = owner[j]
  BY <1>2 DEF TypeOK, VppTypeOK
<1>5. SavedNamesOwn'
  BY <1>1, <1>4, VppConstants DEF Own, SavedNamesOwn
<1>6. HandNamesOwn'
  <2> SUFFICES ASSUME Trusted, NEW b \in Att, pc'[b] \in Holding, idx'[b] \in SwIf
               PROVE  owner'[idx'[b]] = b
    BY <1>1 DEF HandNamesOwn
  <2>1. CASE b = a
    BY <1>2, <2>1, HostVppConstants DEF TypeOK, VppTypeOK
  <2>2. CASE b # a
    <3>1. pc[b] \in Holding /\ idx[b] \in SwIf /\ idx'[b] = idx[b]
      BY <1>1, <1>2, <2>2 DEF TypeOK
    <3>2. owner[idx[b]] = b
      BY <3>1 DEF Own, HandNamesOwn
    <3> QED  BY <1>4, <3>1, <3>2, VppConstants
  <2> QED  BY <2>1, <2>2
<1>7. LoadedOnce'
  <2>1. \A b \in Att \ {a} : pc'[b] = pc[b] /\ idx'[b] = idx[b]
    BY <1>1, <1>2 DEF TypeOK
  <2> QED  BY <1>1, <2>1 DEF Own, LoadedOnce, TypeOK, DelPc
<1> QED  BY <1>5, <1>6, <1>7 DEF Own

(* memif_delete takes the interface of the attachment that asked, which    *)
(* the saved data no longer names.                                         *)
LEMMA DeleteOwn ==
  ASSUME TypeOK, Own, NEW a \in Att, DeleteIf(a)
  PROVE  Own'
<1> USE DEF Trusted
<1>1. /\ pc[a] = "memDel"
      /\ pc' = [pc EXCEPT ![a] = IF sid[a] # 0 THEN "memCount" ELSE "unlink"]
      /\ UNCHANGED <<saved, idx, kept, misled, restarts>>
  BY DEF DeleteIf, Connected, Goto, fileVars, envVars
<1>2. \A j \in SwIf : j # idx[a] => owner'[j] = owner[j]
  BY DEF DeleteIf, MemifDelete, vppVars, TypeOK, VppTypeOK
<1>3. misled \/ a \in kept \/ saved[a] = NoFile
  BY <1>1 DEF Own, LoadedOnce, DelPc
<1>4. Trusted /\ idx[a] \in SwIf => owner[idx[a]] = a
  BY <1>1 DEF Own, HandNamesOwn, Holding, DelPc
<1>5. SavedNamesOwn'
  BY <1>1, <1>2, <1>3, <1>4, HostVppConstants DEF Own, SavedNamesOwn
<1>6. HandNamesOwn'
  <2> SUFFICES ASSUME Trusted, NEW b \in Att, pc'[b] \in Holding, idx[b] \in SwIf
               PROVE  owner'[idx[b]] = b
    BY <1>1 DEF HandNamesOwn
  <2>1. b # a
    BY <1>1 DEF TypeOK, Holding, AddPc
  <2>2. pc[b] \in Holding
    BY <1>1, <2>1 DEF TypeOK
  <2>3. owner[idx[b]] = b
    BY <2>2 DEF Own, HandNamesOwn
  <2>4. idx[b] # idx[a]
    BY <1>4, <2>1, <2>3
  <2> QED  BY <1>2, <2>3, <2>4
<1>7. LoadedOnce'
  BY <1>1 DEF Own, LoadedOnce, TypeOK, DelPc
<1> QED  BY <1>5, <1>6, <1>7 DEF Own

(* No step of ADD breaks the invariant. *)
LEMMA AddStepOwn ==
  ASSUME TypeOK, Own, NEW a \in Att, AddStep(a)
  PROVE  Own'
<1> USE DEF vppVars, fileVars, envVars
<1>1. CASE FindSocket(a)
  <2>1. UNCHANGED <<saved, owner, kept, misled, restarts>>
    BY <1>1 DEF FindSocket
  <2>2. CASE Return(a, "addFailed")
    BY <2>1, <2>2, ReturnOwn
  <2>3. CASE Goto(a, "addSock") /\ UNCHANGED idx
    BY <2>1, <2>3, GotoOwn DEF Holding, AddPc, DelPc
  <2> QED  BY <1>1, <2>2, <2>3 DEF FindSocket
<1>2. CASE AddSocket(a)
  BY <1>2, GotoOwn DEF AddSocket, SocketAdd, Holding, AddPc, DelPc
<1>3. CASE CreateIf(a)
  BY <1>3, CreateOwn
<1>4. CASE SetUp(a)
  <2>1. /\ UNCHANGED <<saved, owner, kept, misled, restarts>>
        /\ pc[a] = "setUp"
    BY <1>4 DEF SetUp, IfUp, Connected
  <2>2. CASE Return(a, "addFailed")
    BY <2>1, <2>2, ReturnOwn
  <2>3. CASE Goto(a, NetStep(a)) /\ UNCHANGED <<idx, sid>>
    BY <2>1, <2>3, GotoOwn DEF NetStep, Holding, AddPc, DelPc
  <2> QED  BY <1>4, <2>2, <2>3 DEF SetUp
<1>5. CASE FindBridge(a)
  BY <1>5, GotoOwn DEF FindBridge, Connected, Holding, AddPc, DelPc
<1>6. CASE AddBridge(a)
  BY <1>6, GotoOwn DEF AddBridge, BdAddMsg, Connected, Holding, AddPc, DelPc
<1>7. CASE JoinBridge(a)
  BY <1>7, GotoOwn DEF JoinBridge, JoinMsg, Connected, Holding, AddPc, DelPc
<1>8. CASE AddAddress(a)
  BY <1>8, GotoOwn DEF AddAddress, IfAddr, Connected, Holding, AddPc, DelPc
<1>9. CASE StatDir(a)
  BY <1>9, GotoOwn DEF StatDir, Holding, AddPc, DelPc
<1>10. CASE MakeDir(a)
  BY <1>10, GotoOwn DEF MakeDir, Holding, AddPc, DelPc
<1>11. CASE OpenSaved(a)
  <2>1. CASE Return(a, "addFailed") /\ UNCHANGED <<saved, kept>>
    BY <1>11, <2>1, ReturnOwn DEF OpenSaved
  <2>2. CASE /\ saved' = [saved EXCEPT ![a] = Torn]
             /\ kept' = kept \ {a}
             /\ Goto(a, "write") /\ UNCHANGED <<idx, sid>>
    <3>1. Harmless(a) /\ pc'[a] = "write" /\ saved'[a] = Torn /\ idx'[a] = idx[a]
      BY <1>11, <2>2 DEF OpenSaved, Harmless, Goto, TypeOK
    <3>2. pc[a] = "open"
      BY <1>11 DEF OpenSaved
    <3> QED  BY <3>1, <3>2, HarmlessOwn DEF Holding, AddPc, DelPc
  <2> QED  BY <1>11, <2>1, <2>2 DEF OpenSaved
<1>12. CASE WriteSaved(a)
  <2>1. Harmless(a) /\ pc'[a] = "idle" /\ saved'[a] = idx[a]
    BY <1>12 DEF WriteSaved, Harmless, Return, TypeOK
  <2>2. pc[a] = "write"
    BY <1>12 DEF WriteSaved
  <2> QED  BY <2>1, <2>2, HarmlessOwn DEF Holding, AddPc, DelPc
<1> QED
  BY <1>1, <1>2, <1>3, <1>4, <1>5, <1>6, <1>7, <1>8, <1>9, <1>10, <1>11, <1>12
     DEF AddStep

(* No step of DEL breaks the invariant. *)
LEMMA DelStepOwn ==
  ASSUME TypeOK, Own, NEW a \in Att, DelStep(a)
  PROVE  Own'
<1> USE DEF vppVars, fileVars, envVars
<1>1. CASE LoadSaved(a)
  <2>1. CASE Return(a, "delFailed") /\ UNCHANGED <<saved, kept, misled>>
    BY <1>1, <2>1, ReturnOwn DEF LoadSaved
  <2>2. CASE saved[a] # Torn
    <3>1. /\ idx' = [idx EXCEPT ![a] = IF saved[a] = NoFile THEN Local0 ELSE saved[a]]
          /\ saved' = [saved EXCEPT ![a] = NoFile]
          /\ kept' = kept \ {a}
          /\ misled' = (misled \/ a \in kept)
          /\ Goto(a, "rmdir")
      BY <1>1, <2>2 DEF LoadSaved
    <3>2. /\ Harmless(a) /\ saved'[a] = NoFile
          /\ idx'[a] \in {Local0, saved[a]}
          /\ misled' \/ a \notin kept
      BY <1>1, <3>1 DEF LoadSaved, Harmless, Goto, TypeOK
    <3> QED  BY <3>2, HarmlessOwn
  <2> QED  BY <1>1, <2>1, <2>2 DEF LoadSaved
<1>2. CASE RemoveDir(a)
  BY <1>2, AfterLoadOwn DEF RemoveDir
<1>3. CASE LeaveBridge(a)
  BY <1>3, GotoOwn DEF LeaveBridge, LeaveMsg, Connected, Holding, AddPc, DelPc
<1>4. CASE CountBridge(a)
  <2>1. pc[a] = "bdCount" /\ UNCHANGED <<saved, owner, kept, misled, restarts>>
    BY <1>4 DEF CountBridge, Connected
  <2>2. CASE Goto(a, "bdDel") /\ UNCHANGED <<idx, sid>>
    BY <2>1, <2>2, GotoOwn DEF Holding, AddPc, DelPc
  <2>3. CASE AfterNet(a)
    BY <2>1, <2>3, AfterNetOwn DEF Holding, DelPc
  <2> QED  BY <1>4, <2>2, <2>3 DEF CountBridge
<1>5. CASE DeleteBridge(a)
  <2>1. pc[a] = "bdDel" /\ UNCHANGED <<saved, owner, kept, misled, restarts>>
    BY <1>5 DEF DeleteBridge, BdDelMsg, Connected
  <2> QED  BY <1>5, <2>1, AfterNetOwn DEF DeleteBridge, Holding, DelPc
<1>6. CASE FindIf(a)
  BY <1>6, GotoOwn DEF FindIf, Connected, Holding, AddPc, DelPc
<1>7. CASE DeleteIf(a)
  BY <1>7, DeleteOwn
<1>8. CASE CountSocket(a)
  BY <1>8, GotoOwn DEF CountSocket, Connected, Holding, AddPc, DelPc
<1>9. CASE DeleteSocket(a)
  BY <1>9, GotoOwn DEF DeleteSocket, SocketDel, Connected, Holding, AddPc, DelPc
<1>10. CASE Unlink(a)
  BY <1>10, ReturnOwn DEF Unlink
<1> QED
  BY <1>1, <1>2, <1>3, <1>4, <1>5, <1>6, <1>7, <1>8, <1>9, <1>10 DEF DelStep

(* Nor does an error that nobody looks at: what a DEL leaves behind is the *)
(* index it holds.                                                         *)
LEMMA UnnoticedOwn ==
  ASSUME TypeOK, Own, NEW a \in Att, Unnoticed(a)
  PROVE  Own'
<1> USE DEF vppVars, fileVars
<1>1. CASE KeepSaved(a)
  <2>1. /\ Harmless(a) /\ a \in kept' /\ saved'[a] = saved[a] /\ idx'[a] = saved[a]
        /\ misled' \/ a \notin kept
    BY <1>1 DEF KeepSaved, Harmless, Goto, TypeOK
  <2> QED  BY <2>1, HarmlessOwn
<1>2. CASE MissSaved(a)
  <2>1. misled' /\ LoadedOnce'
    BY <1>2 DEF MissSaved, LoadedOnce
  <2> QED  BY <2>1 DEF Own, SavedNamesOwn, HandNamesOwn, Trusted
<1>3. CASE KeepDir(a)
  BY <1>3, AfterLoadOwn DEF KeepDir
<1> QED  BY <1>1, <1>2, <1>3 DEF Unnoticed

(* Nor do starts, faults, lost replies and the peer. *)
LEMMA OtherStepOwn ==
  ASSUME TypeOK, Own, NEW a \in Att,
         StartAdd(a) \/ StartDel(a) \/ NoReply(a) \/ Fault(a) \/ PeerListens(a)
  PROVE  Own'
<1> USE DEF vppVars, fileVars, envVars
<1>1. CASE StartAdd(a)
  <2>1. CASE Return(a, "addFailed")
    BY <1>1, <2>1, ReturnOwn DEF StartAdd
  <2>2. CASE Goto(a, "find") /\ UNCHANGED <<idx, sid>>
    BY <1>1, <2>2, GotoOwn DEF StartAdd, Holding, AddPc, DelPc
  <2> QED  BY <1>1, <2>1, <2>2 DEF StartAdd
<1>2. CASE StartDel(a)
  BY <1>2, GotoOwn DEF StartDel, Holding, AddPc, DelPc
<1>3. CASE NoReply(a)
  <2>1. UNCHANGED <<saved, owner, kept, misled, restarts>>
    BY <1>3 DEF NoReply
  <2>2. CASE pc[a] = "bdFind"
    BY <1>3, <2>1, <2>2, GotoOwn DEF NoReply, Holding, AddPc, DelPc
  <2>3. CASE pc[a] = "bdCount"
    <3>1. AfterNet(a)
      BY <1>3, <2>3 DEF NoReply
    <3> QED  BY <2>1, <2>3, <3>1, AfterNetOwn DEF Holding, DelPc
  <2>4. CASE pc[a] \notin {"bdFind", "bdCount"}
    BY <1>3, <2>1, <2>4, ReturnOwn DEF NoReply
  <2> QED  BY <2>2, <2>3, <2>4
<1>4. CASE Abort(a)
  BY <1>4, ReturnOwn DEF Abort
<1>5. CASE BridgeTimeout(a)
  <2>1. UNCHANGED <<saved, owner, kept, misled, restarts>>
    BY <1>5 DEF BridgeTimeout
  <2>2. CASE pc[a] = "bdFind"
    BY <1>5, <2>1, <2>2, GotoOwn DEF BridgeTimeout, Holding, AddPc, DelPc
  <2>3. CASE pc[a] = "bdCount"
    <3>1. AfterNet(a)
      BY <1>5, <2>3 DEF BridgeTimeout
    <3> QED  BY <2>1, <2>3, <3>1, AfterNetOwn DEF Holding, DelPc
  <2> QED  BY <1>5, <2>2, <2>3 DEF BridgeTimeout
<1>6. CASE PeerListens(a)
  BY <1>6 DEF PeerListens, reqVars, Own, SavedNamesOwn, HandNamesOwn, LoadedOnce, Trusted
<1>7. CASE Unnoticed(a)
  BY <1>7, UnnoticedOwn
<1> QED  BY <1>1, <1>2, <1>3, <1>4, <1>5, <1>6, <1>7 DEF Fault

(* After a restart of VPP the invariant says nothing of the indices.       *)
LEMMA RestartOwn == ASSUME TypeOK, Own, VppRestart PROVE Own'
<1>1. restarts' # 0
  BY HostVppConstants DEF VppRestart, TypeOK
<1>2. LoadedOnce'
  BY DEF VppRestart, fileVars, Own, LoadedOnce
<1> QED  BY <1>1, <1>2 DEF Own, SavedNamesOwn, HandNamesOwn, Trusted

(* The invariant holds initially. *)
LEMMA InitOwn == Init => Own
  BY HostVppConstants
     DEF Init, Own, SavedNamesOwn, HandNamesOwn, LoadedOnce, Holding, AddPc, DelPc,
         Trusted

(* The invariant is inductive, given the types. *)
LEMMA NextOwn == ASSUME TypeOK, Own, [Next]_vars PROVE Own'
<1>1. CASE Next
  BY <1>1, AddStepOwn, DelStepOwn, OtherStepOwn, RestartOwn DEF Next, Step
<1>2. CASE UNCHANGED vars
  BY <1>2 DEF vars, vppVars, reqVars, fileVars, envVars, Own, SavedNamesOwn,
              HandNamesOwn, LoadedOnce, Trusted
<1> QED  BY <1>1, <1>2

-----------------------------------------------------------------------------
(* Saved data is left behind by faults only, and an ADD that gets to its   *)
(* own replaces it.                                                        *)
LEMMA GotoLeft ==
  ASSUME TypeOK, LeftBehind, NEW a \in Att, NEW l, Goto(a, l),
         UNCHANGED <<saved, kept, misled>>, faults' \in {faults, faults + 1},
         l # "write",
         pc[a] \in DelPc \ {"load"} => l \in DelPc \ {"load"}
  PROVE  LeftBehind'
<1>1. faults' = 0 => faults = 0
  BY HostVppConstants DEF TypeOK
<1>2. \A b \in Att : pc'[b] = (IF b = a THEN l ELSE pc[b]) /\ phase'[b] = phase[b]
  BY DEF Goto, TypeOK
<1> QED  BY <1>1, <1>2 DEF LeftBehind, TypeOK

(* A request that does not end as added leaves them so. *)
LEMMA ReturnLeft ==
  ASSUME TypeOK, LeftBehind, NEW a \in Att, NEW p, Return(a, p),
         UNCHANGED <<saved, kept, misled>>, faults' \in {faults, faults + 1},
         p # "added"
  PROVE  LeftBehind'
<1>1. faults' = 0 => faults = 0
  BY HostVppConstants DEF TypeOK
<1>2. \A b \in Att : /\ pc'[b] = IF b = a THEN "idle" ELSE pc[b]
                    /\ phase'[b] = IF b = a THEN p ELSE phase[b]
  BY DEF Return, TypeOK
<1> QED  BY <1>1, <1>2 DEF LeftBehind, TypeOK

(* So does the rest of a DEL. *)
LEMMA AfterLoadLeft ==
  ASSUME TypeOK, LeftBehind, NEW a \in Att, AfterLoad(a) \/ AfterNet(a),
         UNCHANGED <<saved, kept, misled>>, faults' \in {faults, faults + 1}
  PROVE  LeftBehind'
<1>1. \/ \E l \in {"leave", "memFind"} : Goto(a, l)
      \/ Return(a, "delFailed")
  BY DEF AfterLoad, AfterNet
<1> QED  BY <1>1, GotoLeft, ReturnLeft DEF DelPc

(* No step of ADD leaves anything behind. *)
LEMMA AddStepLeft ==
  ASSUME TypeOK, LeftBehind, NEW a \in Att, AddStep(a)
  PROVE  LeftBehind'
<1> USE DEF fileVars, envVars
<1>1. CASE WriteSaved(a)
  <2>1. a \notin kept
    BY <1>1 DEF WriteSaved, LeftBehind
  <2>2. \A b \in Att \ {a} : pc'[b] = pc[b] /\ phase'[b] = phase[b] /\ saved'[b] = saved[b]
    BY <1>1 DEF WriteSaved, Return, TypeOK
  <2> QED  BY <1>1, <2>1, <2>2 DEF WriteSaved, LeftBehind, TypeOK
<1>2. CASE OpenSaved(a)
  <2>1. CASE Return(a, "addFailed") /\ UNCHANGED <<saved, kept>>
    BY <1>2, <2>1, ReturnLeft DEF OpenSaved
  <2>2. CASE /\ saved' = [saved EXCEPT ![a] = Torn]
             /\ kept' = kept \ {a}
             /\ Goto(a, "write")
    <3>1. \A b \in Att \ {a} :
            pc'[b] = pc[b] /\ phase'[b] = phase[b] /\ saved'[b] = saved[b]
      BY <2>2 DEF Goto, TypeOK
    <3> QED  BY <1>2, <2>2, <3>1 DEF OpenSaved, LeftBehind, TypeOK
  <2> QED  BY <1>2, <2>1, <2>2 DEF OpenSaved
<1>3. CASE MakeDir(a)
  BY <1>3, GotoLeft DEF MakeDir, DelPc
<1>4. CASE AddStep(a) /\ ~WriteSaved(a) /\ ~OpenSaved(a) /\ ~MakeDir(a)
  <2>1. UNCHANGED <<saved, kept, misled, faults>>
    BY <1>4 DEF AddStep, FindSocket, AddSocket, CreateIf, SetUp, FindBridge, AddBridge,
                JoinBridge, AddAddress, StatDir
  <2>2. /\ pc[a] \notin DelPc
        /\ \/ Return(a, "addFailed")
           \/ \E l \in AddPc \ {"write"} : Goto(a, l)
    BY <1>4 DEF AddStep, FindSocket, AddSocket, CreateIf, SetUp, FindBridge, AddBridge,
                JoinBridge, AddAddress, StatDir, NetStep, Connected, AddPc, DelPc
  <2> QED  BY <2>1, <2>2, GotoLeft, ReturnLeft
<1> QED  BY <1>1, <1>2, <1>3, <1>4

(* No step of DEL does, nor an error that is noticed. *)
LEMMA OtherStepLeft ==
  ASSUME TypeOK, LeftBehind, NEW a \in Att,
         \/ DelStep(a) \/ StartAdd(a) \/ StartDel(a) \/ NoReply(a)
         \/ Abort(a) \/ BridgeTimeout(a) \/ PeerListens(a)
  PROVE  LeftBehind'
<1> USE DEF fileVars, envVars
<1>1. CASE LoadSaved(a)
  <2>1. CASE Return(a, "delFailed") /\ UNCHANGED <<saved, kept, misled>>
    BY <1>1, <2>1, ReturnLeft DEF LoadSaved
  <2>2. CASE saved[a] # Torn
    <3>1. /\ kept' = kept \ {a} /\ misled' = (misled \/ a \in kept)
          /\ UNCHANGED faults
          /\ \A b \in Att \ {a} :
               pc'[b] = pc[b] /\ phase'[b] = phase[b] /\ saved'[b] = saved[b]
      BY <1>1, <2>2 DEF LoadSaved, Goto, TypeOK
    <3> QED  BY <3>1 DEF LeftBehind, TypeOK
  <2> QED  BY <1>1, <2>1, <2>2 DEF LoadSaved
<1>2. CASE RemoveDir(a)
  BY <1>2, AfterLoadLeft DEF RemoveDir
<1>3. CASE LeaveBridge(a) \/ FindIf(a) \/ DeleteIf(a) \/ CountSocket(a) \/ DeleteSocket(a)
  <2>1. /\ UNCHANGED <<saved, kept, misled, faults>>
        /\ \E l \in DelPc \ {"load"} : Goto(a, l)
    BY <1>3 DEF LeaveBridge, FindIf, DeleteIf, CountSocket, DeleteSocket, DelPc
  <2> QED  BY <2>1, GotoLeft DEF DelPc, AddPc
<1>4. CASE CountBridge(a) \/ DeleteBridge(a)
  <2>1. /\ UNCHANGED <<saved, kept, misled, faults>>
        /\ Goto(a, "bdDel") \/ AfterNet(a)
    BY <1>4 DEF CountBridge, DeleteBridge
  <2> QED  BY <2>1, GotoLeft, AfterLoadLeft DEF DelPc
<1>5. CASE Unlink(a)
  BY <1>5, ReturnLeft DEF Unlink
<1>6. CASE StartAdd(a) \/ StartDel(a)
  <2>1. /\ UNCHANGED <<saved, kept, misled, faults>> /\ pc[a] \notin DelPc
        /\ Return(a, "addFailed") \/ Goto(a, "find") \/ Goto(a, "load")
    BY <1>6 DEF StartAdd, StartDel, Idle, DelPc
  <2> QED  BY <2>1, GotoLeft, ReturnLeft
<1>7. CASE NoReply(a) \/ Abort(a) \/ BridgeTimeout(a)
  <2>1. /\ UNCHANGED <<saved, kept, misled>> /\ faults' \in {faults, faults + 1}
        /\ \/ pc[a] = "bdFind" /\ Goto(a, "bdAdd")
           \/ AfterNet(a) \/ Return(a, Failed(a))
    BY <1>7 DEF NoReply, Abort, BridgeTimeout
  <2> QED  BY <2>1, GotoLeft, ReturnLeft, AfterLoadLeft DEF Failed, DelPc
<1>8. CASE PeerListens(a)
  BY <1>8 DEF PeerListens, reqVars, LeftBehind
<1> QED  BY <1>1, <1>2, <1>3, <1>4, <1>5, <1>6, <1>7, <1>8 DEF DelStep

(* An error that nobody looks at is a fault, and what it leaves behind is  *)
(* left by a DEL under way.                                                *)
LEMMA UnnoticedLeft ==
  ASSUME TypeOK, LeftBehind, NEW a \in Att, Unnoticed(a)
  PROVE  LeftBehind'
<1> USE DEF fileVars
<1>1. faults' # 0
  BY HostVppConstants DEF Unnoticed, KeepSaved, MissSaved, KeepDir, TypeOK
<1>2. CASE KeepSaved(a) \/ MissSaved(a)
  <2>1. /\ saved' = saved /\ kept' \subseteq kept \cup {a}
        /\ a \in kept' => saved[a] \in Index
        /\ \A b \in Att : /\ pc'[b] = IF b = a THEN "rmdir" ELSE pc[b]
                          /\ phase'[b] = phase[b]
    BY <1>2 DEF KeepSaved, MissSaved, Goto, TypeOK, LeftBehind
  <2> QED  BY <1>1, <2>1 DEF LeftBehind, DelPc, TypeOK
<1>3. CASE KeepDir(a)
  BY <1>3, AfterLoadLeft DEF KeepDir
<1> QED  BY <1>2, <1>3 DEF Unnoticed

(* What is known of saved data left behind is inductive, given the types. *)
LEMMA NextLeft == ASSUME TypeOK, LeftBehind, [Next]_vars PROVE LeftBehind'
<1>1. CASE VppRestart
  BY <1>1 DEF VppRestart, fileVars, LeftBehind
<1>2. CASE UNCHANGED vars
  BY <1>2 DEF vars, reqVars, fileVars, envVars, LeftBehind
<1> QED
  BY <1>1, <1>2, AddStepLeft, OtherStepLeft, UnnoticedLeft DEF Next, Step, Fault

(* Nothing is left behind initially. *)
LEMMA InitLeft == Init => LeftBehind
  BY DEF Init, LeftBehind

(* The inductive invariant. *)
LEMMA HandInvariant == Spec => []HandInv
<1>1. Init => HandInv
  BY InitType, InitOwn, InitLeft DEF HandInv, Own
<1>2. HandInv /\ [Next]_vars => HandInv'
  BY NextType, NextOwn, NextLeft DEF HandInv, Own
<1> QED  BY <1>1, <1>2, PTL DEF Spec

(* Until VPP restarts or a DEL is misled, the saved data of an attachment  *)
(* names an interface that was made for it, unless a DEL has used the data *)
(* already and could not remove it: however many requests interleave, and  *)
(* wherever they are cut short, the first index of another container that  *)
(* DelFromHost is handed is one that LoadVppConfig left behind.            *)
THEOREM SavedIsOwn == Spec => []SavedNamesOwn
<1>1. HandInv => SavedNamesOwn
  BY DEF HandInv
<1> QED  BY <1>1, HandInvariant, PTL

-----------------------------------------------------------------------------
(* What ForeignUntouched says of one step. *)
TouchedByOwner == Trusted' => \A i \in Live : Touched(i) => ByItsDel(i)

(* The two messages of a DEL touch only an interface of its own attachment. *)
LEMMA TouchedByDel ==
  ASSUME HandInv, NEW a \in Att, LeaveBridge(a) \/ DeleteIf(a)
  PROVE  TouchedByOwner
<1> SUFFICES ASSUME Trusted', NEW i \in Live, Touched(i)
             PROVE  ByItsDel(i)
  BY DEF TouchedByOwner
<1>1. /\ pc[a] \in {"leave", "memDel"} /\ pc'[a] # pc[a]
      /\ Trusted
  BY DEF LeaveBridge, DeleteIf, Connected, Goto, envVars, HandInv, TypeOK, Trusted
<1>2. i \in SwIf /\ i = idx[a]
  BY DEF LeaveBridge, DeleteIf, LeaveMsg, MemifDelete, vppVars, Live, HandInv, TypeOK,
         VppTypeOK, Touched
<1>3. owner[i] = a
  BY <1>1, <1>2 DEF HandInv, HandNamesOwn, Holding
<1> QED  BY <1>1, <1>3 DEF ByItsDel

(* No other step deletes an interface or takes one out of its bridge.      *)
LEMMA NothingTouched ==
  ASSUME HandInv, [Next]_vars,
         \A a \in Att : ~LeaveBridge(a) /\ ~DeleteIf(a)
  PROVE  TouchedByOwner
<1> DEFINE Kept ==
      \A i \in Live : owner'[i] = owner[i] /\ (member'[i] = NoBd => member[i] = NoBd)
<1> SUFFICES restarts' # 0 \/ Kept
  BY DEF TouchedByOwner, Touched, Trusted
<1> USE DEF vppVars
<1>1. ASSUME NEW a \in Att, AddStep(a) PROVE Kept
  <2>1. CASE CreateIf(a)
    BY <2>1 DEF CreateIf, MemifCreate, Live, HandInv, TypeOK, VppTypeOK
  <2>2. CASE JoinBridge(a)
    <3>1. Conf[a].bd # NoBd
      BY ConfFacts, VppConstants
    <3> QED  BY <2>2, <3>1 DEF JoinBridge, JoinMsg, Live, HandInv, TypeOK, VppTypeOK
  <2>3. CASE ~CreateIf(a) /\ ~JoinBridge(a)
    BY <1>1, <2>3
       DEF AddStep, FindSocket, AddSocket, SocketAdd, SetUp, IfUp, FindBridge, AddBridge,
           BdAddMsg, AddAddress, IfAddr, StatDir, MakeDir, OpenSaved, WriteSaved
  <2> QED  BY <2>1, <2>2, <2>3
<1>2. ASSUME NEW a \in Att, DelStep(a) PROVE Kept
  BY <1>2
     DEF DelStep, LoadSaved, RemoveDir, CountBridge, DeleteBridge, BdDelMsg, FindIf,
         CountSocket, DeleteSocket, SocketDel, Unlink
<1>3. ASSUME NEW a \in Att,
             StartAdd(a) \/ StartDel(a) \/ NoReply(a) \/ Fault(a) \/ PeerListens(a)
      PROVE  Kept
  BY <1>3 DEF StartAdd, StartDel, NoReply, Fault, Abort, BridgeTimeout, PeerListens,
                Unnoticed, KeepSaved, MissSaved, KeepDir
<1>4. ASSUME VppRestart PROVE restarts' # 0
  BY <1>4, HostVppConstants DEF VppRestart, HandInv, TypeOK
<1>5. ASSUME UNCHANGED vars PROVE Kept
  BY <1>5 DEF vars
<1> QED  BY <1>1, <1>2, <1>3, <1>4, <1>5 DEF Next, Step

(* An interface disappears, or leaves its bridge, only in the DEL of the   *)
(* attachment it was made for, until VPP restarts or a DEL is misled.      *)
THEOREM ForeignIsUntouched == Spec => ForeignUntouched
<1>1. HandInv /\ [Next]_vars => TouchedByOwner
  BY TouchedByDel, NothingTouched
<1>2. HandInv /\ [Next]_vars => [TouchedByOwner]_vars
  BY <1>1
<1> QED  BY <1>2, HandInvariant, PTL DEF Spec, ForeignUntouched, TouchedByOwner
=============================================================================
