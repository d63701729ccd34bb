-------------------------- MODULE HostVppNetProofs --------------------------
(***************************************************************************)
(* Proofs about the bridges and the sockets of HostVpp: the invariant      *)
(* NetInv, and what follows from it whatever the number of concurrent      *)
(* requests.                                                               *)
(***************************************************************************)
EXTENDS HostVppProofs

(* A step on behalf of attachment a. *)
Move(a) == StartAdd(a) \/ StartDel(a) \/ Step(a) \/ Fault(a) \/ PeerListens(a)

(* The variables of the request of b, and its saved data, stay. *)
SameRequest(b) ==
  /\ pc'[b] = pc[b] /\ idx'[b] = idx[b] /\ sid'[b] = sid[b]
  /\ phase'[b] = phase[b] /\ saved'[b] = saved[b]
  /\ b \in kept' <=> b \in kept

(* What VPP knows of interface i stays. *)
SameIf(i) ==
  /\ owner'[i] = owner[i] /\ ifSock'[i] = ifSock[i] /\ member'[i] = member[i]
  /\ i \in up' <=> i \in up
  /\ i \in addr' <=> i \in addr

(* The two ways to end a step touch one request only. *)
LEMMA EndsOthers ==
  ASSUME TypeOK, NEW a \in Att, NEW b \in Att, b # a
  PROVE  /\ \A l : Goto(a, l) => pc'[b] = pc[b] /\ phase'[b] = phase[b] /\ lost' = lost
         /\ \A p : Return(a, p) => /\ pc'[b] = pc[b] /\ phase'[b] = phase[b]
                                   /\ idx'[b] = idx[b] /\ sid'[b] = sid[b]
                                   /\ lost' \subseteq lost
  BY DEF Goto, Return, TypeOK

(* A step of a touches no other request and no other saved data. *)
LEMMA OthersSame ==
  ASSUME TypeOK, NEW a \in Att, Move(a), NEW b \in Att, b # a
  PROVE  SameRequest(b)
<1> USE EndsOthers DEF SameRequest, fileVars, reqVars, envVars, AfterNet, AfterLoad
<1>1. ASSUME AddStep(a) PROVE SameRequest(b)
  BY <1>1 DEF AddStep, FindSocket, AddSocket, CreateIf, SetUp, FindBridge, AddBridge,
              JoinBridge, AddAddress, StatDir, MakeDir, OpenSaved, WriteSaved, TypeOK
<1>2. ASSUME DelStep(a) PROVE SameRequest(b)
  BY <1>2 DEF DelStep, LoadSaved, RemoveDir, LeaveBridge, CountBridge, DeleteBridge,
              FindIf, DeleteIf, CountSocket, DeleteSocket, Unlink, TypeOK
<1>3. ASSUME StartAdd(a) \/ StartDel(a) \/ NoReply(a) \/ Fault(a) \/ PeerListens(a)
      PROVE  SameRequest(b)
  BY <1>3 DEF StartAdd, StartDel, NoReply, Fault, Abort, BridgeTimeout, PeerListens,
              Unnoticed, KeepSaved, MissSaved, KeepDir, TypeOK
<1> QED  BY <1>1, <1>2, <1>3 DEF Move, Step

(* A step of a counts no restart, drops no fault, loses no connection and  *)
(* restores no trust.                                                      *)
LEMMA EnvSame ==
  ASSUME TypeOK, NEW a \in Att, Move(a)
  PROVE  /\ restarts' = restarts
         /\ faults' # 0 \/ (faults = 0 /\ ~Fault(a))
         /\ lost' \subseteq lost
         /\ Trusted' => Trusted
         /\ misled => misled'
<1> DEFINE Env == /\ restarts' = restarts /\ lost' \subseteq lost
                  /\ misled => misled'
<1>0. LoadSaved(a) \/ KeepSaved(a) \/ MissSaved(a) => (misled => misled')
  BY DEF LoadSaved, KeepSaved, MissSaved, TypeOK
<1> USE DEF envVars, reqVars, AfterNet, AfterLoad, Goto, Return
<1>1. ASSUME AddStep(a)
      PROVE  Env /\ faults' = faults
  BY <1>1 DEF AddStep, FindSocket, AddSocket, CreateIf, SetUp, FindBridge, AddBridge,
              JoinBridge, AddAddress, StatDir, MakeDir, OpenSaved, WriteSaved
<1>2. ASSUME DelStep(a)
      PROVE  Env /\ faults' = faults
  BY <1>0, <1>2 DEF DelStep, LoadSaved, RemoveDir, LeaveBridge, CountBridge,
     DeleteBridge, FindIf, DeleteIf, CountSocket, DeleteSocket, Unlink
<1>3. ASSUME StartAdd(a) \/ StartDel(a) \/ NoReply(a) \/ PeerListens(a)
      PROVE  Env /\ faults' = faults
  BY <1>3 DEF StartAdd, StartDel, NoReply, PeerListens
<1>4. ASSUME Fault(a)
      PROVE  Env /\ faults' = faults + 1
  BY <1>0, <1>4 DEF Fault, Abort, BridgeTimeout, Unnoticed, KeepSaved, MissSaved, KeepDir
<1>5. faults \in Nat
  BY HostVppConstants DEF TypeOK
<1>6. faults + 1 # 0
  BY <1>5
<1>7. ASSUME Fault(a) PROVE faults' # 0
  BY <1>4, <1>6, <1>7
<1>8. Env => (Trusted' => Trusted)
  BY DEF Trusted
<1>9. CASE Fault(a)
  BY <1>4, <1>7, <1>8, <1>9
<1>10. CASE ~Fault(a)
  BY <1>1, <1>2, <1>3, <1>8, <1>10 DEF Move, Step
<1> QED  BY <1>9, <1>10

(* Without faults and restarts every index is trusted, and nothing is left *)
(* behind.                                                                 *)
LEMMA QuietTrusted == ASSUME HandInv, Quiet PROVE Trusted /\ kept = {}
  BY DEF HandInv, LeftBehind, Quiet, Trusted

(* The index that a works on is, as long as indices can be trusted, that   *)
(* of an interface made for a, if it is that of an interface at all.       *)
LEMMA HandIsOwn ==
  ASSUME HandInv, Trusted, NEW a \in Att, InHand(a) \in SwIf
  PROVE  owner[InHand(a)] = a
  BY VppConstants DEF HandInv, InHand, HandNamesOwn, SavedNamesOwn

(* A step of a leaves every interface alone but the one a works on.        *)
LEMMA OnlyInHand ==
  ASSUME HandInv, NEW a \in Att, Move(a), NEW i \in Live, i # InHand(a)
  PROVE  SameIf(i)
<1> USE DEF SameIf, vppVars
<1>0. i \in SwIf /\ owner[i] # NoAtt
  BY DEF Live
<1>1. ASSUME AddStep(a) PROVE SameIf(i)
  <2>1. CASE CreateIf(a)
    BY <1>0, <2>1 DEF CreateIf, MemifCreate, HandInv, TypeOK, VppTypeOK
  <2>2. CASE SetUp(a)
    <3>1. InHand(a) = idx[a]
      BY <2>2 DEF SetUp, Connected, InHand, Holding, AddPc
    <3> QED  BY <1>0, <2>2, <3>1 DEF SetUp, IfUp
  <2>3. CASE JoinBridge(a)
    <3>1. InHand(a) = idx[a]
      BY <2>3 DEF JoinBridge, Connected, InHand, Holding, AddPc
    <3> QED  BY <1>0, <2>3, <3>1 DEF JoinBridge, JoinMsg, HandInv, TypeOK, VppTypeOK
  <2>4. CASE AddAddress(a)
    <3>1. InHand(a) = idx[a]
      BY <2>4 DEF AddAddress, Connected, InHand, Holding, AddPc
    <3> QED  BY <1>0, <2>4, <3>1 DEF AddAddress, IfAddr
  <2>5. CASE ~CreateIf(a) /\ ~SetUp(a) /\ ~JoinBridge(a) /\ ~AddAddress(a)
    BY <1>1, <2>5
       DEF AddStep, FindSocket, AddSocket, SocketAdd, FindBridge, AddBridge, BdAddMsg,
           StatDir, MakeDir, OpenSaved, WriteSaved
  <2> QED  BY <2>1, <2>2, <2>3, <2>4, <2>5
<1>2. ASSUME DelStep(a) PROVE SameIf(i)
  <2>1. CASE LeaveBridge(a)
    <3>1. InHand(a) = idx[a]
      BY <2>1 DEF LeaveBridge, Connected, InHand, Holding
    <3> QED  BY <1>0, <2>1, <3>1 DEF LeaveBridge, LeaveMsg, HandInv, TypeOK, VppTypeOK
  <2>2. CASE DeleteIf(a)
    <3>1. InHand(a) = idx[a]
      BY <2>2 DEF DeleteIf, Connected, InHand, Holding
    <3> QED  BY <1>0, <2>2, <3>1 DEF DeleteIf, MemifDelete, HandInv, TypeOK, VppTypeOK
  <2>3. CASE ~LeaveBridge(a) /\ ~DeleteIf(a)
    BY <1>2, <2>3
       DEF DelStep, LoadSaved, RemoveDir, CountBridge, DeleteBridge, BdDelMsg, FindIf,
           CountSocket, DeleteSocket, SocketDel, Unlink
  <2> QED  BY <2>1, <2>2, <2>3
<1>3. ASSUME StartAdd(a) \/ StartDel(a) \/ NoReply(a) \/ Fault(a) \/ PeerListens(a)
      PROVE  SameIf(i)
  BY <1>3 DEF StartAdd, StartDel, NoReply, Fault, Abort, BridgeTimeout, PeerListens,
              Unnoticed, KeepSaved, MissSaved, KeepDir, TypeOK
<1> QED  BY <1>1, <1>2, <1>3 DEF Move, Step

(* In particular it leaves the interface of another attachment alone.      *)
LEMMA OthersIf ==
  ASSUME HandInv, Trusted, NEW a \in Att, Move(a), NEW b \in Att, b # a,
         InHand(b) \in SwIf
  PROVE  InHand(b) \in Live /\ SameIf(InHand(b))
<1>1. owner[InHand(b)] = b
  BY HandIsOwn
<1>2. InHand(b) \in Live
  BY <1>1, VppConstants DEF Live
<1>3. InHand(b) # InHand(a)
  BY <1>1, HandIsOwn
<1> QED  BY <1>2, <1>3, OnlyInHand

-----------------------------------------------------------------------------
(* VPP's tables stay tidy.                                                 *)
LEMMA MoveVppTidy ==
  ASSUME HandInv, VppTidy, NEW a \in Att, Move(a)
  PROVE  VppTidy'
<1> DEFINE Bare == \A i \in SwIf \ Live : member[i] = NoBd
           Based == \A i \in Live : ifSock[i] \in SockId
<1> USE DEF vppVars
<1>0. Bare /\ Based /\ VppTypeOK /\ idx[a] \in Index /\ sid[a] \in SockId \cup {0}
  BY DEF VppTidy, HandInv, TypeOK
<1>1. restarts' = 0 => lost' = {}
  BY EnvSame DEF VppTidy, HandInv
<1>2. CASE UNCHANGED <<owner, ifSock, member>>
  BY <1>0, <1>1, <1>2 DEF VppTidy, Live
<1>3. CASE CreateIf(a)
  <2>1. CASE UNCHANGED vppVars
    BY <2>1, <1>2
  <2>2. CASE ~UNCHANGED vppVars
    <3>1. PICK i \in SwIf : MemifCreate(i, a, sid[a])
      BY <1>3, <2>2 DEF CreateIf
    <3>2. sid[a] \in SockId
      BY <3>1 DEF MemifCreate, CanCreate, UsedSock
    <3>3. Live' = Live \cup {i}
      BY <1>0, <3>1, VppConstants DEF MemifCreate, Live, VppTypeOK
    <3>4. Bare'
      BY <1>0, <3>1, <3>3 DEF MemifCreate
    <3>5. Based'
      BY <1>0, <3>1, <3>2, <3>3 DEF MemifCreate, VppTypeOK, Live
    <3> QED  BY <1>1, <3>4, <3>5 DEF VppTidy
  <2> QED  BY <2>1, <2>2
<1>4. CASE JoinBridge(a)
  <2>1. UNCHANGED <<owner, ifSock>>
    BY <1>4 DEF JoinBridge, JoinMsg
  <2>2. Bare'
    BY <1>0, <1>4, VppConstants DEF JoinBridge, JoinMsg, VppTypeOK, Live
  <2> QED  BY <1>0, <1>1, <2>1, <2>2 DEF VppTidy, Live
<1>5. CASE LeaveBridge(a)
  <2>1. UNCHANGED <<owner, ifSock>>
    BY <1>5 DEF LeaveBridge, LeaveMsg
  <2>2. Bare'
    BY <1>0, <1>5 DEF LeaveBridge, LeaveMsg, VppTypeOK, Live
  <2> QED  BY <1>0, <1>1, <2>1, <2>2 DEF VppTidy, Live
<1>6. CASE DeleteIf(a)
  <2>1. CASE idx[a] \notin Live
    BY <1>2, <1>6, <2>1 DEF DeleteIf, MemifDelete
  <2>2. CASE idx[a] \in Live
    <3>1. Live' = Live \ {idx[a]}
      BY <1>0, <1>6, <2>2 DEF DeleteIf, MemifDelete, Live, VppTypeOK
    <3>2. Bare' /\ Based'
      BY <1>0, <1>6, <2>2, <3>1 DEF DeleteIf, MemifDelete, VppTypeOK, Live
    <3> QED  BY <1>1, <3>2 DEF VppTidy
  <2> QED  BY <2>1, <2>2
<1>7. ASSUME AddStep(a), ~CreateIf(a), ~JoinBridge(a)
      PROVE  UNCHANGED <<owner, ifSock, member>>
  BY <1>7 DEF AddStep, FindSocket, AddSocket, SocketAdd, SetUp, IfUp, FindBridge,
              AddBridge, BdAddMsg, AddAddress, IfAddr, StatDir, MakeDir, OpenSaved,
              WriteSaved
<1>8. ASSUME DelStep(a), ~LeaveBridge(a), ~DeleteIf(a)
      PROVE  UNCHANGED <<owner, ifSock, member>>
  BY <1>8 DEF DelStep, LoadSaved, RemoveDir, CountBridge, DeleteBridge, BdDelMsg, FindIf,
              CountSocket, DeleteSocket, SocketDel, Unlink
<1>9. ASSUME StartAdd(a) \/ StartDel(a) \/ NoReply(a) \/ Fault(a) \/ PeerListens(a)
      PROVE  UNCHANGED <<owner, ifSock, member>>
  BY <1>9 DEF StartAdd, StartDel, NoReply, Fault, Abort, BridgeTimeout, PeerListens,
              Unnoticed, KeepSaved, MissSaved, KeepDir
<1> QED  BY <1>2, <1>3, <1>4, <1>5, <1>6, <1>7, <1>8, <1>9 DEF Move, Step

(* A restart takes every connection and every interface with it. *)
LEMMA RestartVppTidy ==
  ASSUME HandInv, VppRestart
  PROVE  VppTidy' /\ restarts' # 0
<1>1. restarts \in Nat
  BY HostVppConstants DEF HandInv, TypeOK
<1>2. restarts' # 0
  BY <1>1 DEF VppRestart
<1> QED  BY <1>2 DEF VppRestart, VppReset, VppEmpty, VppTidy, Live

(* What the requests know of their own steps: the part for a after a step  *)
(* of a.                                                                   *)
LEMMA MoveTidy ==
  ASSUME HandInv, VppTidy, NEW a \in Att, Tidy(a), Move(a)
  PROVE  Tidy(a)'
<1> USE DEF Tidy, Quiet, Trusted, Idle, fileVars, envVars, Connected, Goto, Return,
        AfterNet, AfterLoad
<1>0. /\ pc \in [Att -> {"idle"} \cup AddPc \cup DelPc]
      /\ idx \in [Att -> Index] /\ sid \in [Att -> SockId \cup {0}]
      /\ phase \in [Att -> Phase] /\ saved \in [Att -> Index \cup {NoFile, Torn}]
      /\ NoFile \notin Index /\ Torn \notin Index /\ NoFile # Torn
      /\ Index = SwIf \cup RefusedIdx
  BY HostVppConstants DEF HandInv, TypeOK, Index
<1>1. CASE FindSocket(a)
  BY <1>0, <1>1 DEF FindSocket, AddPc, DelPc
<1>2. CASE AddSocket(a)
  BY <1>0, <1>2 DEF AddSocket, SocketAdd
<1>3. CASE CreateIf(a)
  <2>1. pc[a] = "create" /\ pc'[a] = "setUp" /\ UNCHANGED <<saved, misled, faults, restarts>>
    BY <1>0, <1>3 DEF CreateIf
  <2> QED  BY <1>0, <2>1
<1>4. CASE SetUp(a)
  BY <1>0, <1>4 DEF SetUp, IfUp, NetStep
<1>5. CASE FindBridge(a)
  BY <1>0, <1>5 DEF FindBridge
<1>6. CASE AddBridge(a)
  BY <1>0, <1>6 DEF AddBridge, BdAddMsg
<1>7. CASE JoinBridge(a)
  <2>1. pc[a] = "bdJoin" /\ pc'[a] = "stat" /\ UNCHANGED <<saved, misled, faults, restarts>>
    BY <1>0, <1>7 DEF JoinBridge
  <2> QED  BY <1>0, <2>1
<1>8. CASE AddAddress(a)
  BY <1>0, <1>8 DEF AddAddress, IfAddr
<1>9. CASE StatDir(a)
  BY <1>0, <1>9 DEF StatDir
<1>10. CASE MakeDir(a)
  BY <1>0, <1>10 DEF MakeDir
<1>11. CASE OpenSaved(a)
  BY <1>0, <1>11 DEF OpenSaved
<1>12. CASE WriteSaved(a)
  BY <1>0, <1>12 DEF WriteSaved
<1>13. CASE LoadSaved(a)
  BY <1>0, <1>13 DEF LoadSaved
<1>14. CASE RemoveDir(a)
  BY <1>0, <1>14 DEF RemoveDir
<1>15. CASE LeaveBridge(a)
  BY <1>0, <1>15 DEF LeaveBridge, LeaveMsg
<1>16. CASE CountBridge(a)
  BY <1>0, <1>16 DEF CountBridge
<1>17. CASE DeleteBridge(a)
  BY <1>0, <1>17 DEF DeleteBridge, BdDelMsg
<1>18. CASE FindIf(a)
  <2>1. /\ pc'[a] = "memDel" /\ UNCHANGED <<saved, envVars, ifSock, idx, phase>>
        /\ sid'[a] = IF idx[a] \in Live THEN ifSock[idx[a]] ELSE 0
    BY <1>0, <1>18 DEF FindIf, vppVars
  <2>2. pc[a] = "memFind"
    BY <1>18 DEF FindIf
  <2>3. Trusted /\ idx[a] \in SwIf => idx[a] \in Live
    BY <2>2, VppConstants DEF HandInv, HandNamesOwn, Holding, Live
  <2> QED  BY <1>0, <2>1, <2>2, <2>3
<1>19. CASE DeleteIf(a)
  <2>1. pc'[a] \in {"memCount", "unlink"} /\ UNCHANGED <<saved, misled, faults, restarts>>
    BY <1>0, <1>19 DEF DeleteIf
  <2>2. pc[a] = "memDel"
    BY <1>19 DEF DeleteIf
  <2> QED  BY <1>0, <2>1, <2>2
<1>20. CASE CountSocket(a)
  BY <1>0, <1>20 DEF CountSocket
<1>21. CASE DeleteSocket(a)
  BY <1>0, <1>21 DEF DeleteSocket, SocketDel
<1>22. CASE Unlink(a)
  BY <1>0, <1>22 DEF Unlink
<1>23. CASE StartAdd(a)
  BY <1>0, <1>23 DEF StartAdd
<1>24. CASE StartDel(a)
  BY <1>0, <1>24 DEF StartDel
<1>25. CASE NoReply(a)
  BY <1>0, <1>25 DEF NoReply, VppTidy, vppVars, Local
<1>26. CASE Fault(a)
  <2>1. faults' # 0
    BY <1>26, EnvSame DEF HandInv
  <2> QED  BY <1>0, <1>26, <2>1
           DEF Fault, Abort, BridgeTimeout, Unnoticed, KeepSaved, MissSaved, KeepDir, vppVars
<1>27. CASE PeerListens(a)
  BY <1>0, <1>27 DEF PeerListens, reqVars, vppVars
<1> QED
  BY <1>1, <1>2, <1>3, <1>4, <1>5, <1>6, <1>7, <1>8, <1>9, <1>10, <1>11, <1>12, <1>13,
     <1>14, <1>15, <1>16, <1>17, <1>18, <1>19, <1>20, <1>21, <1>22, <1>23, <1>24, <1>25,
     <1>26, <1>27
     DEF Move, Step, AddStep, DelStep

(* The part for another attachment stays, for its interface does.          *)
LEMMA OthersTidy ==
  ASSUME HandInv, NEW a \in Att, Move(a), NEW b \in Att, b # a, Tidy(b)
  PROVE  Tidy(b)'
<1>1. SameRequest(b)
  BY OthersSame DEF HandInv
<1>2. (Trusted' => Trusted) /\ (faults' = 0 => faults = 0)
  BY EnvSame DEF HandInv
<1>3. ASSUME Trusted, pc[b] = "memDel", idx[b] \in SwIf
      PROVE  ifSock'[idx[b]] = ifSock[idx[b]]
  <2>1. InHand(b) = idx[b]
    BY <1>3 DEF InHand, Holding
  <2> QED  BY <1>3, <2>1, OthersIf DEF SameIf
<1>4. Trusted' /\ pc'[b] = "memDel" /\ idx'[b] \in SwIf => sid'[b] = ifSock'[idx'[b]]
  BY <1>1, <1>2, <1>3 DEF SameRequest, Tidy
<1> QED  BY <1>1, <1>2, <1>4 DEF SameRequest, Tidy, Idle

-----------------------------------------------------------------------------
(* Sockets: the requests that have a socket without an interface to fill,  *)
(* or to remove.                                                           *)
Minds(b, s) == sid[b] = s /\ pc[b] \in {"create", "memCount", "sockDel"}

(* A step of a that changes no socket, interface or request that minds one *)
(* leaves no socket unminded.                                              *)
LEMMA EmptySame ==
  ASSUME HandInv, Empty, NEW a \in Att, Move(a), UNCHANGED <<sock, owner, ifSock>>,
         \A s \in UsedSock : OnSocket(s) = {} /\ Minds(a, s) => Minds(a, s)'
  PROVE  Empty'
<1> SUFFICES ASSUME NEW s \in UsedSock, OnSocket(s) = {}
             PROVE  \E b \in Att : Minds(b, s)'
  BY DEF Empty, Minds, UsedSock, OnSocket, Live
<1>1. PICK b \in Att : Minds(b, s)
  BY DEF Empty, Minds
<1>2. CASE b = a
  BY <1>1, <1>2
<1>3. CASE b # a
  <2>1. SameRequest(b)
    BY <1>3, OthersSame DEF HandInv
  <2> QED  BY <1>1, <2>1 DEF Minds, SameRequest
<1> QED  BY <1>2, <1>3

(* A socket is registered by a request that goes on to fill it.            *)
LEMMA EmptyAddSocket ==
  ASSUME HandInv, Empty, NEW a \in Att, AddSocket(a)
  PROVE  Empty'
<1> SUFFICES ASSUME NEW s \in SockId, sock'[s] # NoAtt, OnSocket(s)' = {}
             PROVE  \E b \in Att : Minds(b, s)'
  BY DEF Empty, Minds, UsedSock
<1>0. /\ pc[a] = "addSock" /\ pc'[a] = "create" /\ sid' = sid
      /\ \A b \in Att \ {a} : pc'[b] = pc[b]
  BY DEF AddSocket, Connected, Goto, HandInv, TypeOK
<1>1. CASE s = sid[a]
  BY <1>0, <1>1 DEF Minds
<1>2. CASE s # sid[a]
  <2>1. s \in UsedSock /\ OnSocket(s) = {}
    BY <1>2 DEF AddSocket, SocketAdd, UsedSock, OnSocket, Live, HandInv, TypeOK, VppTypeOK
  <2>2. PICK b \in Att : Minds(b, s)
    BY <2>1 DEF Empty, Minds
  <2> QED  BY <1>0, <2>2 DEF Minds
<1> QED  BY <1>1, <1>2

(* memif_create fills the socket of the request, or is refused when there  *)
(* is nothing to fill.                                                     *)
LEMMA EmptyCreateIf ==
  ASSUME HandInv, Empty, NEW a \in Att, CreateIf(a)
  PROVE  Empty'
<1>1. CASE UNCHANGED vppVars /\ ~CanCreate(sid[a])
  <2>1. \A s \in UsedSock : OnSocket(s) = {} => ~Minds(a, s)
    BY <1>1 DEF CanCreate, Minds
  <2>2. Move(a)
    BY DEF Move, Step, AddStep
  <2> QED  BY <1>1, <2>1, <2>2, EmptySame DEF vppVars
<1>2. CASE ~(UNCHANGED vppVars /\ ~CanCreate(sid[a]))
  <2>1. PICK i \in SwIf : MemifCreate(i, a, sid[a])
    BY <1>2 DEF CreateIf
  <2>2. owner' = [owner EXCEPT ![i] = a] /\ ifSock' = [ifSock EXCEPT ![i] = sid[a]]
        /\ sock' = sock /\ owner[i] = NoAtt
    BY <2>1 DEF MemifCreate
  <2>3. /\ pc[a] = "create" /\ sid' = sid /\ \A b \in Att \ {a} : pc'[b] = pc[b]
    BY DEF CreateIf, Connected, Goto, HandInv, TypeOK
  <2> SUFFICES ASSUME NEW s \in SockId, sock[s] # NoAtt, OnSocket(s)' = {}
               PROVE  \E b \in Att : Minds(b, s)'
    BY <2>2 DEF Empty, Minds, UsedSock
  <2>4. i \in Live' /\ ifSock'[i] = sid[a]
    BY <2>2, VppConstants DEF Live, HandInv, TypeOK, VppTypeOK
  <2>5. s # sid[a]
    BY <2>4 DEF OnSocket
  <2>6. OnSocket(s) \subseteq OnSocket(s)'
    BY <2>2 DEF OnSocket, Live, HandInv, TypeOK, VppTypeOK
  <2>7. PICK b \in Att : Minds(b, s)
    BY <2>6 DEF Empty, Minds, UsedSock
  <2> QED  BY <2>3, <2>5, <2>7 DEF Minds
<1> QED  BY <1>1, <1>2

(* The request that deletes an interface looks after its socket next.      *)
LEMMA EmptyDeleteIf ==
  ASSUME HandInv, VppTidy, Empty, NEW a \in Att, Tidy(a), Trusted, DeleteIf(a)
  PROVE  Empty'
<1>1. /\ pc[a] = "memDel" /\ UNCHANGED <<sid, sock>>
      /\ pc'[a] = IF sid[a] # 0 THEN "memCount" ELSE "unlink"
      /\ \A b \in Att \ {a} : pc'[b] = pc[b]
  BY DEF DeleteIf, MemifDelete, vppVars, Connected, Goto, HandInv, TypeOK
<1> SUFFICES ASSUME NEW s \in SockId, sock[s] # NoAtt, OnSocket(s)' = {}
             PROVE  \E b \in Att : Minds(b, s)'
  BY <1>1 DEF Empty, Minds, UsedSock
<1>2. CASE OnSocket(s) = {}
  <2>1. PICK b \in Att : Minds(b, s)
    BY <1>2 DEF Empty, Minds, UsedSock
  <2> QED  BY <1>1, <2>1 DEF Minds
<1>3. CASE OnSocket(s) # {}
  <2>1. PICK i \in Live : ifSock[i] = s
    BY <1>3 DEF OnSocket
  <2>2. i = idx[a]
    <3>1. CASE i # idx[a]
      <4>1. i \in OnSocket(s)'
        BY <2>1, <3>1
           DEF DeleteIf, MemifDelete, vppVars, OnSocket, Live, HandInv, TypeOK, VppTypeOK
      <4> QED  BY <4>1
    <3> QED  BY <3>1
  <2>3. sid[a] = s
    BY <1>1, <2>1, <2>2 DEF Tidy, Live
  <2>4. sid[a] # 0
    BY <2>3 DEF SockId
  <2> QED  BY <1>1, <2>3, <2>4 DEF Minds
<1> QED  BY <1>2, <1>3

(* A socket that is found empty is removed, unless it was filled since.    *)
LEMMA EmptyDeleteSocket ==
  ASSUME HandInv, Empty, NEW a \in Att, DeleteSocket(a)
  PROVE  Empty'
<1>1. /\ pc[a] = "sockDel" /\ UNCHANGED <<sid, owner, ifSock>>
      /\ \A b \in Att \ {a} : pc'[b] = pc[b]
  BY DEF DeleteSocket, SocketDel, Connected, Goto, HandInv, TypeOK
<1> SUFFICES ASSUME NEW s \in SockId, sock'[s] # NoAtt, OnSocket(s) = {}
             PROVE  \E b \in Att : Minds(b, s)'
  BY <1>1 DEF Empty, Minds, UsedSock, OnSocket, Live
<1>2. sock[s] # NoAtt /\ s # sid[a]
  BY DEF DeleteSocket, SocketDel, HandInv, TypeOK, VppTypeOK
<1>3. PICK b \in Att : Minds(b, s)
  BY <1>2 DEF Empty, Minds, UsedSock
<1> QED  BY <1>1, <1>2, <1>3 DEF Minds

(* No step leaves an empty socket that nobody minds.                       *)
LEMMA MoveEmpty ==
  ASSUME HandInv, VppTidy, Empty, NEW a \in Att, Tidy(a), Move(a), Quiet, Quiet'
  PROVE  Empty'
<1> USE DEF vppVars, Connected
<1>0. Trusted /\ lost = {} /\ ~Fault(a)
  BY EnvSame, QuietTrusted DEF Quiet, VppTidy, HandInv
<1>1. CASE AddSocket(a) \/ CreateIf(a) \/ DeleteIf(a) \/ DeleteSocket(a)
  BY <1>0, <1>1, EmptyAddSocket, EmptyCreateIf, EmptyDeleteIf, EmptyDeleteSocket
<1>2. CASE CountSocket(a)
  <2>1. ASSUME NEW s \in UsedSock, OnSocket(s) = {}, Minds(a, s) PROVE Minds(a, s)'
    BY <1>2, <2>1 DEF CountSocket, Goto, Minds, HandInv, TypeOK
  <2> QED  BY <1>2, <2>1, EmptySame DEF CountSocket
<1>3. ASSUME AddStep(a), ~AddSocket(a), ~CreateIf(a)
      PROVE  /\ UNCHANGED <<sock, owner, ifSock>>
             /\ pc[a] \notin {"create", "memCount", "sockDel"}
  BY <1>3 DEF AddStep, FindSocket, SetUp, IfUp, FindBridge, AddBridge, BdAddMsg,
              JoinBridge, JoinMsg, AddAddress, IfAddr, StatDir, MakeDir, OpenSaved,
              WriteSaved
<1>4. ASSUME DelStep(a), ~DeleteIf(a), ~CountSocket(a), ~DeleteSocket(a)
      PROVE  /\ UNCHANGED <<sock, owner, ifSock>>
             /\ pc[a] \notin {"create", "memCount", "sockDel"}
  BY <1>4 DEF DelStep, LoadSaved, RemoveDir, LeaveBridge, LeaveMsg, CountBridge,
              DeleteBridge, BdDelMsg, FindIf, Unlink
<1>5. ASSUME StartAdd(a) \/ StartDel(a) PROVE
      /\ UNCHANGED <<sock, owner, ifSock>> /\ pc[a] \notin {"create", "memCount", "sockDel"}
  BY <1>5 DEF StartAdd, StartDel, Idle
<1>6. ASSUME PeerListens(a)
      PROVE  UNCHANGED <<sock, owner, ifSock, pc, sid>>
  BY <1>6 DEF PeerListens, reqVars
<1>7. ~NoReply(a)
  BY <1>0 DEF NoReply
<1>8. CASE pc[a] \notin {"create", "memCount", "sockDel"} /\ UNCHANGED <<sock, owner, ifSock>>
  BY <1>8, EmptySame DEF Minds
<1>9. CASE UNCHANGED <<sock, owner, ifSock, pc, sid>>
  BY <1>9, EmptySame DEF Minds
<1> QED
  BY <1>0, <1>1, <1>2, <1>3, <1>4, <1>5, <1>6, <1>7, <1>8, <1>9 DEF Move, Step

-----------------------------------------------------------------------------
(* Bridges.  The index that a works on is in hand, then in the saved data, *)
(* then in hand again; a step can only forget it, but for memif_create.    *)
LEMMA HandKept ==
  ASSUME HandInv, NEW a \in Att, Tidy(a), Move(a), faults = 0, faults' = 0, ~CreateIf(a)
  PROVE  InHand(a)' \in {InHand(a), Local0}
<1> USE DEF InHand, Holding, Idle, fileVars, envVars, Connected, Goto, Return, AfterNet,
        AfterLoad
<1>0. /\ pc \in [Att -> {"idle"} \cup AddPc \cup DelPc]
      /\ idx \in [Att -> Index]
      /\ saved \in [Att -> Index \cup {NoFile, Torn}]
      /\ NoFile \notin Index /\ Torn \notin Index /\ Local0 \in Index
      /\ saved[a] = Torn => pc[a] = "write"
      /\ saved[a] \in Index => (phase[a] = "added" /\ pc[a] = "idle") \/ pc[a] = "load"
      /\ (pc[a] \in DelPc \ {"load"} => saved[a] = NoFile) /\ ~Fault(a) /\ kept = {}
  BY EnvSame, HostVppConstants DEF HandInv, TypeOK, Index, Tidy, LoadedOnce, LeftBehind
<1>1. CASE FindSocket(a)
  BY <1>0, <1>1 DEF FindSocket, AddPc, DelPc
<1>2. CASE AddSocket(a)
  BY <1>0, <1>2 DEF AddSocket, AddPc, DelPc
<1>4. CASE SetUp(a)
  BY <1>0, <1>4 DEF SetUp, NetStep, AddPc, DelPc
<1>5. CASE FindBridge(a)
  BY <1>0, <1>5 DEF FindBridge, AddPc, DelPc
<1>6. CASE AddBridge(a)
  BY <1>0, <1>6 DEF AddBridge, AddPc, DelPc
<1>7. CASE JoinBridge(a)
  BY <1>0, <1>7 DEF JoinBridge, AddPc, DelPc
<1>8. CASE AddAddress(a)
  BY <1>0, <1>8 DEF AddAddress, AddPc, DelPc
<1>9. CASE StatDir(a)
  BY <1>0, <1>9 DEF StatDir, AddPc, DelPc
<1>10. CASE MakeDir(a)
  BY <1>0, <1>10 DEF MakeDir, AddPc, DelPc
<1>11. CASE OpenSaved(a)
  BY <1>0, <1>11 DEF OpenSaved, AddPc, DelPc
<1>12. CASE WriteSaved(a)
  BY <1>0, <1>12 DEF WriteSaved, AddPc, DelPc
<1>13. CASE LoadSaved(a)
  BY <1>0, <1>13 DEF LoadSaved, AddPc, DelPc
<1>14. CASE RemoveDir(a)
  BY <1>0, <1>14 DEF RemoveDir, AddPc, DelPc
<1>15. CASE LeaveBridge(a)
  BY <1>0, <1>15 DEF LeaveBridge, AddPc, DelPc
<1>16. CASE CountBridge(a)
  BY <1>0, <1>16 DEF CountBridge, AddPc, DelPc
<1>17. CASE DeleteBridge(a)
  BY <1>0, <1>17 DEF DeleteBridge, AddPc, DelPc
<1>18. CASE FindIf(a)
  BY <1>0, <1>18 DEF FindIf, AddPc, DelPc
<1>19. CASE DeleteIf(a)
  BY <1>0, <1>19 DEF DeleteIf, AddPc, DelPc
<1>20. CASE CountSocket(a)
  BY <1>0, <1>20 DEF CountSocket, AddPc, DelPc
<1>21. CASE DeleteSocket(a)
  BY <1>0, <1>21 DEF DeleteSocket, AddPc, DelPc
<1>22. CASE Unlink(a)
  BY <1>0, <1>22 DEF Unlink, AddPc, DelPc
<1>23. CASE StartAdd(a)
  BY <1>0, <1>23 DEF StartAdd, AddPc, DelPc
<1>24. CASE StartDel(a)
  BY <1>0, <1>24 DEF StartDel, AddPc, DelPc
<1>25. CASE NoReply(a)
  BY <1>0, <1>25 DEF NoReply, Local, Endless, AddPc, DelPc
<1>27. CASE PeerListens(a)
  BY <1>0, <1>27 DEF PeerListens, reqVars
<1> QED
  BY <1>0, <1>1, <1>2, <1>4, <1>5, <1>6, <1>7, <1>8, <1>9, <1>10, <1>11, <1>12, <1>13,
     <1>14, <1>15, <1>16, <1>17, <1>18, <1>19, <1>20, <1>21, <1>22, <1>23, <1>24, <1>25,
     <1>27
     DEF Move, Step, AddStep, DelStep

(* memif_create hands out an index that no attachment worked on.           *)
LEMMA HandCreated ==
  ASSUME HandInv, NEW a \in Att, CreateIf(a)
  PROVE  InHand(a)' \notin Live
<1>1. PICK i \in Index : /\ idx' = [idx EXCEPT ![a] = i]
                         /\ (i \in SwIf /\ owner[i] = NoAtt) \/ i \in RefusedIdx
  BY DEF CreateIf, MemifCreate
<1>2. pc'[a] = "setUp" /\ idx'[a] = i
  BY <1>1 DEF CreateIf, Goto, HandInv, TypeOK
<1>3. InHand(a)' = i
  BY <1>2 DEF InHand, Holding, AddPc
<1> QED  BY <1>1, <1>3, HostVppConstants DEF Live

(* Nobody ever works on a stray interface again.                           *)
LEMMA StrayStays ==
  ASSUME HandInv, VppTidy, NEW a \in Att, Tidy(a), Move(a), Quiet, Quiet',
         NEW i, Stray(i)
  PROVE  Stray(i)' /\ SameIf(i)
<1>0. Trusted /\ i \in Live /\ i \in SwIf /\ owner[i] \in Att /\ owner[i] # NoAtt
  BY QuietTrusted DEF Quiet, Stray, Live, HandInv, TypeOK, VppTypeOK
<1>1. i # InHand(a)
  BY <1>0, HandIsOwn DEF Stray
<1>2. SameIf(i)
  BY <1>0, <1>1, OnlyInHand
<1>3. i \in Live' /\ owner'[i] = owner[i]
  BY <1>0, <1>2 DEF SameIf, Live
<1>4. CASE owner[i] = a
  <2>1. InHand(a)' # i
    BY <1>0, <1>1, HandKept, HandCreated, VppConstants DEF Quiet
  <2> QED  BY <1>2, <1>3, <1>4, <2>1 DEF Stray
<1>5. CASE owner[i] # a
  <2>1. SameRequest(owner[i])
    BY <1>0, <1>5, OthersSame DEF HandInv
  <2>2. InHand(owner[i])' = InHand(owner[i])
    BY <1>3, <2>1 DEF InHand, SameRequest
  <2> QED  BY <1>2, <1>3, <2>2 DEF Stray
<1> QED  BY <1>4, <1>5

(* An attachment whose interface, or index, is member i of its bridge.     *)
Leaver(b, i) == /\ Conf[b].net = "bridge" /\ Conf[b].bd = member[i]
                /\ ToLeave(b) /\ InHand(b) = i

(* A step of a leaves the other leavers alone.                             *)
LEMMA OthersLeave ==
  ASSUME HandInv, NEW a \in Att, Move(a), NEW b \in Att, b # a
  PROVE  /\ InHand(b)' = InHand(b)
         /\ ToLeave(b)' <=> ToLeave(b)
         /\ \A d : ToCount(b, d)' <=> ToCount(b, d)
<1>1. SameRequest(b)
  BY OthersSame DEF HandInv
<1> QED  BY <1>1 DEF SameRequest, InHand, ToLeave, ToCount, Idle

(* A step that changes no membership and owner keeps the invariant if its  *)
(* attachment does not drop out of those that are still to leave; when it  *)
(* forgets its index, that interface is stray from then on.                *)
LEMMA JoinedSame ==
  ASSUME HandInv, VppTidy, Joined, NEW a \in Att, Tidy(a), Move(a), Quiet, Quiet',
         ~CreateIf(a), UNCHANGED <<owner, member>>,
         Conf[a].net = "bridge" /\ ToLeave(a) => ToLeave(a)'
  PROVE  Joined'
<1> SUFFICES ASSUME NEW i \in SwIf \cup {Local0}, member[i] # NoBd
             PROVE  Stray(i)' \/ \E b \in Att : Leaver(b, i)'
  BY DEF Joined, Leaver
<1>0. Trusted
  BY QuietTrusted
<1>1. CASE Stray(i)
  BY <1>1, StrayStays
<1>2. CASE ~Stray(i)
  <2>1. PICK b \in Att : Leaver(b, i)
    BY <1>2 DEF Joined, Leaver
  <2>2. CASE b # a
    BY <2>1, <2>2, OthersLeave DEF Leaver
  <2>3. CASE b = a /\ InHand(a)' = i
    BY <2>1, <2>3 DEF Leaver
  <2>4. CASE b = a /\ InHand(a)' # i
    <3>1. InHand(a) = i /\ InHand(a)' = Local0 /\ i \in SwIf
      BY <2>1, <2>4, HandKept DEF Leaver, Quiet
    <3>2. i \in Live /\ owner[i] = a
      BY <1>0, <3>1, HandIsOwn DEF VppTidy
    <3>3. i \in Live' /\ owner'[i] = a
      BY <3>2 DEF Live
    <3> QED  BY <2>4, <3>3 DEF Stray
  <2> QED  BY <2>2, <2>3, <2>4
<1> QED  BY <1>1, <1>2

(* A new interface is in no bridge, and no leaver makes one.               *)
LEMMA JoinedCreateIf ==
  ASSUME HandInv, VppTidy, Joined, NEW a \in Att, Tidy(a), CreateIf(a), Quiet, Quiet'
  PROVE  Joined'
<1>1. Move(a) /\ pc[a] = "create" /\ UNCHANGED member
  BY DEF CreateIf, MemifCreate, vppVars, Move, Step, AddStep, Connected
<1>2. ~ToLeave(a)
  BY <1>1 DEF ToLeave, Idle
<1> SUFFICES ASSUME NEW i \in SwIf \cup {Local0}, member[i] # NoBd
             PROVE  Stray(i)' \/ \E b \in Att : Leaver(b, i)'
  BY <1>1 DEF Joined, Leaver
<1>3. CASE Stray(i)
  BY <1>1, <1>3, StrayStays
<1>4. CASE ~Stray(i)
  <2>1. PICK b \in Att : Leaver(b, i)
    BY <1>4 DEF Joined, Leaver
  <2>2. b # a
    BY <1>2, <2>1 DEF Leaver
  <2> QED  BY <1>1, <2>1, <2>2, OthersLeave DEF Leaver
<1> QED  BY <1>3, <1>4

(* Who joins is still to leave; a member that leaves, or is deleted, was   *)
(* the one in hand.                                                        *)
LEMMA JoinedJoin ==
  ASSUME HandInv, VppTidy, Joined, NEW a \in Att, Tidy(a), Quiet, Quiet',
         JoinBridge(a) \/ LeaveBridge(a) \/ DeleteIf(a)
  PROVE  Joined'
<1>0. /\ Move(a)
      /\ pc[a] \in {"bdJoin", "leave", "memDel"}
      /\ UNCHANGED idx
  BY DEF JoinBridge, LeaveBridge, DeleteIf, Move, Step, AddStep, DelStep, Connected
<1>1. InHand(a) = idx[a]
  BY <1>0 DEF InHand, Holding, AddPc
<1>2. \A j \in SwIf \cup {Local0} : j # idx[a] => member'[j] = member[j]
  BY DEF JoinBridge, LeaveBridge, DeleteIf, JoinMsg, LeaveMsg, MemifDelete, vppVars,
         HandInv, TypeOK, VppTypeOK
<1> SUFFICES ASSUME NEW i \in SwIf \cup {Local0}, member'[i] # NoBd
             PROVE  Stray(i)' \/ \E b \in Att : Leaver(b, i)'
  BY DEF Joined, Leaver
<1>3. CASE i # idx[a]
  <2>1. CASE Stray(i)
    BY <1>0, <2>1, StrayStays
  <2>2. CASE ~Stray(i)
    <3>1. member'[i] = member[i]
      BY <1>2, <1>3
    <3>2. PICK b \in Att : Leaver(b, i)
      BY <2>2, <3>1 DEF Joined, Leaver
    <3>3. b # a
      BY <1>1, <1>3, <3>2 DEF Leaver
    <3> QED  BY <1>0, <3>1, <3>2, <3>3, OthersLeave DEF Leaver
  <2> QED  BY <2>1, <2>2
<1>4. CASE i = idx[a] /\ member'[i] # member[i]
  <2>1. JoinBridge(a) /\ member'[i] = Conf[a].bd
    BY <1>4 DEF JoinBridge, LeaveBridge, DeleteIf, JoinMsg, LeaveMsg, MemifDelete, vppVars,
                HandInv, TypeOK, VppTypeOK
  <2>2. pc[a] = "bdJoin" /\ pc'[a] = "stat"
    BY <2>1 DEF JoinBridge, Connected, Goto, HandInv, TypeOK
  <2>3. Conf[a].net = "bridge" /\ ToLeave(a)' /\ InHand(a)' = i
    BY <1>0, <1>4, <2>2 DEF Tidy, ToLeave, InHand, Holding, AddPc
  <2> QED  BY <2>1, <2>3 DEF Leaver
<1>5. CASE i = idx[a] /\ member'[i] = member[i] /\ JoinBridge(a)
  <2>1. CASE Stray(i)
    BY <1>0, <2>1, StrayStays
  <2>2. CASE ~Stray(i)
    <3>1. PICK b \in Att : Leaver(b, i)
      BY <1>5, <2>2 DEF Joined, Leaver
    <3>2. pc[a] = "bdJoin"
      BY <1>5 DEF JoinBridge, Connected
    <3>3. b # a
      BY <3>1, <3>2 DEF Leaver, ToLeave, Idle
    <3> QED  BY <1>0, <1>5, <3>1, <3>3, OthersLeave DEF Leaver
  <2> QED  BY <2>1, <2>2
<1>6. CASE i = idx[a] /\ member'[i] = member[i] /\ ~JoinBridge(a)
  <2>1. i \in Live \cup {Local0}
    BY <1>6 DEF VppTidy
  <2>2. DeleteIf(a) /\ i \notin Live
    BY <1>6, <2>1 DEF LeaveBridge, DeleteIf, LeaveMsg, MemifDelete, HandInv, TypeOK, VppTypeOK
  <2>3. pc[a] = "memDel"
    BY <2>2 DEF DeleteIf, Connected
  <2>4. PICK b \in Att : Leaver(b, i)
    BY <1>6, <2>2 DEF Joined, Leaver, Stray
  <2>5. b # a
    BY <2>3, <2>4 DEF Leaver, ToLeave, Idle
  <2> QED  BY <1>0, <1>6, <2>4, <2>5, OthersLeave DEF Leaver
<1> QED  BY <1>3, <1>4, <1>5, <1>6

(* No step leaves a member of a bridge that nobody takes out.              *)
LEMMA MoveJoined ==
  ASSUME HandInv, VppTidy, Joined, NEW a \in Att, Tidy(a), Move(a), Quiet, Quiet'
  PROVE  Joined'
<1> DEFINE Plain ==
      /\ UNCHANGED <<owner, member>>
      /\ Conf[a].net = "bridge" /\ ToLeave(a) => ToLeave(a)'
<1> USE DEF vppVars, Connected, Goto, Return, AfterNet, AfterLoad, ToLeave, Idle
<1>0. lost = {} /\ ~Fault(a) /\ pc \in [Att -> {"idle"} \cup AddPc \cup DelPc]
      /\ phase \in [Att -> Phase] /\ (saved[a] = Torn => pc[a] = "write")
  BY EnvSame DEF HandInv, TypeOK, Quiet, VppTidy, Tidy
<1>1. CASE CreateIf(a)
  BY <1>1, JoinedCreateIf
<1>2. CASE JoinBridge(a) \/ LeaveBridge(a) \/ DeleteIf(a)
  BY <1>2, JoinedJoin
<1>3. CASE AddStep(a) /\ ~CreateIf(a) /\ ~JoinBridge(a)
  <2>1. Plain
    BY <1>0, <1>3 DEF AddStep, FindSocket, AddSocket, SocketAdd, SetUp, IfUp, FindBridge,
       AddBridge, BdAddMsg, AddAddress, IfAddr, StatDir, MakeDir, OpenSaved, WriteSaved
  <2> QED  BY <1>3, <2>1, JoinedSame
<1>4. CASE DelStep(a) /\ ~LeaveBridge(a) /\ ~DeleteIf(a)
  <2>1. Plain
    BY <1>0, <1>4 DEF DelStep, LoadSaved, RemoveDir, CountBridge, DeleteBridge, BdDelMsg,
       FindIf, CountSocket, DeleteSocket, SocketDel, Unlink
  <2>2. ~CreateIf(a)
    BY <1>4 DEF DelStep, LoadSaved, RemoveDir, CountBridge, DeleteBridge,
       FindIf, CountSocket, DeleteSocket, Unlink, CreateIf
  <2> QED  BY <2>1, <2>2, JoinedSame
<1>5. CASE StartAdd(a) \/ StartDel(a) \/ PeerListens(a)
  <2>1. Plain
    BY <1>0, <1>5 DEF StartAdd, StartDel, PeerListens, reqVars
  <2>2. CASE CreateIf(a)
    BY <2>2, <1>1
  <2> QED  BY <2>1, <2>2, JoinedSame
<1>6. ~NoReply(a)
  BY <1>0 DEF NoReply
<1> QED  BY <1>0, <1>1, <1>2, <1>3, <1>4, <1>5, <1>6 DEF Move, Step

(* A bridge that has members has a stray one, or one with a leaver.        *)
LEMMA MembersCounted ==
  ASSUME HandInv, Joined, NEW b \in Bd, Members(b) # {}
  PROVE  \/ \E i \in Members(b) : Stray(i)
         \/ \E c \in Att : ToCount(c, b) /\ ToLeave(c)
<1>1. PICK i \in SwIf \cup {Local0} : member[i] = b
  BY DEF Members
<1>2. member[i] # NoBd
  BY <1>1, VppConstants
<1> QED  BY <1>1, <1>2 DEF Joined, Members, ToCount

(* A step that makes no bridge and does not end the stay of its attachment *)
(* among those that are to count keeps every bridge accounted for.         *)
LEMMA CountedSame ==
  ASSUME HandInv, VppTidy, Counted, NEW a \in Att, Tidy(a), Move(a), Quiet, Quiet',
         bds' \subseteq bds \/ (bds' \subseteq bds \cup {Conf[a].bd} /\ ToCount(a, Conf[a].bd)'),
         ToCount(a, Conf[a].bd) => ToCount(a, Conf[a].bd)'
  PROVE  Counted'
<1> SUFFICES ASSUME NEW b \in bds'
             PROVE  \/ \E i \in Members(b)' : Stray(i)'
                    \/ \E c \in Att : ToCount(c, b)'
  BY DEF Counted
<1>1. CASE b \notin bds
  BY <1>1
<1>2. CASE \E i \in Members(b) : Stray(i)
  <2>1. PICK i \in Members(b) : Stray(i)
    BY <1>2
  <2>2. Stray(i)' /\ SameIf(i)
    BY <2>1, StrayStays
  <2> QED  BY <2>1, <2>2 DEF Members, SameIf
<1>3. CASE \E c \in Att : ToCount(c, b)
  <2>1. PICK c \in Att : ToCount(c, b)
    BY <1>3
  <2>2. CASE c = a
    BY <2>1, <2>2 DEF ToCount
  <2>3. CASE c # a
    BY <2>1, <2>3, OthersLeave
  <2> QED  BY <2>2, <2>3
<1> QED  BY <1>1, <1>2, <1>3 DEF Counted

(* A request gives up its bridge only when somebody is still in it.        *)
LEMMA CountedGiveUp ==
  ASSUME HandInv, VppTidy, Joined, Counted, NEW a \in Att, Tidy(a), Quiet, Quiet',
         CountBridge(a) \/ DeleteBridge(a)
  PROVE  Counted'
<1>1. /\ Move(a) /\ pc[a] \in {"bdCount", "bdDel"} /\ UNCHANGED member /\ bds' \subseteq bds
      /\ ~ToLeave(a)
  BY DEF CountBridge, DeleteBridge, BdDelMsg, Move, Step, DelStep, Connected, vppVars,
         ToLeave, Idle
<1>2. CASE ToCount(a, Conf[a].bd)'
  BY <1>1, <1>2, CountedSame
<1>3. CASE ~ToCount(a, Conf[a].bd)'
  <2>1. Conf[a].net = "bridge"
    BY <1>1 DEF Tidy
  <2>2. Conf[a].bd \notin bds' \/ Members(Conf[a].bd) # {}
    BY <1>3, <2>1 DEF CountBridge, DeleteBridge, BdDelMsg, ToCount, Goto, HandInv, TypeOK,
                      vppVars
  <2> SUFFICES ASSUME NEW b \in bds'
               PROVE  \/ \E i \in Members(b)' : Stray(i)'
                      \/ \E c \in Att : ToCount(c, b)'
    BY DEF Counted
  <2>3. b \in Bd /\ b \in bds
    BY <1>1 DEF HandInv, TypeOK, VppTypeOK
  <2>4. \/ \E i \in Members(b) : Stray(i)
        \/ \E c \in Att : ToCount(c, b) /\ c # a
    <3>1. CASE b = Conf[a].bd
      BY <1>1, <2>2, <2>3, <3>1, MembersCounted
    <3>2. CASE b # Conf[a].bd
      BY <2>3, <3>2 DEF Counted, ToCount
    <3> QED  BY <3>1, <3>2
  <2>5. CASE \E i \in Members(b) : Stray(i)
    <3>1. PICK i \in Members(b) : Stray(i)
      BY <2>5
    <3>2. Stray(i)' /\ SameIf(i)
      BY <1>1, <3>1, StrayStays
    <3> QED  BY <3>1, <3>2 DEF Members, SameIf
  <2>6. CASE \E c \in Att : ToCount(c, b) /\ c # a
    BY <1>1, <2>6, OthersLeave
  <2> QED  BY <2>4, <2>5, <2>6
<1> QED  BY <1>2, <1>3

(* No step leaves a bridge that nobody counts.                             *)
LEMMA MoveCounted ==
  ASSUME HandInv, VppTidy, Joined, Counted, NEW a \in Att, Tidy(a), Move(a), Quiet, Quiet'
  PROVE  Counted'
<1> DEFINE Plain ==
      /\ \/ bds' \subseteq bds
         \/ bds' \subseteq bds \cup {Conf[a].bd} /\ ToCount(a, Conf[a].bd)'
      /\ ToCount(a, Conf[a].bd) => ToCount(a, Conf[a].bd)'
<1> USE DEF vppVars, Connected, Goto, Return, AfterNet, AfterLoad, ToCount, ToLeave,
        Idle
<1>0. lost = {} /\ ~Fault(a) /\ pc \in [Att -> {"idle"} \cup AddPc \cup DelPc]
      /\ phase \in [Att -> Phase] /\ (saved[a] = Torn => pc[a] = "write")
      /\ (pc[a] \in {"bdFind", "bdAdd", "bdJoin", "leave", "bdCount", "bdDel"}
            => Conf[a].net = "bridge")
  BY EnvSame DEF HandInv, TypeOK, Quiet, VppTidy, Tidy
<1>1. CASE CountBridge(a) \/ DeleteBridge(a)
  BY <1>1, CountedGiveUp
<1>2. CASE AddStep(a)
  <2>1. Plain
    BY <1>0, <1>2 DEF AddStep, FindSocket, AddSocket, SocketAdd, CreateIf, MemifCreate,
       SetUp, IfUp, FindBridge, AddBridge, BdAddMsg, JoinBridge, JoinMsg, AddAddress,
       IfAddr, StatDir, MakeDir, OpenSaved, WriteSaved
  <2> QED  BY <2>1, CountedSame
<1>3. CASE DelStep(a) /\ ~CountBridge(a) /\ ~DeleteBridge(a)
  <2>1. Plain
    BY <1>0, <1>3 DEF DelStep, LoadSaved, RemoveDir, LeaveBridge, LeaveMsg, FindIf,
       DeleteIf, MemifDelete, CountSocket, DeleteSocket, SocketDel, Unlink
  <2> QED  BY <2>1, CountedSame
<1>4. CASE StartAdd(a) \/ StartDel(a) \/ PeerListens(a)
  <2>1. Plain
    BY <1>0, <1>4 DEF StartAdd, StartDel, PeerListens, reqVars
  <2> QED  BY <2>1, CountedSame
<1>5. ~NoReply(a)
  BY <1>0 DEF NoReply
<1> QED  BY <1>0, <1>1, <1>2, <1>3, <1>4, <1>5 DEF Move, Step

-----------------------------------------------------------------------------
(* The interface of a request past its bridge is in it: the part for a     *)
(* after a step of a, in a VPP where a join cannot miss its bridge.        *)
LEMMA MoveBridging ==
  ASSUME HandInv, VppTidy, NEW a \in Att, Tidy(a), Bridging(a), Move(a),
         Trusted, JoinCreates
  PROVE  Bridging(a)'
<1> DEFINE Past == pc[a] \in {"stat", "mkdir", "open", "write"}
                     \/ (phase[a] = "added" /\ Idle(a))
<1> USE DEF InHand, Holding, Idle, Connected, Goto, Return, AfterNet, AfterLoad, fileVars,
        vppVars, envVars
<1>0. /\ pc \in [Att -> {"idle"} \cup AddPc \cup DelPc]
      /\ idx \in [Att -> Index] /\ phase \in [Att -> Phase]
      /\ saved \in [Att -> Index \cup {NoFile, Torn}]
      /\ member \in [SwIf \cup {Local0} -> Bd \cup {NoBd}]
      /\ lost = {}
      /\ (pc[a] = "addIp" => Conf[a].net # "bridge")
      /\ (pc[a] = "write" => a \notin kept)
  BY DEF HandInv, TypeOK, VppTypeOK, VppTidy, Tidy, Trusted, LeftBehind
<1>1. CASE ~Past'
  BY <1>1 DEF Bridging
<1>2. CASE JoinBridge(a)
  <2>1. pc[a] = "bdJoin" /\ pc'[a] = "stat" /\ UNCHANGED idx
    BY <1>0, <1>2 DEF JoinBridge
  <2>2. idx[a] \in SwIf => idx[a] \in Live
    BY <2>1, VppConstants DEF HandInv, HandNamesOwn, AddPc, Live
  <2>3. idx[a] \in SwIf => member'[idx[a]] = Conf[a].bd
    BY <1>0, <1>2, <2>2 DEF JoinBridge, JoinMsg
  <2> QED  BY <2>1, <2>3 DEF Bridging, AddPc
<1>3. ASSUME Past', Conf[a].net = "bridge", ~JoinBridge(a)
      PROVE  Past /\ UNCHANGED member /\ InHand(a)' = InHand(a)
  <2>1. CASE AddStep(a)
    BY <1>0, <1>3, <2>1 DEF AddStep, FindSocket, AddSocket, SocketAdd, CreateIf, SetUp,
       IfUp, NetStep, FindBridge, AddBridge, AddAddress, StatDir, MakeDir, OpenSaved,
       WriteSaved, AddPc, DelPc
  <2>2. CASE DelStep(a)
    BY <1>0, <1>3, <2>2 DEF DelStep, LoadSaved, RemoveDir, LeaveBridge, CountBridge,
       DeleteBridge, FindIf, DeleteIf, CountSocket, DeleteSocket, Unlink
  <2>3. CASE StartAdd(a) \/ StartDel(a) \/ PeerListens(a)
    BY <1>0, <1>3, <2>3 DEF StartAdd, StartDel, PeerListens, reqVars
  <2>4. CASE NoReply(a)
    BY <1>0, <2>4 DEF NoReply
  <2>5. CASE Fault(a)
    BY <1>0, <1>3, <2>5 DEF Fault, Abort, BridgeTimeout, Failed, Unnoticed, KeepSaved,
       MissSaved, KeepDir
  <2> QED  BY <2>1, <2>2, <2>3, <2>4, <2>5 DEF Move, Step
<1>4. CASE Past' /\ Conf[a].net = "bridge" /\ ~JoinBridge(a)
  BY <1>3, <1>4 DEF Bridging
<1>5. CASE Conf[a].net # "bridge"
  BY <1>5 DEF Bridging
<1> QED  BY <1>1, <1>2, <1>4, <1>5

(* The part for another attachment stays.                                  *)
LEMMA OthersBridging ==
  ASSUME HandInv, NEW a \in Att, Move(a), NEW b \in Att, b # a, Bridging(b), Trusted
  PROVE  Bridging(b)'
<1>1. SameRequest(b) /\ InHand(b)' = InHand(b)
  BY OthersSame, OthersLeave DEF HandInv
<1>2. InHand(b) \in SwIf => member'[InHand(b)] = member[InHand(b)]
  BY OthersIf DEF SameIf
<1> QED  BY <1>1, <1>2 DEF Bridging, SameRequest, Idle

-----------------------------------------------------------------------------
(* The invariant of the network holds initially.                           *)
LEMMA InitNet == Init => NetInv
<1> SUFFICES ASSUME Init PROVE NetInv
  OBVIOUS
<1>1. NoFile \notin Index /\ NoFile # Torn
  BY HostVppConstants DEF Index
<1>2. VppTidy
  BY DEF Init, VppInit, VppEmpty, VppTidy, Live
<1>3. \A a \in Att : Tidy(a)
  BY <1>1 DEF Init, Tidy
<1>4. Empty
  BY DEF Init, VppInit, VppEmpty, Empty, UsedSock
<1>5. Joined
  BY DEF Init, VppInit, VppEmpty, Joined
<1>6. Counted
  BY DEF Init, VppInit, Counted
<1>7. \A a \in Att : Bridging(a)
  BY DEF Init, Bridging, Idle
<1> QED  BY <1>2, <1>3, <1>4, <1>5, <1>6, <1>7 DEF NetInv

(* No step of an attachment breaks it.                                     *)
LEMMA MoveNet == ASSUME IInv, NEW a \in Att, Move(a) PROVE NetInv'
<1>0. HandInv /\ VppTidy /\ Tidy(a) /\ TypeOK
  BY DEF IInv, NetInv, HandInv
<1>1. VppTidy'
  BY <1>0, MoveVppTidy
<1>2. \A b \in Att : Tidy(b)'
  BY <1>0, MoveTidy, OthersTidy DEF IInv, NetInv
<1>3. (Trusted' => Trusted) /\ (Quiet' => Quiet)
  BY <1>0, EnvSame DEF Quiet
<1>4. Quiet' => Empty' /\ Joined' /\ Counted'
  BY <1>0, <1>3, MoveEmpty, MoveJoined, MoveCounted DEF IInv, NetInv
<1>5. Trusted' /\ JoinCreates => \A b \in Att : Bridging(b)'
  BY <1>0, <1>3, MoveBridging, OthersBridging DEF IInv, NetInv
<1> QED  BY <1>1, <1>2, <1>4, <1>5 DEF NetInv

(* After a restart only what the requests know of their steps is left.     *)
LEMMA RestartNet == ASSUME IInv, VppRestart PROVE NetInv'
<1>1. VppTidy' /\ restarts' # 0
  BY RestartVppTidy DEF IInv
<1>2. ~Quiet' /\ ~Trusted'
  BY <1>1 DEF Quiet, Trusted
<1>3. \A a \in Att : Tidy(a)'
  BY <1>1, <1>2 DEF IInv, NetInv, Tidy, Idle, VppRestart, fileVars
<1> QED  BY <1>1, <1>2, <1>3 DEF NetInv

(* The whole invariant is inductive.                                       *)
LEMMA NextIInv == ASSUME IInv, [Next]_vars PROVE IInv'
<1>1. HandInv'
  BY NextType, NextOwn, NextLeft DEF IInv, HandInv, Own
<1>2. ASSUME NEW a \in Att, Move(a) PROVE NetInv'
  BY <1>2, MoveNet
<1>3. ASSUME VppRestart PROVE NetInv'
  BY <1>3, RestartNet
<1>4. ASSUME UNCHANGED vars PROVE NetInv'
  BY <1>4 DEF vars, vppVars, reqVars, fileVars, envVars, IInv, NetInv, VppTidy, Tidy, Quiet,
     Idle, Empty, UsedSock, OnSocket, Live, Joined, Stray, InHand, ToLeave, Counted, Members,
     ToCount, Bridging, Trusted
<1> QED  BY <1>1, <1>2, <1>3, <1>4 DEF Next, Move, IInv

(* The inductive invariant: the index in hand and the saved data name an   *)
(* interface of one's own, no socket is empty and no bridge without        *)
(* members but for a request that will see to it, and the interface of a   *)
(* request past its bridge is in it.                                       *)
THEOREM Invariant == Spec => []IInv
<1>1. Init => IInv
  BY InitType, InitOwn, InitLeft, InitNet DEF IInv, HandInv, Own
<1>2. IInv /\ [Next]_vars => IInv'
  BY NextIInv
<1> QED  BY <1>1, <1>2, PTL DEF Spec

(* Without faults, when no request is under way, every registered socket   *)
(* has an interface, and every bridge a member or an attachment whose DEL  *)
(* is still to come, however the requests interleaved: of two requests     *)
(* that leave one bridge, or one socket, at least one finds that it is the *)
(* last and removes it.                                                    *)
THEOREM NoneUnused == Spec => []NothingUnused
<1>1. ASSUME IInv PROVE NothingUnused
  <2> SUFFICES ASSUME Running = {}, Quiet
               PROVE  /\ \A s \in UsedSock : OnSocket(s) # {}
                      /\ \A b \in bds : \/ Members(b) # {}
                                        \/ \E a \in Att : /\ phase[a] # "absent"
                                                          /\ Conf[a].bd = b
    BY DEF NothingUnused, Quiet
  <2>1. \A a \in Att : pc[a] = "idle"
    BY DEF Running, Idle
  <2>2. Empty /\ Counted
    BY <1>1 DEF IInv, NetInv
  <2>3. \A s \in UsedSock : OnSocket(s) # {}
    BY <2>1, <2>2 DEF Empty
  <2>4. ASSUME NEW b \in bds, Members(b) = {}
        PROVE  \E a \in Att : phase[a] # "absent" /\ Conf[a].bd = b
    BY <2>1, <2>2, <2>4 DEF Counted, ToCount, ToLeave
  <2> QED  BY <2>3, <2>4
<1> QED  BY <1>1, Invariant, PTL

(* In a VPP where a join makes a missing bridge, the interface of an       *)
(* attachment that was added is in its bridge until its DEL, whatever      *)
(* other requests do in between, fail at, or delete, until one is misled.  *)
THEOREM AddedStaysBridged == JoinCreates => (Spec => []AddedIsBridged)
<1> SUFFICES ASSUME JoinCreates PROVE Spec => []AddedIsBridged
  OBVIOUS
<1>1. ASSUME IInv PROVE AddedIsBridged
  <2> SUFFICES ASSUME Trusted, NEW a \in Att, phase[a] = "added", Idle(a),
                      Conf[a].net = "bridge", saved[a] \in Live
               PROVE  member[saved[a]] = Conf[a].bd
    BY DEF AddedIsBridged
  <2>1. InHand(a) = saved[a] /\ saved[a] \in SwIf
    BY <1>1 DEF Idle, InHand, Holding, AddPc, DelPc, Live, Index, IInv, HandInv, LeftBehind
  <2>2. Bridging(a)
    BY <1>1 DEF IInv, NetInv
  <2> QED  BY <2>1, <2>2 DEF Bridging
<1> QED  BY <1>1, Invariant, PTL
=============================================================================
