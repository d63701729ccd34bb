------------------------- MODULE HostVppCleanProofs -------------------------
(***************************************************************************)
(* Proofs about what HostVpp leaves behind, one request at a time and      *)
(* without faults: one socket id for each file, and nothing after a DEL.   *)
(***************************************************************************)
EXTENDS HostVppPromiseProofs

-----------------------------------------------------------------------------
(* A refused request has nothing in hand: the part for a after its step.   *)
LEMMA MoveNothing ==
  ASSUME TypeOK, NEW a \in Att, Nothing(a), Move(a)
  PROVE  Nothing(a)'
<1> SUFFICES ASSUME Rejected(a)
             PROVE  pc'[a] \notin AddPc /\ idx'[a] = Local0 /\ saved'[a] = NoFile
  BY DEF Nothing, Rejected
<1>0. pc[a] \notin AddPc /\ idx[a] = Local0 /\ saved[a] = NoFile
  BY DEF Nothing
<1> USE DEF Goto, Return, AfterNet, AfterLoad, TypeOK, Connected, fileVars, reqVars
<1>1. CASE AddStep(a)
  BY <1>0, <1>1 DEF AddStep, FindSocket, AddSocket, CreateIf, SetUp, FindBridge,
     AddBridge, JoinBridge, AddAddress, StatDir, MakeDir, OpenSaved, WriteSaved, AddPc
<1>2. CASE DelStep(a)
  BY <1>0, <1>2 DEF DelStep, LoadSaved, RemoveDir, LeaveBridge, CountBridge, DeleteBridge,
     FindIf, DeleteIf, CountSocket, DeleteSocket, Unlink, AddPc
<1>3. CASE StartAdd(a) \/ StartDel(a) \/ Abort(a) \/ PeerListens(a)
  BY <1>0, <1>3 DEF StartAdd, StartDel, Abort, PeerListens, AddPc
<1>4. CASE NoReply(a) \/ BridgeTimeout(a)
  BY <1>0, <1>4 DEF NoReply, BridgeTimeout, AddPc
<1>5. CASE Unnoticed(a)
  BY <1>0, <1>5, HostVppConstants
     DEF Unnoticed, KeepSaved, MissSaved, KeepDir, Index, AddPc
<1> QED  BY <1>1, <1>2, <1>3, <1>4, <1>5 DEF Move, Step, Fault

(* Without faults, and where no request panics, a step other than          *)
(* memif_delete does not lose an interface that its request works on.      *)
LEMMA HandNotLost ==
  ASSUME HandInv, LostAlone, NoPanic, NEW a \in Att, Tidy(a), Nothing(a), Move(a),
         pc[a] = "open" => dataDir, faults = 0, faults' = 0, InHand(a) \in Live
  PROVE  ~CreateIf(a) /\ (DeleteIf(a) \/ InHand(a)' = InHand(a))
<1> USE DEF InHand, Holding, Idle, fileVars, Connected, Goto, Return, AfterNet, AfterLoad
<1>0. /\ pc \in [Att -> {"idle"} \cup AddPc \cup DelPc]
      /\ idx \in [Att -> Index]
      /\ saved \in [Att -> Index \cup {NoFile, Torn}]
      /\ NoFile \notin Index /\ Torn \notin Index /\ Local0 \notin Live
      /\ saved[a] \in Index => (phase[a] = "added" /\ pc[a] = "idle") \/ pc[a] = "load"
      /\ pc[a] \in DelPc \ {"load"} => saved[a] = NoFile
      /\ kept = {} /\ kept' = {}
      /\ ~Fault(a)
  <2>1. kept = {} /\ ~misled
    BY DEF HandInv, LeftBehind
  <2>2. ~Fault(a) /\ TypeOK
    BY EnvSame DEF HandInv
  <2>3. kept' = {}
    BY <2>1, <2>2 DEF Move, Step, AddStep, FindSocket, AddSocket, CreateIf, SetUp,
       FindBridge, AddBridge, JoinBridge, AddAddress, StatDir, MakeDir, OpenSaved,
       WriteSaved, DelStep, LoadSaved, RemoveDir, LeaveBridge, CountBridge, DeleteBridge,
       FindIf, DeleteIf, CountSocket, DeleteSocket, Unlink, StartAdd, StartDel, NoReply,
       PeerListens, envVars
  <2> QED  BY <2>1, <2>2, <2>3, HostVppConstants, VppConstants
           DEF HandInv, TypeOK, Index, Tidy, LoadedOnce, Live
<1>a. lost = {} /\ ~Rejected(a)
  BY <1>0 DEF LostAlone, Nothing, Rejected, AddPc
<1>b. Conf[a].ifType = "memif" /\ ~(Conf[a].net = "interface" /\ Conf[a].ip = "nil")
  BY <1>a DEF NoPanic, Rejected
<1>1. CASE FindSocket(a) \/ AddSocket(a) \/ CreateIf(a)
  BY <1>0, <1>1 DEF FindSocket, AddSocket, CreateIf, AddPc, DelPc
<1>2. CASE SetUp(a)
  BY <1>0, <1>b, <1>2 DEF SetUp, CreateIf, NetStep, AddPc, DelPc
<1>3. CASE FindBridge(a) \/ AddBridge(a) \/ JoinBridge(a) \/ AddAddress(a)
  BY <1>0, <1>3 DEF FindBridge, AddBridge, JoinBridge, AddAddress, CreateIf, AddPc, DelPc
<1>4. CASE StatDir(a) \/ MakeDir(a) \/ OpenSaved(a) \/ WriteSaved(a)
  BY <1>0, <1>4 DEF StatDir, MakeDir, OpenSaved, WriteSaved, CreateIf, AddPc, DelPc
<1>5. CASE LoadSaved(a)
  BY <1>0, <1>5 DEF LoadSaved, CreateIf, AddPc, DelPc
<1>6. CASE RemoveDir(a) \/ LeaveBridge(a) \/ CountBridge(a) \/ DeleteBridge(a) \/ FindIf(a)
  BY <1>0, <1>b, <1>6 DEF RemoveDir, LeaveBridge, CountBridge, DeleteBridge, FindIf,
     CreateIf, AddPc, DelPc
<1>7. CASE DeleteIf(a)
  BY <1>7 DEF DeleteIf, CreateIf
<1>8. CASE CountSocket(a) \/ DeleteSocket(a) \/ Unlink(a)
  BY <1>0, <1>8 DEF CountSocket, DeleteSocket, Unlink, AddPc, DelPc
<1>9. CASE StartAdd(a) \/ StartDel(a)
  BY <1>0, <1>9 DEF StartAdd, StartDel, CreateIf, AddPc, DelPc
<1>10. CASE NoReply(a)
  BY <1>a, <1>10 DEF NoReply
<1>11. CASE PeerListens(a)
  <2>1. UNCHANGED <<pc, idx, saved>>
    BY <1>11 DEF PeerListens, reqVars
  <2>2. ~CreateIf(a)
    BY <1>0, <2>1 DEF CreateIf
  <2> QED  BY <1>0, <2>1, <2>2
<1> QED
  BY <1>0, <1>1, <1>2, <1>3, <1>4, <1>5, <1>6, <1>7, <1>8, <1>9, <1>10, <1>11
     DEF Move, Step, AddStep, DelStep

(* Before memif_create and after memif_delete a request works on nothing.  *)
LEMMA NothingInHand ==
  ASSUME HandInv, NEW a \in Att, Tidy(a), faults = 0,
         pc[a] \in {"addSock", "create", "memCount", "sockDel"}
  PROVE  InHand(a) \notin Live
<1>1. saved[a] \notin Index
  BY DEF Tidy, Idle
<1>2. pc[a] \notin Holding
  BY DEF Holding, AddPc
<1> QED  BY <1>1, <1>2, VppConstants DEF InHand, Live

-----------------------------------------------------------------------------
(* What Known says of a socket of attachment c.                            *)
Accounted(s, c) ==
  \/ pc[c] = "create" /\ sid[c] = s
  \/ InHand(c) \in Live /\ ifSock[InHand(c)] = s
  \/ /\ OnSocket(s) = {}
     /\ \E b \in Att : /\ sid[b] = s /\ pc[b] \in {"memCount", "sockDel"}
                       /\ restarts = 0 => c = b

(* All that Known and its steps rest on.                                   *)
Settled ==
  /\ HandInv /\ VppTidy /\ SerialInv /\ Serial /\ NoPanic
  /\ \A a \in Att : Tidy(a) /\ Nothing(a)
  /\ faults = 0

(* The requests that mind a socket do so until they are done.              *)
LEMMA MindsOn ==
  ASSUME Settled, NEW a \in Att, Move(a), faults' = 0, UsedSock # {}
  PROVE  /\ pc[a] = "create" => CreateIf(a) \/ UNCHANGED <<pc, sid>>
         /\ pc[a] = "memCount" => CountSocket(a) \/ UNCHANGED <<pc, sid>>
         /\ pc[a] = "sockDel" => DeleteSocket(a) \/ UNCHANGED <<pc, sid>>
<1>0. a \notin lost /\ ~Fault(a)
  BY EnvSame DEF Settled, HandInv, SerialInv, LostAlone
<1> QED
  BY <1>0 DEF Move, Step, AddStep, FindSocket, AddSocket, CreateIf, SetUp, FindBridge,
     AddBridge, JoinBridge, AddAddress, StatDir, MakeDir, OpenSaved, WriteSaved, DelStep,
     LoadSaved, RemoveDir, LeaveBridge, CountBridge, DeleteBridge, FindIf, DeleteIf,
     CountSocket, DeleteSocket, Unlink, StartAdd, StartDel, NoReply, PeerListens, reqVars,
     Connected, Idle

(* A request that runs is the one that steps.                              *)
LEMMA RunnerSteps ==
  ASSUME Settled, NEW a \in Att, Move(a), NEW b \in Att, pc[b] # "idle"
  PROVE  b = a \/ UNCHANGED <<pc, sid, vppVars>>
<1>1. CASE PeerListens(a)
  BY <1>1 DEF PeerListens, reqVars
<1>2. CASE ~PeerListens(a)
  BY <1>2, OthersIdle DEF Settled, SerialInv, HandInv
<1> QED  BY <1>1, <1>2

(* A step that changes no socket and no owner.                             *)
LEMMA AccountedSame ==
  ASSUME Settled, NEW a \in Att, Move(a), faults' = 0,
         ~AddSocket(a), ~CreateIf(a), ~DeleteIf(a), ~DeleteSocket(a),
         NEW s \in UsedSock, NEW c \in Att, Accounted(s, c)
  PROVE  Accounted(s, c)'
<1>0. UNCHANGED <<sock, owner, ifSock>> /\ Live' = Live /\ OnSocket(s)' = OnSocket(s)
  BY SockSame DEF Live, OnSocket
<1>1. CASE pc[c] = "create" /\ sid[c] = s
  <2>1. UNCHANGED <<pc, sid>>
    BY <1>1, RunnerSteps, MindsOn
  <2> QED  BY <1>1, <2>1 DEF Accounted
<1>2. CASE InHand(c) \in Live /\ ifSock[InHand(c)] = s
  <2>1. InHand(c)' = InHand(c)
    <3>1. CASE c = a
      BY <1>2, <3>1, HandNotLost DEF Settled, SerialInv
    <3>2. CASE c # a
      BY <3>2, OthersLeave DEF Settled
    <3> QED  BY <3>1, <3>2
  <2> QED  BY <1>0, <1>2, <2>1 DEF Accounted
<1>3. CASE /\ OnSocket(s) = {}
           /\ \E b \in Att : /\ sid[b] = s /\ pc[b] \in {"memCount", "sockDel"}
                             /\ restarts = 0 => c = b
  <2>1. PICK b \in Att : /\ sid[b] = s /\ pc[b] \in {"memCount", "sockDel"}
                         /\ restarts = 0 => c = b
    BY <1>3
  <2>2. restarts' = restarts
    BY EnvSame DEF Settled, HandInv
  <2>3. sid'[b] = s /\ pc'[b] \in {"memCount", "sockDel"}
    <3>1. CASE UNCHANGED <<pc, sid>>
      BY <2>1, <3>1
    <3>2. CASE b = a /\ CountSocket(a)
      BY <1>3, <2>1, <3>2 DEF CountSocket, Goto, Settled, HandInv, TypeOK
    <3> QED  BY <2>1, <3>1, <3>2, RunnerSteps, MindsOn
  <2> QED  BY <1>0, <1>3, <2>1, <2>2, <2>3 DEF Accounted
<1> QED  BY <1>1, <1>2, <1>3 DEF Accounted

(* A file is registered once: when it is, no socket has it yet.            *)
LEMMA RegistersOnce ==
  ASSUME Settled, Known, NEW a \in Att, AddSocket(a), NEW s \in UsedSock
  PROVE  sock[s] # a
<1>1. pc[a] = "addSock" /\ Move(a)
  BY DEF AddSocket, Connected, Move, Step, AddStep
<1>2. ~UNCHANGED <<pc, sid, vppVars>>
  BY <1>1 DEF AddSocket, Goto, Settled, HandInv, TypeOK
<1>3. \A b \in Att : pc[b] = "idle" \/ b = a
  BY <1>1, <1>2, RunnerSteps
<1>4. InHand(a) \notin Live
  BY <1>1, NothingInHand DEF Settled
<1> QED  BY <1>1, <1>3, <1>4 DEF Known

(* The four steps that change sockets or owners.                           *)
LEMMA KnownAddSocket ==
  ASSUME Settled, Known, NEW a \in Att, AddSocket(a)
  PROVE  Known'
<1>0. /\ pc[a] = "addSock" /\ Move(a) /\ pc'[a] = "create"
      /\ UNCHANGED <<sid, owner, ifSock, restarts>>
      /\ \A b \in Att \ {a} : pc'[b] = pc[b]
  BY DEF AddSocket, SocketAdd, Connected, Move, Step, AddStep, Goto, envVars, Settled,
         HandInv, TypeOK
<1>1. \A b \in Att : pc[b] = "idle" \/ b = a
  BY <1>0, RunnerSteps
<1> SUFFICES ASSUME NEW s \in UsedSock' PROVE Accounted(s, sock[s])'
  BY DEF Known, Accounted
<1>2. s \in SockId /\ sock'[s] # NoAtt /\ sock \in [SockId -> Att \cup {NoAtt}]
  BY DEF UsedSock, Settled, HandInv, TypeOK, VppTypeOK
<1>3. CASE sock[s] = NoAtt
  <2>1. s = sid[a] /\ sock'[s] = a
    BY <1>2, <1>3 DEF AddSocket, SocketAdd
  <2> QED  BY <1>0, <2>1 DEF Accounted
<1>4. CASE sock[s] # NoAtt
  <2>1. sock'[s] = sock[s] /\ s \in UsedSock /\ sock[s] \in Att
    BY <1>2, <1>4 DEF AddSocket, SocketAdd, UsedSock
  <2>2. sock[s] # a
    BY <2>1, RegistersOnce
  <2>3. InHand(sock[s]) \in Live /\ ifSock[InHand(sock[s])] = s
    BY <1>0, <1>1, <2>1, <2>2 DEF Known
  <2>4. InHand(sock[s])' = InHand(sock[s])
    BY <1>0, <2>1, <2>2, OthersLeave DEF Settled
  <2> QED  BY <1>0, <2>1, <2>3, <2>4 DEF Accounted, Live
<1> QED  BY <1>3, <1>4

LEMMA KnownCreateIf ==
  ASSUME Settled, Known, NEW a \in Att, CreateIf(a)
  PROVE  Known'
<1>0. /\ pc[a] = "create" /\ a \notin lost /\ Move(a)
      /\ UNCHANGED <<sid, restarts>> /\ HandInv /\ TypeOK /\ faults = 0
      /\ sock[sid[a]] = a /\ OnSocket(sid[a]) = {} /\ sid[a] \in SockId
      /\ Alone /\ Tidy(a)
  BY DEF CreateIf, Connected, Move, Step, AddStep, Settled, SerialInv, Filling, Tidy,
     envVars, HandInv
<1>1. CanCreate(sid[a])
  BY <1>0, VppConstants DEF CanCreate, UsedSock
<1>2. PICK i \in SwIf : MemifCreate(i, a, sid[a]) /\ idx' = [idx EXCEPT ![a] = i]
  BY <1>1 DEF CreateIf
<1>3. pc'[a] = "setUp" /\ idx'[a] = i
  BY <1>0, <1>2 DEF CreateIf, Goto, TypeOK
<1>4. InHand(a)' = i
  BY <1>3 DEF InHand, Holding, AddPc
<1>5. /\ Live' = Live \cup {i} /\ ifSock'[i] = sid[a] /\ sock' = sock
      /\ \A j \in Live : ifSock'[j] = ifSock[j]
  BY <1>0, <1>2, CreateFacts
<1> SUFFICES ASSUME NEW s \in UsedSock' PROVE Accounted(s, sock[s])'
  BY DEF Known, Accounted
<1>6. s \in UsedSock /\ sock[s] \in Att
  BY <1>0, <1>5 DEF UsedSock, TypeOK, VppTypeOK
<1>7. CASE s = sid[a]
  BY <1>0, <1>4, <1>5, <1>7 DEF Accounted
<1>8. CASE s # sid[a]
  <2>1. InHand(sock[s]) \in Live /\ ifSock[InHand(sock[s])] = s
    BY <1>0, <1>6, <1>8 DEF Known, Alone, Idle
  <2>2. sock[s] # a
    BY <1>0, <2>1, NothingInHand
  <2>3. InHand(sock[s])' = InHand(sock[s])
    BY <1>0, <1>5, <1>6, <2>2, OthersLeave
  <2> QED  BY <1>5, <2>1, <2>3 DEF Accounted
<1> QED  BY <1>7, <1>8

LEMMA KnownDeleteIf ==
  ASSUME Settled, Known, NEW a \in Att, DeleteIf(a)
  PROVE  Known'
<1> DEFINE i == idx[a]
<1>0. /\ pc[a] = "memDel" /\ a \notin lost /\ Move(a) /\ MemifDelete(i)
      /\ UNCHANGED <<sid, restarts>> /\ HandInv /\ TypeOK /\ Alone /\ OneIf
      /\ pc'[a] = IF sid[a] # 0 THEN "memCount" ELSE "unlink"
      /\ i \in Live => sid[a] = ifSock[i] /\ ifSock[i] \in SockId
  BY DEF DeleteIf, Connected, Move, Step, DelStep, Goto, Settled, SerialInv, Filling,
     VppTidy, envVars, HandInv, TypeOK
<1>1. InHand(a) = i
  BY <1>0 DEF InHand, Holding
<1>2. sock' = sock
  BY <1>0 DEF MemifDelete, vppVars
<1> SUFFICES ASSUME NEW s \in UsedSock' PROVE Accounted(s, sock[s])'
  BY DEF Known, Accounted
<1> DEFINE c == sock[s]
           j == InHand(c)
<1>3. s \in UsedSock /\ c \in Att
  BY <1>0, <1>2 DEF UsedSock, TypeOK, VppTypeOK
<1>4. j \in Live /\ ifSock[j] = s
  BY <1>0, <1>3 DEF Known, Alone, Idle
<1>5. CASE j # i
  <2>1. InHand(c)' = j
    BY <1>0, <1>1, <1>2, <1>3, <1>5, OthersLeave
  <2>2. j \in Live' /\ ifSock'[j] = s
    <3>1. CASE i \in Live
      BY <1>0, <1>4, <1>5, <3>1, DeleteFacts
    <3>2. CASE i \notin Live
      BY <1>0, <1>4, <3>2 DEF MemifDelete, vppVars, Live
    <3> QED  BY <3>1, <3>2
  <2> QED  BY <1>2, <2>1, <2>2 DEF Accounted
<1>6. CASE j = i
  <2>1. s = sid[a] /\ sid'[a] = s /\ s # 0
    BY <1>0, <1>4, <1>6 DEF SockId
  <2>2. pc'[a] = "memCount"
    BY <1>0, <2>1
  <2>3. OnSocket(s)' = {}
    BY <1>0, <1>4, <1>6, DeleteFacts DEF OnSocket, OneIf
  <2>4. restarts = 0 => c = a
    BY <1>0, <1>1, <1>3, <1>4, <1>6, HandIsOwn, QuietTrusted DEF Live, Quiet, Settled
  <2> QED  BY <1>0, <1>2, <2>1, <2>2, <2>3, <2>4 DEF Accounted
<1> QED  BY <1>5, <1>6

LEMMA KnownDeleteSocket ==
  ASSUME Settled, Known, NEW a \in Att, DeleteSocket(a)
  PROVE  Known'
<1>0. /\ pc[a] = "sockDel" /\ Move(a) /\ SocketDel(sid[a]) /\ HandInv /\ TypeOK /\ Alone
      /\ UNCHANGED <<owner, ifSock>> /\ Tidy(a) /\ faults = 0
      /\ sock \in [SockId -> Att \cup {NoAtt}]
  BY DEF DeleteSocket, SocketDel, Connected, Move, Step, DelStep, Settled, SerialInv,
     HandInv, TypeOK, VppTypeOK
<1> SUFFICES ASSUME NEW s \in UsedSock' PROVE Accounted(s, sock[s])'
  BY DEF Known, Accounted
<1>1. s \in UsedSock /\ sock'[s] = sock[s] /\ sock[s] \in Att /\ s \in SockId
  BY <1>0 DEF UsedSock, SocketDel
<1>2. ~(OnSocket(s) = {} /\ s = sid[a])
  BY <1>0, <1>1 DEF UsedSock, SocketDel
<1>3. InHand(sock[s]) \in Live /\ ifSock[InHand(sock[s])] = s
  BY <1>0, <1>1, <1>2 DEF Known, Alone, Idle
<1>4. sock[s] # a
  BY <1>0, <1>3, NothingInHand
<1>5. InHand(sock[s])' = InHand(sock[s])
  BY <1>0, <1>1, <1>4, OthersLeave
<1> QED  BY <1>0, <1>1, <1>3, <1>5 DEF Accounted, Live

(* Every registered socket stays accounted for.                            *)
LEMMA MoveKnown ==
  ASSUME Settled, Known, NEW a \in Att, Move(a), faults' = 0
  PROVE  Known'
<1>1. CASE ~AddSocket(a) /\ ~CreateIf(a) /\ ~DeleteIf(a) /\ ~DeleteSocket(a)
  <2>1. sock' = sock /\ UsedSock' = UsedSock
    BY <1>1, SockSame DEF UsedSock
  <2> SUFFICES ASSUME NEW s \in UsedSock PROVE Accounted(s, sock[s])'
    BY <2>1 DEF Known, Accounted
  <2>2. sock[s] \in Att
    BY DEF UsedSock, Settled, HandInv, TypeOK, VppTypeOK
  <2>3. Accounted(s, sock[s])
    BY DEF Known, Accounted
  <2>4. ASSUME NEW c \in Att, Accounted(s, c) PROVE Accounted(s, c)'
    BY <1>1, <2>4, AccountedSame
  <2> QED  BY <2>1, <2>2, <2>3, <2>4 DEF Accounted
<1> QED  BY <1>1, KnownAddSocket, KnownCreateIf, KnownDeleteIf, KnownDeleteSocket

-----------------------------------------------------------------------------
(* A file gets a second id only if it is registered a second time.         *)
LEMMA MoveOneId ==
  ASSUME Settled, Known, OneIdPerFile, NEW a \in Att, Move(a)
  PROVE  OneIdPerFile'
<1>1. \A s, t \in UsedSock : sock[s] = sock[t] => s = t
  BY DEF OneIdPerFile, Settled
<1>2. CASE AddSocket(a)
  <2>1. \A s \in UsedSock : sock[s] # a
    BY <1>2, RegistersOnce
  <2>2. \A s \in UsedSock' : (s \in UsedSock /\ sock'[s] = sock[s]) \/ (s = sid[a] /\ sock'[s] = a)
    BY <1>2 DEF AddSocket, SocketAdd, UsedSock, Settled, HandInv, TypeOK, VppTypeOK
  <2> QED  BY <1>1, <2>1, <2>2 DEF OneIdPerFile
<1>3. CASE CreateIf(a) \/ DeleteIf(a)
  <2>1. sock' = sock
    BY <1>3 DEF CreateIf, MemifCreate, DeleteIf, MemifDelete, vppVars
  <2> QED  BY <1>1, <2>1 DEF OneIdPerFile, UsedSock
<1>4. CASE DeleteSocket(a)
  <2>1. \A s \in UsedSock' : s \in UsedSock /\ sock'[s] = sock[s]
    BY <1>4 DEF DeleteSocket, SocketDel, UsedSock, Settled, HandInv, TypeOK, VppTypeOK
  <2> QED  BY <1>1, <2>1 DEF OneIdPerFile
<1>5. CASE ~AddSocket(a) /\ ~CreateIf(a) /\ ~DeleteIf(a) /\ ~DeleteSocket(a)
  <2>1. sock' = sock
    BY <1>5, SockSame
  <2> QED  BY <1>1, <2>1 DEF OneIdPerFile, UsedSock
<1> QED  BY <1>2, <1>3, <1>4, <1>5

(* Without faults every interface stays known to its attachment.           *)
LEMMA MoveNoStray ==
  ASSUME Settled, restarts = 0, \A i \in Live : ~Stray(i), NEW a \in Att, Move(a), faults' = 0
  PROVE  \A i \in Live' : InHand(owner[i])' = i
<1>0. /\ HandInv /\ TypeOK /\ Tidy(a) /\ faults = 0
      /\ \A i \in Live : InHand(owner[i]) = i /\ owner[i] \in Att
  BY DEF Settled, HandInv, TypeOK, VppTypeOK, Stray, Live
<1>1. \A b \in Att \ {a} : InHand(b)' = InHand(b)
  BY <1>0, OthersLeave
<1>2. CASE CreateIf(a)
  <2>1. pc[a] = "create" /\ a \notin lost
    BY <1>2 DEF CreateIf, Connected
  <2>2. CanCreate(sid[a])
    BY <1>0, <2>1, VppConstants DEF CanCreate, UsedSock, Settled, SerialInv, Filling, Tidy
  <2>3. PICK i \in SwIf : MemifCreate(i, a, sid[a]) /\ idx' = [idx EXCEPT ![a] = i]
    BY <1>2, <2>2 DEF CreateIf
  <2>4. pc'[a] = "setUp" /\ idx'[a] = i
    BY <1>0, <1>2, <2>3 DEF CreateIf, Goto, TypeOK
  <2>5. InHand(a)' = i
    BY <2>4 DEF InHand, Holding, AddPc
  <2>6. \A j \in Live : owner[j] # a
    BY <1>0, <2>1, NothingInHand
  <2>7. /\ Live' = Live \cup {i} /\ owner'[i] = a
        /\ \A j \in Live : owner'[j] = owner[j]
    BY <1>0, <2>3, CreateFacts
  <2>8. ASSUME NEW j \in Live PROVE InHand(owner[j])' = j
    <3>1. owner'[j] = owner[j] /\ owner[j] \in Att \ {a}
      BY <1>0, <2>6, <2>7, <2>8
    <3> QED  BY <1>0, <1>1, <2>8, <3>1
  <2> QED  BY <2>5, <2>7, <2>8
<1>3. CASE DeleteIf(a)
  <2>1. InHand(a) = idx[a] /\ MemifDelete(idx[a])
    BY <1>3 DEF DeleteIf, Connected, InHand, Holding
  <2>2. \A j \in Live' : j \in Live /\ j # idx[a] /\ owner'[j] = owner[j]
    <3>1. CASE idx[a] \in Live
      BY <1>0, <2>1, <3>1, DeleteFacts
    <3>2. CASE idx[a] \notin Live
      BY <2>1, <3>2 DEF MemifDelete, vppVars, Live
    <3> QED  BY <3>1, <3>2
  <2> SUFFICES ASSUME NEW j \in Live' PROVE InHand(owner[j])' = j
    OBVIOUS
  <2>3. owner'[j] = owner[j] /\ owner[j] \in Att \ {a}
    BY <1>0, <2>1, <2>2
  <2> QED  BY <1>0, <1>1, <2>2, <2>3
<1>4. CASE ~CreateIf(a) /\ ~DeleteIf(a)
  <2>1. owner' = owner /\ Live' = Live
    BY <1>4, SockSame DEF AddSocket, SocketAdd, DeleteSocket, SocketDel, Live
  <2> SUFFICES ASSUME NEW j \in Live PROVE InHand(owner[j])' = j
    BY <2>1
  <2>2. CASE owner[j] = a
    <3>1. InHand(a)' = InHand(a)
      BY <1>0, <1>4, <2>2, HandNotLost DEF Settled, SerialInv
    <3> QED  BY <1>0, <2>1, <2>2, <3>1
  <2>3. CASE owner[j] # a
    BY <1>0, <1>1, <2>1, <2>3
  <2> QED  BY <2>2, <2>3
<1> QED  BY <1>2, <1>3, <1>4

(* Only memif_create of a master, or its peer, makes a socket file, and a  *)
(* request that ends in success removes it.                                *)
LEMMA SockFileSteps ==
  ASSUME TypeOK, NEW a \in Att, Filling(a), Move(a),
         ~(a \in sockFile /\ phase[a] = "absent" /\ Idle(a))
  PROVE  /\ sockFile' \subseteq sockFile \cup {a} /\ sockFile \ {a} \subseteq sockFile'
         /\ a \in sockFile' => ~(phase'[a] = "absent" /\ pc'[a] = "idle")
<1> USE DEF Goto, Return, AfterNet, AfterLoad, Failed, fileVars, reqVars, Connected, TypeOK, Idle
<1>1. CASE CreateIf(a)
  <2>1. sock[sid[a]] = a /\ pc'[a] = "setUp"
    BY <1>1 DEF CreateIf, Filling
  <2> QED  BY <1>1, <2>1 DEF CreateIf
<1>2. CASE AddStep(a) /\ ~CreateIf(a)
  BY <1>2 DEF AddStep, FindSocket, AddSocket, SetUp, NetStep, FindBridge, AddBridge,
     JoinBridge, AddAddress, StatDir, MakeDir, OpenSaved, WriteSaved
<1>3. CASE DelStep(a)
  BY <1>3 DEF DelStep, LoadSaved, RemoveDir, LeaveBridge, CountBridge, DeleteBridge,
     FindIf, DeleteIf, CountSocket, DeleteSocket, Unlink
<1>4. CASE StartAdd(a) \/ StartDel(a) \/ Fault(a) \/ PeerListens(a)
  BY <1>4 DEF StartAdd, StartDel, Fault, Unnoticed, KeepSaved, MissSaved, KeepDir,
     Abort, BridgeTimeout, PeerListens
<1>5. CASE NoReply(a)
  BY <1>5 DEF NoReply
<1> QED  BY <1>1, <1>2, <1>3, <1>4, <1>5 DEF Move, Step

-----------------------------------------------------------------------------
(* The invariant of a life with one request at a time, where none panics.  *)
LEMMA InitClean == Init => CleanInv
<1> SUFFICES ASSUME Init PROVE CleanInv
  OBVIOUS
<1>1. UsedSock = {} /\ Live = {} /\ sockFile = {}
  BY DEF Init, VppInit, VppEmpty, UsedSock, Live
<1>2. \A a \in Att : Nothing(a)
  BY DEF Init, Nothing, AddPc
<1> QED  BY <1>1, <1>2 DEF CleanInv, Known, OneIdPerFile

LEMMA MoveClean ==
  ASSUME IInv, SerialInv, CleanInv, Serial, NoPanic, NEW a \in Att, Move(a)
  PROVE  CleanInv'
<1>0. /\ HandInv /\ TypeOK /\ Filling(a)
      /\ \A b \in Att : Tidy(b) /\ Nothing(b)
      /\ faults' = 0 => faults = 0 /\ Settled
      /\ restarts' = restarts
  BY EnvSame DEF IInv, NetInv, HandInv, SerialInv, CleanInv, Settled
<1>1. ASSUME NEW b \in Att \ {a} PROVE SameRequest(b)
  BY <1>0, <1>1, OthersSame
<1>2. \A b \in Att : Nothing(b)'
  BY <1>0, <1>1, MoveNothing DEF SameRequest, Nothing, Rejected
<1>3. faults' = 0 => Known' /\ OneIdPerFile'
  BY <1>0, MoveKnown, MoveOneId DEF CleanInv
<1>4. Quiet' => \A i \in Live' : ~Stray(i)'
  <2> SUFFICES ASSUME Quiet' PROVE \A i \in Live' : ~Stray(i)'
    OBVIOUS
  <2>1. faults' = 0 /\ restarts = 0 /\ Quiet /\ Settled
    BY <1>0 DEF Quiet
  <2>2. \A i \in Live' : InHand(owner[i])' = i
    BY <2>1, MoveNoStray DEF CleanInv
  <2> QED  BY <2>2 DEF Stray
<1>5. \A b \in sockFile' : ~(phase'[b] = "absent" /\ pc'[b] = "idle")
  <2>1. /\ sockFile' \subseteq sockFile \cup {a}
        /\ a \in sockFile' => ~(phase'[a] = "absent" /\ pc'[a] = "idle")
    BY <1>0, SockFileSteps DEF CleanInv
  <2>2. ASSUME NEW b \in sockFile, b # a PROVE ~(phase'[b] = "absent" /\ pc'[b] = "idle")
    BY <1>0, <1>1, <2>2 DEF SameRequest, CleanInv, Idle, TypeOK
  <2> QED  BY <2>1, <2>2
<1> QED  BY <1>2, <1>3, <1>4, <1>5 DEF CleanInv, Idle

LEMMA NextClean ==
  ASSUME IInv, SerialInv, CleanInv, Serial, NoPanic, [Next]_vars
  PROVE  CleanInv'
<1>1. CASE VppRestart
  <2>1. UsedSock' = {} /\ restarts' # 0
    BY <1>1, RestartVppTidy DEF VppRestart, VppReset, VppEmpty, UsedSock, IInv
  <2>2. UNCHANGED <<pc, idx, saved, phase, sockFile, kept, faults>>
    BY <1>1 DEF VppRestart, fileVars
  <2> QED  BY <2>1, <2>2 DEF CleanInv, Nothing, Known, OneIdPerFile, Quiet, Idle, Rejected
<1>2. CASE UNCHANGED vars
  BY <1>2 DEF vars, vppVars, reqVars, fileVars, envVars, CleanInv, Nothing, Rejected,
     Known, UsedSock, OnSocket, Live, InHand, OneIdPerFile, Quiet, Stray, Idle
<1> QED  BY <1>1, <1>2, MoveClean DEF Next, Move

(* One request at a time and none that panics, the inductive invariant: a  *)
(* registered socket is about to be filled, is filled or is about to be    *)
(* removed; a file has one id; an interface is known to its attachment.    *)
THEOREM CleanInvariant == Serial /\ NoPanic => (Spec => []CleanInv)
<1> SUFFICES ASSUME Serial, NoPanic PROVE Spec => []CleanInv
  OBVIOUS
<1>1. Init => CleanInv
  BY InitClean
<1>2. IInv /\ SerialInv /\ CleanInv /\ [Next]_vars => CleanInv'
  BY NextClean
<1> QED  BY <1>1, <1>2, Invariant, SerialInvariant, PTL DEF Spec

(* Without faults no file is registered under two socket ids, although     *)
(* findMemifSocket recognises none that is: every DEL has removed the      *)
(* socket of its attachment before the next ADD.                           *)
THEOREM IdsAreUnique == Serial /\ NoPanic => (Spec => []OneIdPerFile)
<1>1. CleanInv => OneIdPerFile
  BY DEF CleanInv, OneIdPerFile
<1> QED  BY <1>1, CleanInvariant, PTL

(* Without faults a DEL that succeeds leaves nothing of its attachment: no *)
(* interface, no registered socket, no socket file and no saved data.      *)
THEOREM DelCleansUp == Serial /\ NoPanic => (Spec => []CleanDelLeavesNothing)
<1>1. ASSUME IInv, CleanInv PROVE CleanDelLeavesNothing
  <2> SUFFICES ASSUME Quiet, NEW a \in Att, phase[a] = "absent", Idle(a)
               PROVE  NothingLeft(a)
    BY DEF CleanDelLeavesNothing, DelLeavesNothing, Quiet
  <2>1. faults = 0 /\ restarts = 0 /\ HandInv /\ TypeOK /\ Tidy(a) /\ Known
    BY <1>1 DEF Quiet, IInv, NetInv, HandInv, CleanInv
  <2>2. saved[a] = NoFile
    BY <2>1 DEF TypeOK, Tidy, Idle, Index
  <2>3. InHand(a) \notin Live
    BY <2>2, VppConstants, HostVppConstants DEF InHand, Idle, Holding, AddPc, Live, Index
  <2>4. \A i \in SwIf : owner[i] # a
    BY <1>1, <2>3, VppConstants DEF CleanInv, Stray, Live
  <2>5. \A s \in SockId : sock[s] # a
    BY <2>1, <2>3, VppConstants DEF Known, UsedSock, Idle
  <2>6. a \notin sockFile
    BY <1>1 DEF CleanInv
  <2> QED  BY <2>2, <2>4, <2>5, <2>6 DEF NothingLeft
<1> QED  BY <1>1, Invariant, CleanInvariant, PTL

-----------------------------------------------------------------------------
(* Requests that can be served.                                            *)

(* Each registered socket is that of another attachment: usedList of       *)
(* findMemifSocket has room for them.                                      *)
LEMMA FewSockets ==
  ASSUME Settled, Known, OneIdPerFile, Served, restarts = 0, NEW a \in Att, pc[a] = "find"
  PROVE  ~(1 + Cardinality(UsedSock) > MaxUsed)
<1>1. InHand(a) \notin Live
  <2>1. saved[a] \notin Index
    BY DEF Settled, Tidy, Idle
  <2> QED  BY <2>1, VppConstants DEF InHand, Holding, AddPc, Live
<1>2. \A s \in UsedSock : sock[s] \in Att \ {a}
  <2> SUFFICES ASSUME NEW s \in UsedSock PROVE sock[s] \in Att \ {a}
    OBVIOUS
  <2>1. sock[s] \in Att
    BY DEF UsedSock, Settled, HandInv, TypeOK, VppTypeOK
  <2>2. sock[s] # a
    BY <1>1 DEF Known
  <2> QED  BY <2>1, <2>2
<1> DEFINE f == [s \in UsedSock |-> sock[s]]
<1>3. f \in Injection(UsedSock, Att \ {a})
  BY <1>2 DEF Injection, IsInjective, OneIdPerFile, Settled
<1>4. IsFiniteSet(Att \ {a}) /\ Cardinality(Att \ {a}) = Cardinality(Att) - 1
  BY FS_RemoveElement DEF Served
<1>5. IsFiniteSet(UsedSock) /\ Cardinality(UsedSock) <= Cardinality(Att \ {a})
  BY <1>3, <1>4, FS_Injection
<1>6. Cardinality(UsedSock) \in Nat /\ Cardinality(Att) \in Nat
  BY <1>5, FS_CardinalityType DEF Served
<1> QED  BY <1>4, <1>5, <1>6, HostVppConstants DEF Served

(* Its own steps leave a request ready, *)
LEMMA MoveReady ==
  ASSUME Settled, Known, OneIdPerFile, Served, restarts = 0, faults' = 0,
         NEW a \in Att, Ready(a), Move(a)
  PROVE  Ready(a)'
<1> SUFFICES ASSUME Servable(a)
             PROVE  /\ phase'[a] \in {"absent", "added"}
                    /\ pc'[a] \in DelPc => phase'[a] = "added"
                    /\ phase'[a] = "added" \/ pc'[a] \in AddPc \ {"find", "addSock", "create"}
                         => a \in sockFile'
  BY DEF Ready, Servable, Rejected
<1>0. /\ pc \in [Att -> {"idle"} \cup AddPc \cup DelPc] /\ phase \in [Att -> Phase]
      /\ phase[a] \in {"absent", "added"}
      /\ pc[a] \in DelPc => phase[a] = "added"
      /\ phase[a] = "added" \/ pc[a] \in AddPc \ {"find", "addSock", "create"}
           => a \in sockFile
      /\ ~Fault(a) /\ lost = {}
      /\ ~Rejected(a) /\ Conf[a].role = "master" /\ Conf[a].ifType = "memif"
      /\ ~(Conf[a].net = "interface" /\ Conf[a].ip = "nil")
      /\ Tidy(a) /\ Filling(a) /\ (pc[a] = "open" => dataDir)
  BY EnvSame DEF Settled, HandInv, TypeOK, VppTidy, SerialInv, Ready, Servable,
     Rejected, Served
<1> HIDE DEF Rejected
<1> USE DEF Goto, Return, AfterNet, AfterLoad, Connected, fileVars, reqVars, Idle
<1>1. CASE FindSocket(a)
  <2>1. ~(1 + Cardinality(UsedSock) > MaxUsed)
    BY <1>1, FewSockets DEF FindSocket
  <2>2. pc'[a] = "addSock" /\ UNCHANGED <<phase, sockFile>>
    BY <1>0, <1>1, <2>1 DEF FindSocket
  <2>3. phase[a] = "absent" \/ a \in sockFile
    BY <1>0
  <2> QED  BY <1>0, <2>2, <2>3 DEF DelPc
<1>2. CASE CreateIf(a)
  <2>1. pc[a] = "create" /\ sock[sid[a]] = a /\ CanCreate(sid[a])
    BY <1>0, <1>2, VppConstants DEF CreateIf, Filling, Tidy, CanCreate, UsedSock
  <2>2. sockFile' = sockFile \cup {a} /\ phase' = phase /\ pc'[a] = "setUp"
    BY <1>0, <1>2, <2>1 DEF CreateIf
  <2> QED  BY <1>0, <2>2 DEF DelPc
<1>3. CASE AddSocket(a) \/ SetUp(a) \/ FindBridge(a) \/ AddBridge(a) \/ JoinBridge(a)
  BY <1>0, <1>3 DEF AddSocket, SetUp, NetStep, FindBridge, AddBridge, JoinBridge,
     AddPc, DelPc
<1>4. CASE AddAddress(a) \/ StatDir(a) \/ MakeDir(a) \/ OpenSaved(a) \/ WriteSaved(a)
  BY <1>0, <1>4 DEF AddAddress, StatDir, MakeDir, OpenSaved, WriteSaved, AddPc, DelPc
<1>5. CASE LoadSaved(a)
  <2>1. saved[a] # Torn
    BY <1>0, <1>5 DEF LoadSaved, Tidy, Settled
  <2> QED  BY <1>0, <1>5, <2>1 DEF LoadSaved, AddPc, DelPc
<1>6. CASE DelStep(a) /\ ~LoadSaved(a)
  BY <1>0, <1>6 DEF DelStep, RemoveDir, LeaveBridge, CountBridge, DeleteBridge, FindIf,
     DeleteIf, CountSocket, DeleteSocket, Unlink, AddPc, DelPc
<1>7. CASE StartAdd(a) \/ StartDel(a) \/ NoReply(a) \/ PeerListens(a)
  BY <1>0, <1>7 DEF StartAdd, StartDel, NoReply, PeerListens, AddPc, DelPc, Served
<1> QED  BY <1>0, <1>1, <1>2, <1>3, <1>4, <1>5, <1>6, <1>7 DEF Move, Step, AddStep

(* and those of others too.                                                *)
LEMMA NextReady ==
  ASSUME IInv, SerialInv, CleanInv, ReadyInv, Serial, Served, [Next]_vars
  PROVE  ReadyInv'
<1>1. ASSUME NEW a \in Att, Move(a), Quiet' PROVE \A b \in Att : Ready(b)'
  <2>1. /\ HandInv /\ TypeOK /\ Quiet /\ faults = 0 /\ faults' = 0 /\ restarts = 0
        /\ Settled /\ Known /\ OneIdPerFile /\ Filling(a) /\ \A b \in Att : Ready(b)
    BY <1>1, EnvSame
       DEF IInv, NetInv, HandInv, SerialInv, CleanInv, Quiet, Settled, Served, ReadyInv
  <2>2. Ready(a)'
    BY <1>1, <2>1, MoveReady
  <2>3. sockFile \ {a} \subseteq sockFile'
    BY <1>1, <2>1, SockFileSteps DEF CleanInv
  <2>4. ASSUME NEW b \in Att, b # a PROVE Ready(b)'
    <3>1. SameRequest(b)
      BY <1>1, <2>1, <2>4, OthersSame
    <3> QED  BY <2>1, <2>3, <2>4, <3>1 DEF Ready, SameRequest, Servable, Rejected
  <2> QED  BY <2>2, <2>4
<1>2. CASE VppRestart
  <2>1. ~Quiet'
    BY <1>2, RestartVppTidy DEF Quiet, IInv
  <2> QED  BY <2>1 DEF ReadyInv
<1>3. CASE UNCHANGED vars
  BY <1>3 DEF vars, vppVars, reqVars, fileVars, envVars, ReadyInv, Quiet, Ready, Servable,
     Rejected
<1> QED  BY <1>1, <1>2, <1>3 DEF Next, Move, ReadyInv

LEMMA ReadyInvariant == Serial /\ Served => (Spec => []ReadyInv)
<1> SUFFICES ASSUME Serial, Served PROVE Spec => []ReadyInv
  OBVIOUS
<1>1. Serial /\ NoPanic
  BY DEF Served
<1>2. Init => ReadyInv
  BY DEF Init, ReadyInv, Ready, AddPc, DelPc
<1>3. IInv /\ SerialInv /\ CleanInv /\ ReadyInv /\ [Next]_vars => ReadyInv'
  BY NextReady
<1> QED  BY <1>1, <1>2, <1>3, Invariant, SerialInvariant, CleanInvariant, PTL DEF Spec

(* One request at a time and without faults, a request that can be served  *)
(* succeeds: the twenty ids of findMemifSocket are enough for as many      *)
(* attachments, the directory is there for the saved data, and the socket  *)
(* file for the DEL to remove.                                             *)
THEOREM ServableIsServed == Serial /\ Served => (Spec => []ServableSucceeds)
<1>1. ReadyInv => ServableSucceeds
  BY DEF ReadyInv, Ready, Quiet, ServableSucceeds
<1> QED  BY <1>1, ReadyInvariant, PTL

(* All that a life with one request at a time rests on, in one invariant.  *)
THEOREM AloneInvariant == Serial => (Spec => []AloneInv)
<1> SUFFICES ASSUME Serial PROVE Spec => []AloneInv
  OBVIOUS
<1>1. Spec => [](NoPanic => CleanInv)
  <2>1. CASE NoPanic
    BY <2>1, CleanInvariant, PTL
  <2>2. CASE ~NoPanic
    <3>1. NoPanic => CleanInv
      BY <2>2
    <3> QED  BY <3>1, PTL
  <2> QED  BY <2>1, <2>2
<1>2. Spec => [](Served => ReadyInv)
  <2>1. CASE Served
    BY <2>1, ReadyInvariant, PTL
  <2>2. CASE ~Served
    <3>1. Served => ReadyInv
      BY <2>2
    <3> QED  BY <3>1, PTL
  <2> QED  BY <2>1, <2>2
<1>3. SerialInv /\ PromiseInv /\ (NoPanic => CleanInv) /\ (Served => ReadyInv) => AloneInv
  BY DEF AloneInv
<1> QED  BY <1>1, <1>2, <1>3, SerialInvariant, PromiseInvariant, PTL
=============================================================================
