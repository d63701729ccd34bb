------------------------- MODULE HostVppSerialProofs -------------------------
(***************************************************************************)
(* Proofs about HostVpp when the runtime sends one request at a time: what *)
(* concurrency breaks (the runs found_* show it) holds then, for any       *)
(* number of attachments and any configuration.                            *)
(***************************************************************************)
EXTENDS HostVppNetProofs, FiniteSetTheorems

-----------------------------------------------------------------------------
(* One request at a time.                                                  *)

(* A request starts when no other is under way. *)
LEMMA StartsAlone ==
  ASSUME Serial, Alone, NEW a \in Att, StartAdd(a) \/ StartDel(a)
  PROVE  Running = {}
<1>1. Cardinality(Running) < MaxParallel
  BY DEF StartAdd, StartDel
<1>2. SUFFICES ASSUME NEW b \in Running PROVE FALSE
  OBVIOUS
<1>3. Running = {b}
  BY <1>2 DEF Alone, Running
<1>4. Cardinality(Running) = 1
  BY <1>3, FS_Singleton
<1>5. MaxParallel \in Nat
  BY HostVppConstants
<1> QED  BY <1>1, <1>4, <1>5 DEF Serial

(* Whoever takes a step is alone; only the peer of the container also acts *)
(* beside a request.                                                       *)
LEMMA OthersIdle ==
  ASSUME TypeOK, Serial, Alone, LostAlone, NEW a \in Att, Move(a), ~PeerListens(a),
         NEW b \in Att, b # a
  PROVE  pc[b] = "idle" /\ b \notin lost
<1>1. Idle(b)
  <2>1. CASE StartAdd(a) \/ StartDel(a)
    BY <2>1, StartsAlone DEF Running
  <2>2. CASE AddStep(a)
    <3>1. ~Idle(a)
      BY <2>2 DEF AddStep, FindSocket, AddSocket, CreateIf, SetUp, FindBridge, AddBridge,
         JoinBridge, AddAddress, StatDir, MakeDir, OpenSaved, WriteSaved, Connected, Idle
    <3> QED  BY <3>1 DEF Alone
  <2>3. CASE DelStep(a)
    <3>1. ~Idle(a)
      BY <2>3 DEF DelStep, LoadSaved, RemoveDir, LeaveBridge, CountBridge, DeleteBridge,
         FindIf, DeleteIf, CountSocket, DeleteSocket, Unlink, Connected, Idle
    <3> QED  BY <3>1 DEF Alone
  <2>4. CASE NoReply(a) \/ Fault(a)
    <3>1. ~Idle(a)
      BY <2>4 DEF NoReply, Local, Fault, Unnoticed, KeepSaved, MissSaved, KeepDir,
         Abort, BridgeTimeout, Idle
    <3> QED  BY <3>1 DEF Alone
  <2> QED  BY <2>1, <2>2, <2>3, <2>4 DEF Move, Step
<1> QED  BY <1>1 DEF Idle, LostAlone, Running

(* So it stays.                                                            *)
LEMMA MoveAlone ==
  ASSUME TypeOK, Serial, Alone, LostAlone, NEW a \in Att, Move(a)
  PROVE  Alone'
<1>1. CASE PeerListens(a)
  BY <1>1 DEF PeerListens, reqVars, Alone, Idle
<1>2. CASE ~PeerListens(a)
  <2>1. \A b \in Att \ {a} : pc'[b] = "idle"
    BY <1>2, OthersIdle, OthersSame DEF SameRequest
  <2> QED  BY <2>1 DEF Alone, Idle
<1> QED  BY <1>1, <1>2

(* A request without a connection sends nothing to VPP, and its connection *)
(* is forgotten when it ends.                                              *)
LEMMA LostSilent ==
  ASSUME TypeOK, NEW a \in Att, Move(a), a \in lost
  PROVE  UNCHANGED vppVars
  BY DEF Move, Step, AddStep, FindSocket, AddSocket, CreateIf, SetUp, FindBridge,
     AddBridge, JoinBridge, AddAddress, StatDir, MakeDir, OpenSaved, WriteSaved,
     DelStep, LoadSaved, RemoveDir, LeaveBridge, CountBridge, DeleteBridge, FindIf,
     DeleteIf, CountSocket, AfterLoad, DeleteSocket, Unlink, StartAdd, StartDel,
     NoReply, Fault, Unnoticed, KeepSaved, MissSaved, KeepDir, Abort, BridgeTimeout,
     PeerListens, Connected

(* A request that ends has lost nothing.                                   *)
LEMMA EndedNotLost ==
  ASSUME TypeOK, NEW a \in Att, Move(a), a \in lost'
  PROVE  pc'[a] # "idle" \/ UNCHANGED <<pc, lost>>
<1> USE DEF Goto, Return, AfterNet, AfterLoad, TypeOK
<1>1. CASE AddStep(a)
  BY <1>1 DEF AddStep, FindSocket, AddSocket, CreateIf, SetUp, NetStep, FindBridge,
     AddBridge, JoinBridge, AddAddress, StatDir, MakeDir, OpenSaved, WriteSaved
<1>2. CASE DelStep(a)
  BY <1>2 DEF DelStep, LoadSaved, RemoveDir, LeaveBridge, CountBridge, DeleteBridge,
     FindIf, DeleteIf, CountSocket, DeleteSocket, Unlink
<1>3. CASE StartAdd(a) \/ StartDel(a) \/ NoReply(a) \/ Fault(a) \/ PeerListens(a)
  BY <1>3 DEF StartAdd, StartDel, NoReply, Fault, Unnoticed, KeepSaved, MissSaved,
     KeepDir, Abort, BridgeTimeout, PeerListens, reqVars
<1> QED  BY <1>1, <1>2, <1>3 DEF Move, Step

(* VPP stays empty for the request that lost it.                           *)
LEMMA MoveLost ==
  ASSUME TypeOK, Serial, Alone, LostAlone, NEW a \in Att, Move(a)
  PROVE  LostAlone'
<1>1. lost' \subseteq lost
  BY EnvSame
<1>2. CASE PeerListens(a)
  BY <1>2 DEF PeerListens, reqVars, vppVars, LostAlone, Running, Idle, UsedSock, Live
<1>3. CASE ~PeerListens(a)
  <2>1. lost' \subseteq {a}
    BY <1>1, <1>3, OthersIdle DEF TypeOK
  <2>2. lost' \subseteq Running'
    BY <1>1, <2>1, EndedNotLost DEF Running, Idle, LostAlone
  <2>3. ASSUME lost' # {} PROVE UsedSock' = {} /\ Live' = {}
    <3>1. a \in lost
      BY <1>1, <2>1, <2>3
    <3> QED  BY <3>1, LostSilent DEF LostAlone, vppVars, UsedSock, Live
  <2> QED  BY <2>2, <2>3 DEF LostAlone
<1> QED  BY <1>2, <1>3

-----------------------------------------------------------------------------
(* Sockets.                                                                *)

(* A memif_create that is served gives a new interface to a free socket.   *)
LEMMA CreateFacts ==
  ASSUME TypeOK, NEW a \in Att, NEW i \in SwIf, MemifCreate(i, a, sid[a])
  PROVE  /\ sid[a] \in SockId /\ OnSocket(sid[a]) = {}
         /\ Live' = Live \cup {i} /\ i \notin Live
         /\ owner'[i] = a /\ ifSock'[i] = sid[a]
         /\ \A j \in Live : owner'[j] = owner[j] /\ ifSock'[j] = ifSock[j]
         /\ UNCHANGED <<sock, member, bds, up, addr>>
<1>1. /\ owner' = [owner EXCEPT ![i] = a] /\ ifSock' = [ifSock EXCEPT ![i] = sid[a]]
      /\ owner[i] = NoAtt /\ CanCreate(sid[a]) /\ UNCHANGED <<sock, member, bds, up, addr>>
      /\ owner \in [SwIf -> Att \cup {NoAtt}] /\ ifSock \in [SwIf -> SockId \cup {0}]
  BY DEF MemifCreate, TypeOK, VppTypeOK
<1>2. a # NoAtt
  BY VppConstants
<1> QED  BY <1>1, <1>2 DEF CanCreate, UsedSock, Live

(* A memif_delete that is served takes one interface.                      *)
LEMMA DeleteFacts ==
  ASSUME TypeOK, NEW i \in Live, MemifDelete(i)
  PROVE  /\ Live' = Live \ {i}
         /\ \A j \in Live \ {i} : owner'[j] = owner[j] /\ ifSock'[j] = ifSock[j]
         /\ UNCHANGED <<sock, bds>>
  BY DEF MemifDelete, Live, TypeOK, VppTypeOK

(* No step but these two and those on sockets changes sockets or owners.   *)
LEMMA SockSame ==
  ASSUME NEW a \in Att, Move(a), ~AddSocket(a), ~CreateIf(a), ~DeleteIf(a), ~DeleteSocket(a)
  PROVE  UNCHANGED <<sock, owner, ifSock>>
<1> USE DEF vppVars
<1>1. CASE AddStep(a)
  BY <1>1 DEF AddStep, FindSocket, SetUp, IfUp, FindBridge, AddBridge, BdAddMsg,
     JoinBridge, JoinMsg, AddAddress, IfAddr, StatDir, MakeDir, OpenSaved, WriteSaved
<1>2. CASE DelStep(a)
  BY <1>2 DEF DelStep, LoadSaved, RemoveDir, LeaveBridge, LeaveMsg, CountBridge,
     DeleteBridge, BdDelMsg, FindIf, CountSocket, Unlink
<1>3. CASE StartAdd(a) \/ StartDel(a) \/ NoReply(a) \/ Fault(a) \/ PeerListens(a)
  BY <1>3 DEF StartAdd, StartDel, NoReply, Fault, Unnoticed, KeepSaved, MissSaved,
     KeepDir, Abort, BridgeTimeout, PeerListens
<1> QED  BY <1>1, <1>2, <1>3 DEF Move, Step

(* No two interfaces share a socket, and each is on a socket of the file   *)
(* of its attachment.                                                      *)
LEMMA MoveSockets ==
  ASSUME TypeOK, VppTidy, OneIf, OwnSocket, NEW a \in Att, Filling(a), Move(a)
  PROVE  OneIf' /\ OwnSocket'
<1>0. /\ sock \in [SockId -> Att \cup {NoAtt}]
      /\ \A i \in Live : ifSock[i] \in SockId /\ owner[i] \in Att /\ owner[i] # NoAtt
  BY DEF TypeOK, VppTypeOK, VppTidy, Live
<1>1. CASE AddSocket(a)
  <2>1. UNCHANGED <<owner, ifSock>> /\ Live' = Live
    BY <1>1 DEF AddSocket, SocketAdd, Live
  <2>2. \A i \in Live : sock'[ifSock[i]] = sock[ifSock[i]]
    BY <1>0, <1>1 DEF AddSocket, SocketAdd, OwnSocket
  <2> QED  BY <2>1, <2>2 DEF OneIf, OwnSocket
<1>2. CASE CreateIf(a)
  <2>1. CASE UNCHANGED vppVars
    BY <2>1 DEF vppVars, OneIf, OwnSocket, Live
  <2>2. CASE ~UNCHANGED vppVars
    <3>1. PICK i \in SwIf : MemifCreate(i, a, sid[a])
      BY <1>2, <2>2 DEF CreateIf
    <3>2. sock[sid[a]] = a
      BY <1>2 DEF CreateIf, Connected, Filling
    <3>3. \A j \in Live : ifSock[j] # sid[a]
      BY <3>1, CreateFacts DEF OnSocket
    <3> QED  BY <3>1, <3>2, <3>3, CreateFacts DEF OneIf, OwnSocket
  <2> QED  BY <2>1, <2>2
<1>3. CASE DeleteIf(a)
  <2>1. CASE idx[a] \in Live
    BY <1>3, <2>1, DeleteFacts DEF DeleteIf, OneIf, OwnSocket
  <2>2. CASE idx[a] \notin Live
    BY <1>3, <2>2 DEF DeleteIf, MemifDelete, vppVars, OneIf, OwnSocket, Live
  <2> QED  BY <2>1, <2>2
<1>4. CASE DeleteSocket(a)
  <2>1. UNCHANGED <<owner, ifSock>> /\ Live' = Live
    BY <1>4 DEF DeleteSocket, SocketDel, Live
  <2>2. \A i \in Live : sock'[ifSock[i]] = sock[ifSock[i]]
    BY <1>0, <1>4 DEF DeleteSocket, SocketDel, OnSocket
  <2> QED  BY <2>1, <2>2 DEF OneIf, OwnSocket
<1>5. CASE ~AddSocket(a) /\ ~CreateIf(a) /\ ~DeleteIf(a) /\ ~DeleteSocket(a)
  BY <1>5, SockSame DEF OneIf, OwnSocket, Live
<1> QED  BY <1>1, <1>2, <1>3, <1>4, <1>5

(* Three steps lead to those that Filling is about.                        *)
LEMMA FillingSteps ==
  ASSUME TypeOK, NEW a \in Att, Move(a)
  PROVE  pc'[a] \in {"addSock", "create", "memDel"} =>
           \/ UNCHANGED <<pc, sid, idx, lost, vppVars>>
           \/ FindSocket(a) \/ AddSocket(a) \/ FindIf(a)
<1> USE DEF Goto, Return, AfterNet, AfterLoad, TypeOK
<1>1. CASE AddStep(a)
  BY <1>1 DEF AddStep, FindSocket, AddSocket, CreateIf, SetUp, NetStep, FindBridge,
     AddBridge, JoinBridge, AddAddress, StatDir, MakeDir, OpenSaved, WriteSaved
<1>2. CASE DelStep(a)
  BY <1>2 DEF DelStep, LoadSaved, RemoveDir, LeaveBridge, CountBridge, DeleteBridge,
     FindIf, DeleteIf, CountSocket, DeleteSocket, Unlink
<1>3. CASE StartAdd(a) \/ StartDel(a) \/ NoReply(a) \/ Fault(a) \/ PeerListens(a)
  BY <1>3 DEF StartAdd, StartDel, NoReply, Fault, Unnoticed, KeepSaved, MissSaved,
     KeepDir, Abort, BridgeTimeout, PeerListens, reqVars
<1> QED  BY <1>1, <1>2, <1>3 DEF Move, Step

(* The socket id that an ADD chooses stays its own.                        *)
LEMMA MoveFilling ==
  ASSUME TypeOK, VppTidy, OwnSocket, Serial, Alone, LostAlone, NEW a \in Att, Move(a),
         \A b \in Att : Filling(b) /\ Tidy(b)
  PROVE  \A b \in Att : Filling(b)'
<1>1. CASE PeerListens(a)
  BY <1>1 DEF PeerListens, reqVars, vppVars, Filling, UsedSock, OnSocket, Live
<1>2. ASSUME ~PeerListens(a), NEW b \in Att, b # a PROVE Filling(b)'
  <2>1. pc'[b] = "idle"
    BY <1>2, OthersIdle, OthersSame DEF SameRequest
  <2> QED  BY <2>1 DEF Filling
<1>3. ASSUME FindSocket(a) PROVE Filling(a)'
  <2>1. pc'[a] \in {"idle", "addSock"} /\ UNCHANGED vppVars
    BY <1>3 DEF FindSocket, Goto, Return, TypeOK
  <2>2. pc'[a] = "addSock" => sid'[a] \notin UsedSock
    BY <1>3 DEF FindSocket, Goto, Return, TypeOK, IsNextSock
  <2> QED  BY <2>1, <2>2 DEF Filling, vppVars, UsedSock
<1>4. ASSUME AddSocket(a) PROVE Filling(a)'
  <2>1. /\ pc[a] = "addSock" /\ a \notin lost /\ pc'[a] = "create"
        /\ UNCHANGED <<sid, owner, ifSock>>
    BY <1>4 DEF AddSocket, SocketAdd, Goto, Connected, TypeOK
  <2>2. sid[a] \notin UsedSock
    BY <2>1 DEF Filling
  <2>3. sock \in [SockId -> Att \cup {NoAtt}]
    BY DEF TypeOK, VppTypeOK
  <2>4. sid[a] \in SockId
    BY <2>1 DEF Tidy
  <2>5. sock'[sid[a]] = a
    BY <1>4, <2>2, <2>3, <2>4 DEF AddSocket, SocketAdd, UsedSock
  <2>6. OnSocket(sid[a]) = {}
    BY <2>2, <2>4 DEF OnSocket, OwnSocket, UsedSock, Live
  <2> QED  BY <2>1, <2>5, <2>6 DEF Filling, OnSocket, Live
<1>5. ASSUME FindIf(a) PROVE Filling(a)'
  <2>1. /\ pc'[a] = "memDel" /\ UNCHANGED <<idx, vppVars>>
        /\ sid'[a] = IF idx[a] \in Live THEN ifSock[idx[a]] ELSE 0
    BY <1>5 DEF FindIf, Goto, TypeOK
  <2> QED  BY <2>1 DEF Filling, vppVars, Live
<1>6. ASSUME ~FindSocket(a), ~AddSocket(a), ~FindIf(a) PROVE Filling(a)'
  <2>1. pc'[a] \in {"addSock", "create", "memDel"}
          => UNCHANGED <<pc, sid, idx, lost, vppVars>>
    BY <1>6, FillingSteps
  <2> QED  BY <2>1 DEF Filling, vppVars, UsedSock, OnSocket, Live
<1> QED  BY <1>1, <1>2, <1>3, <1>4, <1>5, <1>6

(* The directory is there when a file is opened in it.                     *)
LEMMA MoveDir ==
  ASSUME TypeOK, Serial, Alone, LostAlone, NEW a \in Att, Move(a),
         \A b \in Att : pc[b] = "open" => dataDir
  PROVE  \A b \in Att : pc'[b] = "open" => dataDir'
<1>1. CASE PeerListens(a)
  BY <1>1 DEF PeerListens, reqVars
<1>2. ASSUME ~PeerListens(a), NEW b \in Att, b # a PROVE pc'[b] # "open"
  BY <1>2, OthersIdle, OthersSame DEF SameRequest
<1>3. ASSUME ~PeerListens(a), pc'[a] = "open" PROVE dataDir'
  <2> USE DEF Goto, Return, AfterNet, AfterLoad, TypeOK
  <2>1. CASE AddStep(a)
    BY <1>3, <2>1 DEF AddStep, FindSocket, AddSocket, CreateIf, SetUp, NetStep,
       FindBridge, AddBridge, JoinBridge, AddAddress, StatDir, MakeDir, OpenSaved,
       WriteSaved, fileVars
  <2>2. CASE DelStep(a)
    BY <1>3, <2>2 DEF DelStep, LoadSaved, RemoveDir, LeaveBridge, CountBridge,
       DeleteBridge, FindIf, DeleteIf, CountSocket, DeleteSocket, Unlink
  <2>3. CASE StartAdd(a) \/ StartDel(a) \/ NoReply(a) \/ Fault(a)
    BY <1>3, <2>3 DEF StartAdd, StartDel, NoReply, Fault, Unnoticed, KeepSaved,
       MissSaved, KeepDir, Abort, BridgeTimeout
  <2> QED  BY <1>3, <2>1, <2>2, <2>3 DEF Move, Step
<1> QED  BY <1>1, <1>2, <1>3

-----------------------------------------------------------------------------
(* What an ADD has made.                                                   *)

(* A bridge with members is not deleted.                                   *)
LEMMA BridgeKept ==
  ASSUME NEW a \in Att, Move(a), NEW b \in bds, Members(b) # {}
  PROVE  b \in bds'
<1> USE DEF vppVars
<1>1. CASE AddStep(a)
  BY <1>1 DEF AddStep, FindSocket, AddSocket, SocketAdd, CreateIf, MemifCreate, SetUp,
     IfUp, FindBridge, AddBridge, BdAddMsg, JoinBridge, JoinMsg, AddAddress, IfAddr,
     StatDir, MakeDir, OpenSaved, WriteSaved
<1>2. CASE DelStep(a)
  BY <1>2 DEF DelStep, LoadSaved, RemoveDir, LeaveBridge, LeaveMsg, CountBridge,
     DeleteBridge, BdDelMsg, FindIf, DeleteIf, MemifDelete, CountSocket, DeleteSocket,
     SocketDel, Unlink
<1>3. CASE StartAdd(a) \/ StartDel(a) \/ NoReply(a) \/ Fault(a) \/ PeerListens(a)
  BY <1>3 DEF StartAdd, StartDel, NoReply, Fault, Unnoticed, KeepSaved, MissSaved,
     KeepDir, Abort, BridgeTimeout, PeerListens
<1> QED  BY <1>1, <1>2, <1>3 DEF Move, Step

(* A step of a leaves what another attachment has as it is.                *)
LEMMA OthersWiring ==
  ASSUME HandInv, Serial, Alone, LostAlone, NEW a \in Att, Move(a), NEW b \in Att, b # a,
         Wiring(b), Trusted
  PROVE  Wiring(b)'
<1> DEFINE i == InHand(b)
<1>0. SameRequest(b) /\ InHand(b)' = i
  BY OthersSame, OthersLeave DEF HandInv
<1>1. i \in Live => i \in Live' /\ SameIf(i)
  BY OthersIf DEF Live, SameIf
<1>2. pc[b] = "idle" \/ UNCHANGED vppVars
  BY OthersIdle DEF PeerListens, HandInv
<1>3. ASSUME i \in Live, member[i] = Conf[b].bd, Conf[b].bd \in bds
      PROVE  member'[i] = Conf[b].bd /\ Conf[b].bd \in bds'
  <2>1. i \in Members(Conf[b].bd)
    BY <1>3 DEF Members, Live
  <2> QED  BY <1>1, <1>3, <2>1, BridgeKept DEF SameIf
<1>4. pc'[b] = "bdJoin" => Conf[b].bd \in bds'
  BY <1>0, <1>2 DEF SameRequest, Wiring, vppVars
<1>5. /\ \A S : Reached(b, S)' <=> Reached(b, S)
      /\ Reached(b, {"stat", "mkdir", "open", "write"})
           => Reached(b, AddPc \ {"find", "addSock", "create", "setUp"})
      /\ Reached(b, AddPc \ {"find", "addSock", "create", "setUp"})
           => Reached(b, AddPc \ {"find", "addSock", "create"})
  BY <1>0 DEF SameRequest, Reached, Idle, AddPc
<1>6. Reached(b, AddPc \ {"find", "addSock", "create"}) => i \in Live
  BY DEF Wiring
<1>7. Reached(b, AddPc \ {"find", "addSock", "create", "setUp"}) => i \in up'
  BY <1>1, <1>5, <1>6 DEF Wiring, SameIf
<1>8. Reached(b, {"stat", "mkdir", "open", "write"}) =>
        /\ Conf[b].net = "bridge" => member'[i] = Conf[b].bd /\ Conf[b].bd \in bds'
        /\ Conf[b].net = "interface" /\ Conf[b].ip = "some" => i \in addr'
  BY <1>1, <1>3, <1>5, <1>6 DEF Wiring, SameIf
<1> QED  BY <1>0, <1>1, <1>4, <1>5, <1>6, <1>7, <1>8 DEF Wiring

(* Every step of ADD adds its part.                                        *)
LEMMA AddWiring ==
  ASSUME HandInv, VppTidy, OwnSocket, NEW a \in Att, Tidy(a), Filling(a), Wiring(a),
         AddStep(a), pc[a] = "open" => dataDir, Trusted
  PROVE  Wiring(a)'
<1> DEFINE i == idx[a]
<1> USE DEF Connected, Goto, Return, vppVars
<1>0. /\ pc \in [Att -> {"idle"} \cup AddPc \cup DelPc]
      /\ idx \in [Att -> Index] /\ phase \in [Att -> Phase]
      /\ saved \in [Att -> Index \cup {NoFile, Torn}]
      /\ member \in [SwIf \cup {Local0} -> Bd \cup {NoBd}]
      /\ lost = {} /\ (pc[a] = "write" => a \notin kept)
  BY DEF HandInv, TypeOK, VppTypeOK, VppTidy, Trusted, LeftBehind
<1>1. CASE FindSocket(a) \/ AddSocket(a)
  <2>1. ~Reached(a, AddPc \ {"find", "addSock", "create"})'
    BY <1>0, <1>1 DEF FindSocket, AddSocket, Reached, AddPc, Idle
  <2> QED  BY <2>1 DEF Wiring, Reached, AddPc
<1>2. CASE CreateIf(a)
  <2>1. sock[sid[a]] = a /\ OnSocket(sid[a]) = {} /\ pc[a] = "create" /\ sid[a] \in SockId
    BY <1>0, <1>2 DEF CreateIf, Filling, Tidy
  <2>2. CanCreate(sid[a])
    BY <2>1, VppConstants DEF CanCreate, UsedSock
  <2>3. PICK j \in SwIf : MemifCreate(j, a, sid[a]) /\ idx' = [idx EXCEPT ![a] = j]
    BY <1>2, <2>2 DEF CreateIf
  <2>4. j \in Live' /\ idx'[a] = j /\ pc'[a] = "setUp"
    BY <1>0, <1>2, <2>3, CreateFacts DEF CreateIf, HandInv
  <2>5. InHand(a)' = j
    BY <2>4 DEF InHand, Holding, AddPc
  <2> QED  BY <2>4, <2>5 DEF Wiring, Reached, Idle
<1>3. CASE pc[a] \notin {"find", "addSock", "create"}
  <2>0. pc[a] \in AddPc \ {"find", "addSock", "create"}
    BY <1>3 DEF AddStep, FindSocket, AddSocket, CreateIf, SetUp, FindBridge, AddBridge,
       JoinBridge, AddAddress, StatDir, MakeDir, OpenSaved, WriteSaved, AddPc
  <2>1. InHand(a) = i /\ i \in Live /\ i \in SwIf /\ i \in Index
    BY <2>0 DEF InHand, Holding, Wiring, Reached, Live, Index
  <2>2. \/ pc'[a] \in Holding /\ idx'[a] = i /\ pc'[a] # "idle"
        \/ WriteSaved(a) \/ (pc'[a] = "idle" /\ phase'[a] = "addFailed")
    BY <1>0, <1>3, <2>0
       DEF AddStep, FindSocket, AddSocket, CreateIf, SetUp, NetStep, FindBridge,
       AddBridge, JoinBridge, AddAddress, StatDir, MakeDir, OpenSaved, WriteSaved,
       Holding, AddPc
  <2>3. CASE pc'[a] = "idle" /\ phase'[a] = "addFailed"
    BY <2>3 DEF Wiring, Reached, AddPc, Idle
  <2>4. CASE WriteSaved(a)
    <3>1. /\ saved'[a] = i /\ pc'[a] = "idle" /\ UNCHANGED vppVars
          /\ pc[a] = "write" /\ a \notin kept'
      BY <1>0, <2>4 DEF WriteSaved, envVars
    <3>2. InHand(a)' = i
      BY <2>1, <3>1 DEF InHand, Holding, AddPc
    <3> QED  BY <2>1, <3>1, <3>2 DEF Wiring, Reached, AddPc, Live
  <2>5. CASE pc'[a] \in Holding /\ idx'[a] = i /\ pc'[a] # "idle"
    <3>1. InHand(a)' = i
      BY <2>5 DEF InHand
    <3>2. UNCHANGED owner /\ i \in Live'
      BY <1>3, <2>1 DEF AddStep, FindSocket, AddSocket, CreateIf, SetUp, IfUp, FindBridge,
         AddBridge, BdAddMsg, JoinBridge, JoinMsg, AddAddress, IfAddr, StatDir, MakeDir,
         OpenSaved, WriteSaved, Live
    <3>3. ~Idle(a)'
      BY <2>5 DEF Idle
    <3>4. CASE SetUp(a)
      <4>1. i \in up' /\ pc'[a] = NetStep(a)
        BY <1>0, <2>1, <2>5, <3>4 DEF SetUp, IfUp
      <4>2. /\ pc'[a] # "bdJoin"
            /\ pc'[a] \in {"stat", "mkdir", "open", "write"} =>
                 /\ Conf[a].net # "bridge"
                 /\ ~(Conf[a].net = "interface" /\ Conf[a].ip = "some")
        BY <4>1 DEF NetStep
      <4> QED  BY <3>1, <3>2, <3>3, <4>1, <4>2 DEF Wiring, Reached
    <3>5. CASE FindBridge(a) \/ AddBridge(a)
      <4>1. /\ pc'[a] \in {"bdAdd", "bdJoin"} /\ UNCHANGED up
            /\ pc'[a] = "bdJoin" => Conf[a].bd \in bds'
            /\ pc[a] \in {"bdFind", "bdAdd"}
        BY <1>0, <3>5 DEF FindBridge, AddBridge, BdAddMsg
      <4>2. i \in up
        BY <2>1, <4>1 DEF Wiring, Reached, AddPc
      <4> QED  BY <3>1, <3>2, <3>3, <4>1, <4>2 DEF Wiring, Reached
    <3>6. CASE JoinBridge(a)
      <4>1. pc[a] = "bdJoin" /\ pc'[a] = "stat"
        BY <1>0, <3>6 DEF JoinBridge
      <4>2. i \in up /\ Conf[a].bd \in bds /\ Conf[a].net = "bridge"
        BY <2>1, <4>1 DEF Wiring, Reached, AddPc, Tidy
      <4>3. UNCHANGED up /\ member'[i] = Conf[a].bd /\ Conf[a].bd \in bds'
        BY <1>0, <2>1, <3>6, <4>2 DEF JoinBridge, JoinMsg
      <4> QED  BY <3>1, <3>2, <3>3, <4>1, <4>2, <4>3 DEF Wiring, Reached
    <3>7. CASE AddAddress(a)
      <4>1. pc[a] = "addIp" /\ pc'[a] = "stat" /\ UNCHANGED up /\ i \in addr'
        BY <1>0, <2>1, <3>7 DEF AddAddress, IfAddr
      <4>2. i \in up /\ Conf[a].net = "interface"
        BY <2>1, <4>1 DEF Wiring, Reached, AddPc, Tidy
      <4> QED  BY <3>1, <3>2, <3>3, <4>1, <4>2 DEF Wiring, Reached
    <3>8. CASE StatDir(a) \/ MakeDir(a) \/ OpenSaved(a)
      <4>1. UNCHANGED vppVars /\ pc[a] \in {"stat", "mkdir", "open"} /\ pc'[a] # "bdJoin"
        BY <1>0, <2>5, <3>8 DEF StatDir, MakeDir, OpenSaved
      <4> QED  BY <2>1, <3>1, <3>2, <3>3, <4>1 DEF Wiring, Reached, AddPc
    <3> QED  BY <1>3, <2>4, <3>4, <3>5, <3>6, <3>7, <3>8
             DEF AddStep, FindSocket, AddSocket, CreateIf
  <2> QED  BY <2>2, <2>3, <2>4, <2>5
<1> QED  BY <1>1, <1>2, <1>3 DEF AddStep, SetUp, FindBridge, AddBridge, JoinBridge,
            AddAddress, StatDir, MakeDir, OpenSaved, WriteSaved

(* No other step adds or takes away.                                       *)
LEMMA MoveWiring ==
  ASSUME HandInv, VppTidy, OwnSocket, NEW a \in Att, Tidy(a), Filling(a), Wiring(a),
         Move(a), pc[a] = "open" => dataDir, Trusted
  PROVE  Wiring(a)'
<1> USE DEF Connected, Goto, Return, AfterNet, AfterLoad
<1>0. /\ pc \in [Att -> {"idle"} \cup AddPc \cup DelPc]
      /\ idx \in [Att -> Index] /\ phase \in [Att -> Phase]
      /\ lost = {}
  BY DEF HandInv, TypeOK, VppTidy, Trusted
<1>1. CASE AddStep(a)
  BY <1>1, AddWiring
<1>2. CASE DelStep(a) \/ StartAdd(a) \/ StartDel(a) \/ Abort(a) \/ Unnoticed(a)
  <2>1. /\ pc'[a] \notin AddPc \ {"find", "addSock", "create"}
        /\ pc'[a] = "idle" => phase'[a] # "added"
    BY <1>0, <1>2 DEF DelStep, LoadSaved, RemoveDir, LeaveBridge, CountBridge,
       DeleteBridge, FindIf, DeleteIf, CountSocket, DeleteSocket, Unlink, StartAdd,
       StartDel, Abort, Unnoticed, KeepSaved, MissSaved, KeepDir, Failed, AddPc
  <2> QED  BY <2>1 DEF Wiring, Reached, AddPc, Idle
<1>3. CASE BridgeTimeout(a)
  <2>1. CASE pc[a] = "bdFind"
    <3>1. pc'[a] = "bdAdd" /\ UNCHANGED <<idx, vppVars>>
      BY <1>0, <1>3, <2>1 DEF BridgeTimeout
    <3> QED  BY <2>1, <3>1 DEF Wiring, Reached, Idle, InHand, Holding, AddPc, vppVars,
                Live
  <2>2. CASE pc[a] = "bdCount"
    <3>1. pc'[a] = "memFind" \/ (pc'[a] = "idle" /\ phase'[a] # "added")
      BY <1>0, <1>3, <2>2 DEF BridgeTimeout
    <3> QED  BY <3>1 DEF Wiring, Reached, AddPc, Idle
  <2> QED  BY <1>3, <2>1, <2>2 DEF BridgeTimeout
<1>4. CASE NoReply(a)
  BY <1>0, <1>4 DEF NoReply
<1>5. CASE PeerListens(a)
  BY <1>5 DEF PeerListens, reqVars, vppVars, fileVars, envVars, Wiring, Reached, Idle,
     InHand, Live
<1> QED  BY <1>1, <1>2, <1>3, <1>4, <1>5 DEF Move, Step, Fault

-----------------------------------------------------------------------------
(* The invariant of a life with one request at a time.                     *)
LEMMA InitSerial == Init => SerialInv
<1> SUFFICES ASSUME Init PROVE SerialInv
  OBVIOUS
<1>1. \A a \in Att : pc[a] = "idle" /\ phase[a] = "absent"
  BY DEF Init
<1>2. lost = {} /\ Live = {}
  BY DEF Init, VppInit, VppEmpty, Live
<1> QED  BY <1>1, <1>2 DEF SerialInv, Alone, Idle, LostAlone, OneIf, OwnSocket, Filling,
            Wiring, Reached, AddPc

(* No step of an attachment breaks it.                                     *)
LEMMA MoveSerial ==
  ASSUME IInv, SerialInv, Serial, NEW a \in Att, Move(a)
  PROVE  SerialInv'
<1>0. /\ HandInv /\ TypeOK /\ VppTidy /\ Alone /\ LostAlone /\ OneIf /\ OwnSocket
      /\ \A b \in Att : Tidy(b) /\ Filling(b)
      /\ \A b \in Att : pc[b] = "open" => dataDir
      /\ Trusted' => Trusted
  BY EnvSame DEF IInv, NetInv, HandInv, SerialInv
<1>1. Alone' /\ LostAlone'
  BY <1>0, MoveAlone, MoveLost
<1>2. OneIf' /\ OwnSocket'
  BY <1>0, MoveSockets
<1>3. \A b \in Att : Filling(b)' /\ (pc'[b] = "open" => dataDir')
  BY <1>0, MoveFilling, MoveDir
<1>4. ASSUME Trusted, NEW b \in Att PROVE Wiring(b)'
  <2>1. Wiring(a) /\ Wiring(b)
    BY <1>4 DEF SerialInv
  <2> QED  BY <1>0, <1>4, <2>1, MoveWiring, OthersWiring
<1> QED  BY <1>0, <1>1, <1>2, <1>3, <1>4 DEF SerialInv

(* A restart leaves the running request without a connection.              *)
LEMMA RestartSerial == ASSUME IInv, SerialInv, VppRestart PROVE SerialInv'
<1>1. restarts' # 0
  BY RestartVppTidy DEF IInv
<1>2. UsedSock' = {} /\ Live' = {}
  BY DEF VppRestart, VppReset, VppEmpty, UsedSock, Live
<1>3. UNCHANGED <<pc, sid, dataDir>> /\ lost' = Running /\ Running' = Running
  BY DEF VppRestart, fileVars, Running, Idle
<1>4. Alone' /\ LostAlone'
  BY <1>2, <1>3 DEF SerialInv, Alone, Idle, LostAlone
<1>5. \A a \in Att : Filling(a)'
  BY <1>3 DEF Filling, Running, Idle
<1> QED  BY <1>1, <1>2, <1>3, <1>4, <1>5 DEF SerialInv, OneIf, OwnSocket, Trusted

(* The invariant is inductive, together with that of HostVppNetProofs.     *)
LEMMA NextSerial == ASSUME IInv, SerialInv, Serial, [Next]_vars PROVE SerialInv'
<1>1. CASE UNCHANGED vars
  BY <1>1 DEF vars, vppVars, reqVars, fileVars, envVars, SerialInv, Alone, Idle,
     LostAlone, Running, UsedSock, Live, OneIf, OwnSocket, Filling, OnSocket, Wiring,
     InHand, Reached, Trusted
<1> QED  BY <1>1, MoveSerial, RestartSerial DEF Next, Move

(* One request at a time, the inductive invariant: whoever runs is alone,  *)
(* no two interfaces share a socket, an ADD has a socket of its own, and   *)
(* what it has made so far is there.                                       *)
THEOREM SerialInvariant == Serial => (Spec => []SerialInv)
<1> SUFFICES ASSUME Serial PROVE Spec => []SerialInv
  OBVIOUS
<1>1. Init => SerialInv
  BY InitSerial
<1>2. IInv /\ SerialInv /\ [Next]_vars => SerialInv'
  BY NextSerial
<1> QED  BY <1>1, <1>2, Invariant, PTL DEF Spec

(* One request at a time, each interface is on the socket of its own file: *)
(* what two concurrent ADDs break, in the run found_socket_race.           *)
THEOREM SocketsAreOwn == Serial => (Spec => []OwnSocket)
<1>1. SerialInv => OwnSocket
  BY DEF SerialInv
<1> QED  BY <1>1, SerialInvariant, PTL

(* One request at a time, an attachment whose ADD succeeded has its        *)
(* interface, on its own socket, up, in its bridge or with its address,    *)
(* and saved, until its DEL, whatever other requests do and fail at, as long  *)
(* as no DEL is misled and VPP does not restart.                           *)
THEOREM AddedStaysWired == Serial => (Spec => []AddedIsWired)
<1>1. ASSUME IInv, SerialInv PROVE AddedIsWired
  <2> SUFFICES ASSUME Trusted, NEW a \in Att, phase[a] = "added", Idle(a)
               PROVE  Wired(a)
    BY DEF AddedIsWired
  <2>1. Wiring(a) /\ OwnSocket /\ VppTidy /\ HandInv
    BY <1>1 DEF SerialInv, IInv, NetInv
  <2>2. InHand(a) \in Live
    BY <2>1 DEF Wiring, Reached
  <2>3. InHand(a) = saved[a]
    BY <2>1, <2>2, VppConstants DEF InHand, Idle, Holding, AddPc, Live
  <2>4. owner[saved[a]] = a
    BY <2>1, <2>2, <2>3, HandIsOwn DEF Live
  <2> QED  BY <2>1, <2>2, <2>3, <2>4 DEF Wired, Wiring, Reached, OwnSocket, VppTidy, Live
<1> QED  BY <1>1, Invariant, SerialInvariant, PTL
=============================================================================
