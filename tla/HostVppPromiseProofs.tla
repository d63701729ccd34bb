------------------------ MODULE HostVppPromiseProofs ------------------------
(***************************************************************************)
(* HostVpp implements HostPorts, what an engine promises cmdAdd and        *)
(* cmdDel: step by step, one request at a time, until VPP restarts or a    *)
(* DEL is misled.                                                          *)
(***************************************************************************)
EXTENDS HostVppSerialProofs

-----------------------------------------------------------------------------
(* The invariant of the promise.                                           *)

(* What a request has not got yet, after a step of its own.                *)
LEMMA MoveFresh ==
  ASSUME HandInv, NEW a \in Att, Fresh(a), Move(a)
  PROVE  Fresh(a)'
<1> USE DEF Fresh, Begins, Goto, Return, AfterNet, AfterLoad, Connected, Failed, fileVars,
        reqVars, envVars, Idle
<1>0. /\ pc \in [Att -> {"idle"} \cup AddPc \cup DelPc]
      /\ idx \in [Att -> Index] /\ phase \in [Att -> Phase]
      /\ saved \in [Att -> Index \cup {NoFile, Torn}]
      /\ ~misled /\ pc[a] \in DelPc \ {"load"} => saved[a] = NoFile \/ a \in kept
      /\ kept \subseteq Att /\ misled \in BOOLEAN
  BY DEF HandInv, TypeOK, LoadedOnce
<1>1. CASE FindSocket(a) \/ AddSocket(a) \/ CreateIf(a) \/ SetUp(a)
  BY <1>0, <1>1 DEF FindSocket, AddSocket, CreateIf, SetUp, NetStep, AddPc
<1>2. CASE FindBridge(a) \/ AddBridge(a) \/ JoinBridge(a) \/ AddAddress(a)
  BY <1>0, <1>2 DEF FindBridge, AddBridge, JoinBridge, AddAddress, AddPc
<1>3. CASE StatDir(a) \/ MakeDir(a) \/ OpenSaved(a) \/ WriteSaved(a)
  BY <1>0, <1>3 DEF StatDir, MakeDir, OpenSaved, WriteSaved, AddPc
<1>4. CASE DelStep(a)
  BY <1>0, <1>4 DEF DelStep, LoadSaved, RemoveDir, LeaveBridge, CountBridge, DeleteBridge,
     FindIf, DeleteIf, CountSocket, DeleteSocket, Unlink, AddPc, DelPc
<1>5. CASE StartAdd(a) \/ StartDel(a) \/ NoReply(a) \/ Fault(a) \/ PeerListens(a)
  BY <1>0, <1>5 DEF StartAdd, StartDel, NoReply, Fault, Unnoticed, KeepSaved,
     MissSaved, KeepDir, Abort, BridgeTimeout, PeerListens, AddPc
<1> QED  BY <1>1, <1>2, <1>3, <1>4, <1>5 DEF Move, Step, AddStep

(* A DEL past memif_delete works on nothing, after a step of its own.      *)
LEMMA MoveFreed ==
  ASSUME HandInv, Trusted, NEW a \in Att, Freed(a), Move(a)
  PROVE  Freed(a)'
<1> USE DEF Goto, Return, AfterNet, AfterLoad, HandInv, TypeOK
<1>1. CASE DeleteIf(a)
  <2>1. idx'[a] = idx[a] /\ MemifDelete(idx[a])
    BY <1>1 DEF DeleteIf
  <2>2. CASE idx[a] \in Live
    BY <2>1, <2>2, DeleteFacts DEF Freed
  <2>3. CASE idx[a] \notin Live
    BY <2>1, <2>3 DEF MemifDelete, vppVars, Live, Freed
  <2> QED  BY <2>2, <2>3
<1>2. CASE pc'[a] \in {"memCount", "sockDel", "unlink"} /\ ~DeleteIf(a)
  <2>1. CASE AddStep(a)
    BY <1>2, <2>1 DEF AddStep, FindSocket, AddSocket, CreateIf, SetUp, NetStep,
       FindBridge, AddBridge, JoinBridge, AddAddress, StatDir, MakeDir, OpenSaved,
       WriteSaved
  <2>2. CASE DelStep(a) \/ PeerListens(a)
    <3>1. pc[a] \in {"memCount", "sockDel", "unlink"} /\ UNCHANGED <<idx, owner>>
      BY <1>2, <2>2 DEF DelStep, LoadSaved, RemoveDir, LeaveBridge, CountBridge,
         DeleteBridge, FindIf, CountSocket, DeleteSocket, SocketDel, Unlink, PeerListens,
         reqVars, vppVars, Connected
    <3> QED  BY <3>1 DEF Freed, Live
  <2>3. CASE StartAdd(a) \/ StartDel(a) \/ NoReply(a) \/ Fault(a)
    BY <1>2, <2>3 DEF StartAdd, StartDel, NoReply, Fault, Unnoticed, KeepSaved,
       MissSaved, KeepDir, Abort, BridgeTimeout
  <2> QED  BY <1>2, <2>1, <2>2, <2>3 DEF Move, Step
<1>3. CASE pc'[a] \notin {"memCount", "sockDel", "unlink"}
  BY <1>3 DEF Freed
<1> QED  BY <1>1, <1>2, <1>3

(* What a DEL left behind names no interface of its attachment once the    *)
(* DEL is through, after a step of its own.                                *)
LEMMA MoveSpent ==
  ASSUME HandInv, NEW a \in Att, Fresh(a), Spent(a), Freed(a), Move(a)
  PROVE  Spent(a)'
<1> SUFFICES ASSUME Trusted', a \in kept', Begins(a)', saved'[a] \in SwIf, saved'[a] # idx'[a]
             PROVE  owner'[saved'[a]] # a
  BY DEF Spent
<1> USE DEF Connected, fileVars, reqVars, envVars, Idle
<1>0. /\ pc \in [Att -> {"idle"} \cup AddPc \cup DelPc]
      /\ idx \in [Att -> Index] /\ phase \in [Att -> Phase]
      /\ saved \in [Att -> Index \cup {NoFile, Torn}]
      /\ owner \in [SwIf -> Att \cup {NoAtt}]
      /\ Trusted /\ ~misled
  BY EnvSame DEF HandInv, TypeOK, VppTypeOK, Trusted
<1>1. CASE CreateIf(a)
  <2>1. pc[a] = "create" /\ a \in kept /\ saved'[a] = saved[a]
    BY <1>1 DEF CreateIf
  <2>2. saved[a] # idx[a]
    BY <2>1, VppConstants DEF Fresh
  <2>3. owner[saved[a]] # a
    BY <1>0, <2>1, <2>2 DEF Spent, Begins, AddPc
  <2>4. CASE UNCHANGED owner
    BY <2>1, <2>3, <2>4
  <2>5. CASE ~UNCHANGED owner
    <3>1. PICK i \in SwIf : MemifCreate(i, a, sid[a]) /\ idx' = [idx EXCEPT ![a] = i]
      BY <1>1, <2>5 DEF CreateIf, vppVars
    <3>2. owner' = [owner EXCEPT ![i] = a] /\ idx'[a] = i
      BY <1>0, <3>1 DEF MemifCreate
    <3> QED  BY <1>0, <2>1, <2>3, <3>2
  <2> QED  BY <2>4, <2>5
<1>2. CASE Unlink(a)
  <2>1. pc[a] = "unlink" /\ saved'[a] = saved[a] /\ UNCHANGED owner
    BY <1>2 DEF Unlink, vppVars
  <2>2. saved[a] = idx[a]
    BY <1>0, <2>1, HostVppConstants DEF HandInv, LoadedOnce, DelPc
  <2>3. idx[a] \notin Live
    BY <1>0, <2>1 DEF Freed
  <2>4. saved[a] \in SwIf /\ saved[a] \notin Live
    BY <2>1, <2>2, <2>3
  <2>5. owner'[saved'[a]] = NoAtt
    BY <2>1, <2>4 DEF Live
  <2> QED  BY <2>5, VppConstants
<1>3. CASE ~CreateIf(a) /\ ~Unlink(a)
  <2>1. ~DeleteIf(a) /\ Begins(a) /\ a \in kept /\ saved'[a] = saved[a] /\ idx'[a] = idx[a]
    <3> USE DEF Goto, Return, AfterNet, AfterLoad, Begins
    <3>1. CASE AddStep(a)
      BY <1>0, <1>3, <3>1 DEF AddStep, FindSocket, AddSocket, SetUp, NetStep, FindBridge,
         AddBridge, JoinBridge, AddAddress, StatDir, MakeDir, OpenSaved, WriteSaved,
         DeleteIf, AddPc
    <3>2. CASE DelStep(a)
      BY <1>0, <1>3, <3>2 DEF DelStep, LoadSaved, RemoveDir, LeaveBridge, CountBridge,
         DeleteBridge, FindIf, DeleteIf, CountSocket, DeleteSocket, AddPc, DelPc
    <3>3. CASE StartAdd(a) \/ StartDel(a) \/ NoReply(a) \/ PeerListens(a)
      BY <1>0, <3>3 DEF StartAdd, StartDel, NoReply, PeerListens, Failed, DeleteIf, AddPc
    <3>4. CASE Abort(a) \/ BridgeTimeout(a) \/ Unnoticed(a)
      BY <1>0, <3>4 DEF Abort, BridgeTimeout, Unnoticed, KeepSaved, MissSaved, KeepDir,
         Failed, DeleteIf, AddPc
    <3> QED  BY <3>1, <3>2, <3>3, <3>4 DEF Move, Step, Fault
  <2>2. owner[saved[a]] # a
    BY <1>0, <2>1 DEF Spent
  <2>3. UNCHANGED owner
    BY <1>3, <2>1, SockSame DEF AddSocket, SocketAdd, DeleteSocket, SocketDel
  <2> QED  BY <2>1, <2>2, <2>3
<1> QED  BY <1>1, <1>2, <1>3

(* A step of a gives and takes no interface but those of a.                *)
LEMMA OwnersKept ==
  ASSUME HandInv, Trusted, NEW a \in Att, Move(a), NEW i \in SwIf, owner'[i] # owner[i]
  PROVE  {owner[i], owner'[i]} \subseteq {a, NoAtt}
<1>0. owner \in [SwIf -> Att \cup {NoAtt}]
  BY DEF HandInv, TypeOK, VppTypeOK
<1>1. CASE CreateIf(a)
  BY <1>0, <1>1 DEF CreateIf, MemifCreate, vppVars
<1>2. CASE DeleteIf(a)
  <2>1. InHand(a) = idx[a]
    BY <1>2 DEF DeleteIf, Connected, InHand, Holding
  <2> QED  BY <1>0, <1>2, <2>1, HandIsOwn DEF DeleteIf, MemifDelete, vppVars, Live
<1>3. CASE ~CreateIf(a) /\ ~DeleteIf(a)
  BY <1>3, SockSame DEF AddSocket, SocketAdd, DeleteSocket, SocketDel
<1> QED  BY <1>1, <1>2, <1>3

(* The whole is inductive, together with IInv and SerialInv.               *)
LEMMA NextPromiseInv ==
  ASSUME IInv, SerialInv, Serial, PromiseInv, [Next]_vars
  PROVE  PromiseInv'
<1>1. ASSUME NEW a \in Att, Move(a), NEW b \in Att PROVE Fresh(b)' /\ Spent(b)' /\ Freed(b)'
  <2>0. HandInv /\ TypeOK /\ (Trusted' => Trusted) /\ (misled => misled')
    BY <1>1, EnvSame DEF IInv, HandInv
  <2>1. CASE b = a
    <3>1. ~Trusted => Freed(a)'
      BY <2>0 DEF Freed
    <3> QED  BY <1>1, <2>0, <2>1, <3>1, MoveFresh, MoveSpent, MoveFreed DEF PromiseInv
  <2>2. CASE b # a
    <3>1. SameRequest(b)
      BY <1>1, <2>0, <2>2, OthersSame
    <3>2. Begins(b)' <=> Begins(b)
      BY <3>1 DEF Begins, SameRequest, Idle
    <3>3. Fresh(b)'
      BY <2>0, <3>1, <3>2 DEF PromiseInv, Fresh, SameRequest
    <3>4. Spent(b)'
      <4>1. ASSUME Trusted, NEW i \in SwIf, owner[i] # b PROVE owner'[i] # b
        BY <1>1, <2>0, <2>2, <4>1, OwnersKept, VppConstants
      <4> QED  BY <2>0, <3>1, <3>2, <4>1 DEF PromiseInv, Spent, SameRequest
    <3>5. Freed(b)'
      <4>1. CASE PeerListens(a)
        BY <2>0, <3>1, <4>1 DEF PeerListens, vppVars, PromiseInv, Freed, SameRequest, Live
      <4>2. CASE ~PeerListens(a)
        BY <1>1, <2>0, <2>2, <3>1, <4>2, OthersIdle DEF SerialInv, Freed, SameRequest
      <4> QED  BY <4>1, <4>2
    <3> QED  BY <3>3, <3>4, <3>5
  <2> QED  BY <2>1, <2>2
<1>2. CASE VppRestart
  <2>1. restarts' # 0 /\ UNCHANGED <<pc, idx, phase, saved, kept, misled>>
    BY <1>2, RestartVppTidy DEF VppRestart, fileVars, IInv
  <2> QED  BY <2>1 DEF PromiseInv, Fresh, Begins, Spent, Freed, Trusted, Idle
<1>3. CASE UNCHANGED vars
  BY <1>3 DEF vars, vppVars, reqVars, fileVars, envVars, PromiseInv, Fresh, Begins, Spent,
     Freed, Trusted, Idle, Live
<1> QED  BY <1>1, <1>2, <1>3 DEF Next, Move, PromiseInv

-----------------------------------------------------------------------------
(* What a step moves.                                                      *)
StageMap == [a \in Att |-> StageOf(a)]

HeldMap == [a \in Att |-> Held(a)]

(* A step of a that takes its stage to s and its memory to h.              *)
Moves(a, s, h) ==
  /\ StageMap' = [StageMap EXCEPT ![a] = s]
  /\ HeldMap' = [HeldMap EXCEPT ![a] = h]

(* So the caller sees nothing of another attachment change.                *)
LEMMA MovesOwn ==
  ASSUME HandInv, Trusted, NEW a \in Att, Move(a)
  PROVE  Moves(a, StageOf(a)', Held(a)')
<1>1. ASSUME NEW b \in Att, b # a PROVE StageOf(b)' = StageOf(b) /\ Held(b)' = Held(b)
  <2>1. SameRequest(b)
    BY <1>1, OthersSame DEF HandInv
  <2>2. StageOf(b)' = StageOf(b) /\ Handle(b)' = Handle(b)
    BY <2>1 DEF SameRequest, StageOf, Handle
  <2>3. \A i \in SwIf : owner'[i] = b <=> owner[i] = b
    BY <1>1, OwnersKept, VppConstants
  <2>4. (Handle(b) \in Live' /\ owner'[Handle(b)] = b)
          <=> (Handle(b) \in Live /\ owner[Handle(b)] = b)
    BY <2>3, VppConstants DEF Live
  <2> QED  BY <2>2, <2>4 DEF Held
<1>2. StageMap' = [StageMap EXCEPT ![a] = StageOf(a)']
  BY <1>1 DEF StageMap
<1>3. HeldMap' = [HeldMap EXCEPT ![a] = Held(a)']
  BY <1>1 DEF HeldMap
<1> QED  BY <1>2, <1>3 DEF Moves

(* What a step may do to the stage of a, to the interfaces and to what is  *)
(* remembered for a: one definition for each group of steps of HostPorts.  *)
Stutters(a) == StageOf(a)' = StageOf(a) /\ UNCHANGED owner /\ Held(a)' = Held(a)

Starts(a) ==
  /\ \/ StageOf(a) = "absent" /\ StageOf(a)' = "adding"
     \/ StageOf(a) \in {"absent", "added", "failed"} /\ StageOf(a)' = "deleting"
  /\ UNCHANGED owner /\ Held(a)' = Held(a)

Provides(a) ==
  /\ StageOf(a) = "adding" /\ StageOf(a)' = "adding" /\ Held(a) = NoFile
  /\ \E i \in SwIf : /\ owner[i] = NoAtt
                     /\ owner' = [owner EXCEPT ![i] = a] /\ Held(a)' = i

Withdraws(a) ==
  /\ StageOf(a) = "deleting" /\ StageOf(a)' = "deleting" /\ Held(a) # NoFile
  /\ owner' = [owner EXCEPT ![Held(a)] = NoAtt] /\ Held(a)' = NoFile

Ends(a) ==
  /\ UNCHANGED owner
  /\ \/ StageOf(a) = "adding" /\ StageOf(a)' = "added" /\ Held(a) # NoFile /\ Held(a)' = Held(a)
     \/ StageOf(a) = "deleting" /\ StageOf(a)' = "absent" /\ Held(a) = NoFile /\ Held(a)' = Held(a)
     \/ /\ StageOf(a) \in {"absent", "adding", "deleting"} /\ StageOf(a)' = "failed"
        /\ Held(a)' \in {Held(a), NoFile}

Allowed(a) == Stutters(a) \/ Starts(a) \/ Provides(a) \/ Withdraws(a) \/ Ends(a)

(* Each is a step of the promise, or none.                                 *)
LEMMA AllowedIsPromised ==
  ASSUME NEW a \in Att, Moves(a, StageOf(a)', Held(a)'), Allowed(a)
  PROVE  [Ports!Next]_(Ports!vars)
<1>1. PICK s, h : Moves(a, s, h) /\ s = StageOf(a)' /\ h = Held(a)'
  OBVIOUS
<1>2. /\ StageMap[a] = StageOf(a) /\ HeldMap[a] = Held(a)
      /\ s = StageOf(a) => StageMap' = StageMap
      /\ h = Held(a) => HeldMap' = HeldMap
  BY <1>1 DEF Moves, StageMap, HeldMap
<1> USE <1>1, <1>2 DEF Moves, StageMap, HeldMap
<1>3. CASE Stutters(a)
  <2>1. UNCHANGED Ports!vars
    BY <1>3 DEF Stutters, Ports!vars
  <2> QED  BY <2>1
<1>4. CASE Starts(a)
  <2>1. Ports!BeginAdd(a) \/ Ports!BeginDel(a)
    BY <1>4 DEF Starts, Ports!BeginAdd, Ports!BeginDel, Ports!Move
  <2> QED  BY <2>1 DEF Ports!Next
<1>5. CASE Provides(a)
  <2>1. Ports!Provide(a)
    BY <1>5 DEF Provides, Ports!Provide
  <2> QED  BY <2>1 DEF Ports!Next
<1>6. CASE Withdraws(a)
  <2>1. Ports!Withdraw(a)
    BY <1>6 DEF Withdraws, Ports!Withdraw
  <2> QED  BY <2>1 DEF Ports!Next
<1>7. CASE Ends(a)
  <2>1. Ports!Added(a) \/ Ports!Deleted(a) \/ Ports!Fail(a)
    BY <1>7 DEF Ends, Ports!Added, Ports!Deleted, Ports!Fail, Ports!Move
  <2> QED  BY <2>1 DEF Ports!Next
<1> QED  BY <1>3, <1>4, <1>5, <1>6, <1>7 DEF Allowed

-----------------------------------------------------------------------------
(* The steps of the engine, one by one.                                    *)
Sound(a) ==
  /\ HandInv /\ VppTidy /\ Trusted /\ PromiseInv
  /\ OwnSocket /\ Tidy(a) /\ Filling(a) /\ Wiring(a)

(* What an idle request, and one that has no interface of its own in hand, *)
(* is remembered for.                                                      *)
LEMMA HeldFacts ==
  ASSUME TypeOK, NEW a \in Att
  PROVE  /\ idx[a] \in SwIf => Handle(a) = idx[a]
         /\ idx[a] \notin SwIf => Handle(a) = saved[a]
         /\ Handle(a) \notin Live => Held(a) = NoFile
         /\ Handle(a) \in Live /\ owner[Handle(a)] = a
              => Held(a) = Handle(a) /\ Held(a) # NoFile
         /\ {Local0, NoFile, Torn} \cap Live = {} /\ Local0 \notin SwIf
         /\ Handle(a) \in RefusedIdx => Held(a) = NoFile
  BY VppConstants, HostVppConstants DEF Handle, Held, Live

(* The same after a step.                                                  *)
LEMMA HeldNext ==
  ASSUME NEW a \in Att
  PROVE  /\ idx'[a] \in SwIf => Handle(a)' = idx'[a]
         /\ idx'[a] \notin SwIf => Handle(a)' = saved'[a]
         /\ Handle(a)' \notin Live' => Held(a)' = NoFile
         /\ Handle(a)' \in Live' /\ owner'[Handle(a)'] = a => Held(a)' = Handle(a)'
         /\ {Local0, NoFile, Torn} \cap Live' = {}
         /\ Handle(a)' = Handle(a) /\ owner' = owner => Held(a)' = Held(a)
  BY VppConstants, HostVppConstants DEF Handle, Held, Live

(* An ADD that has made nothing yet is remembered for nothing.             *)
LEMMA NothingHeld ==
  ASSUME TypeOK, Trusted, NEW a \in Att, Fresh(a), Spent(a), Begins(a), idx[a] = Local0
  PROVE  Held(a) = NoFile
<1>1. Handle(a) = saved[a]
  BY HeldFacts
<1>2. CASE saved[a] \in SwIf
  <2>1. a \in kept
    BY <1>2, HostVppConstants DEF Trusted, Fresh
  <2>2. owner[saved[a]] # a
    BY <1>2, <2>1, HeldFacts DEF Spent
  <2> QED  BY <1>1, <2>2 DEF Held
<1>3. CASE saved[a] \notin SwIf
  BY <1>1, <1>3, HeldFacts DEF Live
<1> QED  BY <1>2, <1>3

(* A step that goes on and changes no index, saved data or interface.      *)
LEMMA GoOn ==
  ASSUME TypeOK, NEW a \in Att, NEW l, Goto(a, l), UNCHANGED <<idx, owner>>,
         Handle(a)' = Handle(a),
         \/ pc[a] \in AddPc /\ l \in AddPc
         \/ pc[a] \in DelPc /\ l \in DelPc
  PROVE  Stutters(a)
<1>1. pc'[a] = l
  BY DEF Goto, TypeOK
<1>2. StageOf(a)' = StageOf(a)
  BY <1>1 DEF StageOf, AddPc, DelPc
<1> QED  BY <1>2, HeldNext DEF Stutters

(* A request that ends without success.                                    *)
LEMMA GiveUp ==
  ASSUME TypeOK, LoadedOnce, Trusted, NEW a \in Att, Fresh(a), Spent(a),
         pc[a] \in AddPc \cup DelPc, NEW p, p \in {"addFailed", "delFailed"}, Return(a,
            p), UNCHANGED owner, saved'[a] \in {saved[a], Torn}
  PROVE  Ends(a)
<1>1. pc'[a] = "idle" /\ idx'[a] = Local0 /\ phase'[a] = p
  BY DEF Return, TypeOK
<1>2. StageOf(a) \in {"adding", "deleting"} /\ StageOf(a)' = "failed"
  BY <1>1 DEF StageOf, AddPc, DelPc
<1>3. Handle(a)' = saved'[a]
  BY <1>1, HeldFacts, HeldNext
<1>4. Held(a)' \in {Held(a), NoFile}
  <2>1. CASE saved'[a] \in {NoFile, Torn}
    BY <1>3, <2>1, HeldNext
  <2>2. CASE saved'[a] = saved[a] /\ (pc[a] = "load" \/ saved[a] = idx[a])
    <3>1. Handle(a)' = Handle(a)
      BY <1>3, <2>2, HeldFacts DEF Fresh
    <3> QED  BY <3>1, HeldNext
  <2>3. CASE saved'[a] = saved[a] /\ pc[a] \in AddPc /\ saved[a] \notin {NoFile, Torn, idx[a]}
    <3>1. saved[a] \in SwIf => owner[saved[a]] # a
      BY <2>3 DEF Trusted, Fresh, Spent, Begins
    <3>2. saved'[a] \in Live' => owner'[saved'[a]] # a
      BY <2>3, <3>1 DEF Live
    <3> QED  BY <1>3, <3>2, HeldNext DEF Held
  <2> QED  BY <2>1, <2>2, <2>3 DEF LoadedOnce, Trusted
<1> QED  BY <1>2, <1>4 DEF Ends

(* The steps of an ADD.                                                    *)
LEMMA AddAllowed ==
  ASSUME NEW a \in Att, Sound(a), StartAdd(a) \/ AddStep(a)
  PROVE  Allowed(a)
<1>0. /\ TypeOK /\ HandInv /\ LoadedOnce /\ Trusted /\ Fresh(a) /\ Spent(a) /\ lost = {}
      /\ pc \in [Att -> {"idle"} \cup AddPc \cup DelPc]
      /\ idx \in [Att -> Index] /\ phase \in [Att -> Phase]
      /\ saved \in [Att -> Index \cup {NoFile, Torn}]
  BY DEF Sound, HandInv, TypeOK, PromiseInv, VppTidy, Trusted
<1> USE DEF Connected, fileVars, vppVars
<1>1. CASE StartAdd(a)
  <2>1. pc[a] = "idle" /\ phase[a] = "absent" /\ UNCHANGED <<owner, saved>> /\ idx[a] = Local0
    BY <1>0, <1>1 DEF StartAdd, Idle, Fresh
  <2>2. idx'[a] = Local0 /\ (pc'[a] = "find" \/ (pc'[a] = "idle" /\ phase'[a] = "addFailed"))
    BY <1>0, <1>1, <2>1 DEF StartAdd, Goto, Return
  <2>3. Held(a)' = Held(a)
    BY <1>0, <2>1, <2>2, HeldFacts, HeldNext
  <2>4. StageOf(a) = "absent" /\ StageOf(a)' \in {"adding", "failed"}
    BY <2>1, <2>2 DEF StageOf, AddPc, DelPc
  <2> QED  BY <2>1, <2>3, <2>4 DEF Allowed, Starts, Ends
<1>2. CASE FindSocket(a) \/ AddSocket(a)
  <2>1. pc[a] \in AddPc /\ UNCHANGED <<owner, saved>>
    BY <1>2 DEF FindSocket, AddSocket, SocketAdd, AddPc
  <2>2. \/ Return(a, "addFailed")
        \/ UNCHANGED idx /\ (Goto(a, "addSock") \/ Goto(a, "create"))
    BY <1>2 DEF FindSocket, AddSocket
  <2>3. CASE Return(a, "addFailed")
    BY <1>0, <2>1, <2>3, GiveUp DEF Allowed
  <2>4. CASE UNCHANGED idx /\ (Goto(a, "addSock") \/ Goto(a, "create"))
    <3>1. Handle(a)' = Handle(a)
      BY <2>1, <2>4 DEF Handle
    <3> QED  BY <1>0, <2>1, <2>4, <3>1, GoOn DEF Allowed, AddPc
  <2> QED  BY <2>2, <2>3, <2>4
<1>3. CASE CreateIf(a)
  <2>1. pc[a] = "create" /\ CanCreate(sid[a])
    BY <1>0, <1>3, VppConstants DEF CreateIf, Sound, Filling, Tidy, CanCreate, UsedSock
  <2>2. PICK i \in SwIf : MemifCreate(i, a, sid[a]) /\ idx' = [idx EXCEPT ![a] = i]
    BY <1>3, <2>1 DEF CreateIf
  <2>3. pc'[a] = "setUp" /\ idx'[a] = i
    BY <1>0, <1>3, <2>2 DEF CreateIf, Goto
  <2>4. owner[i] = NoAtt /\ owner' = [owner EXCEPT ![i] = a]
    BY <2>2 DEF MemifCreate
  <2>5. Held(a) = NoFile
    BY <1>0, <2>1, NothingHeld DEF Fresh, Begins, AddPc
  <2>6. i \in Live' /\ owner'[i] = a
    BY <1>0, <2>2, CreateFacts
  <2>7. Held(a)' = i
    BY <2>3, <2>6, HeldNext
  <2>8. StageOf(a) = "adding" /\ StageOf(a)' = "adding"
    BY <2>1, <2>3 DEF StageOf, AddPc, DelPc
  <2> QED  BY <2>4, <2>5, <2>7, <2>8 DEF Allowed, Provides
<1>4. CASE SetUp(a)
  <2>1. pc[a] \in AddPc /\ UNCHANGED <<owner, saved>>
    BY <1>4 DEF SetUp, IfUp, AddPc
  <2>2. Return(a, "addFailed") \/ (Goto(a, NetStep(a)) /\ UNCHANGED idx)
    BY <1>4 DEF SetUp
  <2>3. NetStep(a) \in AddPc
    BY DEF NetStep, AddPc
  <2>4. CASE Return(a, "addFailed")
    BY <1>0, <2>1, <2>4, GiveUp DEF Allowed
  <2>5. CASE Goto(a, NetStep(a)) /\ UNCHANGED idx
    <3>1. Handle(a)' = Handle(a)
      BY <2>1, <2>5 DEF Handle
    <3> QED  BY <1>0, <2>1, <2>3, <2>5, <3>1, GoOn DEF Allowed
  <2> QED  BY <2>2, <2>4, <2>5
<1>5. CASE \/ FindBridge(a) \/ AddBridge(a) \/ JoinBridge(a) \/ AddAddress(a)
           \/ StatDir(a) \/ MakeDir(a)
  <2>1. \E l \in {"bdJoin", "bdAdd", "stat", "open", "mkdir"} : Goto(a, l)
    BY <1>5 DEF FindBridge, AddBridge, JoinBridge, AddAddress, StatDir, MakeDir
  <2> PICK l \in AddPc : Goto(a, l)
    BY <2>1 DEF AddPc
  <2>2. pc[a] \in AddPc /\ UNCHANGED <<idx, owner, saved>>
    BY <1>5 DEF FindBridge, AddBridge, BdAddMsg, JoinBridge, JoinMsg, AddAddress, IfAddr,
       StatDir, MakeDir, AddPc
  <2>3. Handle(a)' = Handle(a)
    BY <2>2 DEF Handle
  <2> QED  BY <1>0, <2>2, <2>3, GoOn DEF Allowed
<1>6. CASE OpenSaved(a)
  <2>1. pc[a] \in AddPc /\ UNCHANGED owner /\ saved'[a] \in {saved[a], Torn}
    BY <1>0, <1>6 DEF OpenSaved, AddPc
  <2>2. Return(a, "addFailed") \/ (Goto(a, "write") /\ UNCHANGED idx)
    BY <1>6 DEF OpenSaved
  <2>3. CASE Return(a, "addFailed")
    BY <1>0, <2>1, <2>3, GiveUp DEF Allowed
  <2>4. CASE Goto(a, "write") /\ UNCHANGED idx
    <3>1. pc[a] = "open" /\ idx[a] \in Live
      BY <1>6 DEF OpenSaved, Sound, Wiring, Reached, InHand, Holding, AddPc
    <3>2. Handle(a)' = Handle(a)
      BY <2>4, <3>1 DEF Handle, Live
    <3> QED  BY <1>0, <2>1, <2>4, <3>2, GoOn DEF Allowed, AddPc
  <2> QED  BY <2>2, <2>3, <2>4
<1>7. CASE WriteSaved(a)
  <2>1. /\ pc[a] = "write" /\ UNCHANGED owner /\ saved'[a] = idx[a]
        /\ idx'[a] = Local0 /\ pc'[a] = "idle" /\ phase'[a] = "added"
    BY <1>0, <1>7 DEF WriteSaved, Return
  <2>2. InHand(a) = idx[a] /\ idx[a] \in Live
    BY <2>1 DEF Sound, Wiring, Reached, InHand, Holding, AddPc
  <2>3. idx[a] \in SwIf /\ owner[idx[a]] = a
    BY <2>2, HandIsOwn DEF Sound, Live
  <2>4. Handle(a) = idx[a] /\ Held(a) = idx[a] /\ Held(a) # NoFile
    BY <1>0, <2>2, <2>3, HeldFacts
  <2>5. Handle(a)' = idx[a]
    BY <1>0, <2>1, HeldFacts, HeldNext
  <2>6. Held(a)' = Held(a)
    BY <2>1, <2>4, <2>5, HeldNext
  <2>7. StageOf(a) = "adding" /\ StageOf(a)' = "added"
    BY <2>1 DEF StageOf, AddPc, DelPc
  <2> QED  BY <2>1, <2>4, <2>6, <2>7 DEF Allowed, Ends
<1> QED  BY <1>1, <1>2, <1>3, <1>4, <1>5, <1>6, <1>7 DEF AddStep

(* The steps of a DEL.                                                     *)
LEMMA DelAllowed ==
  ASSUME NEW a \in Att, Sound(a), Trusted', StartDel(a) \/ DelStep(a)
  PROVE  Allowed(a)
<1>0. /\ TypeOK /\ HandInv /\ LoadedOnce /\ Trusted /\ Fresh(a) /\ Spent(a) /\ Freed(a)
      /\ pc \in [Att -> {"idle"} \cup AddPc \cup DelPc]
      /\ idx \in [Att -> Index] /\ phase \in [Att -> Phase]
      /\ saved \in [Att -> Index \cup {NoFile, Torn}]
  BY DEF Sound, HandInv, TypeOK, PromiseInv
<1> USE DEF Connected, fileVars, vppVars
<1>1. CASE StartDel(a)
  <2>1. /\ pc[a] = "idle" /\ UNCHANGED <<owner, saved, idx>>
        /\ phase[a] \in Phase /\ pc'[a] = "load"
    BY <1>0, <1>1 DEF StartDel, Idle, Goto
  <2>2. Held(a)' = Held(a)
    BY <2>1, HeldNext DEF Handle
  <2>3. StageOf(a) \in {"absent", "added", "failed"} /\ StageOf(a)' = "deleting"
    BY <2>1 DEF StageOf, AddPc, DelPc, Phase
  <2> QED  BY <2>1, <2>2, <2>3 DEF Allowed, Starts
<1>2. CASE LoadSaved(a)
  <2>1. pc[a] = "load" /\ UNCHANGED owner /\ idx[a] = Local0
    BY <1>0, <1>2 DEF LoadSaved, Fresh
  <2>2. CASE saved[a] = Torn
    <3>1. Return(a, "delFailed") /\ UNCHANGED saved
      BY <1>2, <2>2 DEF LoadSaved
    <3> QED  BY <1>0, <2>1, <3>1, GiveUp DEF Allowed, DelPc
  <2>3. CASE saved[a] # Torn
    <3>1. /\ idx'[a] = IF saved[a] = NoFile THEN Local0 ELSE saved[a]
          /\ saved'[a] = NoFile /\ pc'[a] = "rmdir"
      BY <1>0, <1>2, <2>3 DEF LoadSaved, Goto
    <3>2. Handle(a) = saved[a]
      BY <1>0, <2>1, HeldFacts
    <3>3. Held(a)' = Held(a)
      <4>1. CASE saved[a] \in SwIf
        <5>1. Handle(a)' = Handle(a)
          BY <3>1, <3>2, <4>1, HeldNext, HostVppConstants
        <5> QED  BY <2>1, <5>1, HeldNext
      <4>2. CASE saved[a] \notin SwIf
        <5>1. Held(a) = NoFile
          BY <1>0, <3>2, <4>2, HeldFacts DEF Live
        <5>2. idx'[a] \notin SwIf
          BY <1>0, <3>1, <4>2, HeldFacts
        <5>3. Held(a)' = NoFile
          BY <3>1, <5>2, HeldNext
        <5> QED  BY <5>1, <5>3
      <4> QED  BY <4>1, <4>2
    <3>4. StageOf(a) = "deleting" /\ StageOf(a)' = "deleting"
      BY <2>1, <3>1 DEF StageOf, AddPc, DelPc
    <3> QED  BY <2>1, <3>3, <3>4 DEF Allowed, Stutters
  <2> QED  BY <2>2, <2>3
<1>3. CASE RemoveDir(a) \/ CountBridge(a) \/ DeleteBridge(a)
  <2>1. pc[a] \in DelPc /\ UNCHANGED <<owner, saved>>
    BY <1>3 DEF RemoveDir, CountBridge, DeleteBridge, BdDelMsg, DelPc
  <2>2. \/ Return(a, "delFailed")
        \/ UNCHANGED idx /\ \E l \in {"leave", "bdDel", "memFind"} : Goto(a, l)
    BY <1>3 DEF RemoveDir, AfterLoad, CountBridge, DeleteBridge, AfterNet
  <2>3. CASE Return(a, "delFailed")
    BY <1>0, <2>1, <2>3, GiveUp DEF Allowed
  <2>4. ASSUME UNCHANGED idx, NEW l \in {"leave", "bdDel", "memFind"}, Goto(a, l)
        PROVE  Allowed(a)
    <3>1. Handle(a)' = Handle(a) /\ l \in DelPc
      BY <2>1, <2>4 DEF Handle, DelPc
    <3> QED  BY <1>0, <2>1, <2>4, <3>1, GoOn DEF Allowed
  <2> QED  BY <2>2, <2>3, <2>4
<1>4. CASE LeaveBridge(a) \/ FindIf(a) \/ CountSocket(a) \/ DeleteSocket(a)
  <2>1. pc[a] \in DelPc /\ UNCHANGED <<owner, saved, idx>>
    BY <1>4 DEF LeaveBridge, LeaveMsg, FindIf, CountSocket, DeleteSocket, SocketDel, DelPc
  <2>2. \E l \in {"bdCount", "memDel", "sockDel", "unlink"} : Goto(a, l)
    BY <1>4 DEF LeaveBridge, FindIf, CountSocket, DeleteSocket
  <2>3. PICK l \in DelPc : Goto(a, l)
    BY <2>2 DEF DelPc
  <2>4. Handle(a)' = Handle(a)
    BY <2>1 DEF Handle
  <2> QED  BY <1>0, <2>1, <2>3, <2>4, GoOn DEF Allowed
<1>5. CASE DeleteIf(a)
  <2>1. /\ pc[a] = "memDel" /\ MemifDelete(idx[a]) /\ UNCHANGED <<idx, saved>>
        /\ pc'[a] \in {"memCount", "unlink"}
    BY <1>0, <1>5 DEF DeleteIf, Goto
  <2>2. StageOf(a) = "deleting" /\ StageOf(a)' = "deleting"
    BY <2>1 DEF StageOf, AddPc, DelPc
  <2>3. CASE idx[a] \in Live
    <3>1. InHand(a) = idx[a] /\ idx[a] \in SwIf
      BY <2>1, <2>3 DEF InHand, Holding, Live
    <3>2. owner[idx[a]] = a
      BY <3>1, HandIsOwn DEF Sound
    <3>3. Held(a) = idx[a] /\ Held(a) # NoFile
      BY <1>0, <2>3, <3>1, <3>2, HeldFacts
    <3>4. owner' = [owner EXCEPT ![idx[a]] = NoAtt]
      BY <2>1, <2>3 DEF MemifDelete
    <3>5. Handle(a)' = idx[a] /\ idx[a] \notin Live'
      BY <1>0, <2>1, <2>3, <3>1, HeldNext, DeleteFacts
    <3>6. Held(a)' = NoFile
      BY <3>5, HeldNext
    <3> QED  BY <2>2, <3>3, <3>4, <3>6 DEF Allowed, Withdraws
  <2>4. CASE idx[a] \notin Live
    <3>1. UNCHANGED owner /\ Handle(a)' = Handle(a)
      BY <2>1, <2>4 DEF MemifDelete, Handle
    <3>2. Held(a)' = Held(a)
      BY <3>1, HeldNext
    <3> QED  BY <2>2, <3>1, <3>2 DEF Allowed, Stutters
  <2> QED  BY <2>3, <2>4
<1>6. CASE Unlink(a)
  <2>1. /\ pc[a] = "unlink" /\ UNCHANGED <<owner, saved>> /\ idx'[a] = Local0
        /\ pc'[a] = "idle" /\ phase'[a] \in {"absent", "delFailed"}
    BY <1>0, <1>6 DEF Unlink, Return
  <2>2. idx[a] \notin Live /\ saved[a] \in {NoFile, idx[a]}
    BY <1>0, <2>1 DEF Freed, LoadedOnce, DelPc, Trusted
  <2>3. Held(a) = NoFile
    BY <1>0, <2>2, HeldFacts
  <2>4. Held(a)' = NoFile
    BY <1>0, <2>1, <2>2, HeldFacts, HeldNext
  <2>5. StageOf(a) = "deleting" /\ StageOf(a)' \in {"absent", "failed"}
    BY <2>1 DEF StageOf, AddPc, DelPc
  <2> QED  BY <2>1, <2>3, <2>4, <2>5 DEF Allowed, Ends
<1> QED  BY <1>1, <1>2, <1>3, <1>4, <1>5, <1>6 DEF DelStep

(* The steps that are not the engine's own.                                *)
LEMMA FaultAllowed ==
  ASSUME NEW a \in Att, Sound(a), Trusted', NoReply(a) \/ Fault(a) \/ PeerListens(a)
  PROVE  Allowed(a)
<1>0. TypeOK /\ HandInv /\ LoadedOnce /\ Trusted /\ Fresh(a) /\ Spent(a) /\ lost = {}
  BY DEF Sound, HandInv, PromiseInv, VppTidy, Trusted
<1> USE DEF fileVars, vppVars, reqVars
<1>1. CASE NoReply(a)
  BY <1>0, <1>1 DEF NoReply
<1>2. CASE Abort(a)
  <2>1. /\ pc[a] \in AddPc \cup DelPc /\ UNCHANGED <<owner, saved>>
        /\ Failed(a) \in {"addFailed", "delFailed"} /\ Return(a, Failed(a))
    BY <1>0, <1>2 DEF Abort, Idle, Failed, TypeOK
  <2> QED  BY <1>0, <2>1, GiveUp DEF Allowed
<1>3. CASE BridgeTimeout(a)
  <2>1. UNCHANGED <<owner, saved>>
    BY <1>3 DEF BridgeTimeout
  <2>2. CASE pc[a] = "bdFind"
    <3>1. Goto(a, "bdAdd") /\ UNCHANGED idx
      BY <1>3, <2>2 DEF BridgeTimeout
    <3>2. Handle(a)' = Handle(a)
      BY <2>1, <3>1 DEF Handle
    <3> QED  BY <1>0, <2>1, <2>2, <3>1, <3>2, GoOn DEF Allowed, AddPc
  <2>3. CASE pc[a] = "bdCount" /\ Goto(a, "memFind") /\ UNCHANGED idx
    <3>1. Handle(a)' = Handle(a)
      BY <2>1, <2>3 DEF Handle
    <3> QED  BY <1>0, <2>1, <2>3, <3>1, GoOn DEF Allowed, DelPc
  <2>4. CASE pc[a] = "bdCount" /\ Return(a, "delFailed")
    BY <1>0, <2>1, <2>4, GiveUp DEF Allowed, DelPc
  <2> QED  BY <1>3, <2>2, <2>3, <2>4 DEF BridgeTimeout, AfterNet
<1>4. CASE PeerListens(a)
  <2>1. StageOf(a)' = StageOf(a) /\ Handle(a)' = Handle(a) /\ owner' = owner
    BY <1>4 DEF PeerListens, StageOf, Handle
  <2> QED  BY <2>1, HeldNext DEF Allowed, Stutters
<1>5. CASE KeepSaved(a)
  <2>1. /\ pc[a] = "load" /\ UNCHANGED <<owner, saved>> /\ idx[a] = Local0
        /\ idx'[a] = saved[a] /\ pc'[a] = "rmdir"
    BY <1>0, <1>5 DEF KeepSaved, Goto, Fresh, TypeOK
  <2>2. Handle(a)' = Handle(a)
    BY <1>0, <2>1, HeldFacts, HeldNext
  <2>3. StageOf(a)' = StageOf(a)
    BY <2>1 DEF StageOf, AddPc, DelPc
  <2> QED  BY <2>1, <2>2, <2>3, HeldNext DEF Allowed, Stutters
<1>6. CASE KeepDir(a)
  <2>1. pc[a] = "rmdir" /\ UNCHANGED <<owner, saved>>
    BY <1>6 DEF KeepDir
  <2>2. \/ Return(a, "delFailed")
        \/ UNCHANGED idx /\ (Goto(a, "leave") \/ Goto(a, "memFind"))
    BY <1>6 DEF KeepDir, AfterLoad, AfterNet
  <2>3. CASE Return(a, "delFailed")
    BY <1>0, <2>1, <2>3, GiveUp DEF Allowed, DelPc
  <2>4. CASE UNCHANGED idx /\ (Goto(a, "leave") \/ Goto(a, "memFind"))
    <3>1. Handle(a)' = Handle(a)
      BY <2>1, <2>4 DEF Handle
    <3> QED  BY <1>0, <2>1, <2>4, <3>1, GoOn DEF Allowed, DelPc
  <2> QED  BY <2>2, <2>3, <2>4
<1>7. CASE MissSaved(a)
  BY <1>7 DEF MissSaved, Trusted
<1> QED  BY <1>1, <1>2, <1>3, <1>4, <1>5, <1>6, <1>7 DEF Fault, Unnoticed

-----------------------------------------------------------------------------
(* The invariant holds of every behaviour.                                 *)
LEMMA PromiseInvariant == Serial => (Spec => []PromiseInv)
<1> SUFFICES ASSUME Serial PROVE Spec => []PromiseInv
  OBVIOUS
<1>1. Init => PromiseInv
  BY DEF Init, PromiseInv, Fresh, Begins, Spent, Freed, Idle, AddPc
<1>2. IInv /\ SerialInv /\ PromiseInv /\ [Next]_vars => PromiseInv'
  BY NextPromiseInv
<1> QED  BY <1>1, <1>2, Invariant, SerialInvariant, PTL DEF Spec

(* One request at a time, AddOnHost and DelFromHost implement the promise  *)
(* of HostPorts to cmdAdd and cmdDel: whatever fails under way, every step *)
(* is a step of the promise or changes none of it, until VPP restarts or   *)
(* a DEL is misled by saved data that an earlier one could not remove.     *)
THEOREM VppKeepsPromise == Serial => (Spec => StepsKeepPromise)
<1> SUFFICES ASSUME Serial PROVE Spec => StepsKeepPromise
  OBVIOUS
<1>1. Init => Ports!Init
  BY VppConstants DEF Init, VppInit, VppEmpty, Ports!Init, StageOf, Held, Live, AddPc,
     DelPc
<1>2. IInv /\ SerialInv /\ PromiseInv /\ [Next]_vars
        => [Trusted' => Ports!Next]_(Ports!vars)
  <2> SUFFICES ASSUME IInv, SerialInv, PromiseInv, [Next]_vars, Trusted'
               PROVE  [Ports!Next]_(Ports!vars)
    OBVIOUS
  <2>1. CASE UNCHANGED vars
    <3>1. UNCHANGED Ports!vars
      BY <2>1 DEF vars, vppVars, reqVars, fileVars, Ports!vars, StageOf, Held, Handle,
         Live
    <3> QED  BY <3>1
  <2>2. ASSUME NEW a \in Att, Move(a) PROVE [Ports!Next]_(Ports!vars)
    <3>1. HandInv /\ Trusted
      BY <2>2, EnvSame DEF IInv, HandInv
    <3>2. Sound(a)
      BY <3>1 DEF Sound, IInv, NetInv, SerialInv
    <3>3. Allowed(a)
      BY <2>2, <3>2, AddAllowed, DelAllowed, FaultAllowed DEF Move, Step
    <3> QED  BY <2>2, <3>1, <3>3, MovesOwn, AllowedIsPromised
  <2>3. CASE VppRestart
    BY <2>3, RestartVppTidy DEF IInv, Trusted
  <2> QED  BY <2>1, <2>2, <2>3 DEF Next, Move
<1> QED  BY <1>1, <1>2, Invariant, SerialInvariant, PromiseInvariant, PTL
         DEF Spec, StepsKeepPromise
=============================================================================
