------------------------- MODULE UserSpaceCniProofs -------------------------
(***************************************************************************)
(* Proofs about UserSpaceCni, for any number of attachments and ports, any *)
(* mix of network configurations and any number of faults.                 *)
(***************************************************************************)
EXTENDS UserSpaceCni, TLAPS

-----------------------------------------------------------------------------
(* The engine on the host. *)

(* What each step of the engine does to its attachment and to the others.  *)
HostKept(a) ==
  /\ stage'[a] = stage[a] /\ held'[a] = held[a]
  /\ PortOwned(a) => PortOwned(a)'

(* Every step of the engine keeps its types, leaves the other attachments  *)
(* alone, and never takes the port that another one holds.                 *)
LEMMA HostStep ==
  ASSUME Host!TypeOK, NEW b \in Att,
         \/ Host!BeginAdd(b) \/ Host!Provide(b) \/ Host!Added(b) \/ Host!BeginDel(b)
         \/ Host!Withdraw(b) \/ Host!Deleted(b) \/ Host!Fail(b)
  PROVE  /\ Host!TypeOK'
         /\ PortOwned(b) => \A a \in Att : a # b => HostKept(a)
         /\ PortOwned(b) => PortOwned(b)'
<1> USE CniConstants DEF Host!TypeOK, Host!Stage, HostKept, PortOwned
<1>1. CASE Host!BeginAdd(b)
  BY <1>1 DEF Host!BeginAdd, Host!Move
<1>2. CASE Host!Provide(b)
  BY <1>2 DEF Host!Provide
<1>3. CASE Host!Added(b)
  BY <1>3 DEF Host!Added, Host!Move
<1>4. CASE Host!BeginDel(b)
  BY <1>4 DEF Host!BeginDel, Host!Move
<1>5. CASE Host!Withdraw(b)
  BY <1>5 DEF Host!Withdraw
<1>6. CASE Host!Deleted(b)
  BY <1>6 DEF Host!Deleted, Host!Move
<1>7. CASE Host!Fail(b)
  BY <1>7 DEF Host!Fail, Host!Move
<1> QED  BY <1>1, <1>2, <1>3, <1>4, <1>5, <1>6, <1>7

(* The same for its own attachment, step by step. *)
LEMMA HostEffect ==
  ASSUME Host!TypeOK, NEW b \in Att
  PROVE  /\ Host!BeginAdd(b) => stage[b] = "absent" /\ stage'[b] = "adding" /\ held'[b] = held[b]
         /\ Host!Provide(b) => stage'[b] = stage[b] /\ held'[b] # NoPort
         /\ Host!Added(b) => held[b] # NoPort /\ held'[b] = held[b] /\ stage'[b] = "added"
         /\ Host!BeginDel(b) => stage'[b] = "deleting" /\ held'[b] = held[b]
         /\ Host!Withdraw(b) => stage'[b] = stage[b] /\ held'[b] = NoPort
         /\ Host!Deleted(b) => held[b] = NoPort /\ held'[b] = NoPort /\ stage'[b] = "absent"
         /\ Host!Fail(b) => stage'[b] = "failed" /\ held'[b] \in {held[b], NoPort}
  BY CniConstants DEF Host!TypeOK, Host!BeginAdd, Host!Provide, Host!Added, Host!BeginDel,
     Host!Withdraw, Host!Deleted, Host!Fail, Host!Move

-----------------------------------------------------------------------------
(* Type correctness. *)

Pcs == {"idle"} \cup AddPc \cup DelPc

Phases == {"absent", "added", "addFailed", "delFailed"}

(* What the plugin's own variables have for types. *)
SetsOK ==
  /\ hostFile \subseteq Att /\ torn \subseteq Att
  /\ lease \subseteq Att /\ handed \subseteq Att /\ gone \subseteq Att
  /\ faults \in 0..MaxFaults

ReqOK ==
  /\ conf \in [Att -> ConfType]
  /\ pc \in [Att -> Pcs]
  /\ phase \in [Att -> Phases]
  /\ result \subseteq Running

(* A request that goes on keeps the types of its variables. *)
LEMMA GotoType ==
  ASSUME ReqOK, NEW a \in Att, NEW l \in AddPc \cup DelPc, Goto(a, l),
         result' \subseteq result \cup {a}
  PROVE  ReqOK'
  BY DEF ReqOK, Goto, Pcs, Running, Idle, AddPc, DelPc

(* So does one that ends. *)
LEMMA ReturnType ==
  ASSUME ReqOK, NEW a \in Att, NEW p \in Phases, Return(a, p)
  PROVE  ReqOK'
  BY DEF ReqOK, Return, Pcs, Running, Idle, AddPc, DelPc

(* The types in three parts. *)
LEMMA TypeParts == TypeOK <=> Host!TypeOK /\ SetsOK /\ ReqOK
  BY DEF TypeOK, SetsOK, ReqOK, Pcs, Phases

(* The same for the next state. *)
LEMMA TypePartsNext ==
  ASSUME Host!TypeOK', SetsOK', ReqOK' PROVE TypeOK'
  BY DEF TypeOK, SetsOK, ReqOK, Pcs, Phases

(* The engine is left alone by the steps that are not its own. *)
LEMMA HostStays == ASSUME Host!TypeOK, UNCHANGED hostVars PROVE Host!TypeOK'
<1>1. stage' = stage /\ port' = port /\ held' = held
  BY DEF hostVars
<1> QED  BY <1>1 DEF Host!TypeOK

(* Every step of cmdAdd keeps the types. *)
LEMMA AddType == ASSUME TypeOK, NEW a \in Att, StartAdd(a) \/ AddStep(a) PROVE TypeOK'
<1> USE DEF hostVars, restVars, reqVars
<1>0. Host!TypeOK /\ SetsOK /\ ReqOK
  BY TypeParts
<1>1. CASE StartAdd(a)
  <2>1. SetsOK'
    BY <1>0, <1>1 DEF StartAdd, SetsOK
  <2> QED  BY <1>0, <1>1, <2>1, HostStep, GotoType, TypePartsNext DEF StartAdd, AddPc
<1>2. CASE MakeFolder(a)
  <2>1. SetsOK' /\ ReqOK'
    BY <1>0, <1>2 DEF MakeFolder, SetsOK, ReqOK, Running, Idle
  <2> QED  BY <1>0, <1>2, <2>1, HostStays, TypePartsNext DEF MakeFolder
<1>3. CASE Provide(a)
  <2>1. SetsOK' /\ ReqOK'
    BY <1>0, <1>3 DEF Provide, SetsOK, ReqOK, Running, Idle
  <2> QED  BY <1>0, <1>3, <2>1, HostStep, TypePartsNext DEF Provide
<1>4. CASE HostAdded(a)
  <2>1. SetsOK'
    BY <1>0, <1>4 DEF HostAdded, SetsOK
  <2> QED  BY <1>0, <1>4, <2>1, HostStep, GotoType, TypePartsNext DEF HostAdded, AddPc
<1>5. CASE HostError(a)
  <2>1. SetsOK'
    BY <1>0, <1>5 DEF HostError, SetsOK
  <2> QED  BY <1>0, <1>5, <2>1, HostStep, ReturnType, TypePartsNext DEF HostError, Phases
<1>6. CASE Ipam(a)
  <2>1. SetsOK'
    BY <1>0, <1>6 DEF Ipam, SetsOK
  <2>2. ReqOK'
    <3>1. CASE Goto(a, "addCont") /\ result' \subseteq result \cup {a}
      BY <1>0, <3>1, GotoType DEF AddPc
    <3>2. CASE Return(a, "addFailed")
      BY <1>0, <3>2, ReturnType DEF Phases
    <3> QED  BY <1>6, <3>1, <3>2 DEF Ipam
  <2> QED  BY <1>0, <1>6, <2>1, <2>2, HostStays, TypePartsNext DEF Ipam
<1>7. CASE AddOnContainer(a)
  <2>1. SetsOK'
    BY <1>0, <1>7 DEF AddOnContainer, SetsOK
  <2>2. ReqOK'
    <3>1. CASE Goto(a, "print") /\ UNCHANGED result
      BY <1>0, <3>1, GotoType DEF AddPc
    <3>2. CASE Return(a, "addFailed")
      BY <1>0, <3>2, ReturnType DEF Phases
    <3> QED  BY <1>7, <3>1, <3>2 DEF AddOnContainer
  <2> QED  BY <1>0, <1>7, <2>1, <2>2, HostStays, TypePartsNext DEF AddOnContainer
<1>8. CASE PrintResult(a)
  <2>1. SetsOK' /\ \E p \in Phases : Return(a, p)
    BY <1>0, <1>8 DEF PrintResult, SetsOK, Phases
  <2> QED  BY <1>0, <1>8, <2>1, ReturnType, HostStays, TypePartsNext DEF PrintResult
<1> QED  BY <1>1, <1>2, <1>3, <1>4, <1>5, <1>6, <1>7, <1>8 DEF AddStep

(* Every step of cmdDel keeps the types. *)
LEMMA DelType == ASSUME TypeOK, NEW a \in Att, StartDel(a) \/ DelStep(a) PROVE TypeOK'
<1> USE DEF hostVars, restVars, reqVars
<1>0. Host!TypeOK /\ SetsOK /\ ReqOK
  BY TypeParts
<1>1. CASE StartDel(a)
  <2>1. SetsOK'
    BY <1>0, <1>1 DEF StartDel, SetsOK
  <2> QED  BY <1>0, <1>1, <2>1, HostStep, GotoType, TypePartsNext DEF StartDel, DelPc
<1>2. CASE Withdraw(a)
  <2>1. SetsOK' /\ ReqOK'
    BY <1>0, <1>2 DEF Withdraw, SetsOK, ReqOK, Running, Idle
  <2> QED  BY <1>0, <1>2, <2>1, HostStep, TypePartsNext DEF Withdraw
<1>3. CASE HostDeleted(a)
  <2>1. SetsOK'
    BY <1>0, <1>3 DEF HostDeleted, SetsOK
  <2> QED  BY <1>0, <1>3, <2>1, HostStep, GotoType, TypePartsNext DEF HostDeleted, DelPc
<1>4. CASE HostDelError(a)
  <2>1. SetsOK'
    BY <1>0, <1>4 DEF HostDelError, SetsOK
  <2> QED  BY <1>0, <1>4, <2>1, HostStep, ReturnType, TypePartsNext DEF HostDelError, Phases
<1>5. CASE DelFromContainer(a)
  <2>1. SetsOK'
    BY <1>0, <1>5 DEF DelFromContainer, SetsOK
  <2>2. ReqOK'
    <3>1. CASE Goto(a, "delIpam") /\ UNCHANGED result
      BY <1>0, <3>1, GotoType DEF DelPc
    <3>2. CASE Return(a, "delFailed")
      BY <1>0, <3>2, ReturnType DEF Phases
    <3> QED  BY <1>5, <3>1, <3>2 DEF DelFromContainer
  <2> QED  BY <1>0, <1>5, <2>1, <2>2, HostStays, TypePartsNext DEF DelFromContainer
<1>6. CASE DelIpam(a)
  <2>1. SetsOK'
    BY <1>0, <1>6 DEF DelIpam, SetsOK
  <2> QED  BY <1>0, <1>6, <2>1, GotoType, HostStays, TypePartsNext DEF DelIpam, DelPc
<1>7. CASE DelLink(a)
  <2>1. SetsOK' /\ \E p \in Phases : Return(a, p)
    BY <1>0, <1>7 DEF DelLink, SetsOK, Phases
  <2> QED  BY <1>0, <1>7, <2>1, ReturnType, HostStays, TypePartsNext DEF DelLink
<1> QED  BY <1>1, <1>2, <1>3, <1>4, <1>5, <1>6, <1>7 DEF DelStep

(* So does the environment. *)
LEMMA EnvType ==
  ASSUME TypeOK, NEW a \in Att, Abort(a) \/ PeerListens(a) \/ ContainerStops(a)
  PROVE  TypeOK'
<1> USE DEF hostVars, restVars, reqVars
<1>0. Host!TypeOK /\ SetsOK /\ ReqOK
  BY TypeParts
<1>1. CASE Abort(a)
  <2>1. SetsOK'
    BY <1>0, <1>1, CniConstants DEF Abort, SetsOK
  <2>2. Host!TypeOK'
    BY <1>0, <1>1, HostStep, HostStays DEF Abort
  <2>3. \E p \in Phases : Return(a, p)
    BY <1>1 DEF Abort, Phases
  <2> QED  BY <1>0, <2>1, <2>2, <2>3, ReturnType, TypePartsNext
<1>2. CASE PeerListens(a) \/ ContainerStops(a)
  <2>1. SetsOK' /\ ReqOK'
    BY <1>0, <1>2 DEF PeerListens, ContainerStops, SetsOK, ReqOK, Running, Idle
  <2> QED  BY <1>0, <1>2, <2>1, HostStays, TypePartsNext DEF PeerListens, ContainerStops
<1> QED  BY <1>1, <1>2

Action(b) ==
  \/ StartAdd(b) \/ StartDel(b) \/ AddStep(b) \/ DelStep(b)
  \/ Abort(b) \/ PeerListens(b) \/ ContainerStops(b)

(* Every step keeps the types. *)
LEMMA NextType == TypeOK /\ [Next]_vars => TypeOK'
<1> SUFFICES ASSUME TypeOK, [Next]_vars PROVE TypeOK'
  OBVIOUS
<1>1. CASE UNCHANGED vars
  BY <1>1 DEF vars, hostVars, restVars, reqVars, TypeOK, Host!TypeOK, Running, Idle
<1>2. CASE Next
  <2>1. PICK a \in Att : Action(a)
    BY <1>2 DEF Next, Action, Step
  <2> QED  BY <2>1, AddType, DelType, EnvType DEF Action
<1> QED  BY <1>1, <1>2

(* The initial state is well typed. *)
LEMMA InitType == Init => TypeOK
  BY CniConstants DEF Init, TypeOK, Host!Init, Host!TypeOK, Host!Stage

(* The variables of the plugin's requests have their types; only a request *)
(* under way has a result.                                                 *)
THEOREM CniTypeCorrect == Spec => []TypeOK
<1> QED  BY InitType, NextType, PTL DEF Spec

-----------------------------------------------------------------------------
(* The inductive invariant. *)

InvOf(a) ==
  /\ Done(a, "added") =>
       /\ held[a] # NoPort /\ a \in lease
       /\ ContainerEngine(a) = "vpp" => a \in handed
  /\ Done(a, "absent") => held[a] = NoPort /\ a \notin lease \cup hostFile \cup torn
  /\ PortOwned(a) /\ Adding(a) /\ Deleting(a) /\ Releasable(a)

(* The conjuncts of IInv, attachment by attachment. *)
LEMMA InvParts == IInv <=> TypeOK /\ \A a \in Att : InvOf(a)
  BY DEF IInv, InvOf, AddedIsComplete, DelReleases, PortOwned, Done

(* The same for the next state. *)
LEMMA InvPartsNext == ASSUME TypeOK', \A a \in Att : InvOf(a)' PROVE IInv'
  BY DEF IInv, InvOf, AddedIsComplete, DelReleases, PortOwned, Done

(* What a step leaves alone of an attachment. *)
Kept(a) ==
  /\ pc'[a] = pc[a] /\ phase'[a] = phase[a] /\ conf'[a] = conf[a]
  /\ (a \in lease') <=> (a \in lease)
  /\ (a \in hostFile') <=> (a \in hostFile)
  /\ (a \in torn') <=> (a \in torn)
  /\ (a \in handed') <=> (a \in handed)
  /\ (a \in result') <=> (a \in result)

(* A step of one request leaves the others alone, *)
LEMMA OthersKept ==
  ASSUME TypeOK, NEW a \in Att, NEW b \in Att, a # b, Action(b)
  PROVE  Kept(a)
<1> USE DEF TypeOK, Kept, Goto, Return, restVars, reqVars
<1>1. CASE StartAdd(b) \/ StartDel(b)
  BY <1>1 DEF StartAdd, StartDel
<1>2. CASE MakeFolder(b) \/ Provide(b) \/ HostAdded(b) \/ HostError(b)
  BY <1>2 DEF MakeFolder, Provide, HostAdded, HostError
<1>3. CASE Ipam(b) \/ AddOnContainer(b) \/ PrintResult(b)
  BY <1>3 DEF Ipam, AddOnContainer, PrintResult
<1>4. CASE Withdraw(b) \/ HostDeleted(b) \/ HostDelError(b)
  BY <1>4 DEF Withdraw, HostDeleted, HostDelError
<1>5. CASE DelFromContainer(b) \/ DelIpam(b) \/ DelLink(b)
  BY <1>5 DEF DelFromContainer, DelIpam, DelLink
<1>6. CASE Abort(b) \/ PeerListens(b) \/ ContainerStops(b)
  BY <1>6 DEF Abort, PeerListens, ContainerStops
<1> QED  BY <1>1, <1>2, <1>3, <1>4, <1>5, <1>6 DEF Action, AddStep, DelStep

(* and is a step of the engine for its own attachment, or none at all. *)
LEMMA ActionHost ==
  ASSUME NEW b \in Att, Action(b)
  PROVE  \/ UNCHANGED hostVars
         \/ Host!BeginAdd(b) \/ Host!Provide(b) \/ Host!Added(b) \/ Host!BeginDel(b)
         \/ Host!Withdraw(b) \/ Host!Deleted(b) \/ Host!Fail(b)
  BY DEF Action, AddStep, DelStep, StartAdd, StartDel, MakeFolder, Provide, HostAdded, HostError,
     Ipam, AddOnContainer, PrintResult, Withdraw, HostDeleted, HostDelError, DelFromContainer, DelIpam,
     DelLink, Abort, PeerListens, ContainerStops

(* The ports of all attachments stay owned. *)
LEMMA PortsOwned ==
  ASSUME TypeOK, NEW b \in Att, Action(b), \A a \in Att : PortOwned(a), NEW a \in Att
  PROVE  PortOwned(a)' /\ (a # b => stage'[a] = stage[a] /\ held'[a] = held[a])
<1>0. Host!TypeOK
  BY TypeParts
<1>1. CASE UNCHANGED hostVars
  BY <1>1 DEF hostVars, PortOwned
<1>2. CASE \/ Host!BeginAdd(b) \/ Host!Provide(b) \/ Host!Added(b) \/ Host!BeginDel(b)
           \/ Host!Withdraw(b) \/ Host!Deleted(b) \/ Host!Fail(b)
  <2>1. /\ \A c \in Att : c # b => HostKept(c)
        /\ PortOwned(b)'
    BY <1>0, <1>2, HostStep
  <2> QED  BY <2>1 DEF HostKept
<1> QED  BY <1>1, <1>2, ActionHost

(* Faults are only ever counted up. *)
LEMMA FaultsStay ==
  ASSUME TypeOK, NEW b \in Att, Action(b), faults' = 0
  PROVE  faults = 0 /\ ~Abort(b)
<1>1. ~Abort(b)
  BY CniConstants DEF TypeOK, Abort
<1> QED
  BY <1>1 DEF Action, AddStep, DelStep, StartAdd, StartDel, MakeFolder, Provide, HostAdded,
     HostError, Ipam, AddOnContainer, PrintResult, Withdraw, HostDeleted, HostDelError, DelFromContainer,
     DelIpam, DelLink, PeerListens, ContainerStops

(* A step of cmdAdd keeps the invariant of its own attachment. *)
LEMMA AddOwn ==
  ASSUME TypeOK, NEW a \in Att, InvOf(a), PortOwned(a)', StartAdd(a) \/ AddStep(a)
  PROVE  InvOf(a)'
<1> USE DEF TypeOK, InvOf, Adding, Deleting, Releasable, Done, Idle, Serves, HostListens,
        ListensOnFile, ContainerEngine, AddPc, DelPc, Goto, Return, hostVars, restVars, reqVars
<1>0. Host!TypeOK
  BY TypeParts
<1>1. CASE StartAdd(a)
  <2>1. stage'[a] = "adding" /\ held'[a] = held[a]
    BY <1>0, <1>1, HostEffect DEF StartAdd
  <2>2. a \notin result
    BY <1>1 DEF StartAdd, Running
  <2> QED  BY <1>1, <2>1, <2>2 DEF StartAdd
<1>2. CASE MakeFolder(a)
  BY <1>2 DEF MakeFolder
<1>3. CASE Provide(a)
  <2>1. stage'[a] = stage[a] /\ held'[a] # NoPort
    BY <1>0, <1>3, HostEffect DEF Provide
  <2> QED  BY <1>3, <2>1 DEF Provide
<1>4. CASE HostAdded(a)
  <2>1. held[a] # NoPort /\ held'[a] = held[a] /\ stage'[a] = "added"
    BY <1>0, <1>4, HostEffect DEF HostAdded
  <2> QED  BY <1>4, <2>1 DEF HostAdded
<1>5. CASE HostError(a)
  <2>1. stage'[a] = "failed"
    BY <1>0, <1>5, HostEffect DEF HostError
  <2> QED  BY <1>5, <2>1 DEF HostError
<1>6. CASE Ipam(a)
  BY <1>6 DEF Ipam
<1>7. CASE AddOnContainer(a)
  BY <1>7 DEF AddOnContainer
<1>8. CASE PrintResult(a)
  BY <1>8 DEF PrintResult
<1> QED  BY <1>1, <1>2, <1>3, <1>4, <1>5, <1>6, <1>7, <1>8 DEF AddStep

(* So does a step of cmdDel. *)
LEMMA DelOwn ==
  ASSUME TypeOK, NEW a \in Att, InvOf(a), PortOwned(a)', StartDel(a) \/ DelStep(a)
  PROVE  InvOf(a)'
<1> USE DEF TypeOK, InvOf, Adding, Deleting, Releasable, Done, Idle, Serves, HostListens,
        ListensOnFile, ContainerEngine, AddPc, DelPc, Goto, Return, hostVars, restVars, reqVars
<1>0. Host!TypeOK
  BY TypeParts
<1>1. CASE StartDel(a)
  <2>1. a \notin result
    BY <1>1 DEF StartDel, Running
  <2> QED  BY <1>1, <2>1 DEF StartDel
<1>2. CASE Withdraw(a)
  BY <1>2 DEF Withdraw
<1>3. CASE HostDeleted(a)
  <2>1. held'[a] = NoPort /\ stage'[a] = "absent"
    BY <1>0, <1>3, HostEffect DEF HostDeleted
  <2> QED  BY <1>3, <2>1 DEF HostDeleted
<1>4. CASE HostDelError(a)
  BY <1>4 DEF HostDelError
<1>5. CASE DelFromContainer(a)
  BY <1>5 DEF DelFromContainer
<1>6. CASE DelIpam(a)
  BY <1>6 DEF DelIpam
<1>7. CASE DelLink(a)
  BY <1>7 DEF DelLink
<1> QED  BY <1>1, <1>2, <1>3, <1>4, <1>5, <1>6, <1>7 DEF DelStep

(* A request that is cut short is counted. *)
LEMMA AbortCounts == ASSUME faults \in 0..MaxFaults, NEW a \in Att, Abort(a) PROVE faults' # 0
  BY CniConstants DEF Abort

(* So does the environment. *)
LEMMA EnvOwn ==
  ASSUME TypeOK, NEW a \in Att, InvOf(a), PortOwned(a)',
         Abort(a) \/ PeerListens(a) \/ ContainerStops(a)
  PROVE  InvOf(a)'
<1> USE DEF TypeOK, InvOf, Adding, Deleting, Releasable, Done, Idle, Serves, HostListens,
        ListensOnFile, ContainerEngine, AddPc, DelPc, Return, hostVars, restVars, reqVars
<1>1. CASE Abort(a)
  <2>1. faults' # 0
    BY <1>1, AbortCounts
  <2> QED  BY <1>1, <2>1 DEF Abort
<1>2. CASE PeerListens(a)
  BY <1>2 DEF PeerListens
<1>3. CASE ContainerStops(a)
  BY <1>3 DEF ContainerStops
<1> QED  BY <1>1, <1>2, <1>3

(* Every step keeps the invariant. *)
LEMMA NextInv == IInv /\ [Next]_vars => IInv'
<1> SUFFICES ASSUME IInv, [Next]_vars PROVE IInv'
  OBVIOUS
<1>1. TypeOK /\ TypeOK' /\ \A a \in Att : InvOf(a)
  BY InvParts, NextType
<1>2. CASE UNCHANGED vars
  <2>1. ASSUME NEW a \in Att PROVE InvOf(a)'
    BY <1>1, <1>2 DEF vars, hostVars, restVars, reqVars, InvOf, PortOwned, Adding, Deleting,
       Releasable, Done, Idle, Serves, HostListens, ListensOnFile, ContainerEngine
  <2> QED  BY <1>1, <2>1, InvPartsNext
<1>3. CASE Next
  <2>1. PICK b \in Att : Action(b)
    BY <1>3 DEF Next, Action, Step
  <2>2. ASSUME NEW a \in Att PROVE InvOf(a)'
    <3>1. PortOwned(a)' /\ (a # b => stage'[a] = stage[a] /\ held'[a] = held[a])
      BY <1>1, <2>1, PortsOwned DEF InvOf
    <3>2. CASE a = b
      BY <1>1, <2>1, <3>1, <3>2, AddOwn, DelOwn, EnvOwn DEF Action
    <3>3. CASE a # b
      <4>1. Kept(a) /\ (faults' = 0 => faults = 0)
        BY <1>1, <2>1, <3>3, OthersKept, FaultsStay
      <4> QED
        BY <1>1, <3>1, <3>3, <4>1 DEF Kept, InvOf, Adding, Deleting, Releasable, Done, Idle,
           Serves, HostListens, ListensOnFile, ContainerEngine
    <3> QED  BY <3>2, <3>3
  <2> QED  BY <1>1, <2>2, InvPartsNext
<1> QED  BY <1>2, <1>3

(* It holds at the start. *)
LEMMA InitInv == Init => IInv
<1> SUFFICES ASSUME Init PROVE \A a \in Att : InvOf(a)
  BY InitType, InvParts
<1> QED
  BY CniConstants DEF Init, Host!Init, InvOf, PortOwned, Adding, Deleting, Releasable, Done, Idle

(* At each step of every request, what the engine holds, what is leased    *)
(* and what is left on the host fit together, however requests fail.       *)
THEOREM CniInvariant == Spec => []IInv
<1> QED  BY InitInv, NextInv, PTL DEF Spec

(* A reported success of cmdAdd is a complete attachment. *)
THEOREM AddIsComplete == Spec => []AddedIsComplete
<1>1. IInv => AddedIsComplete
  BY DEF IInv
<1> QED  BY <1>1, CniInvariant, PTL

(* A reported success of cmdDel leaves nothing behind. *)
THEOREM DelIsComplete == Spec => []DelReleases
<1>1. IInv => DelReleases
  BY DEF IInv
<1> QED  BY <1>1, CniInvariant, PTL

(* Unless a request is cut short, the next DEL can release every lease     *)
(* whose port the host listens on.                                         *)
THEOREM LeaseIsReleasable == Spec => []LeaseReleasable
<1>1. IInv => LeaseReleasable
  BY DEF IInv, LeaseReleasable, Releasable, Idle, TypeOK
<1> QED  BY <1>1, CniInvariant, PTL
=============================================================================
