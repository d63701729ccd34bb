------------------------------ MODULE HostVpp ------------------------------
(***************************************************************************)
(* The VPP engine of the user space CNI plugin: AddOnHost and DelFromHost  *)
(* of cnivpp, with everything they call in cnivpp/api and cnivpp/vppdb.    *)
(*                                                                         *)
(* Each CNI request runs in a process of its own.  Processes share VPP,    *)
(* the directory of saved data and the directory of socket files, and      *)
(* nothing locks any of them, so the requests of different attachments     *)
(* interleave at every message to VPP and at every system call.  A step is *)
(* one message or one file operation; pc[a] names the step that the        *)
(* request of attachment a takes next.                                     *)
(***************************************************************************)
EXTENDS Vpp

CONSTANTS
  Conf,        (* the HostConf of each attachment, and its IPAM result     *)
  MaxUsed,     (* length of usedList in findMemifSocket (20 in the code)   *)
  RefusedIdx,  (* sw_if_index in the reply to a memif_create VPP refused   *)
  NoFile,      (* no saved data                                            *)
  Torn,        (* the saved data was created but not yet written           *)
  MaxParallel, (* bound: requests the runtime has under way at a time      *)
  MaxFaults,   (* bound: errors, those that nobody looks at included       *)
  MaxRestarts, (* bound: restarts of VPP                                   *)
  DelFrom      (* the phases in which the runtime sends a DEL              *)

ConfType ==
  [ifType : {"memif", "other"}, role : {"master", "slave", "bad"},
   net : {"bridge", "interface", "none"}, bd : Bd, ip : {"nil", "empty", "some"}]

Phase == {"absent", "added", "addFailed", "delFailed"}

ASSUME HostVppConstants ==
  /\ Conf \in [Att -> ConfType]
  /\ MaxUsed \in Nat /\ MaxUsed <= MaxSock
  /\ Local0 \in RefusedIdx /\ RefusedIdx \cap SwIf = {}
  /\ NoFile # Torn
  /\ {NoFile, Torn} \cap (SwIf \cup RefusedIdx) = {}
  /\ {MaxParallel, MaxFaults, MaxRestarts} \subseteq Nat
  /\ DelFrom \subseteq Phase

VARIABLES
  pc,          (* next step of the request of each attachment              *)
  idx,         (* data.SwIfIndex of the request; Go starts it at 0         *)
  sid,         (* the socket id the request works on                       *)
  phase,       (* what the runtime knows of each attachment                *)
  saved,       (* local-<ContainerId:12>-<If0name>.json                    *)
  dataDir,     (* whether /var/run/vpp/cni/data exists                     *)
  sockFile,    (* the socket files that exist                              *)
  lost,        (* requests whose connection died with VPP                  *)
  kept,        (* history: whose saved data outlived the DEL that read it  *)
  misled,      (* history: a DEL has gone on without the saved index, or   *)
               (* with one that an earlier DEL had used                    *)
  faults, restarts

reqVars == <<pc, idx, sid, phase, lost>>
fileVars == <<saved, dataDir, sockFile>>
envVars == <<kept, misled, faults, restarts>>
vars == <<vppVars, reqVars, fileVars, envVars>>

AddPc == {"find", "addSock", "create", "setUp", "bdFind", "bdAdd", "bdJoin",
          "addIp", "stat", "mkdir", "open", "write"}
DelPc == {"load", "rmdir", "leave", "bdCount", "bdDel", "memFind", "memDel",
          "memCount", "sockDel", "unlink"}
Index == SwIf \cup RefusedIdx

TypeOK ==
  /\ VppTypeOK
  /\ pc \in [Att -> {"idle"} \cup AddPc \cup DelPc]
  /\ idx \in [Att -> Index]
  /\ sid \in [Att -> SockId \cup {0}]
  /\ phase \in [Att -> Phase]
  /\ saved \in [Att -> Index \cup {NoFile, Torn}]
  /\ dataDir \in BOOLEAN
  /\ sockFile \subseteq Att
  /\ lost \subseteq Att
  /\ kept \subseteq Att
  /\ misled \in BOOLEAN
  /\ faults \in 0..MaxFaults
  /\ restarts \in 0..MaxRestarts

Init ==
  /\ VppInit
  /\ pc = [a \in Att |-> "idle"]
  /\ idx = [a \in Att |-> Local0]
  /\ sid = [a \in Att |-> 0]
  /\ phase = [a \in Att |-> "absent"]
  /\ saved = [a \in Att |-> NoFile]
  /\ dataDir = FALSE
  /\ sockFile = {}
  /\ lost = {}
  /\ kept = {}
  /\ misled = FALSE
  /\ faults = 0
  /\ restarts = 0

-----------------------------------------------------------------------------
Idle(a) == pc[a] = "idle"

Running == {a \in Att : ~Idle(a)}

(* The request of a is about to take step l, which is a message to VPP ... *)
Connected(a, l) == pc[a] = l /\ a \notin lost

(* ... and goes on to step l. *)
Goto(a, l) ==
  /\ pc' = [pc EXCEPT ![a] = l]
  /\ UNCHANGED <<phase, lost>>

(* The process of the request ends: its variables are gone. *)
Return(a, p) ==
  /\ pc' = [pc EXCEPT ![a] = "idle"]
  /\ idx' = [idx EXCEPT ![a] = Local0]
  /\ sid' = [sid EXCEPT ![a] = 0]
  /\ phase' = [phase EXCEPT ![a] = p]
  /\ lost' = lost \ {a}

Failed(a) == IF pc[a] \in AddPc THEN "addFailed" ELSE "delFailed"

-----------------------------------------------------------------------------
(* ADD.  An IfType other than memif, or an unknown Role, is an error       *)
(* before anything is sent.                                                *)
Rejected(a) == Conf[a].ifType # "memif" \/ Conf[a].role = "bad"

StartAdd(a) ==
  /\ Idle(a) /\ phase[a] = "absent"
  /\ Cardinality(Running) < MaxParallel
  /\ IF Rejected(a)
     THEN Return(a, "addFailed")
     ELSE Goto(a, "find") /\ UNCHANGED <<idx, sid>>
  /\ UNCHANGED <<vppVars, fileVars, envVars>>

(* Fault: the number of sockets is taken for the next free id.             *)
IsNextSock_Count(s) == s = Cardinality(UsedSock) + 1

(* findMemifSocket compares the file name with every name in the dump, but *)
(* the decoded names keep the NUL padding of their 128-byte field, so none *)
(* is ever equal and the ids of all the entries, id 0 included, are        *)
(* collected.  The process panics when usedList is full, otherwise it      *)
(* takes the least id that is not in use.                                  *)
IsNextSock(s) == s \notin UsedSock /\ \A t \in SockId \ UsedSock : s <= t

FindSocket(a) ==
  /\ Connected(a, "find")
  /\ IF 1 + Cardinality(UsedSock) > MaxUsed
     THEN Return(a, "addFailed")
     ELSE /\ \E s \in SockId : IsNextSock(s) /\ sid' = [sid EXCEPT ![a] = s]
          /\ Goto(a, "addSock") /\ UNCHANGED idx
  /\ UNCHANGED <<vppVars, fileVars, envVars>>

AddSocket(a) ==
  /\ Connected(a, "addSock")
  /\ SocketAdd(sid[a], a)
  /\ Goto(a, "create")
  /\ UNCHANGED <<idx, sid, fileVars, envVars>>

(* A master creates the file that is registered under the socket id.  When *)
(* VPP refuses, the request carries on with the index of the reply.        *)
CreateIf(a) ==
  /\ Connected(a, "create")
  /\ \E i \in Index :
       /\ idx' = [idx EXCEPT ![a] = i]
       /\ \/ /\ i \in SwIf /\ MemifCreate(i, a, sid[a])
             /\ sockFile' = IF Conf[a].role = "master"
                            THEN sockFile \cup {sock[sid[a]]} ELSE sockFile
          \/ /\ ~CanCreate(sid[a]) /\ i \in RefusedIdx
             /\ UNCHANGED <<vppVars, sockFile>>
  /\ Goto(a, "setUp")
  /\ UNCHANGED <<sid, saved, dataDir, envVars>>

(* Fault: the test for an empty IPAM result is inverted.                   *)
NetStep_Inverted(a) ==
  CASE Conf[a].net = "bridge" -> "bdFind"
    [] Conf[a].net = "interface" /\ Conf[a].ip = "empty" -> "addIp"
    [] OTHER -> "stat"

(* The first step that adds the interface to its network. *)
NetStep(a) ==
  CASE Conf[a].net = "bridge" -> "bdFind"
    [] Conf[a].net = "interface" /\ Conf[a].ip = "some" -> "addIp"
    [] OTHER -> "stat"

(* With NetType "interface" the code reads ipResult.IPs: a nil ipResult is *)
(* a panic.                                                                *)
SetUp(a) ==
  /\ Connected(a, "setUp")
  /\ IfUp(idx[a])
  /\ IF Conf[a].net = "interface" /\ Conf[a].ip = "nil"
     THEN Return(a, "addFailed")
     ELSE Goto(a, NetStep(a)) /\ UNCHANGED <<idx, sid>>
  /\ UNCHANGED <<fileVars, envVars>>

(* Fault: the early return of CreateBridge ends the whole ADD.             *)
FindBridge_Return(a) ==
  /\ Connected(a, "bdFind")
  /\ Goto(a, IF Conf[a].bd \in bds THEN "stat" ELSE "bdAdd")
  /\ UNCHANGED <<vppVars, idx, sid, fileVars, envVars>>

FindBridge(a) ==
  /\ Connected(a, "bdFind")
  /\ Goto(a, IF Conf[a].bd \in bds THEN "bdJoin" ELSE "bdAdd")
  /\ UNCHANGED <<vppVars, idx, sid, fileVars, envVars>>

AddBridge(a) ==
  /\ Connected(a, "bdAdd")
  /\ BdAddMsg(Conf[a].bd)
  /\ Goto(a, "bdJoin")
  /\ UNCHANGED <<idx, sid, fileVars, envVars>>

JoinBridge(a) ==
  /\ Connected(a, "bdJoin")
  /\ JoinMsg(idx[a], Conf[a].bd)
  /\ Goto(a, "stat")
  /\ UNCHANGED <<idx, sid, fileVars, envVars>>

AddAddress(a) ==
  /\ Connected(a, "addIp")
  /\ IfAddr(idx[a])
  /\ Goto(a, "stat")
  /\ UNCHANGED <<idx, sid, fileVars, envVars>>

(* Fault: a missing directory is not made.                                 *)
StatDir_NoMkdir(a) ==
  /\ pc[a] = "stat"
  /\ Goto(a, "open")
  /\ UNCHANGED <<vppVars, idx, sid, fileVars, envVars>>

(* SaveVppConfig: stat, mkdir if missing, then open and write the file. *)
StatDir(a) ==
  /\ pc[a] = "stat"
  /\ Goto(a, IF dataDir THEN "open" ELSE "mkdir")
  /\ UNCHANGED <<vppVars, idx, sid, fileVars, envVars>>

MakeDir(a) ==
  /\ pc[a] = "mkdir"
  /\ dataDir' = TRUE
  /\ Goto(a, "open")
  /\ UNCHANGED <<vppVars, idx, sid, saved, sockFile, envVars>>

OpenSaved(a) ==
  /\ pc[a] = "open"
  /\ IF dataDir
     THEN /\ saved' = [saved EXCEPT ![a] = Torn]
          /\ kept' = kept \ {a}
          /\ Goto(a, "write") /\ UNCHANGED <<idx, sid>>
     ELSE Return(a, "addFailed") /\ UNCHANGED <<saved, kept>>
  /\ UNCHANGED <<vppVars, dataDir, sockFile, misled, faults, restarts>>

WriteSaved(a) ==
  /\ pc[a] = "write"
  /\ saved' = [saved EXCEPT ![a] = idx[a]]
  /\ Return(a, "added")
  /\ UNCHANGED <<vppVars, dataDir, sockFile, envVars>>

-----------------------------------------------------------------------------
(* DEL.  The runtime sends it for a failed ADD too, and may repeat one; no *)
(* DEL is ever sent in a container.                                        *)
StartDel(a) ==
  /\ Idle(a) /\ phase[a] \in DelFrom
  /\ Cardinality(Running) < MaxParallel
  /\ Goto(a, "load")
  /\ UNCHANGED <<vppVars, idx, sid, fileVars, envVars>>

(* Fault: the file is not removed once it is loaded.                       *)
LoadSaved_Keep(a) ==
  /\ pc[a] = "load"
  /\ IF saved[a] = Torn
     THEN Return(a, "delFailed")
     ELSE /\ idx' = [idx EXCEPT ![a] = IF saved[a] = NoFile THEN Local0 ELSE saved[a]]
          /\ Goto(a, "rmdir") /\ UNCHANGED sid
  /\ UNCHANGED <<vppVars, fileVars, envVars>>

(* Fault: the error of Unmarshal is dropped.                               *)
LoadSaved_NoParse(a) ==
  /\ pc[a] = "load"
  /\ idx' = [idx EXCEPT ![a] = IF saved[a] = NoFile THEN Local0 ELSE saved[a]]
  /\ saved' = [saved EXCEPT ![a] = NoFile]
  /\ kept' = kept \ {a}
  /\ misled' = (misled \/ a \in kept)
  /\ Goto(a, "rmdir")
  /\ UNCHANGED <<vppVars, sid, dataDir, sockFile, faults, restarts>>

(* LoadVppConfig: a file that does not parse is an error; no file is not,  *)
(* and leaves the index at its zero value.                                 *)
LoadSaved(a) ==
  /\ pc[a] = "load"
  /\ IF saved[a] = Torn
     THEN Return(a, "delFailed") /\ UNCHANGED <<saved, kept, misled>>
     ELSE /\ idx' = [idx EXCEPT ![a] = IF saved[a] = NoFile THEN Local0 ELSE saved[a]]
          /\ saved' = [saved EXCEPT ![a] = NoFile]
          /\ kept' = kept \ {a}
          /\ misled' = (misled \/ a \in kept)
          /\ Goto(a, "rmdir") /\ UNCHANGED sid
  /\ UNCHANGED <<vppVars, dataDir, sockFile, faults, restarts>>

(* DelFromHost after the network is removed. *)
AfterNet(a) ==
  IF Conf[a].ifType = "memif"
  THEN Goto(a, "memFind") /\ UNCHANGED <<idx, sid>>
  ELSE Return(a, "delFailed")

(* DelFromHost once the saved data is loaded. *)
AfterLoad(a) ==
  IF Conf[a].net = "bridge"
  THEN Goto(a, "leave") /\ UNCHANGED <<idx, sid>>
  ELSE AfterNet(a)

(* Fault: RemoveAll in place of Remove.                                    *)
RemoveDir_All(a) ==
  /\ pc[a] = "rmdir"
  /\ dataDir' = FALSE
  /\ saved' = [b \in Att |-> NoFile]
  /\ AfterLoad(a)
  /\ UNCHANGED <<vppVars, sockFile, envVars>>

(* FileCleanup removes the directory if it is empty, as it never is when   *)
(* the file was not removed.                                               *)
RemoveDir(a) ==
  /\ pc[a] = "rmdir"
  /\ dataDir' = (dataDir /\ \E b \in Att : saved[b] # NoFile)
  /\ AfterLoad(a)
  /\ UNCHANGED <<vppVars, saved, sockFile, envVars>>

LeaveBridge(a) ==
  /\ Connected(a, "leave")
  /\ LeaveMsg(idx[a])
  /\ Goto(a, "bdCount")
  /\ UNCHANGED <<idx, sid, fileVars, envVars>>

CountBridge(a) ==
  /\ Connected(a, "bdCount")
  /\ IF Conf[a].bd \in bds /\ Members(Conf[a].bd) = {}
     THEN Goto(a, "bdDel") /\ UNCHANGED <<idx, sid>>
     ELSE AfterNet(a)
  /\ UNCHANGED <<vppVars, fileVars, envVars>>

DeleteBridge(a) ==
  /\ Connected(a, "bdDel")
  /\ BdDelMsg(Conf[a].bd)
  /\ AfterNet(a)
  /\ UNCHANGED <<fileVars, envVars>>

(* findMemifInterface: the socket of the interface, 0 if there is none. *)
FindIf(a) ==
  /\ Connected(a, "memFind")
  /\ sid' = [sid EXCEPT ![a] = IF idx[a] \in Live THEN ifSock[idx[a]] ELSE 0]
  /\ Goto(a, "memDel")
  /\ UNCHANGED <<vppVars, idx, fileVars, envVars>>

(* Fault: memif_delete is not sent.                                        *)
DeleteIf_Never(a) ==
  /\ Connected(a, "memDel")
  /\ Goto(a, IF sid[a] # 0 THEN "memCount" ELSE "unlink")
  /\ UNCHANGED <<vppVars, idx, sid, fileVars, envVars>>

DeleteIf(a) ==
  /\ Connected(a, "memDel")
  /\ MemifDelete(idx[a])
  /\ Goto(a, IF sid[a] # 0 THEN "memCount" ELSE "unlink")
  /\ UNCHANGED <<idx, sid, fileVars, envVars>>

(* Fault: the deleted interface is expected in the count.                  *)
CountSocket_Off(a) ==
  /\ Connected(a, "memCount")
  /\ Goto(a, IF Cardinality(OnSocket(sid[a])) = 1 THEN "sockDel" ELSE "unlink")
  /\ UNCHANGED <<vppVars, idx, sid, fileVars, envVars>>

CountSocket(a) ==
  /\ Connected(a, "memCount")
  /\ Goto(a, IF OnSocket(sid[a]) = {} THEN "sockDel" ELSE "unlink")
  /\ UNCHANGED <<vppVars, idx, sid, fileVars, envVars>>

DeleteSocket(a) ==
  /\ Connected(a, "sockDel")
  /\ SocketDel(sid[a])
  /\ Goto(a, "unlink")
  /\ UNCHANGED <<idx, sid, fileVars, envVars>>

(* The last step removes the socket file; a missing file is an error. *)
Unlink(a) ==
  /\ pc[a] = "unlink"
  /\ Return(a, IF a \in sockFile THEN "absent" ELSE "delFailed")
  /\ sockFile' = sockFile \ {a}
  /\ UNCHANGED <<vppVars, saved, dataDir, envVars>>

-----------------------------------------------------------------------------
(* The environment. *)

(* Fault: findBridge does not break on an error.                           *)
Endless_Bridge == {"memFind", "memCount", "bdFind", "bdCount"}

(* The searches that wait for the end of the dump, however long it takes:  *)
(* findMemifInterface and findMemifSocketCnt.                              *)
Endless == {"memFind", "memCount"}

Local == {"idle", "stat", "mkdir", "open", "write", "load", "rmdir", "unlink"}

(* A request on a dead connection gets no reply.  findBridge takes that    *)
(* for a bridge that does not exist, findMemifSocket fills usedList with   *)
(* its timeouts and panics, and any other message is an error.             *)
NoReply(a) ==
  /\ a \in lost /\ pc[a] \notin Local \cup Endless
  /\ CASE pc[a] = "bdFind"  -> Goto(a, "bdAdd") /\ UNCHANGED <<idx, sid>>
       [] pc[a] = "bdCount" -> AfterNet(a)
       [] OTHER             -> Return(a, Failed(a))
  /\ UNCHANGED <<vppVars, fileVars, envVars>>

(* A request ends at any step: the reply timer fires, a system call fails, *)
(* or the process is killed.  A message whose reply comes late is one that *)
(* VPP served just before.                                                 *)
Abort(a) ==
  /\ ~Idle(a) /\ faults < MaxFaults
  /\ faults' = faults + 1
  /\ Return(a, Failed(a))
  /\ UNCHANGED <<vppVars, fileVars, kept, misled, restarts>>

(* findBridge gives up on its first error, timeouts included. *)
BridgeTimeout(a) ==
  /\ pc[a] \in {"bdFind", "bdCount"} /\ faults < MaxFaults
  /\ faults' = faults + 1
  /\ IF pc[a] = "bdFind" THEN Goto(a, "bdAdd") /\ UNCHANGED <<idx, sid>> ELSE AfterNet(a)
  /\ UNCHANGED <<vppVars, fileVars, kept, misled, restarts>>

(* LoadVppConfig ignores what FileCleanup returns: the saved data stays    *)
(* when its removal fails, and the DEL goes on with the index.             *)
KeepSaved(a) ==
  /\ pc[a] = "load" /\ saved[a] \in Index /\ faults < MaxFaults
  /\ faults' = faults + 1
  /\ idx' = [idx EXCEPT ![a] = saved[a]]
  /\ kept' = kept \cup {a}
  /\ misled' = (misled \/ a \in kept)
  /\ Goto(a, "rmdir")
  /\ UNCHANGED <<vppVars, sid, fileVars, restarts>>

(* It takes any error of Stat for a file that is not there. *)
MissSaved(a) ==
  /\ pc[a] = "load" /\ saved[a] # NoFile /\ faults < MaxFaults
  /\ faults' = faults + 1
  /\ misled' = TRUE
  /\ Goto(a, "rmdir")
  /\ UNCHANGED <<vppVars, idx, sid, fileVars, kept, restarts>>

(* And it does not see that an empty directory could not be removed. *)
KeepDir(a) ==
  /\ pc[a] = "rmdir" /\ faults < MaxFaults
  /\ faults' = faults + 1
  /\ AfterLoad(a)
  /\ UNCHANGED <<vppVars, fileVars, kept, misled, restarts>>

(* The peer in the container is the master and creates the socket file. *)
PeerListens(a) ==
  /\ Conf[a].role = "slave" /\ phase[a] = "added" /\ a \notin sockFile
  /\ sockFile' = sockFile \cup {a}
  /\ UNCHANGED <<vppVars, reqVars, saved, dataDir, envVars>>

VppRestart ==
  /\ restarts < MaxRestarts
  /\ restarts' = restarts + 1
  /\ VppReset
  /\ lost' = Running
  /\ UNCHANGED <<pc, idx, sid, phase, fileVars, kept, misled, faults>>

-----------------------------------------------------------------------------
AddStep(a) ==
  \/ FindSocket(a) \/ AddSocket(a) \/ CreateIf(a) \/ SetUp(a)
  \/ FindBridge(a) \/ AddBridge(a) \/ JoinBridge(a) \/ AddAddress(a)
  \/ StatDir(a) \/ MakeDir(a) \/ OpenSaved(a) \/ WriteSaved(a)

DelStep(a) ==
  \/ LoadSaved(a) \/ RemoveDir(a) \/ LeaveBridge(a) \/ CountBridge(a)
  \/ DeleteBridge(a) \/ FindIf(a) \/ DeleteIf(a) \/ CountSocket(a)
  \/ DeleteSocket(a) \/ Unlink(a)

Step(a) == AddStep(a) \/ DelStep(a) \/ NoReply(a)

Unnoticed(a) == KeepSaved(a) \/ MissSaved(a) \/ KeepDir(a)

Fault(a) == Abort(a) \/ BridgeTimeout(a) \/ Unnoticed(a)

Next ==
  \/ \E a \in Att : StartAdd(a) \/ StartDel(a) \/ Step(a) \/ Fault(a) \/ PeerListens(a)
  \/ VppRestart

(* The operating system schedules every process, VPP answers every live    *)
(* connection and the reply timer always fires.  Nothing obliges the       *)
(* runtime to send a request, or a fault to happen.                        *)
Fairness == \A a \in Att : WF_vars(Step(a))

Spec == Init /\ [][Next]_vars /\ Fairness

-----------------------------------------------------------------------------
(* Properties. *)

(* The indices can be trusted as long as VPP has not restarted and no DEL  *)
(* was misled by saved data that LoadVppConfig left behind or missed.      *)
Trusted == restarts = 0 /\ ~misled

(* The saved data of an attachment names the interface made for that       *)
(* attachment, unless a DEL has used it and could not remove it:           *)
(* LoadVppConfig hands DelFromHost an index to delete without any other    *)
(* check.                                                                  *)
SavedNamesOwn ==
  Trusted => \A a \in Att \ kept : saved[a] \in SwIf => owner[saved[a]] = a

(* An interface disappears, or leaves its bridge, only in the DEL of the   *)
(* attachment it was made for: DelFromHost does not touch the interface of *)
(* another container, however the requests interleave and fail, up to the  *)
(* first DEL that is misled.                                               *)
Touched(i) == owner'[i] # owner[i] \/ (member[i] # NoBd /\ member'[i] = NoBd)

ByItsDel(i) == pc[owner[i]] \in {"leave", "memDel"} /\ pc'[owner[i]] # pc[owner[i]]

ForeignUntouched ==
  [][Trusted' => \A i \in Live : Touched(i) => ByItsDel(i)]_vars

Wired(a) ==
  LET i == saved[a] IN
  /\ i \in SwIf /\ owner[i] = a
  /\ ifSock[i] \in SockId /\ sock[ifSock[i]] = a
  /\ i \in up
  /\ Conf[a].net = "bridge" => member[i] = Conf[a].bd /\ Conf[a].bd \in bds
  /\ Conf[a].net = "interface" /\ Conf[a].ip = "some" => i \in addr

(* When AddOnHost has reported success, the attachment has its interface:  *)
(* on its own socket, up, in its bridge, and recorded for the DEL.  The    *)
(* requests of other attachments, failed ones included, do not undo it     *)
(* unless a DEL is misled.                                                 *)
AddedIsWired ==
  Trusted => \A a \in Att : phase[a] = "added" /\ Idle(a) => Wired(a)

(* The bridge part alone: AddBridgeInterface makes the bridge if it does   *)
(* not exist, so the interface of an added attachment is in its bridge.    *)
AddedIsBridged ==
  Trusted => \A a \in Att :
    phase[a] = "added" /\ Idle(a) /\ Conf[a].net = "bridge" /\ saved[a] \in Live
      => member[saved[a]] = Conf[a].bd

(* The socket part alone: findMemifSocket returns the next free socket id, *)
(* so no two attachments work on one socket, and the interface of each is  *)
(* on the socket of its own file.                                          *)
OwnSocket ==
  \A i \in Live : sock[ifSock[i]] = owner[i]

(* A socket file has one socket id.  findMemifSocket never recognises a    *)
(* file that is registered, so this hangs on every DEL removing the socket *)
(* of its attachment before the next ADD; an ADD that fails leaves its     *)
(* socket behind, and the claim is for a life without faults.              *)
OneIdPerFile ==
  faults = 0 => \A s, t \in UsedSock : sock[s] = sock[t] => s = t

(* A DEL that succeeds leaves nothing of the attachment behind: no         *)
(* interface, no registered socket, no socket file, no saved data.         *)
NothingLeft(a) ==
  /\ a \notin {owner[i] : i \in SwIf} \cup {sock[s] : s \in SockId} \cup sockFile
  /\ saved[a] = NoFile

DelLeavesNothing ==
  \A a \in Att : phase[a] = "absent" /\ Idle(a) => NothingLeft(a)

(* The same in a life without faults. *)
CleanDelLeavesNothing == faults = 0 /\ restarts = 0 => DelLeavesNothing

(* Without faults, when no request is under way, every registered socket   *)
(* has an interface, and every bridge a member or an attachment whose DEL  *)
(* is still to come: DeleteBridge and DeleteMemifInterface count before    *)
(* they delete, and concurrent requests cannot make each of two leavers    *)
(* miss that it is the last.                                               *)
NothingUnused ==
  Running = {} /\ faults = 0 /\ restarts = 0 =>
    /\ \A s \in UsedSock : OnSocket(s) # {}
    /\ \A b \in bds : \/ Members(b) # {}
                      \/ \E a \in Att : phase[a] # "absent" /\ Conf[a].bd = b

(* Without faults a request that the plugin can serve does not fail.       *)
Servable(a) == ~Rejected(a) /\ ~(Conf[a].net = "interface" /\ Conf[a].ip = "nil")

ServableSucceeds ==
  faults = 0 /\ restarts = 0 =>
    \A a \in Att : Servable(a) => phase[a] \in {"absent", "added"}

(* Every request ends.  The exception is a DEL that asks for a dump when   *)
(* VPP has gone: findMemifInterface and findMemifSocketCnt never give up.  *)
Hung(a) == a \in lost /\ pc[a] \in {"memFind", "memCount"}

Terminates == \A a \in Att : ~Idle(a) ~> (Idle(a) \/ Hung(a))

-----------------------------------------------------------------------------
(* The promise to the runtime.  The port that the engine remembers is the  *)
(* one its running request has in hand, or else the one in the saved data. *)
Handle(a) == IF idx[a] \in SwIf THEN idx[a] ELSE saved[a]

Held(a) == IF Handle(a) \in Live /\ owner[Handle(a)] = a THEN Handle(a) ELSE NoFile

StageOf(a) ==
  CASE pc[a] \in AddPc -> "adding"
    [] pc[a] \in DelPc -> "deleting"
    [] OTHER -> IF phase[a] \in {"addFailed", "delFailed"} THEN "failed" ELSE phase[a]

Ports == INSTANCE HostPorts WITH
  Port <- SwIf, NoPort <- NoFile, port <- owner,
  stage <- [a \in Att |-> StageOf(a)],
  held <- [a \in Att |-> Held(a)]

(* One request at a time, every step of AddOnHost and DelFromHost is a     *)
(* step of HostPorts or changes nothing that the caller can tell, whatever *)
(* fails under way, until VPP restarts or a DEL is misled.                 *)
StepsKeepPromise == Ports!Init /\ [][Trusted' => Ports!Next]_(Ports!vars)

(* AddOnHost and DelFromHost implement HostPorts up to that point, and     *)
(* every request ends, even then.                                          *)
KeepsPromise == StepsKeepPromise /\ Ports!Ends
=============================================================================
