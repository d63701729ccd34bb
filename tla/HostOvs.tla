------------------------------ MODULE HostOvs ------------------------------
(***************************************************************************)
(* The OVS engine of the user space CNI plugin: AddOnHost and DelFromHost  *)
(* of cniovs, with ovsdb and the script ovs-config.py.                     *)
(*                                                                         *)
(* The script adds a port to the bridge br0 and moves the socket that OVS  *)
(* makes for it to the directory of the container.  Ports and sockets are  *)
(* named <ContainerId:12>-<If0name>, so the name of an attachment is also  *)
(* the name of its port.  A step is one command of the script or one       *)
(* system call.  Requests of different containers interleave; what they    *)
(* share is the directory of saved data.                                   *)
(***************************************************************************)
EXTENDS Naturals, FiniteSets

CONSTANTS
  Att,          (* attachments                                             *)
  NoAtt,
  Cid,          (* containers                                              *)
  ContainerId,  (* the container of each attachment                        *)
  Order,        (* the order in which the runtime adds them                *)
  Names,        (* the attachments whose file names match the pattern of
                   each: its own and those of the same container whose
                   If0name begins with its own                             *)
  Conf,         (* the HostConf of each attachment                         *)
  NoPort,
  MaxParallel,  (* bound: requests under way at a time                     *)
  MaxFaults,    (* bound: requests cut short by an error                   *)
  MaxSwallowed  (* bound: failures that nobody notices                     *)

ConfType == [ifType : {"vhostuser", "other"}, net : {"bridge", "interface", "none"}]

SameContainer(a) == {b \in Att : ContainerId[b] = ContainerId[a]}

ASSUME HostOvsConstants ==
  /\ NoAtt \notin Att /\ NoPort \notin Att
  /\ ContainerId \in [Att -> Cid]
  /\ Order \in [Att -> Nat]
  /\ Names \in [Att -> SUBSET Att]
  /\ \A a \in Att : a \in Names[a] /\ Names[a] \subseteq SameContainer(a)
  /\ Conf \in [Att -> ConfType]
  /\ {MaxParallel, MaxFaults, MaxSwallowed} \subseteq Nat

VARIABLES
  port,      (* the ports of br0                                           *)
  runFile,   (* sockets in the directory where OVS makes them              *)
  sockFile,  (* sockets in the directories of the containers               *)
  folder,    (* containers whose directory exists                          *)
  saved,     (* local-<ContainerId:12>-<If0name>.json, by its Vhostname    *)
  dataDir,   (* whether /var/run/ovs/cni/data exists                       *)
  pc,        (* next step of the request of each attachment                *)
  named,     (* requests that have data.Vhostname in hand                  *)
  phase,     (* what the runtime knows of each attachment                  *)
  marred,    (* history: the attachments of which an ADD failed or a DEL
                was cut short                                              *)
  faults, swallowed

ovsVars == <<port, runFile, sockFile>>
dataVars == <<saved, dataDir>>
envVars == <<faults, swallowed>>
reqVars == <<pc, phase, marred>>
vars == <<ovsVars, folder, dataVars, reqVars, named, envVars>>

AddPc == {"statDir", "mkDir", "addPort", "mvSock", "statData", "mkData", "open", "write"}
DelPc == {"load", "rmData", "delPort", "list", "rmFiles", "rmFolder"}

Idle(a) == pc[a] = "idle"

Running == {a \in Att : ~Idle(a)}

TypeOK ==
  /\ port \subseteq Att /\ runFile \subseteq Att /\ sockFile \subseteq Att
  /\ folder \subseteq Cid
  /\ saved \in [Att -> {"none", "torn", "unnamed", "named"}]
  /\ dataDir \in BOOLEAN
  /\ pc \in [Att -> {"idle"} \cup AddPc \cup DelPc]
  /\ named \subseteq Running
  /\ phase \in [Att -> {"absent", "added", "addFailed", "delFailed"}]
  /\ marred \subseteq Att
  /\ faults \in 0..MaxFaults
  /\ swallowed \in 0..MaxSwallowed

Init ==
  /\ port = {} /\ runFile = {} /\ sockFile = {} /\ folder = {}
  /\ saved = [a \in Att |-> "none"]
  /\ dataDir = FALSE
  /\ pc = [a \in Att |-> "idle"]
  /\ named = {}
  /\ phase = [a \in Att |-> "absent"]
  /\ marred = {}
  /\ faults = 0 /\ swallowed = 0

-----------------------------------------------------------------------------
Goto(a, l) ==
  /\ pc' = [pc EXCEPT ![a] = l]
  /\ UNCHANGED <<phase, marred>>

(* The request of a ends with p. *)
End(a, p) ==
  /\ pc' = [pc EXCEPT ![a] = "idle"]
  /\ phase' = [phase EXCEPT ![a] = p]
  /\ marred' = IF p = "addFailed" THEN marred \cup {a} ELSE marred

(* Fault: the saved data is kept from one request to the next.             *)
Return_Keep(a, p) == End(a, p) /\ UNCHANGED named

(* The variables of the process are gone as well. *)
Return(a, p) == End(a, p) /\ named' = named \ {a}

(* The runtime sets the networks of one container up one after the other.  *)
MayStart(a) ==
  /\ Idle(a) /\ Running \cap SameContainer(a) = {}
  /\ Cardinality(Running) < MaxParallel

(* ADD.  An IfType other than vhostuser is an error. *)
StartAdd(a) ==
  /\ MayStart(a) /\ phase[a] = "absent"
  /\ \A b \in SameContainer(a) : Order[b] < Order[a] => phase[b] = "added"
  /\ IF Conf[a].ifType = "vhostuser"
     THEN Goto(a, "statDir") /\ UNCHANGED named
     ELSE Return(a, "addFailed")
  /\ UNCHANGED <<ovsVars, folder, dataVars, envVars>>

StatDir(a) ==
  /\ pc[a] = "statDir"
  /\ Goto(a, IF ContainerId[a] \in folder THEN "addPort" ELSE "mkDir")
  /\ UNCHANGED <<ovsVars, folder, dataVars, named, envVars>>

MakeDir(a) ==
  /\ pc[a] = "mkDir"
  /\ folder' = folder \cup {ContainerId[a]}
  /\ Goto(a, "addPort")
  /\ UNCHANGED <<ovsVars, dataVars, named, envVars>>

(* ovs-vsctl add-port.  OVS makes a socket for a new port; a port of that  *)
(* name that exists is an error, which the script does not look at.        *)
AddPort(a) ==
  /\ pc[a] = "addPort"
  /\ port' = port \cup {a}
  /\ runFile' = IF a \in port THEN runFile ELSE runFile \cup {a}
  /\ Goto(a, "mvSock")
  /\ UNCHANGED <<sockFile, folder, dataVars, named, envVars>>

(* Fault: AddOnHost returns when it finds the NetType bridge.              *)
AfterVhost_Return(a) ==
  CASE Conf[a].net = "interface" -> Return(a, "addFailed")
    [] Conf[a].net = "bridge"    -> Return(a, "added")
    [] OTHER                     -> Goto(a, "statData") /\ named' = named \cup {a}

(* AddOnHost after addLocalDeviceVhost.  The error for NetType bridge is   *)
(* overwritten by the next call; NetType interface reads the IPAM result,  *)
(* which is nil on the host: a panic.                                      *)
AfterVhost(a) ==
  IF Conf[a].net = "interface"
  THEN Return(a, "addFailed")
  ELSE Goto(a, "statData") /\ named' = named \cup {a}

(* mv of the socket.  A missing file is an error that the script does not  *)
(* look at.  The MAC address is never known: getmac is not given to the    *)
(* script but run as the directory of the containers, which fails.         *)
MoveSocket(a) ==
  /\ pc[a] = "mvSock"
  /\ runFile' = runFile \ {a}
  /\ sockFile' = IF a \in runFile THEN sockFile \cup {a} ELSE sockFile
  /\ AfterVhost(a)
  /\ UNCHANGED <<port, folder, dataVars, envVars>>

(* SaveConfig: stat, mkdir if missing, then open and write the file. *)
StatData(a) ==
  /\ pc[a] = "statData"
  /\ Goto(a, IF dataDir THEN "open" ELSE "mkData")
  /\ UNCHANGED <<ovsVars, folder, dataVars, named, envVars>>

MakeData(a) ==
  /\ pc[a] = "mkData"
  /\ dataDir' = TRUE
  /\ Goto(a, "open")
  /\ UNCHANGED <<ovsVars, folder, saved, named, envVars>>

OpenSaved(a) ==
  /\ pc[a] = "open"
  /\ IF dataDir
     THEN /\ saved' = [saved EXCEPT ![a] = "torn"]
          /\ Goto(a, "write") /\ UNCHANGED named
     ELSE Return(a, "addFailed") /\ UNCHANGED saved
  /\ UNCHANGED <<ovsVars, folder, dataDir, envVars>>

WriteSaved(a) ==
  /\ pc[a] = "write"
  /\ saved' = [saved EXCEPT ![a] = IF a \in named THEN "named" ELSE "unnamed"]
  /\ Return(a, "added")
  /\ UNCHANGED <<ovsVars, folder, dataDir, envVars>>

-----------------------------------------------------------------------------
(* DEL.  The runtime deletes the interfaces of a container in the reverse  *)
(* of the order in which it added them, and repeats a DEL that failed.     *)
StartDel(a) ==
  /\ MayStart(a) /\ phase[a] # "absent"
  /\ \A b \in SameContainer(a) : Order[b] > Order[a] => phase[b] = "absent"
  /\ Goto(a, "load")
  /\ UNCHANGED <<ovsVars, folder, dataVars, named, envVars>>

(* What is in the saved data comes to hand. *)
TakeName(a) == named' = IF saved[a] = "named" THEN named \cup {a} ELSE named

(* LoadConfig: a file that does not parse is an error; no file is not. *)
LoadSaved(a) ==
  /\ pc[a] = "load"
  /\ IF saved[a] = "torn"
     THEN Return(a, "delFailed") /\ UNCHANGED saved
     ELSE /\ TakeName(a)
          /\ saved' = [saved EXCEPT ![a] = "none"]
          /\ Goto(a, "rmData")
  /\ UNCHANGED <<ovsVars, folder, dataDir, envVars>>

(* DelFromHost once the saved data is loaded. *)
AfterLoad(a) ==
  IF Conf[a].ifType = "vhostuser"
  THEN Goto(a, "delPort") /\ UNCHANGED named
  ELSE Return(a, "delFailed")

(* fileCleanup removes the directory of saved data if it is empty. *)
RemoveData(a) ==
  /\ pc[a] = "rmData"
  /\ dataDir' = (dataDir /\ \E b \in Att : saved[b] # "none")
  /\ AfterLoad(a)
  /\ UNCHANGED <<ovsVars, folder, saved, envVars>>

(* Fault: the name of the interface is taken for that of the port.         *)
DeletePort_Ifname(a) ==
  /\ pc[a] = "delPort"
  /\ Goto(a, "list")
  /\ UNCHANGED <<ovsVars, folder, dataVars, named, envVars>>

(* ovs-vsctl --if-exists del-port br0 <Vhostname>.  Without a name the     *)
(* command names br0 itself, which is no port it would delete.             *)
DeletePort(a) ==
  /\ pc[a] = "delPort"
  /\ port' = IF a \in named THEN port \ {a} ELSE port
  /\ runFile' = IF a \in named THEN runFile \ {a} ELSE runFile
  /\ Goto(a, "list")
  /\ UNCHANGED <<sockFile, folder, dataVars, named, envVars>>

(* A missing directory is an error. *)
ListFiles(a) ==
  /\ pc[a] = "list"
  /\ IF ContainerId[a] \in folder
     THEN Goto(a, "rmFiles") /\ UNCHANGED named
     ELSE Return(a, "delFailed")
  /\ UNCHANGED <<ovsVars, folder, dataVars, envVars>>

(* Fault: the pattern has the container's id alone.                        *)
Matches_Container(a) == SameContainer(a)

(* The files that match <ContainerId:12>-<If0name>.* of the attachment. *)
Matches(a) == Names[a]

RemoveFile(a) ==
  /\ pc[a] = "rmFiles"
  /\ \E b \in Matches(a) \cap sockFile : sockFile' = sockFile \ {b}
  /\ UNCHANGED <<port, runFile, folder, dataVars, reqVars, named, envVars>>

Left(a) == SameContainer(a) \cap sockFile

(* Fault: the number of deleted files is not compared.                     *)
NoMoreFiles_Always(a) ==
  /\ pc[a] = "rmFiles" /\ Matches(a) \cap sockFile = {}
  /\ Goto(a, "rmFolder") /\ UNCHANGED named
  /\ UNCHANGED <<ovsVars, folder, dataVars, envVars>>

(* Fault: the comparison is off by one, and the directory stays.           *)
NoMoreFiles_Keep(a) ==
  /\ pc[a] = "rmFiles" /\ Matches(a) \cap sockFile = {}
  /\ Return(a, "absent")
  /\ UNCHANGED <<ovsVars, folder, dataVars, envVars>>

(* The directory goes when every file in it was deleted. *)
NoMoreFiles(a) ==
  /\ pc[a] = "rmFiles" /\ Matches(a) \cap sockFile = {}
  /\ IF Left(a) = {}
     THEN Goto(a, "rmFolder") /\ UNCHANGED named
     ELSE Return(a, "absent")
  /\ UNCHANGED <<ovsVars, folder, dataVars, envVars>>

RemoveFolder(a) ==
  /\ pc[a] = "rmFolder"
  /\ IF Left(a) = {}
     THEN folder' = folder \ {ContainerId[a]} /\ Return(a, "absent")
     ELSE Return(a, "delFailed") /\ UNCHANGED folder
  /\ UNCHANGED <<ovsVars, dataVars, envVars>>

-----------------------------------------------------------------------------
(* The environment. *)

(* A request ends at any step: a system call fails or it is killed. *)
Abort(a) ==
  /\ ~Idle(a) /\ faults < MaxFaults
  /\ faults' = faults + 1
  /\ pc' = [pc EXCEPT ![a] = "idle"]
  /\ phase' = [phase EXCEPT ![a] = IF pc[a] \in AddPc THEN "addFailed" ELSE "delFailed"]
  /\ marred' = marred \cup {a}
  /\ named' = named \ {a}
  /\ UNCHANGED <<ovsVars, folder, dataVars, swallowed>>

Swallow == swallowed < MaxSwallowed /\ swallowed' = swallowed + 1

(* The script cannot be run, or dies: an ADD goes on without a Vhostname,  *)
(* a DEL ends with success.                                                *)
ScriptError(a) ==
  /\ Swallow
  /\ \/ /\ pc[a] \in {"addPort", "mvSock"}
        /\ IF Conf[a].net = "interface"
           THEN Return(a, "addFailed")
           ELSE Goto(a, "statData") /\ UNCHANGED named
     \/ pc[a] = "delPort" /\ Return(a, "absent")
  /\ UNCHANGED <<ovsVars, folder, dataVars, faults>>

(* A command of the script fails, and the script goes on. *)
CommandError(a) ==
  /\ Swallow
  /\ \/ pc[a] = "addPort" /\ Goto(a, "mvSock") /\ UNCHANGED named
     \/ pc[a] = "mvSock" /\ AfterVhost(a)
     \/ pc[a] = "delPort" /\ Goto(a, "list") /\ UNCHANGED named
  /\ UNCHANGED <<ovsVars, folder, dataVars, faults>>

(* LoadConfig ignores what fileCleanup returns: the saved data stays when  *)
(* its removal fails, and the DEL goes on with it.                         *)
KeepSaved(a) ==
  /\ Swallow
  /\ pc[a] = "load" /\ saved[a] \notin {"none", "torn"}
  /\ TakeName(a)
  /\ Goto(a, "rmData")
  /\ UNCHANGED <<ovsVars, folder, dataVars, faults>>

(* It takes any error of Stat for a file that is not there. *)
MissSaved(a) ==
  /\ Swallow
  /\ pc[a] = "load" /\ saved[a] # "none"
  /\ Goto(a, "rmData")
  /\ UNCHANGED <<ovsVars, folder, dataVars, named, faults>>

(* And it does not see that an empty directory could not be removed. *)
KeepDir(a) ==
  /\ Swallow
  /\ pc[a] = "rmData"
  /\ AfterLoad(a)
  /\ UNCHANGED <<ovsVars, folder, dataVars, faults>>

-----------------------------------------------------------------------------
AddStep(a) ==
  \/ StatDir(a) \/ MakeDir(a) \/ AddPort(a) \/ MoveSocket(a)
  \/ StatData(a) \/ MakeData(a) \/ OpenSaved(a) \/ WriteSaved(a)

DelStep(a) ==
  \/ LoadSaved(a) \/ RemoveData(a) \/ DeletePort(a) \/ ListFiles(a)
  \/ RemoveFile(a) \/ NoMoreFiles(a) \/ RemoveFolder(a)

Unnoticed(a) ==
  ScriptError(a) \/ CommandError(a) \/ KeepSaved(a) \/ MissSaved(a) \/ KeepDir(a)

Next ==
  \E a \in Att :
    StartAdd(a) \/ StartDel(a) \/ AddStep(a) \/ DelStep(a) \/ Abort(a) \/ Unnoticed(a)

Spec == Init /\ [][Next]_vars

-----------------------------------------------------------------------------
(* Properties. *)

Added(a) == phase[a] = "added" /\ Idle(a)

(* When AddOnHost has reported success, br0 has the port of the attachment *)
(* and the saved data names it, whatever happens to other requests and     *)
(* whatever failed before, as long as nothing failed unnoticed.            *)
AddedHasPort ==
  swallowed = 0 => \A a \in Att : Added(a) => a \in port /\ saved[a] = "named"

Gone(a) == phase[a] = "absent" /\ Idle(a)

(* What makes it inductive, and what the promise to the caller rests on:   *)
(* a request knows the port it has made and no other, a DEL that is past   *)
(* its port has deleted it or never knew it, and the saved data is there   *)
(* from the end of an ADD to the beginning of a DEL, as long as nothing    *)
(* failed unnoticed.                                                       *)
PortInHand(a) ==
  /\ pc[a] = "mvSock" => a \in port
  /\ pc[a] \in {"statData", "mkData", "open", "write"} => a \in port /\ a \in named
  /\ pc[a] \in {"list", "rmFiles", "rmFolder"} => a \notin port \/ a \notin named

SavedOnce(a) ==
  /\ pc[a] \in {"statDir", "mkDir", "addPort", "mvSock", "load"} => a \notin named
  /\ pc[a] = "write" => saved[a] = "torn"
  /\ swallowed = 0 /\ (Gone(a) \/ pc[a] \in (AddPc \ {"write"}) \cup (DelPc \ {"load"}))
       => saved[a] = "none"

PortInv ==
  /\ TypeOK /\ AddedHasPort
  /\ \A a \in Att : SavedOnce(a) /\ (swallowed = 0 => PortInHand(a))

(* The socket is in the directory of the container as well, unless an      *)
(* earlier ADD failed or a DEL was cut short: the port that stays behind   *)
(* makes no socket again.  DELs match names by their beginning; while the  *)
(* interfaces of a container are deleted in the reverse of the order in    *)
(* which they were added, and no name begins with a later one, no DEL      *)
(* removes a file in use, whatever fails for the other attachments.        *)
AddedIsWired ==
  swallowed = 0 => \A a \in Att : Added(a) => a \in sockFile \/ a \in marred

(* A DEL that succeeds leaves no socket and no saved data, and the last    *)
(* one of a container removes its directory, whatever failed before it     *)
(* with an error that was reported.                                        *)
DelLeavesNoFile ==
  swallowed = 0 =>
    /\ \A a \in Att : Gone(a) => a \notin sockFile /\ saved[a] = "none"
    /\ \A c \in folder : \E a \in Att : ContainerId[a] = c /\ ~Gone(a)

(* A DEL fails by itself only for an attachment of which an earlier ADD    *)
(* failed or a DEL was cut short: what happens to the others, which share  *)
(* its two directories, never makes it fail.                               *)
DelSucceeds ==
  swallowed = 0 =>
    \A a \in Att : phase[a] = "delFailed" => a \in marred

(* What the three of them rest on.  The requests of one container exclude  *)
(* each other, a DEL finds every later interface gone, and so a directory  *)
(* has an attachment and loses only the files of names gone before.        *)
Exclusive ==
  \A a, b \in Att : a # b /\ ContainerId[a] = ContainerId[b] => Idle(a) \/ Idle(b)

LatestFirst ==
  \A a, b \in Att : pc[a] \in DelPc /\ b \in SameContainer(a) /\ Order[b] > Order[a]
                   => phase[b] = "absent"

InUse == \A c \in folder : \E a \in Att : ContainerId[a] = c /\ ~Gone(a)

Cleared(a) ==
  /\ Gone(a) \/ pc[a] \in {"statDir", "mkDir", "addPort"} => a \notin sockFile
  /\ pc[a] \in AddPc => phase[a] = "absent"
  /\ pc[a] \in DelPc => phase[a] # "absent"
  /\ pc[a] = "rmFolder" => Left(a) = {}

(* The names of the interfaces of a container sort as the runtime adds     *)
(* them: none begins with a later one.                                     *)
NamesInOrder == \A a \in Att : \A b \in Names[a] \ {a} : Order[a] < Order[b]

(* Where an unmarred attachment is in its life, its port, its socket and   *)
(* the directory of its container follow from.                             *)
Sound(a) ==
  /\ saved[a] = "torn" => pc[a] = "write"
  /\ phase[a] \in {"absent", "added"}
  /\ phase[a] = "added" \/ ~Idle(a) => Conf[a].ifType = "vhostuser"
  /\ Gone(a) \/ pc[a] \in {"statDir", "mkDir", "addPort", "list", "rmFiles", "rmFolder"}
       => a \notin port
  /\ pc[a] = "mvSock" => a \in runFile
  /\ Added(a) => a \in sockFile
  /\ pc[a] \in {"statData", "mkData", "open", "write", "load", "rmData", "delPort", "list"}
       => a \in sockFile
  /\ pc[a] \in {"addPort", "mvSock"} \/ a \in sockFile => ContainerId[a] \in folder
  /\ pc[a] = "load" => saved[a] = "named"
  /\ pc[a] \in {"rmData", "delPort"} => a \in named

FileInv ==
  /\ Exclusive /\ LatestFirst
  /\ swallowed = 0 => InUse /\ \A a \in Att : Cleared(a)
  /\ swallowed = 0 /\ NamesInOrder => \A a \in Att : a \in marred \/ Sound(a)

IInv == PortInv /\ FileInv

-----------------------------------------------------------------------------
(* The promise to cmdAdd and cmdDel.  The port that the engine remembers   *)
(* is the one its script has just made, the one its request has in hand or *)
(* the one in the saved data.                                              *)
Held(a) ==
  IF a \in port /\ (pc[a] = "mvSock" \/ a \in named \/ saved[a] = "named")
  THEN a ELSE NoPort

StageOf(a) ==
  CASE pc[a] \in AddPc -> "adding"
    [] pc[a] \in DelPc -> "deleting"
    [] OTHER -> IF phase[a] \in {"addFailed", "delFailed"} THEN "failed" ELSE phase[a]

Ports == INSTANCE HostPorts WITH
  Port <- Att,
  port <- [a \in Att |-> IF a \in port THEN a ELSE NoAtt],
  stage <- [a \in Att |-> StageOf(a)],
  held <- [a \in Att |-> Held(a)]

(* AddOnHost and DelFromHost keep the promise of HostPorts, whatever fails *)
(* under way, until something fails without the engine noticing.           *)
KeepsPromise == Ports!Init /\ [][swallowed' = 0 => Ports!Next]_(Ports!vars)
=============================================================================
