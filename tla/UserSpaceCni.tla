---------------------------- MODULE UserSpaceCni ----------------------------
(***************************************************************************)
(* The entry points of the user space CNI plugin: cmdAdd and cmdDel, over  *)
(* engines that keep the promise of HostPorts, an IPAM plugin and the      *)
(* container.                                                              *)
(*                                                                         *)
(* cmdAdd makes the port on the host, leases an address, hands the         *)
(* configuration to the container and prints the result; cmdDel takes the  *)
(* port, the configuration, the lease and the link away, in this order.    *)
(* Each of them returns on the first error and undoes nothing, so what is  *)
(* cleaned up hangs on the DELs that the runtime sends afterwards.         *)
(***************************************************************************)
EXTENDS Naturals

CONSTANTS
  Att,        (* attachments, each in a container of its own               *)
  NoAtt,
  Port,
  NoPort,
  Confs,      (* the network configurations each attachment may have       *)
  MaxFaults   (* bound: requests cut short by an error                     *)

ConfType ==
  [host : {"vpp", "ovs-dpdk", "other"}, cont : {"", "vpp", "ovs-dpdk", "other"},
   role : {"master", "slave"}, ipam : BOOLEAN]

ASSUME CniConstants ==
  /\ NoAtt \notin Att /\ NoPort \notin Port
  /\ Confs \in [Att -> SUBSET ConfType]
  /\ MaxFaults \in Nat

VARIABLES
  conf,      (* the NetConf of each attachment                             *)
  stage, port, held,  (* the engine on the host, see HostPorts             *)
  hostFile,  (* attachments with the file or directory on the host without
                which DelFromHost fails: the socket file of VPP, the
                directory of the container of OVS                          *)
  torn,      (* attachments with saved data that does not parse            *)
  pc,        (* next step of the request of each attachment                *)
  result,    (* requests whose result is not nil                           *)
  phase,     (* what the runtime knows of each attachment                  *)
  lease,     (* attachments with an address leased from the IPAM plugin    *)
  handed,    (* attachments whose configuration is left for the container  *)
  gone,      (* attachments whose network namespace is gone                *)
  faults

Host == INSTANCE HostPorts

hostVars == <<stage, port, held>>
restVars == <<hostFile, torn, lease, handed, gone>>
reqVars == <<pc, phase, result>>
vars == <<conf, hostVars, restVars, reqVars, faults>>

AddPc == {"addHost", "ipam", "addCont", "print"}
DelPc == {"delHost", "delCont", "delIpam", "delLink"}

Idle(a) == pc[a] = "idle"

Running == {a \in Att : ~Idle(a)}

TypeOK ==
  /\ conf \in [Att -> ConfType]
  /\ Host!TypeOK
  /\ hostFile \subseteq Att /\ torn \subseteq Att
  /\ lease \subseteq Att /\ handed \subseteq Att /\ gone \subseteq Att
  /\ pc \in [Att -> {"idle"} \cup AddPc \cup DelPc]
  /\ phase \in [Att -> {"absent", "added", "addFailed", "delFailed"}]
  /\ result \subseteq Running
  /\ faults \in 0..MaxFaults

Init ==
  /\ conf \in [Att -> ConfType] /\ \A a \in Att : conf[a] \in Confs[a]
  /\ Host!Init
  /\ hostFile = {} /\ torn = {}
  /\ lease = {} /\ handed = {} /\ gone = {}
  /\ pc = [a \in Att |-> "idle"]
  /\ phase = [a \in Att |-> "absent"]
  /\ result = {}
  /\ faults = 0

(* The engine of the container defaults to that of the host. *)
ContainerEngine(a) == IF conf[a].cont # "" THEN conf[a].cont ELSE conf[a].host

(* The engines whose socket the host makes, and not its peer. *)
HostListens(a) == conf[a].host = "ovs-dpdk" \/ conf[a].role = "master"

(* "other" is also a known engine with an interface type that it refuses,  *)
(* in AddOnHost and in DelFromHost alike.                                  *)
KnownHost(a) == conf[a].host # "other"

-----------------------------------------------------------------------------
Goto(a, l) ==
  /\ pc' = [pc EXCEPT ![a] = l]
  /\ UNCHANGED <<phase, conf>>

(* Fault: the result is kept from one request to the next.                 *)
Return_Keep(a, p) ==
  /\ pc' = [pc EXCEPT ![a] = "idle"]
  /\ phase' = [phase EXCEPT ![a] = p]
  /\ UNCHANGED <<result, conf>>

(* The process of the request ends: its variables are gone. *)
Return(a, p) ==
  /\ pc' = [pc EXCEPT ![a] = "idle"]
  /\ phase' = [phase EXCEPT ![a] = p]
  /\ result' = result \ {a}
  /\ UNCHANGED conf

(* cmdAdd. *)
StartAdd(a) ==
  /\ Idle(a) /\ phase[a] = "absent"
  /\ Host!BeginAdd(a)
  /\ Goto(a, "addHost")
  /\ gone' = gone \ {a}
  /\ UNCHANGED <<hostFile, torn, lease, handed, result, faults>>

(* OVS makes the directory of the container before the port. *)
MakeFolder(a) ==
  /\ pc[a] = "addHost" /\ conf[a].host = "ovs-dpdk"
  /\ a \notin hostFile
  /\ hostFile' = hostFile \cup {a}
  /\ UNCHANGED <<conf, hostVars, torn, lease, handed, gone, reqVars, faults>>

(* The engine makes the port, and its socket if it listens. *)
Provide(a) ==
  /\ pc[a] = "addHost" /\ KnownHost(a)
  /\ conf[a].host = "ovs-dpdk" => a \in hostFile
  /\ Host!Provide(a)
  /\ hostFile' = IF HostListens(a) THEN hostFile \cup {a} ELSE hostFile
  /\ UNCHANGED <<conf, torn, lease, handed, gone, reqVars, faults>>

HostAdded(a) ==
  /\ pc[a] = "addHost"
  /\ Host!Added(a)
  /\ Goto(a, "ipam")
  /\ UNCHANGED <<restVars, result, faults>>

(* An unknown engine, or an interface type that the engine refuses.  An    *)
(* AddOnHost that fails after it has begun is an Abort.                    *)
HostError(a) ==
  /\ pc[a] = "addHost" /\ ~KnownHost(a)
  /\ Host!Fail(a)
  /\ Return(a, "addFailed")
  /\ UNCHANGED <<restVars, faults>>

(* Without an IPAM plugin the result stays nil.  A result that cannot be   *)
(* converted, or that has no address, ends the ADD.                        *)
Ipam(a) ==
  /\ pc[a] = "ipam"
  /\ lease' = IF conf[a].ipam THEN lease \cup {a} ELSE lease
  /\ \/ ~conf[a].ipam /\ Goto(a, "addCont") /\ UNCHANGED result
     \/ conf[a].ipam /\ Goto(a, "addCont") /\ result' = result \cup {a}
     \/ conf[a].ipam /\ Return(a, "addFailed")
  /\ UNCHANGED <<hostVars, hostFile, torn, handed, gone, faults>>

(* AddOnContainer.  VPP leaves the configuration for the container and     *)
(* panics on a nil result; OVS does nothing.                               *)
AddOnContainer(a) ==
  /\ pc[a] = "addCont"
  /\ \/ /\ ContainerEngine(a) = "vpp" /\ a \in result
        /\ handed' = handed \cup {a}
        /\ Goto(a, "print") /\ UNCHANGED result
     \/ /\ ContainerEngine(a) = "ovs-dpdk"
        /\ Goto(a, "print") /\ UNCHANGED <<handed, result>>
     \/ /\ ContainerEngine(a) = "vpp" => a \notin result
        /\ ContainerEngine(a) # "ovs-dpdk"
        /\ Return(a, "addFailed") /\ UNCHANGED handed
  /\ UNCHANGED <<hostVars, hostFile, torn, lease, gone, faults>>

(* Fault: nothing is printed for a nil result, and the ADD succeeds.       *)
PrintResult_Nil(a) ==
  /\ pc[a] = "print"
  /\ Return(a, "added")
  /\ UNCHANGED <<hostVars, restVars, faults>>

(* PrintResult panics on a nil result. *)
PrintResult(a) ==
  /\ pc[a] = "print"
  /\ Return(a, IF a \in result THEN "added" ELSE "addFailed")
  /\ UNCHANGED <<hostVars, restVars, faults>>

-----------------------------------------------------------------------------
(* cmdDel.  The runtime sends it for every attachment that it added or     *)
(* tried to add, and again when it failed.                                 *)
StartDel(a) ==
  /\ Idle(a) /\ phase[a] # "absent"
  /\ Host!BeginDel(a)
  /\ Goto(a, "delHost")
  /\ UNCHANGED <<restVars, result, faults>>

Withdraw(a) ==
  /\ pc[a] = "delHost" /\ KnownHost(a) /\ a \notin torn
  /\ Host!Withdraw(a)
  /\ UNCHANGED <<conf, restVars, reqVars, faults>>

(* DelFromHost removes the file last. *)
HostDeleted(a) ==
  /\ pc[a] = "delHost" /\ KnownHost(a) /\ a \notin torn
  /\ a \in hostFile
  /\ Host!Deleted(a)
  /\ hostFile' = hostFile \ {a}
  /\ Goto(a, "delCont")
  /\ UNCHANGED <<torn, lease, handed, gone, result, faults>>

(* Fault: an engine without saved data for the attachment is an error.     *)
HostDelError_NoRecord(a) ==
  /\ pc[a] = "delHost" /\ (a \in torn \/ ~KnownHost(a) \/ held[a] = NoPort)
  /\ Host!Fail(a)
  /\ Return(a, "delFailed")
  /\ UNCHANGED <<restVars, faults>>

(* DelFromHost fails before it does anything when the engine is unknown or *)
(* the saved data does not parse, and at its end when the file is missing. *)
HostDelError(a) ==
  /\ pc[a] = "delHost"
  /\ ~KnownHost(a) \/ a \in torn \/ (a \notin hostFile /\ held[a] = NoPort)
  /\ Host!Fail(a)
  /\ Return(a, "delFailed")
  /\ UNCHANGED <<restVars, faults>>

(* DelFromContainer: VPP removes the configuration, and drops the error if *)
(* that fails.                                                             *)
DelFromContainer(a) ==
  /\ pc[a] = "delCont"
  /\ \/ ContainerEngine(a) = "vpp" /\ handed' = handed \ {a}
     \/ UNCHANGED handed
  /\ IF ContainerEngine(a) = "other"
     THEN Return(a, "delFailed")
     ELSE Goto(a, "delIpam") /\ UNCHANGED result
  /\ UNCHANGED <<hostVars, hostFile, torn, lease, gone, faults>>

(* Fault: the lease is released only with the result of the ADD in hand.   *)
DelIpam_Result(a) ==
  /\ pc[a] = "delIpam"
  /\ lease' = lease \ (result \cap {a})
  /\ Goto(a, "delLink")
  /\ UNCHANGED <<hostVars, hostFile, torn, handed, gone, result, faults>>

(* Fault: the lease is released in the namespace, which may be gone.       *)
DelIpam_Namespace(a) ==
  /\ pc[a] = "delIpam"
  /\ lease' = IF a \in gone THEN lease ELSE lease \ {a}
  /\ IF a \in gone
     THEN Return(a, "delFailed") ELSE Goto(a, "delLink") /\ UNCHANGED result
  /\ UNCHANGED <<hostVars, hostFile, torn, handed, gone, faults>>

(* ipam.ExecDel, if a plugin is configured; without one there is no lease. *)
DelIpam(a) ==
  /\ pc[a] = "delIpam"
  /\ lease' = lease \ {a}
  /\ Goto(a, "delLink")
  /\ UNCHANGED <<hostVars, hostFile, torn, handed, gone, result, faults>>

(* The last step needs the namespace, if the runtime names one. *)
DelLink(a) ==
  /\ pc[a] = "delLink"
  /\ \/ Return(a, "absent")
     \/ a \in gone /\ Return(a, "delFailed")
  /\ UNCHANGED <<hostVars, restVars, faults>>

-----------------------------------------------------------------------------
(* The environment. *)

(* A request ends at any step: a call fails, or the process is killed.  In *)
(* AddOnHost that may leave saved data that does not parse.                *)
Abort(a) ==
  /\ ~Idle(a) /\ faults < MaxFaults
  /\ faults' = faults + 1
  /\ IF pc[a] \in {"addHost", "delHost"} THEN Host!Fail(a) ELSE UNCHANGED hostVars
  /\ \/ pc[a] = "addHost" /\ held[a] # NoPort /\ torn' = torn \cup {a}
     \/ UNCHANGED torn
  /\ Return(a, IF pc[a] \in AddPc THEN "addFailed" ELSE "delFailed")
  /\ UNCHANGED <<hostFile, lease, handed, gone>>

(* The VPP of the container listens on the socket of a slave. *)
PeerListens(a) ==
  /\ phase[a] = "added" /\ Idle(a)
  /\ conf[a].host = "vpp" /\ ~HostListens(a) /\ a \notin hostFile
  /\ hostFile' = hostFile \cup {a}
  /\ UNCHANGED <<conf, hostVars, torn, lease, handed, gone, reqVars, faults>>

(* The container stops, and its namespace goes. *)
ContainerStops(a) ==
  /\ phase[a] # "absent" /\ a \notin gone
  /\ gone' = gone \cup {a}
  /\ UNCHANGED <<conf, hostVars, hostFile, torn, lease, handed, reqVars, faults>>

-----------------------------------------------------------------------------
AddStep(a) ==
  \/ MakeFolder(a) \/ Provide(a) \/ HostAdded(a) \/ HostError(a)
  \/ Ipam(a) \/ AddOnContainer(a) \/ PrintResult(a)

DelStep(a) ==
  \/ Withdraw(a) \/ HostDeleted(a) \/ HostDelError(a)
  \/ DelFromContainer(a) \/ DelIpam(a) \/ DelLink(a)

Step(a) == AddStep(a) \/ DelStep(a)

Retry(a) == phase[a] \in {"addFailed", "delFailed"} /\ StartDel(a)

Next ==
  \E a \in Att :
    \/ StartAdd(a) \/ StartDel(a) \/ Step(a) \/ Abort(a)
    \/ PeerListens(a) \/ ContainerStops(a)

(* Every process is scheduled, and the runtime repeats the DEL of what it  *)
(* could not add or delete.                                                *)
Fairness == \A a \in Att : WF_vars(Step(a)) /\ WF_vars(Retry(a))

Spec == Init /\ [][Next]_vars /\ Fairness

-----------------------------------------------------------------------------
(* Properties. *)

Done(a, p) == Idle(a) /\ phase[a] = p

(* When cmdAdd has reported success, the attachment has all there is to    *)
(* have: its port on the host, an address, and the configuration in the    *)
(* hands of the container if that needs one, however many of its earlier   *)
(* requests failed.                                                        *)
AddedIsComplete ==
  \A a \in Att : Done(a, "added") =>
    /\ held[a] # NoPort /\ port[held[a]] = a
    /\ a \in lease
    /\ ContainerEngine(a) = "vpp" => a \in handed

(* When cmdDel has reported success, nothing is left that a later ADD or   *)
(* DEL could stumble on: no lease, no port that the engine remembers, no   *)
(* file on the host, no saved data that does not parse.                    *)
DelReleases ==
  \A a \in Att : Done(a, "absent") =>
    held[a] = NoPort /\ a \notin lease \cup hostFile \cup torn

(* cmdDel gets to the IPAM plugin only past the DEL on the host, which     *)
(* succeeds only once, when it removes the file.  Unless a request is cut  *)
(* short, an attachment that still has its lease between two requests      *)
(* still has its file, so its next DEL can release the lease: it matters   *)
(* that nothing which can fail stands between the two.                     *)
Serves(a) == ContainerEngine(a) # "other" /\ HostListens(a)

LeaseReleasable ==
  faults = 0 =>
    \A a \in lease : Serves(a) /\ Idle(a) => a \in hostFile \ torn

(* What makes these inductive: where the engine on the host is at each     *)
(* step, whose port is whose, and what the requests that are under way     *)
(* have made or taken away so far.                                         *)
PortOwned(a) == held[a] # NoPort => port[held[a]] = a

ListensOnFile(a) == HostListens(a) => a \in hostFile

Adding(a) ==
  /\ pc[a] = "addHost" =>
       /\ stage[a] = "adding" /\ a \notin lease \cup torn
       /\ held[a] # NoPort => ListensOnFile(a)
  /\ pc[a] \in {"ipam", "addCont", "print"} =>
       held[a] # NoPort /\ ListensOnFile(a) /\ a \notin torn
  /\ a \in result => a \in lease
  /\ pc[a] = "print" /\ ContainerEngine(a) = "vpp" => a \in handed

Deleting(a) ==
  /\ pc[a] \in DelPc => a \notin result
  /\ pc[a] \in {"delCont", "delIpam", "delLink"} =>
       stage[a] = "absent" /\ held[a] = NoPort /\ a \notin hostFile \cup torn
  /\ pc[a] = "delLink" => a \notin lease
  /\ Done(a, "absent") => stage[a] = "absent"

Releasable(a) ==
  faults = 0 /\ a \in lease /\ Serves(a) =>
    (a \in hostFile /\ a \notin torn) \/ pc[a] \in {"delCont", "delIpam"}

IInv ==
  /\ TypeOK /\ AddedIsComplete /\ DelReleases
  /\ \A a \in Att : PortOwned(a) /\ Adding(a) /\ Deleting(a) /\ Releasable(a)

(* The runtime repeats the DEL of what failed.  As long as the file on the *)
(* host is there, the saved data parses and the engine of the container is *)
(* known, the next DEL releases the lease, unless it is cut short as well: *)
(* the port may be gone already, and so may the namespace.                 *)
Failing(a) == a \in lease /\ phase[a] \in {"addFailed", "delFailed"}

Deletable(a) == Idle(a) /\ a \in hostFile \ torn /\ ContainerEngine(a) # "other"

RetryReleases ==
  \A a \in Att, n \in 0..MaxFaults :
    Failing(a) /\ Deletable(a) /\ faults = n ~> a \notin lease \/ faults > n

(* What CNI asks of a DEL: it completes even if some resources are         *)
(* missing, so that repeating it releases the lease of what failed.        *)
LeaseReleased == \A a \in Att : Failing(a) ~> a \notin lease
=============================================================================
