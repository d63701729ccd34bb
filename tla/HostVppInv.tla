----------------------------- MODULE HostVppInv -----------------------------
(***************************************************************************)
(* What the properties of HostVpp rest on: its inductive invariants, first *)
(* for any number of concurrent requests, then for one at a time.  TLC     *)
(* checks them in the runs host_concurrent and host_serial; the modules    *)
(* HostVpp...Proofs prove them.                                            *)
(***************************************************************************)
EXTENDS HostVpp

(* The requests that hold an index hold that of their own interface, and a *)
(* DEL that has loaded the index has removed the saved data, or left it    *)
(* behind as it is; it is an earlier DEL that left it, unless the DEL is   *)
(* under way.  With these, SavedNamesOwn is inductive.                     *)
Holding == (AddPc \ {"find", "addSock", "create"})
  \cup {"rmdir", "leave", "bdCount", "bdDel", "memFind", "memDel"}

HandNamesOwn ==
  Trusted =>
    \A a \in Att : pc[a] \in Holding /\ idx[a] \in SwIf => owner[idx[a]] = a

LoadedOnce ==
  ~misled =>
    \A a \in Att : pc[a] \in DelPc \ {"load"} =>
      saved[a] = NoFile \/ (a \in kept /\ saved[a] = idx[a])

LeftBehind ==
  /\ faults = 0 => kept = {} /\ ~misled
  /\ \A a \in kept :
       /\ saved[a] \in Index /\ pc[a] # "write"
       /\ phase[a] = "added" => pc[a] \in DelPc \ {"load"}

HandInv == TypeOK /\ SavedNamesOwn /\ HandNamesOwn /\ LoadedOnce /\ LeftBehind

-----------------------------------------------------------------------------
(* What NothingUnused rests on.  Saved data is complete unless it is being *)
(* written, and belongs to an added attachment or to the DEL about to read *)
(* it; so the index that the requests of an attachment work on is known.   *)
(* Nobody works on what a DEL left behind.                                 *)
InHand(a) ==
  IF pc[a] \in Holding THEN idx[a]
  ELSE IF saved[a] \in Index /\ a \notin kept THEN saved[a] ELSE Local0

Quiet == faults = 0 /\ restarts = 0

Tidy(a) ==
  /\ faults = 0 /\ saved[a] = Torn => pc[a] = "write"
  /\ faults = 0 /\ saved[a] \in Index => (phase[a] = "added" /\ Idle(a)) \/ pc[a] = "load"
  /\ pc[a] \in {"addSock", "create"} => sid[a] \in SockId
  /\ pc[a] \in {"bdFind", "bdAdd", "bdJoin", "leave", "bdCount", "bdDel"}
       => Conf[a].net = "bridge"
  /\ pc[a] = "addIp" => Conf[a].net = "interface"
  /\ Trusted /\ pc[a] = "memDel" /\ idx[a] \in SwIf => sid[a] = ifSock[idx[a]]

(* An interface that is gone is in no bridge, one that is there has a      *)
(* socket id.                                                              *)
VppTidy ==
  /\ restarts = 0 => lost = {}
  /\ \A i \in SwIf \ Live : member[i] = NoBd
  /\ \A i \in Live : ifSock[i] \in SockId

(* A socket without an interface has a request that will make one, or that *)
(* will look for one and remove the socket.                                *)
Empty == \A s \in UsedSock :
  OnSocket(s) = {} => \E a \in Att : sid[a] = s /\ pc[a] \in {"create", "memCount", "sockDel"}

(* An attachment is still to leave its bridge, and then to count.          *)
ToLeave(a) ==
  \/ pc[a] \in {"stat", "mkdir", "open", "write", "load", "rmdir", "leave"}
  \/ Idle(a) /\ phase[a] # "absent"

ToCount(a, b) ==
  /\ Conf[a].net = "bridge" /\ Conf[a].bd = b
  /\ ToLeave(a) \/ pc[a] \in {"bdJoin", "bdCount", "bdDel"}

(* An interface that no request will ever work on: its saved data could    *)
(* not be written.                                                         *)
Stray(i) == i \in Live /\ InHand(owner[i]) # i

(* A member of a bridge is stray, or an attachment is still to leave with  *)
(* it; a bridge has a stray member, or an attachment still to count.       *)
Joined ==
  \A i \in SwIf \cup {Local0} : member[i] # NoBd =>
    \/ Stray(i)
    \/ \E a \in Att : /\ Conf[a].net = "bridge" /\ Conf[a].bd = member[i]
                      /\ ToLeave(a) /\ InHand(a) = i

Counted ==
  \A b \in bds : \/ \E i \in Members(b) : Stray(i)
                 \/ \E a \in Att : ToCount(a, b)

(* An interface whose request is past its bridge is in it.                 *)
Bridging(a) ==
  Conf[a].net = "bridge" /\ InHand(a) \in SwIf
    /\ (pc[a] \in {"stat", "mkdir", "open", "write"} \/ (phase[a] = "added" /\ Idle(a)))
    => member[InHand(a)] = Conf[a].bd

NetInv ==
  /\ VppTidy /\ \A a \in Att : Tidy(a)
  /\ Quiet => Empty /\ Joined /\ Counted
  /\ Trusted /\ JoinCreates => \A a \in Att : Bridging(a)

IInv == HandInv /\ NetInv

-----------------------------------------------------------------------------
(* Requests one at a time.                                                 *)
Serial == MaxParallel <= 1

Alone == \A a, b \in Att : ~Idle(a) /\ ~Idle(b) => a = b

(* A request that lost its connection is the only one: VPP stays empty     *)
(* until it ends.                                                          *)
LostAlone ==
  /\ lost \subseteq Running
  /\ lost # {} => UsedSock = {} /\ Live = {}

(* An ADD has a socket id of its own, and fills it; a DEL has the socket   *)
(* of the interface it is about to delete.                                 *)
Filling(a) ==
  a \notin lost =>
    /\ pc[a] = "addSock" => sid[a] \notin UsedSock
    /\ pc[a] = "create" => sock[sid[a]] = a /\ OnSocket(sid[a]) = {}
    /\ pc[a] = "memDel" /\ idx[a] \in Live => sid[a] = ifSock[idx[a]]

OneIf == \A i, j \in Live : ifSock[i] = ifSock[j] => i = j

(* What an ADD has made so far, and an added attachment has.               *)
Reached(a, S) == pc[a] \in S \/ (phase[a] = "added" /\ Idle(a))

Wiring(a) ==
  LET i == InHand(a) IN
  /\ Reached(a, AddPc \ {"find", "addSock", "create"}) => i \in Live
  /\ Reached(a, AddPc \ {"find", "addSock", "create", "setUp"}) => i \in up
  /\ pc[a] = "bdJoin" => Conf[a].bd \in bds
  /\ Reached(a, {"stat", "mkdir", "open", "write"}) =>
       /\ Conf[a].net = "bridge" => member[i] = Conf[a].bd /\ Conf[a].bd \in bds
       /\ Conf[a].net = "interface" /\ Conf[a].ip = "some" => i \in addr

SerialInv ==
  /\ Alone /\ LostAlone /\ OneIf /\ OwnSocket
  /\ \A a \in Att : Filling(a) /\ (pc[a] = "open" => dataDir)
  /\ Trusted => \A a \in Att : Wiring(a)

-----------------------------------------------------------------------------
(* A configuration in which no request panics on a missing IPAM result.    *)
NoPanic == \A a \in Att : Rejected(a) \/ ~(Conf[a].net = "interface" /\ Conf[a].ip = "nil")

(* A refused request has nothing in hand, ever.                            *)
Nothing(a) == Rejected(a) => pc[a] \notin AddPc /\ idx[a] = Local0 /\ saved[a] = NoFile

(* A registered socket is about to be filled, has the interface that its   *)
(* attachment works on, or is about to be removed.                         *)
Known == \A s \in UsedSock :
  \/ pc[sock[s]] = "create" /\ sid[sock[s]] = s
  \/ InHand(sock[s]) \in Live /\ ifSock[InHand(sock[s])] = s
  \/ /\ OnSocket(s) = {}
     /\ \E a \in Att : /\ sid[a] = s /\ pc[a] \in {"memCount", "sockDel"}
                       /\ restarts = 0 => sock[s] = a

CleanInv ==
  /\ \A a \in Att : Nothing(a)
  /\ faults = 0 => Known /\ OneIdPerFile
  /\ Quiet => \A i \in Live : ~Stray(i)
  /\ \A a \in sockFile : ~(phase[a] = "absent" /\ Idle(a))

-----------------------------------------------------------------------------
(* What the engine remembers for its caller.  A request has no index       *)
(* before it makes or loads one, an ADD finds no saved data of its own     *)
(* but what a DEL left behind, whose interface is gone, and a DEL that is  *)
(* past memif_delete works on nothing.                                     *)
Begins(a) == pc[a] \in AddPc \/ (Idle(a) /\ phase[a] = "absent")

Fresh(a) ==
  /\ pc[a] \in {"idle", "find", "addSock", "create", "load"} => idx[a] = Local0
  /\ ~misled /\ Begins(a) => saved[a] \in {NoFile, Torn} \/ a \in kept

Spent(a) ==
  Trusted /\ a \in kept /\ Begins(a) /\ saved[a] \in SwIf \ {idx[a]}
    => owner[saved[a]] # a

Freed(a) ==
  Trusted /\ pc[a] \in {"memCount", "sockDel", "unlink"} => idx[a] \notin Live

PromiseInv == \A a \in Att : Fresh(a) /\ Spent(a) /\ Freed(a)

-----------------------------------------------------------------------------
(* A configuration in which every request that can be served is: the       *)
(* socket files are made by VPP, there are no more attachments than        *)
(* findMemifSocket can tell the ids of, and a DEL follows an ADD.          *)
Served ==
  /\ NoPanic /\ "absent" \notin DelFrom
  /\ \A a \in Att : Servable(a) => Conf[a].role = "master"
  /\ IsFiniteSet(Att) /\ Cardinality(Att) <= MaxUsed

(* Such a request finds the socket file that its last step removes.        *)
Ready(a) ==
  Servable(a) =>
    /\ phase[a] \in {"absent", "added"}
    /\ pc[a] \in DelPc => phase[a] = "added"
    /\ phase[a] = "added" \/ pc[a] \in AddPc \ {"find", "addSock", "create"}
         => a \in sockFile

ReadyInv == Quiet => \A a \in Att : Ready(a)

(* All of it, as TLC checks it. *)
AloneInv ==
  SerialInv /\ PromiseInv /\ (NoPanic => CleanInv) /\ (Served => ReadyInv)
=============================================================================
