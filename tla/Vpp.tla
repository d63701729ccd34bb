-------------------------------- MODULE Vpp --------------------------------
(***************************************************************************)
(* The VPP instance that the CNI library programs over the govpp binary    *)
(* API: memif socket files, memif interfaces, bridge domains.  VPP is not  *)
(* part of this repository; what is here is what cnivpp/api relies on.     *)
(* VPP serves one binary-API message at a time, so each message is one     *)
(* action.  A message that VPP refuses changes nothing: the refusal        *)
(* travels in the Retval field of the reply, which no caller in            *)
(* cnivpp/api reads (ReceiveReply only reports transport errors).          *)
(*                                                                         *)
(* An attachment (an element of Att) is one interface of one container; it *)
(* also names the socket file memif-<ContainerId:12>-<If0name>.sock.       *)
(***************************************************************************)
EXTENDS Naturals, FiniteSets

CONSTANTS
  Att,         (* attachments                                              *)
  NoAtt,
  SwIf,        (* sw_if_index values VPP can hand out to memif interfaces  *)
  MaxSock,     (* bound: the largest memif socket id                       *)
  Bd,          (* bridge domain ids                                        *)
  NoBd,
  JoinCreates  (* TRUE if a join creates a missing bridge domain; releases
                  of VPP differ                                            *)

Local0 == 0    \* sw_if_index of local0, which always exists, is no memif

SockId == 1..MaxSock     \* id 0 is VPP's default socket, always present

ASSUME VppConstants ==
  /\ NoAtt \notin Att
  /\ NoBd \notin Bd
  /\ Local0 \notin SwIf
  /\ MaxSock \in Nat
  /\ JoinCreates \in BOOLEAN

VARIABLES
  sock,        (* file registered under each socket id                     *)
  owner,       (* history: the attachment whose request made the interface *)
  ifSock,      (* socket id of each memif interface                        *)
  up,          (* interfaces that are administratively up                  *)
  addr,        (* interfaces that were given an IP address                 *)
  member,      (* bridge domain of each interface                          *)
  bds          (* bridge domains that exist                                *)

vppVars == <<sock, owner, ifSock, up, addr, member, bds>>

VppTypeOK ==
  /\ sock \in [SockId -> Att \cup {NoAtt}]
  /\ owner \in [SwIf -> Att \cup {NoAtt}]
  /\ ifSock \in [SwIf -> SockId \cup {0}]
  /\ up \subseteq SwIf
  /\ addr \subseteq SwIf
  /\ member \in [SwIf \cup {Local0} -> Bd \cup {NoBd}]
  /\ bds \subseteq Bd

VppEmpty ==
  [sock   |-> [s \in SockId |-> NoAtt],
   owner  |-> [i \in SwIf |-> NoAtt],
   ifSock |-> [i \in SwIf |-> 0],
   member |-> [i \in SwIf \cup {Local0} |-> NoBd]]

VppInit ==
  /\ sock = VppEmpty.sock
  /\ owner = VppEmpty.owner
  /\ ifSock = VppEmpty.ifSock
  /\ up = {}
  /\ addr = {}
  /\ member = VppEmpty.member
  /\ bds = {}

(* The process restarts with an empty configuration. *)
VppReset ==
  /\ sock' = VppEmpty.sock
  /\ owner' = VppEmpty.owner
  /\ ifSock' = VppEmpty.ifSock
  /\ up' = {}
  /\ addr' = {}
  /\ member' = VppEmpty.member
  /\ bds' = {}

-----------------------------------------------------------------------------
(* What a dump shows. *)

Live == {i \in SwIf : owner[i] # NoAtt}

OnSocket(s) == {i \in Live : ifSock[i] = s}

Members(b) == {i \in SwIf \cup {Local0} : member[i] = b}

UsedSock == {s \in SockId : sock[s] # NoAtt}

-----------------------------------------------------------------------------
(* memif_socket_filename_add_del, IsAdd = 1: refused if the id is taken. *)
SocketAdd(s, a) ==
  /\ sock' = IF sock[s] = NoAtt THEN [sock EXCEPT ![s] = a] ELSE sock
  /\ UNCHANGED <<owner, ifSock, up, addr, member, bds>>

(* memif_socket_filename_add_del, IsAdd = 0: refused while in use. *)
SocketDel(s) ==
  /\ sock' = IF OnSocket(s) = {} THEN [sock EXCEPT ![s] = NoAtt] ELSE sock
  /\ UNCHANGED <<owner, ifSock, up, addr, member, bds>>

(* memif_create with ID = 0: one interface for each pair of socket and ID, *)
(* so a socket without an entry, or with an interface, is refused.         *)
CanCreate(s) == s \in UsedSock /\ OnSocket(s) = {}

MemifCreate(i, a, s) ==
  /\ CanCreate(s)
  /\ owner[i] = NoAtt
  /\ owner' = [owner EXCEPT ![i] = a]
  /\ ifSock' = [ifSock EXCEPT ![i] = s]
  /\ UNCHANGED <<sock, up, addr, member, bds>>

(* memif_delete: refused if the index is no memif interface. *)
MemifDelete(i) ==
  IF i \in Live
  THEN /\ owner' = [owner EXCEPT ![i] = NoAtt]
       /\ ifSock' = [ifSock EXCEPT ![i] = 0]
       /\ up' = up \ {i}
       /\ addr' = addr \ {i}
       /\ member' = [member EXCEPT ![i] = NoBd]
       /\ UNCHANGED <<sock, bds>>
  ELSE UNCHANGED vppVars

(* sw_interface_set_flags and sw_interface_add_del_address. *)
IfUp(i) ==
  /\ up' = IF i \in Live THEN up \cup {i} ELSE up
  /\ UNCHANGED <<sock, owner, ifSock, addr, member, bds>>

IfAddr(i) ==
  /\ addr' = IF i \in Live THEN addr \cup {i} ELSE addr
  /\ UNCHANGED <<sock, owner, ifSock, up, member, bds>>

(* bridge_domain_add_del: a bridge with members is not deleted. *)
BdAddMsg(b) ==
  /\ bds' = bds \cup {b}
  /\ UNCHANGED <<sock, owner, ifSock, up, addr, member>>

BdDelMsg(b) ==
  /\ bds' = IF Members(b) = {} THEN bds \ {b} ELSE bds
  /\ UNCHANGED <<sock, owner, ifSock, up, addr, member>>

(* sw_interface_set_l2_bridge; local0 can be bridged as well. *)
JoinMsg(i, b) ==
  IF i \in Live \cup {Local0} /\ (b \in bds \/ JoinCreates)
  THEN /\ member' = [member EXCEPT ![i] = b]
       /\ bds' = bds \cup {b}
       /\ UNCHANGED <<sock, owner, ifSock, up, addr>>
  ELSE UNCHANGED vppVars

LeaveMsg(i) ==
  /\ member' = IF i \in Live \cup {Local0}
               THEN [member EXCEPT ![i] = NoBd] ELSE member
  /\ UNCHANGED <<sock, owner, ifSock, up, addr, bds>>
=============================================================================
