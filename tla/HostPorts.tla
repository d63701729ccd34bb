----------------------------- MODULE HostPorts -----------------------------
(***************************************************************************)
(* What an engine promises its caller, cmdAdd and cmdDel, without sockets, *)
(* bridges, files or messages: an ADD that succeeds has given the          *)
(* attachment a port of its own, which the engine remembers until the DEL; *)
(* a DEL takes away the port that is remembered for that attachment and no *)
(* other; every request ends.  A request that fails promises nothing about *)
(* its own port, which may stay behind, forgotten.                         *)
(***************************************************************************)
CONSTANTS Att, NoAtt, Port, NoPort

VARIABLES
  stage,   (* where each attachment is in its life                         *)
  port,    (* the attachment each port was made for                        *)
  held     (* the port that is remembered for each attachment              *)

vars == <<stage, port, held>>

Stage == {"absent", "adding", "added", "deleting", "failed"}

TypeOK ==
  /\ stage \in [Att -> Stage]
  /\ port \in [Port -> Att \cup {NoAtt}]
  /\ held \in [Att -> Port \cup {NoPort}]

Init ==
  /\ stage = [a \in Att |-> "absent"]
  /\ port = [p \in Port |-> NoAtt]
  /\ held = [a \in Att |-> NoPort]

Move(a, from, to) ==
  /\ stage[a] \in from
  /\ stage' = [stage EXCEPT ![a] = to]

BeginAdd(a) == Move(a, {"absent"}, "adding") /\ UNCHANGED <<port, held>>

(* A port that was left behind for the attachment may be taken up again.   *)
Provide(a) ==
  /\ stage[a] = "adding" /\ held[a] = NoPort
  /\ \E p \in Port :
       /\ port[p] \in {NoAtt, a}
       /\ port' = [port EXCEPT ![p] = a]
       /\ held' = [held EXCEPT ![a] = p]
  /\ UNCHANGED stage

Added(a) ==
  /\ held[a] # NoPort
  /\ Move(a, {"adding"}, "added")
  /\ UNCHANGED <<port, held>>

BeginDel(a) ==
  /\ Move(a, {"absent", "added", "failed"}, "deleting")
  /\ UNCHANGED <<port, held>>

Withdraw(a) ==
  /\ stage[a] = "deleting" /\ held[a] # NoPort
  /\ port' = [port EXCEPT ![held[a]] = NoAtt]
  /\ held' = [held EXCEPT ![a] = NoPort]
  /\ UNCHANGED stage

Deleted(a) ==
  /\ held[a] = NoPort
  /\ Move(a, {"deleting"}, "absent")
  /\ UNCHANGED <<port, held>>

(* A request that is refused fails at once. *)
Fail(a) ==
  /\ Move(a, {"absent", "adding", "deleting"}, "failed")
  /\ held' \in {held, [held EXCEPT ![a] = NoPort]}
  /\ UNCHANGED port

Finish(a) ==
  /\ stage[a] \in {"adding", "deleting"}
  /\ Added(a) \/ Deleted(a) \/ Fail(a)

Next ==
  \E a \in Att :
    \/ BeginAdd(a) \/ Provide(a) \/ Added(a)
    \/ BeginDel(a) \/ Withdraw(a) \/ Deleted(a) \/ Fail(a)

(* Every request ends. *)
Ends == \A a \in Att : WF_vars(Finish(a))

Spec == Init /\ [][Next]_vars /\ Ends
=============================================================================
