---------------------------- MODULE RemoteConfig ----------------------------
(***************************************************************************)
(* How the configuration of a container's interfaces travels from the host *)
(* into the container.  For each interface AddOnContainer writes two files *)
(* into a directory of the container, remote-<If0name>.json and            *)
(* addData-<If0name>.json; vpp-app polls that directory inside the         *)
(* container, takes one file of each kind, deletes them, and programs the  *)
(* VPP of the container.  DelFromContainer removes the directory.          *)
(*                                                                         *)
(* The runtime works on the networks of one container one after the other, *)
(* but the plugin and vpp-app share nothing except the files, so vpp-app   *)
(* interleaves with every system call of the plugin.                       *)
(***************************************************************************)
EXTENDS Naturals, Sequences

CONSTANTS
  If,             (* interfaces of the container                           *)
  NoIf,
  Rank,           (* order of the interfaces in a glob of their files      *)
  NoIpam,         (* interfaces whose NetConf names no IPAM plugin         *)
  StartAfterAdd,  (* the container starts when all its ADDs have succeeded *)
  DelLive,        (* a DEL may come while vpp-app runs                     *)
  VppFirst,       (* vpp-app starts when the container's VPP is ready      *)
  CleanupFails,   (* the removal of a directory may fail                   *)
  MaxFaults,      (* bound: system calls of the plugin that fail           *)
  MaxAppFaults    (* bound: system calls of vpp-app that fail              *)

ASSUME RemoteConstants ==
  /\ NoIf \notin If
  /\ Rank \in [If -> Nat]
  /\ NoIpam \subseteq If
  /\ {StartAfterAdd, DelLive, VppFirst, CleanupFails} \subseteq BOOLEAN
  /\ {MaxFaults, MaxAppFaults} \subseteq Nat

VARIABLES
  file,        (* contents of each file of the container's directory       *)
  dir,         (* whether the directory exists                             *)
  mounted,     (* whether it is the directory that the container mounted   *)
  hostPc,      (* next step of the plugin's request for each interface     *)
  phase,       (* what the runtime knows of each interface                 *)
  appPc,       (* next step of vpp-app                                     *)
  kind,        (* the kind of file vpp-app looks for                       *)
  hand,        (* the interface whose file of each kind vpp-app has taken  *)
  text,        (* what vpp-app read last                                   *)
  processed,   (* processedCnt                                             *)
  delivered,   (* history: the pairs vpp-app has programmed into VPP       *)
  vppUp,       (* whether the VPP of the container is ready                *)
  dead,        (* vpp-app holds a govpp connection that failed             *)
  faults,
  kept,        (* history: interfaces of which vpp-app could not delete the
                  remote file that it had read                             *)
  appFaults

hostVars == <<hostPc, phase, faults>>
errVars == <<kept, appFaults>>
appVars == <<appPc, kind, hand, text, processed, delivered, dead, errVars>>
dirVars == <<dir, mounted>>
vars == <<file, dirVars, hostVars, appVars, vppUp>>

Kind == {"remote", "addData"}
Content == {"none", "torn", "full"}

(* The two steps that write a file. *)
Open == [remote |-> "openRemote", addData |-> "openAddData"]
Write == [remote |-> "writeRemote", addData |-> "writeAddData"]

HostPc == {"idle", "stat", "mkdir", "gather", "openRemote", "writeRemote",
           "openAddData", "writeAddData", "rmFiles", "rmDir"}

TypeOK ==
  /\ file \in [Kind -> [If -> Content]]
  /\ dir \in BOOLEAN
  /\ mounted \in BOOLEAN
  /\ hostPc \in [If -> HostPc]
  /\ phase \in [If -> {"absent", "added", "failed", "deleted"}]
  /\ appPc \in {"off", "glob", "read", "remove", "apply", "exited", "stopped"}
  /\ kind \in Kind
  /\ hand \in [Kind -> If \cup {NoIf}]
  /\ text \in Content
  /\ processed \in 0..(IF appPc \in {"exited", "stopped"} THEN 2 ELSE 1)
  /\ delivered \in Seq((If \cup {NoIf}) \X (If \cup {NoIf}))
  /\ vppUp \in BOOLEAN
  /\ dead \in BOOLEAN
  /\ faults \in 0..MaxFaults
  /\ kept \subseteq If
  /\ appFaults \in 0..MaxAppFaults

Init ==
  /\ file = [k \in Kind |-> [i \in If |-> "none"]]
  /\ dir = FALSE
  /\ mounted = TRUE
  /\ hostPc = [i \in If |-> "idle"]
  /\ phase = [i \in If |-> "absent"]
  /\ appPc = "off"
  /\ kind = "remote"
  /\ hand = [k \in Kind |-> NoIf]
  /\ text = "none"
  /\ processed = 0
  /\ delivered = <<>>
  /\ vppUp = VppFirst
  /\ dead = FALSE
  /\ faults = 0
  /\ kept = {} /\ appFaults = 0

-----------------------------------------------------------------------------
Files(k) == {i \in If : file[k][i] # "none"}

Running == {i \in If : hostPc[i] # "idle"}

AppRuns == appPc \notin {"off", "exited", "stopped"}

(* What vpp-app sees of them. *)
Seen(k) == IF mounted THEN Files(k) ELSE {}

(* The plugin's request for i takes step l and goes on to step m ... *)
Goto(i, l, m) ==
  /\ hostPc[i] = l
  /\ hostPc' = [hostPc EXCEPT ![i] = m]
  /\ UNCHANGED <<phase, faults>>

(* ... or ends. *)
Return(i, p) ==
  /\ hostPc' = [hostPc EXCEPT ![i] = "idle"]
  /\ phase' = [phase EXCEPT ![i] = p]
  /\ UNCHANGED faults

-----------------------------------------------------------------------------
(* ADD: SaveRemoteConfig. *)
StartAdd(i) ==
  /\ phase[i] = "absent" /\ Running = {}
  /\ StartAfterAdd => appPc = "off"
  /\ Goto(i, "idle", "stat")
  /\ UNCHANGED <<file, dirVars, appVars, vppUp>>

StatDir(i) ==
  /\ Goto(i, "stat", IF dir THEN "gather" ELSE "mkdir")
  /\ UNCHANGED <<file, dirVars, appVars, vppUp>>

MakeDir(i) ==
  /\ Goto(i, "mkdir", "gather")
  /\ dir' = TRUE
  /\ UNCHANGED <<file, mounted, appVars, vppUp>>

(* The IPAM result is copied through its pointer, which is nil when there  *)
(* was no IPAM plugin to run: the process panics.                          *)
Gather(i) ==
  /\ hostPc[i] = "gather"
  /\ IF i \in NoIpam THEN Return(i, "failed")
                     ELSE Goto(i, "gather", Open.remote)
  /\ UNCHANGED <<file, dirVars, appVars, vppUp>>

(* ioutil.WriteFile creates or truncates the file, then writes it. *)
OpenFile(i, k) ==
  /\ Goto(i, Open[k], Write[k])
  /\ file' = [file EXCEPT ![k][i] = "torn"]
  /\ UNCHANGED <<dirVars, appVars, vppUp>>

(* A file that was deleted after it was opened takes the data with it. *)
WriteFile(i, k) ==
  /\ hostPc[i] = Write[k]
  /\ IF k = "remote" THEN Goto(i, Write[k], Open.addData)
                     ELSE Return(i, "added")
  /\ file' = [file EXCEPT ![k][i] = IF @ = "none" THEN "none" ELSE "full"]
  /\ UNCHANGED <<dirVars, appVars, vppUp>>

(* Fault: the error of WriteFile is dropped.                               *)
Abort_Dropped(i) ==
  /\ faults < MaxFaults /\ hostPc[i] # "idle"
  /\ faults' = faults + 1
  /\ hostPc' = [hostPc EXCEPT ![i] = "idle"]
  /\ phase' = [phase EXCEPT ![i] = "added"]
  /\ UNCHANGED <<file, dirVars, appVars, vppUp>>

(* A system call of an ADD fails, or the process of any request is killed. *)
Abort(i) ==
  /\ faults < MaxFaults /\ hostPc[i] # "idle"
  /\ faults' = faults + 1
  /\ hostPc' = [hostPc EXCEPT ![i] = "idle"]
  /\ phase' = [phase EXCEPT ![i] = "failed"]
  /\ UNCHANGED <<file, dirVars, appVars, vppUp>>

-----------------------------------------------------------------------------
(* DEL: CleanupRemoteConfig, a RemoveAll of the container's directory,     *)
(* whatever interface the DEL is for.                                      *)
StartDel(i) ==
  /\ phase[i] \in {"added", "failed"} /\ Running = {}
  /\ DelLive \/ ~AppRuns
  /\ Goto(i, "idle", "rmFiles")
  /\ UNCHANGED <<file, dirVars, appVars, vppUp>>

RemoveFile(i) ==
  /\ hostPc[i] = "rmFiles"
  /\ \E k \in Kind : \E j \in Files(k) : file' = [file EXCEPT ![k][j] = "none"]
  /\ UNCHANGED <<dirVars, hostVars, appVars, vppUp>>

NoMoreFiles(i) ==
  /\ \A k \in Kind : Files(k) = {}
  /\ Goto(i, "rmFiles", "rmDir")
  /\ UNCHANGED <<file, dirVars, appVars, vppUp>>

RemoveDir(i) ==
  /\ hostPc[i] = "rmDir"
  /\ dir' = FALSE
  /\ mounted' = ~AppRuns
  /\ Return(i, "deleted")
  /\ UNCHANGED <<file, appVars, vppUp>>

(* An error of RemoveAll is printed, and the DEL goes on. *)
CleanupError(i) ==
  /\ CleanupFails /\ faults < MaxFaults
  /\ hostPc[i] \in {"rmFiles", "rmDir"}
  /\ faults' = faults + 1
  /\ hostPc' = [hostPc EXCEPT ![i] = "idle"]
  /\ phase' = [phase EXCEPT ![i] = "deleted"]
  /\ UNCHANGED <<file, dirVars, appVars, vppUp>>

-----------------------------------------------------------------------------
(* vpp-app.  The container runtime makes the directory it mounts. *)
StartApp ==
  /\ appPc = "off"
  /\ VppFirst => vppUp
  /\ StartAfterAdd => Running = {} /\ \A i \in If : phase[i] # "failed"
  /\ appPc' = "glob"
  /\ dir' = TRUE
  /\ UNCHANGED <<file, mounted, hostVars, kind, hand, text, processed, delivered,
                 vppUp, dead, errVars>>

(* Fault: only the rounds that find something count.                       *)
Round_Found(found) ==
  LET n == IF found THEN processed + 1 ELSE processed IN
  /\ processed' = n
  /\ appPc' = IF n > 1 THEN "exited" ELSE "glob"
  /\ kind' = "remote"
  /\ hand' = [k \in Kind |-> NoIf]
  /\ text' = "none"

(* Fault: the comparison is off by one.                                    *)
Round_Late(found) ==
  LET n == IF found \/ processed > 0 THEN processed + 1 ELSE 0 IN
  /\ processed' = n
  /\ appPc' = IF n > 2 THEN "exited" ELSE "glob"
  /\ kind' = "remote"
  /\ hand' = [k \in Kind |-> NoIf]
  /\ text' = "none"

(* Fault: main exits at once when a round has found something.             *)
Round_AtOnce(found) ==
  /\ processed' = IF found THEN 1 ELSE 0
  /\ appPc' = IF found THEN "exited" ELSE "glob"
  /\ kind' = "remote"
  /\ hand' = [k \in Kind |-> NoIf]
  /\ text' = "none"

(* The end of one round of main.  Once a round has found something, main   *)
(* goes round once more and exits.                                         *)
Round(found) ==
  LET n == IF found \/ processed > 0 THEN processed + 1 ELSE 0 IN
  /\ processed' = n
  /\ appPc' = IF n > 1 THEN "exited" ELSE "glob"
  /\ kind' = "remote"
  /\ hand' = [k \in Kind |-> NoIf]
  /\ text' = "none"

(* findFile: the first match of the glob is read and deleted. *)
First(S) == CHOOSE i \in S : \A j \in S : Rank[i] <= Rank[j]

Glob ==
  /\ appPc = "glob"
  /\ IF Seen(kind) = {}
     THEN Round(FALSE)
     ELSE /\ hand' = [hand EXCEPT ![kind] = First(Seen(kind))]
          /\ appPc' = "read"
          /\ UNCHANGED <<kind, text, processed>>
  /\ UNCHANGED <<file, dirVars, hostVars, delivered, vppUp, dead, errVars>>

(* A match that has gone by now is an error, of a file that was found. *)
Read ==
  /\ appPc = "read"
  /\ IF hand[kind] \notin Seen(kind)
     THEN Round(TRUE)
     ELSE /\ text' = file[kind][hand[kind]]
          /\ appPc' = "remove"
          /\ UNCHANGED <<kind, hand, processed>>
  /\ UNCHANGED <<file, dirVars, hostVars, delivered, vppUp, dead, errVars>>

(* What was read is parsed: a file cut off is an error, a remote           *)
(* configuration has its additional data looked for.                       *)
Parse ==
  IF text = "torn"
  THEN Round(TRUE)
  ELSE /\ IF kind = "remote" THEN appPc' = "glob" /\ kind' = "addData"
                             ELSE appPc' = "apply" /\ UNCHANGED kind
       /\ UNCHANGED <<hand, text, processed>>

(* Fault: the file is not deleted.                                         *)
Remove_Keep ==
  /\ appPc = "remove"
  /\ Parse
  /\ UNCHANGED <<file, dirVars, hostVars, delivered, vppUp, dead, errVars>>

(* Fault: the error of Unmarshal is dropped.                               *)
Remove_NoParse ==
  /\ appPc = "remove"
  /\ file' = IF mounted THEN [file EXCEPT ![kind][hand[kind]] = "none"] ELSE file
  /\ IF kind = "remote" THEN appPc' = "glob" /\ kind' = "addData"
                        ELSE appPc' = "apply" /\ UNCHANGED kind
  /\ UNCHANGED <<dirVars, hostVars, hand, text, processed, delivered, vppUp, dead, errVars>>

(* The file is deleted before it is parsed, and the remote configuration   *)
(* before its additional data is looked for.                               *)
Remove ==
  /\ appPc = "remove"
  /\ file' = IF mounted THEN [file EXCEPT ![kind][hand[kind]] = "none"] ELSE file
  /\ Parse
  /\ UNCHANGED <<dirVars, hostVars, delivered, vppUp, dead, errVars>>

(* AddOnHost in the container.  A failed connect leaves its connection     *)
(* behind in govpp, which allows one per process, so no later one works.   *)
Apply ==
  /\ appPc = "apply"
  /\ IF vppUp /\ ~dead
     THEN /\ delivered' = Append(delivered, <<hand["remote"], hand["addData"]>>)
          /\ UNCHANGED dead
     ELSE dead' = TRUE /\ UNCHANGED delivered
  /\ Round(TRUE)
  /\ UNCHANGED <<file, dirVars, hostVars, vppUp, errVars>>

(* System calls of vpp-app that fail. *)
AppFault ==
  /\ appFaults < MaxAppFaults /\ appFaults' = appFaults + 1
  /\ UNCHANGED <<file, dirVars, hostVars, delivered, vppUp, dead>>

(* A directory that cannot be listed has no matches. *)
GlobError ==
  /\ AppFault
  /\ appPc = "glob"
  /\ Round(FALSE)
  /\ UNCHANGED kept

(* A file that cannot be read is an error, and stays. *)
ReadError ==
  /\ AppFault
  /\ appPc = "read"
  /\ Round(TRUE)
  /\ UNCHANGED kept

(* findFile ignores what FileCleanup returns: a file that cannot be        *)
(* deleted is used all the same.                                           *)
KeepFile ==
  /\ AppFault
  /\ appPc = "remove" /\ hand[kind] \in Seen(kind)
  /\ kept' = IF kind = "remote" THEN kept \cup {hand["remote"]} ELSE kept
  /\ Parse

VppReady ==
  /\ ~vppUp
  /\ vppUp' = TRUE
  /\ UNCHANGED <<file, dirVars, hostVars, appVars>>

(* The runtime stops the container. *)
StopApp ==
  /\ AppRuns
  /\ appPc' = "stopped"
  /\ UNCHANGED <<file, dirVars, hostVars, kind, hand, text, processed, delivered, vppUp,
                 dead, errVars>>

-----------------------------------------------------------------------------
HostStep(i) ==
  \/ StatDir(i) \/ MakeDir(i) \/ Gather(i)
  \/ \E k \in Kind : OpenFile(i, k) \/ WriteFile(i, k)
  \/ RemoveFile(i) \/ NoMoreFiles(i) \/ RemoveDir(i)

AppStep == Glob \/ Read \/ Remove \/ Apply

AppError == GlobError \/ ReadError \/ KeepFile

Next ==
  \/ \E i \in If : StartAdd(i) \/ StartDel(i) \/ HostStep(i)
                  \/ Abort(i) \/ CleanupError(i)
  \/ StartApp \/ AppStep \/ AppError \/ StopApp \/ VppReady

Spec ==
  /\ Init /\ [][Next]_vars
  /\ \A i \in If : WF_vars(HostStep(i))
  /\ WF_vars(AppStep) /\ WF_vars(VppReady)

-----------------------------------------------------------------------------
(* Properties. *)

(* vpp-app programs the configuration of an interface with the additional  *)
(* data, the IPAM result above all, of the same interface.                 *)
Paired == \A n \in DOMAIN delivered : delivered[n][1] = delivered[n][2]

(* FindRemoteConfig never compares the names of its two files.  What pairs *)
(* them is that both globs are sorted alike and that both files of every   *)
(* interface are there, which a container started after its ADDs has,      *)
(* and none of an interface that was cleaned up.  A file that vpp-app      *)
(* cannot list, read or delete is enough to set them apart.                *)
PairedDelivery ==
  StartAfterAdd /\ ~DelLive /\ ~CleanupFails /\ appFaults = 0 => Paired

(* Before the container starts, with nothing failed and no removal under   *)
(* way, the two files of an interface are both missing or both complete,   *)
(* but for the interface whose files are being written.  While it runs the *)
(* plugin is idle, and the interface in vpp-app's hand is the only one     *)
(* without a remote file.  With these, PairedDelivery is inductive.        *)
Agree(i) == file["remote"][i] = file["addData"][i] /\ file["remote"][i] # "torn"

Alone == \A i, j \in Running : i = j

Writing ==
  \A i \in If :
    /\ hostPc[i] \notin {"idle", "rmFiles", "rmDir"} => phase[i] = "absent"
    /\ hostPc[i] = "writeRemote" => file["remote"][i] = "torn"
    /\ hostPc[i] = "openAddData" => file["remote"][i] = "full"
    /\ hostPc[i] = "writeAddData" => file["remote"][i] = "full" /\ file["addData"][i] = "torn"

Removing ==
  \A i \in If : hostPc[i] = "rmDir" => \A k \in Kind : Files(k) = {}

Before ==
  /\ kind = "remote" /\ mounted
  /\ Writing /\ Removing
  /\ (\A i \in If : phase[i] # "failed" /\ hostPc[i] # "rmFiles") =>
       \A i \in If : hostPc[i] \notin {"writeRemote", "openAddData", "writeAddData"} => Agree(i)

While ==
  LET c == hand["remote"] IN
  /\ mounted /\ Running = {}
  /\ \A i \in If \ {c} : Agree(i)
  /\ kind = "remote" => /\ \A i \in If : Agree(i)
                        /\ appPc \in {"read", "remove"} => c = First(Files("remote"))
                        /\ appPc # "apply"
  /\ kind = "addData" => /\ c \in If /\ file["remote"][c] = "none"
                         /\ appPc # "apply" => /\ file["addData"][c] = "full"
                                               /\ c = First(Files("addData"))
                         /\ appPc # "glob" => hand["addData"] = c
                         /\ appPc = "apply" => Agree(c)
  /\ appPc = "remove" => text = "full" /\ hand[kind] \in Files(kind) /\ file[kind][hand[kind]] = text

BootInv ==
  StartAfterAdd /\ ~DelLive /\ ~CleanupFails /\ appFaults = 0 =>
    /\ Paired /\ Alone
    /\ appPc = "off" => Before
    /\ AppRuns => While

(* A configuration is programmed at most once, however DELs and faults     *)
(* interleave with the search for it, unless its file could not be deleted *)
(* when it was read.                                                       *)
AtMostOnce ==
  \A m, n \in DOMAIN delivered :
    delivered[m][1] = delivered[n][1] => m = n \/ delivered[n][1] \in kept

(* vpp-app programs nothing from a file that is still being written: the   *)
(* plugin is past the write of both files, or its request has ended.       *)
Past == [remote |-> {"openAddData", "writeAddData"}, addData |-> {}]

Written(i, k) == phase[i] # "absent" \/ hostPc[i] \in Past[k]

OnlyWritten ==
  \A n \in DOMAIN delivered :
    Written(delivered[n][1], "remote") /\ Written(delivered[n][2], "addData")

(* Both rest on where a configuration is on its way: in a file that was    *)
(* written once and never will be again, in vpp-app's hand, or delivered,  *)
(* with its file gone from the directory that vpp-app sees, unless it      *)
(* could not be deleted.                                                   *)
Unread(i) == i \in kept \/ \A n \in DOMAIN delivered : delivered[n][1] # i

Used(i) ==
  /\ Written(i, "remote")
  /\ mounted => file["remote"][i] = "none" \/ i \in kept

Posting ==
  /\ \A i \in If : hostPc[i] \notin {"idle", "rmFiles", "rmDir"} => phase[i] = "absent"
  /\ \A k \in Kind : \A i \in If : file[k][i] = "full" => Written(i, k)

Carrying ==
  /\ appPc \in {"read", "remove"} => hand[kind] \in If
  /\ appPc \in {"read", "remove"} /\ kind = "remote" => Unread(hand["remote"])
  /\ appPc = "remove" => text \in {"torn", "full"}
  /\ appPc = "remove" /\ text = "full" => Written(hand[kind], kind)
  /\ kind = "addData" =>
       hand["remote"] \in If /\ Used(hand["remote"]) /\ Unread(hand["remote"])
  /\ appPc = "apply" =>
       kind = "addData" /\ hand["addData"] \in If /\ Written(hand["addData"], "addData")
  /\ \A n \in DOMAIN delivered : Used(delivered[n][1])

OnceInv ==
  /\ Posting /\ AtMostOnce /\ OnlyWritten
  /\ \A n \in DOMAIN delivered : delivered[n] \in If \X If
  /\ appPc = "off" => delivered = <<>> /\ kind = "remote"
  /\ AppRuns => Carrying

(* Once it has found something, vpp-app goes round once more and exits.    *)
ExitsAfterFound == processed > 0 ~> ~AppRuns

(* Both files of an interface are read and deleted when the container      *)
(* comes up, and their data is written to VPP, unless a system call of     *)
(* vpp-app fails.                                                          *)
Posted(i) == file["remote"][i] = "full" /\ file["addData"][i] = "full"

Got(i) == \E n \in DOMAIN delivered : delivered[n] = <<i, i>>

Delivered ==
  \A i \in If :
    AppRuns /\ Posted(i) ~> Got(i) \/ appPc = "stopped" \/ appFaults > 0
=============================================================================
