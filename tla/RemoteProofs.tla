---------------------------- MODULE RemoteProofs ----------------------------
(***************************************************************************)
(* For any set of interfaces and any order of their file names: the state  *)
(* of RemoteConfig is well typed, and a container started after its ADDs   *)
(* gets the configuration and the additional data of each interface        *)
(* together.                                                               *)
(***************************************************************************)
EXTENDS RemoteConfig, WellFoundedInduction, TLAPS

USE DEF errVars

-----------------------------------------------------------------------------
(* Type correctness. *)

(* The initial state is well typed. *)
LEMMA InitType == Init => TypeOK
<1> SUFFICES ASSUME Init PROVE TypeOK
  OBVIOUS
<1>1. VppFirst \in BOOLEAN /\ 0 \in 0..MaxFaults /\ 0 \in 0..MaxAppFaults
  BY RemoteConstants
<1>2. delivered \in Seq((If \cup {NoIf}) \X (If \cup {NoIf}))
  BY DEF Init
<1>3. file \in [Kind -> [If -> Content]] /\ hand \in [Kind -> If \cup {NoIf}]
  BY DEF Init, Content
<1>4. processed = 0 /\ processed \in 0..(IF appPc \in {"exited", "stopped"} THEN 2 ELSE 1)
  BY DEF Init
<1> QED
  BY <1>1, <1>2, <1>3, <1>4 DEF Init, TypeOK, Kind, Content, HostPc

(* What the runtime knows of an interface. *)
Phase == {"absent", "added", "failed", "deleted"}

(* A request that goes on, or ends, keeps the types of its variables. *)
LEMMA HostMoves ==
  ASSUME TypeOK, NEW i \in If
  PROVE  /\ \A l, m \in HostPc : Goto(i, l, m) =>
              /\ hostPc' \in [If -> HostPc]
              /\ phase' \in [If -> Phase] /\ faults' \in 0..MaxFaults
         /\ \A p \in Phase : Return(i, p) =>
              /\ hostPc' \in [If -> HostPc]
              /\ phase' \in [If -> Phase] /\ faults' \in 0..MaxFaults
BY DEF TypeOK, Goto, Return, HostPc, Phase

(* The end of a round keeps the types of vpp-app's variables. *)
LEMMA RoundType ==
  ASSUME TypeOK, AppRuns, NEW f \in BOOLEAN, Round(f)
  PROVE  /\ processed' \in 0..(IF appPc' \in {"exited", "stopped"} THEN 2 ELSE 1)
         /\ appPc' \in {"glob", "exited"}
         /\ kind' = "remote"
         /\ hand' \in [Kind -> If \cup {NoIf}]
         /\ text' = "none"
BY DEF TypeOK, Round, AppRuns

(* Every step of the plugin is well typed. *)
LEMMA HostType ==
  ASSUME TypeOK, NEW i \in If,
         StartAdd(i) \/ StartDel(i) \/ HostStep(i) \/ Abort(i) \/ CleanupError(i)
  PROVE  TypeOK'
<1> USE DEF Phase, Kind, Content, HostPc
<1>1. ASSUME NEW k \in Kind, NEW j \in If, NEW c \in Content
      PROVE  [file EXCEPT ![k][j] = c] \in [Kind -> [If -> Content]]
  BY DEF TypeOK
<1>2. CASE StartAdd(i)
  BY <1>2, HostMoves DEF TypeOK, StartAdd, dirVars, appVars
<1>3. CASE StartDel(i)
  BY <1>3, HostMoves DEF TypeOK, StartDel, dirVars, appVars
<1>4. CASE StatDir(i)
  BY <1>4, HostMoves DEF TypeOK, StatDir, dirVars, appVars
<1>5. CASE MakeDir(i)
  BY <1>5, HostMoves DEF TypeOK, MakeDir, appVars
<1>6. CASE Gather(i)
  BY <1>6, HostMoves DEF TypeOK, Gather, dirVars, appVars, Open
<1>7. ASSUME NEW k \in Kind, OpenFile(i, k) PROVE TypeOK'
  <2>1. Open[k] \in HostPc /\ Write[k] \in HostPc
    BY DEF Open, Write
  <2>2. file' \in [Kind -> [If -> Content]]
    BY <1>1, <1>7 DEF OpenFile
  <2> QED
    BY <1>7, <2>1, <2>2, HostMoves DEF TypeOK, OpenFile, dirVars, appVars
<1>8. ASSUME NEW k \in Kind, WriteFile(i, k) PROVE TypeOK'
  <2>1. Write[k] \in HostPc /\ Open.addData \in HostPc
    BY DEF Open, Write
  <2>2. file' \in [Kind -> [If -> Content]]
    BY <1>8 DEF WriteFile, TypeOK
  <2> QED
    BY <1>8, <2>1, <2>2, HostMoves DEF TypeOK, WriteFile, dirVars, appVars
<1>9. CASE RemoveFile(i)
  <2>1. file' \in [Kind -> [If -> Content]]
    BY <1>1, <1>9 DEF RemoveFile, Files
  <2> QED
    BY <1>9, <2>1 DEF TypeOK, RemoveFile, dirVars, hostVars, appVars
<1>10. CASE NoMoreFiles(i)
  BY <1>10, HostMoves DEF TypeOK, NoMoreFiles, dirVars, appVars
<1>11. CASE RemoveDir(i)
  BY <1>11, HostMoves DEF TypeOK, RemoveDir, AppRuns, appVars
<1>12. CASE Abort(i)
  BY <1>12, RemoteConstants DEF TypeOK, Abort, dirVars, appVars
<1>13. CASE CleanupError(i)
  BY <1>13, RemoteConstants DEF TypeOK, CleanupError, dirVars, appVars
<1> QED
  BY <1>2, <1>3, <1>4, <1>5, <1>6, <1>7, <1>8, <1>9, <1>10, <1>11, <1>12, <1>13
  DEF HostStep

(* A step of vpp-app or of what starts and stops it. *)
AppAction == StartApp \/ AppStep \/ AppError \/ StopApp \/ VppReady

(* The first match of a glob is one of the matches. *)
LEMMA FirstIsIn ==
  ASSUME NEW S \in SUBSET If, S # {}
  PROVE  First(S) \in S
<1> DEFINE N == {Rank[i] : i \in S}
<1>1. N \subseteq Nat /\ N # {}
  BY RemoteConstants
<1>2. PICK m \in N : \A n \in N : m <= n
  <2>1. PICK m \in N : \A n \in N : ~ (<<n, m>> \in OpToRel(<, Nat))
    BY <1>1, WFMin, NatLessThanWellFounded
  <2>2. \A n \in N : ~ (n < m)
    BY <1>1, <2>1 DEF OpToRel
  <2>3. \A n \in N : m <= n
    <3> SUFFICES ASSUME NEW n \in N PROVE m <= n
      OBVIOUS
    <3>1. m \in Nat /\ n \in Nat
      BY <1>1
    <3> QED
      BY <2>2, <3>1
  <2> QED
    BY <2>3
<1>3. PICK i \in S : Rank[i] = m
  BY <1>2
<1> QED
  BY <1>2, <1>3 DEF First

(* Every step of vpp-app and of the container is well typed. *)
LEMMA AppType ==
  ASSUME TypeOK, AppAction
  PROVE  TypeOK'
<1> USE DEF Phase, Kind, Content, HostPc
<1>1. CASE StartApp
  BY <1>1 DEF TypeOK, StartApp, hostVars
<1>2. CASE Glob
  <2>1. CASE Seen(kind) = {}
    <3>1. Round(FALSE)
      BY <1>2, <2>1 DEF Glob
    <3> QED
      BY <1>2, <3>1, RoundType DEF TypeOK, AppRuns, Glob, dirVars, hostVars
  <2>2. CASE Seen(kind) # {}
    <3>1. First(Seen(kind)) \in If
      BY <2>2, FirstIsIn DEF Seen, Files
    <3> QED
      BY <1>2, <2>2, <3>1 DEF TypeOK, Glob, dirVars, hostVars
  <2> QED
    BY <2>1, <2>2
<1>3. CASE Read
  <2>1. CASE hand[kind] \notin Seen(kind)
    <3>1. Round(TRUE)
      BY <1>3, <2>1 DEF Read
    <3> QED
      BY <1>3, <3>1, RoundType DEF TypeOK, AppRuns, Read, dirVars, hostVars
  <2>2. CASE hand[kind] \in Seen(kind)
    <3>1. hand[kind] \in If
      BY <2>2 DEF Seen, Files
    <3>2. file[kind][hand[kind]] \in Content
      BY <3>1 DEF TypeOK
    <3>3. text' \in Content /\ appPc' = "remove" /\ UNCHANGED <<kind, hand, processed>>
      BY <1>3, <2>2, <3>2 DEF Read
    <3> QED
      BY <1>3, <3>3 DEF TypeOK, Read, dirVars, hostVars
  <2> QED
    BY <2>1, <2>2
<1>4. CASE Remove
  <2>1. file' \in [Kind -> [If -> Content]]
    BY <1>4 DEF TypeOK, Remove
  <2>2. CASE text = "torn"
    <3>1. Round(TRUE)
      BY <1>4, <2>2 DEF Remove, Parse
    <3> QED
      BY <1>4, <2>1, <3>1, RoundType DEF TypeOK, AppRuns, Remove, dirVars, hostVars
  <2>3. CASE text # "torn"
    BY <1>4, <2>1, <2>3 DEF TypeOK, Remove, Parse, dirVars, hostVars
  <2> QED
    BY <2>2, <2>3
<1>5. CASE Apply
  <2>1. Round(TRUE)
    BY <1>5 DEF Apply
  <2>2. hand["remote"] \in If \cup {NoIf} /\ hand["addData"] \in If \cup {NoIf}
    BY DEF TypeOK
  <2>3. delivered' \in Seq((If \cup {NoIf}) \X (If \cup {NoIf})) /\ dead' \in BOOLEAN
    <3> DEFINE T == (If \cup {NoIf}) \X (If \cup {NoIf})
               e == <<hand["remote"], hand["addData"]>>
    <3>1. e \in T /\ delivered \in Seq(T) /\ dead \in BOOLEAN
      BY <2>2 DEF TypeOK
    <3> HIDE DEF T, e
    <3>2. Append(delivered, e) \in Seq(T)
      BY <3>1
    <3>3. delivered' \in {delivered, Append(delivered, e)} /\ dead' \in {dead, TRUE}
      BY <1>5 DEF Apply, e
    <3> QED
      BY <3>1, <3>2, <3>3 DEF T
  <2> QED
    BY <1>5, <2>1, <2>3, RoundType DEF TypeOK, AppRuns, Apply, dirVars, hostVars
<1>6. CASE StopApp
  BY <1>6 DEF TypeOK, AppRuns, StopApp, dirVars, hostVars
<1>7. CASE VppReady
  BY <1>7 DEF TypeOK, VppReady, dirVars, hostVars, appVars
<1>8. ASSUME AppFault PROVE appFaults' \in 0..MaxAppFaults
  BY <1>8, RemoteConstants DEF AppFault, TypeOK
<1>9. CASE GlobError \/ ReadError
  <2>1. \E f \in BOOLEAN : Round(f)
    BY <1>9 DEF GlobError, ReadError
  <2>2. AppFault /\ AppRuns /\ UNCHANGED kept
    BY <1>9 DEF GlobError, ReadError, AppRuns
  <2> QED
    BY <1>8, <2>1, <2>2, RoundType DEF TypeOK, AppFault, dirVars, hostVars
<1>10. CASE KeepFile
  <2>1. AppFault /\ AppRuns
    BY <1>10 DEF KeepFile, AppRuns
  <2>2. kept' \subseteq If
    BY <1>10 DEF KeepFile, Seen, Files, TypeOK
  <2>3. CASE text = "torn"
    <3>1. Round(TRUE)
      BY <1>10, <2>3 DEF KeepFile, Parse
    <3> QED
      BY <1>8, <2>1, <2>2, <3>1, RoundType DEF TypeOK, AppFault, dirVars, hostVars
  <2>4. CASE text # "torn"
    BY <1>8, <1>10, <2>1, <2>2, <2>4 DEF TypeOK, KeepFile, Parse, AppFault, dirVars,
       hostVars
  <2> QED
    BY <2>3, <2>4
<1> QED
  BY <1>1, <1>2, <1>3, <1>4, <1>5, <1>6, <1>7, <1>9, <1>10 DEF AppAction, AppStep,
     AppError

(* The state of RemoteConfig is always well typed. *)
THEOREM RemoteTypeCorrect == Spec => []TypeOK
<1>1. TypeOK /\ [Next]_vars => TypeOK'
  <2> SUFFICES ASSUME TypeOK, [Next]_vars PROVE TypeOK'
    OBVIOUS
  <2>1. CASE UNCHANGED vars
    BY <2>1 DEF TypeOK, vars, dirVars, hostVars, appVars
  <2>2. CASE Next
    BY <2>2, HostType, AppType DEF Next, AppAction
  <2> QED
    BY <2>1, <2>2
<1> QED
  BY InitType, <1>1, PTL DEF Spec

-----------------------------------------------------------------------------
(* Pairing. *)

(* The conditions under which the two globs agree. *)
Boot == StartAfterAdd /\ ~DelLive /\ ~CleanupFails /\ appFaults = 0

(* The plugin does not end them. *)
LEMMA BootStays ==
  ASSUME NEW i \in If,
         StartAdd(i) \/ StartDel(i) \/ HostStep(i) \/ Abort(i) \/ CleanupError(i)
  PROVE  appFaults' = appFaults
BY DEF StartAdd, StartDel, HostStep, StatDir, MakeDir, Gather, OpenFile, WriteFile,
   RemoveFile, NoMoreFiles, RemoveDir, Abort, CleanupError, appVars

(* A step of the plugin is taken only when vpp-app does not run, and no    *)
(* other request is under way.                                             *)
LEMMA HostAlone ==
  ASSUME TypeOK, BootInv, Boot, NEW i \in If,
         StartAdd(i) \/ StartDel(i) \/ HostStep(i) \/ Abort(i) \/ CleanupError(i)
  PROVE  /\ ~AppRuns /\ appPc' = appPc /\ kind' = kind /\ delivered' = delivered
         /\ \A j \in If \ {i} : hostPc[j] = "idle" /\ hostPc'[j] = "idle" /\ phase'[j] = phase[j]
<1>1. i \in Running \/ Running = {}
  BY DEF StartAdd, StartDel, HostStep, StatDir, MakeDir, Gather, OpenFile, WriteFile,
         RemoveFile, NoMoreFiles, RemoveDir, Abort, CleanupError, Goto, Running, Open,
     Write, Kind
<1>2. \A j \in If \ {i} : hostPc[j] = "idle"
  BY <1>1 DEF BootInv, Boot, Alone, Running
<1>3. ~AppRuns
  BY <1>1 DEF BootInv, Boot, While, StartAdd, StartDel, HostStep, StatDir, MakeDir,
     Gather, OpenFile, WriteFile, RemoveFile, NoMoreFiles, RemoveDir, Abort, CleanupError,
         Goto, Running, AppRuns, Open, Write, Kind
<1>4. appPc' = appPc /\ kind' = kind /\ delivered' = delivered
  BY DEF StartAdd, StartDel, HostStep, StatDir, MakeDir, Gather, OpenFile, WriteFile,
         RemoveFile, NoMoreFiles, RemoveDir, Abort, CleanupError, appVars
<1>5. \A j \in If \ {i} : hostPc'[j] = hostPc[j] /\ phase'[j] = phase[j]
  BY DEF TypeOK, StartAdd, StartDel, HostStep, StatDir, MakeDir, Gather, OpenFile,
     WriteFile, RemoveFile, NoMoreFiles, RemoveDir, Abort, CleanupError, Goto, Return,
     hostVars
<1> QED
  BY <1>2, <1>3, <1>4, <1>5

(* The plugin keeps the invariant. *)
LEMMA HostBoot ==
  ASSUME TypeOK, BootInv, NEW i \in If,
         StartAdd(i) \/ StartDel(i) \/ HostStep(i) \/ Abort(i) \/ CleanupError(i)
  PROVE  BootInv'
<1> SUFFICES ASSUME Boot PROVE Paired' /\ Alone' /\ (appPc' = "off" => Before')
  BY HostAlone, BootStays DEF BootInv, Boot, AppRuns
<1>1. Paired' /\ Alone'
  BY HostAlone DEF BootInv, Boot, Paired, Alone, Running
<1>2. ASSUME appPc' = "off" PROVE Before'
  <2>1. Before /\ appPc = "off"
    BY <1>2, HostAlone DEF BootInv, Boot
  <2> DEFINE Exempt == {"writeRemote", "openAddData", "writeAddData"}
  <2>2. mounted' /\ kind' = "remote"
    BY <2>1, HostAlone DEF Before, StartAdd, StartDel, HostStep, StatDir, MakeDir, Gather,
         OpenFile, WriteFile, RemoveFile, NoMoreFiles, RemoveDir, Abort, CleanupError,
         dirVars, AppRuns
  <2>3. CASE UNCHANGED file /\ hostPc'[i] \notin Exempt \cup {"rmDir"}
             /\ (hostPc[i] \in Exempt \cup {"rmFiles"} =>
                   phase'[i] = "failed" \/ hostPc'[i] = "rmFiles")
             /\ (hostPc'[i] \notin {"idle", "rmFiles", "rmDir"} => phase'[i] = "absent")
             /\ (phase[i] = "failed" => phase'[i] = "failed" \/ hostPc'[i] = "rmFiles")
    BY <2>1, <2>2, <2>3, HostAlone
    DEF Before, Writing, Removing, Agree, Files
  <2>4. CASE StartAdd(i) \/ StartDel(i) \/ StatDir(i) \/ MakeDir(i) \/ Gather(i) \/ Abort(i)
    <3>1. hostPc[i] \notin {"idle", "rmFiles", "rmDir"} => phase[i] = "absent"
      BY <2>1 DEF Before, Writing
    <3> QED
      BY <2>3, <2>4, <3>1 DEF TypeOK, StartAdd, StartDel, StatDir, MakeDir, Gather, Abort,
           Goto, Return, Open
  <2>5. CASE OpenFile(i, "remote")
    <3>1. hostPc[i] = "openRemote" /\ hostPc'[i] = "writeRemote" /\ phase' = phase
          /\ file'["remote"][i] = "torn" /\ file'["addData"][i] = file["addData"][i]
      BY <2>5 DEF TypeOK, OpenFile, Goto, Open, Write, Kind
    <3>2. \A j \in If \ {i} : \A k \in Kind : file'[k][j] = file[k][j]
      BY <2>5 DEF TypeOK, OpenFile, Kind
    <3> QED
      BY <2>1, <2>2, <3>1, <3>2, HostAlone DEF Before, Writing, Removing, Agree, Kind
  <2>6. CASE OpenFile(i, "addData")
    <3>1. hostPc[i] = "openAddData" /\ hostPc'[i] = "writeAddData" /\ phase' = phase
          /\ file'["addData"][i] = "torn" /\ file'["remote"][i] = file["remote"][i]
      BY <2>6 DEF TypeOK, OpenFile, Goto, Open, Write, Kind
    <3>2. \A j \in If \ {i} : \A k \in Kind : file'[k][j] = file[k][j]
      BY <2>6 DEF TypeOK, OpenFile, Kind
    <3> QED
      BY <2>1, <2>2, <3>1, <3>2, HostAlone DEF Before, Writing, Removing, Agree, Kind
  <2>7. CASE WriteFile(i, "remote")
    <3>1. hostPc[i] = "writeRemote" /\ hostPc'[i] = "openAddData" /\ phase' = phase
      BY <2>7 DEF TypeOK, WriteFile, Goto, Open, Write
    <3>2. file'["remote"][i] = "full"
      BY <2>1, <2>7, <3>1 DEF TypeOK, WriteFile, Kind, Before, Writing
    <3>3. \A j \in If \ {i} : \A k \in Kind : file'[k][j] = file[k][j]
      BY <2>7 DEF TypeOK, WriteFile, Kind
    <3> QED
      BY <2>1, <2>2, <3>1, <3>2, <3>3, HostAlone DEF Before, Writing, Removing, Agree,
         Kind
  <2>8. CASE WriteFile(i, "addData")
    <3>1. hostPc[i] = "writeAddData" /\ hostPc'[i] = "idle" /\ phase'[i] = "added"
      BY <2>8 DEF TypeOK, WriteFile, Return, Write
    <3>2. file'["remote"][i] = "full" /\ file'["addData"][i] = "full"
      BY <2>1, <2>8, <3>1 DEF TypeOK, WriteFile, Kind, Before, Writing
    <3>3. \A j \in If \ {i} : \A k \in Kind : file'[k][j] = file[k][j]
      BY <2>8 DEF TypeOK, WriteFile, Kind
    <3>4. phase[i] # "failed"
      BY <2>1, <3>1 DEF Before, Writing
    <3> QED
      BY <2>1, <2>2, <3>1, <3>2, <3>3, <3>4, HostAlone DEF Before, Writing, Removing,
         Agree, Kind
  <2>9. CASE RemoveFile(i)
    <3>1. hostPc'[i] = "rmFiles"
      BY <2>9 DEF RemoveFile, hostVars
    <3> QED
      BY <2>1, <2>2, <3>1, HostAlone DEF Before, Writing, Removing
  <2>10. CASE NoMoreFiles(i)
    <3>1. hostPc'[i] = "rmDir" /\ \A k \in Kind : \A j \in If : file'[k][j] = "none"
      BY <2>10 DEF TypeOK, NoMoreFiles, Goto, Files
    <3> QED
      BY <2>1, <2>2, <3>1, HostAlone DEF Before, Writing, Removing, Agree, Files, Kind
  <2>11. CASE RemoveDir(i)
    <3>1. hostPc[i] = "rmDir" /\ hostPc'[i] = "idle" /\ UNCHANGED file
      BY <2>11 DEF TypeOK, RemoveDir, Return
    <3>2. \A k \in Kind : \A j \in If : file'[k][j] = "none"
      BY <2>1, <3>1 DEF TypeOK, Before, Removing, Files
    <3> QED
      BY <2>1, <2>2, <3>1, <3>2, HostAlone DEF Before, Writing, Removing, Agree, Files,
         Kind
  <2>12. ~CleanupError(i)
    BY DEF Boot, CleanupError
  <2> QED
    BY <2>4, <2>5, <2>6, <2>7, <2>8, <2>9, <2>10, <2>11, <2>12 DEF HostStep, Kind
<1> QED
  BY <1>1, <1>2

(* A round that ends with the two files of every interface in agreement    *)
(* leaves the invariant for the next one.                                  *)
LEMMA RoundBoot ==
  ASSUME NEW f \in BOOLEAN, Round(f), mounted', Running' = {}, \A i \in If : Agree(i)'
  PROVE  AppRuns' => While'
BY DEF Round, While, AppRuns

(* vpp-app keeps the invariant when its system calls succeed, *)
LEMMA AppBootStep ==
  ASSUME TypeOK, BootInv, Boot, StartApp \/ AppStep \/ StopApp \/ VppReady
  PROVE  BootInv'
<1> DEFINE c == hand["remote"]
<1>1. UNCHANGED hostVars /\ Alone'
  BY DEF BootInv, Boot, Alone, Running, StartApp, AppStep, Glob, Read, Remove, Apply,
         StopApp, VppReady, hostVars
<1>2. CASE StartApp
  <2>1. Before /\ Running = {} /\ (\A i \in If : phase[i] # "failed")
    BY <1>2 DEF StartApp, BootInv, Boot
  <2>2. \A i \in If : Agree(i)
    BY <2>1 DEF Before, Running
  <2>3. appPc' = "glob" /\ UNCHANGED <<file, mounted, kind, hand, delivered>>
    BY <1>2 DEF StartApp
  <2>4. While'
    BY <1>1, <2>1, <2>2, <2>3 DEF Before, While, Agree, Running, hostVars
  <2> QED
    BY <1>1, <2>3, <2>4 DEF BootInv, Boot, Paired
<1>3. ASSUME AppStep PROVE While /\ UNCHANGED mounted /\ Running' = {} /\ appPc' # "off"
  <2>1. AppRuns /\ UNCHANGED mounted /\ appPc' # "off"
    BY <1>3 DEF AppRuns, AppStep, Glob, Read, Remove, Parse, Apply, Round, dirVars
  <2> QED
    BY <1>1, <2>1 DEF BootInv, Boot, While, Running, hostVars
<1>4. CASE Glob
  <2>1. While /\ UNCHANGED <<file, mounted, delivered>> /\ Running' = {} /\ appPc' # "off"
    BY <1>3, <1>4 DEF AppStep, Glob
  <2>2. appPc = "glob" /\ Seen(kind) = Files(kind)
    BY <1>4, <2>1 DEF Glob, While, Seen
  <2>3. CASE Files(kind) = {}
    <3>1. Round(FALSE)
      BY <1>4, <2>2, <2>3 DEF Glob
    <3>2. kind = "remote"
      BY <2>1, <2>2, <2>3 DEF TypeOK, Kind, While, Files
    <3>3. \A i \in If : Agree(i)'
      BY <2>1, <3>2 DEF While, Agree
    <3> QED
      BY <1>1, <2>1, <3>1, <3>3, RoundBoot DEF While, BootInv, Boot, Paired
  <2>4. CASE Files(kind) # {}
    <3>1. hand' = [hand EXCEPT ![kind] = First(Files(kind))] /\ appPc' = "read" /\ kind' = kind
      BY <1>4, <2>2, <2>4 DEF Glob
    <3>2. Files("remote")' = Files("remote") /\ Files("addData")' = Files("addData")
      BY <2>1 DEF Files
    <3>3. CASE kind = "remote"
      <4>1. hand'["remote"] = First(Files("remote"))
        BY <3>1, <3>3 DEF TypeOK, Kind
      <4>2. \A i \in If : Agree(i)'
        BY <2>1, <3>3 DEF While, Agree
      <4>3. While'
        BY <2>1, <3>1, <3>2, <3>3, <4>1, <4>2 DEF While
      <4> QED
        BY <1>1, <2>1, <4>3 DEF BootInv, Boot, Paired
    <3>4. CASE kind = "addData"
      <4>1. hand'["remote"] = c /\ hand'["addData"] = c
        BY <2>1, <2>2, <3>1, <3>4 DEF TypeOK, Kind, While
      <4>2. While'
        BY <2>1, <2>2, <3>1, <3>2, <3>4, <4>1 DEF While, Agree
      <4> QED
        BY <1>1, <2>1, <4>2 DEF BootInv, Boot, Paired
    <3> QED
      BY <3>3, <3>4 DEF TypeOK, Kind
  <2> QED
    BY <2>3, <2>4
<1>5. CASE Read
  <2>1. While /\ UNCHANGED <<file, mounted, delivered>> /\ Running' = {} /\ appPc' # "off"
    BY <1>3, <1>5 DEF AppStep, Read
  <2>2. appPc = "read" /\ Seen(kind) = Files(kind)
    BY <1>5, <2>1 DEF Read, While, Seen
  <2>3. CASE hand[kind] \notin Files(kind)
    <3>1. Round(TRUE)
      BY <1>5, <2>2, <2>3 DEF Read
    <3>2. kind = "remote"
      BY <2>1, <2>2, <2>3 DEF TypeOK, Kind, While, Files
    <3>3. \A i \in If : Agree(i)'
      BY <2>1, <3>2 DEF While, Agree
    <3> QED
      BY <1>1, <2>1, <3>1, <3>3, RoundBoot DEF While, BootInv, Boot, Paired
  <2>4. CASE hand[kind] \in Files(kind)
    <3>1. text' = file[kind][hand[kind]] /\ appPc' = "remove" /\ UNCHANGED <<kind, hand>>
      BY <1>5, <2>2, <2>4 DEF Read
    <3>2. hand[kind] \in If /\ file[kind][hand[kind]] # "none"
      BY <2>4 DEF Files
    <3>3. text' = "full"
      BY <2>1, <2>2, <3>1, <3>2 DEF TypeOK, Kind, Content, While, Agree
    <3>4. Files("remote")' = Files("remote") /\ Files("addData")' = Files("addData")
      BY <2>1 DEF Files
    <3>5. hand'[kind'] \in Files(kind)' /\ file'[kind'][hand'[kind']] = text'
      BY <2>1, <2>4, <3>1 DEF Files
    <3>6. While'
      BY <2>1, <2>2, <3>1, <3>2, <3>3, <3>4, <3>5 DEF While, Agree
    <3> QED
      BY <1>1, <2>1, <3>6 DEF BootInv, Boot, Paired
  <2> QED
    BY <2>3, <2>4
<1>6. CASE Remove
  <2>1. While /\ UNCHANGED <<mounted, delivered>> /\ Running' = {} /\ appPc' # "off"
    BY <1>3, <1>6 DEF AppStep, Remove, dirVars
  <2>2. appPc = "remove" /\ text = "full" /\ hand[kind] \in If
    BY <1>6, <2>1 DEF Remove, While, Files
  <2>3. file' = [file EXCEPT ![kind][hand[kind]] = "none"] /\ hand' = hand
    BY <1>6, <2>1, <2>2 DEF Remove, Parse, While
  <2>4. CASE kind = "remote"
    <3>1. appPc' = "glob" /\ kind' = "addData"
      BY <1>6, <2>2, <2>4 DEF Remove, Parse
    <3>2. c \in If /\ c = First(Files("remote")) /\ (\A i \in If : Agree(i))
      BY <2>1, <2>2, <2>4 DEF While
    <3>3. Files("addData") = Files("remote")
      BY <3>2 DEF Files, Agree
    <3>4. file'["remote"][c] = "none" /\ file'["addData"] = file["addData"]
          /\ \A i \in If \ {c} : file'["remote"][i] = file["remote"][i]
      BY <2>3, <2>4, <3>2 DEF TypeOK, Kind
    <3>5. Files("addData")' = Files("addData")
      BY <3>4 DEF Files
    <3>6. file["addData"][c] = "full"
      BY <2>1, <2>2, <2>4, <3>2 DEF While, Agree
    <3>7. While'
      BY <2>1, <2>3, <3>1, <3>2, <3>3, <3>4, <3>5, <3>6 DEF While, Agree
    <3> QED
      BY <1>1, <2>1, <3>7 DEF BootInv, Boot, Paired
  <2>5. CASE kind = "addData"
    <3>1. appPc' = "apply" /\ kind' = "addData"
      BY <1>6, <2>2, <2>5 DEF Remove, Parse
    <3>2. c \in If /\ hand["addData"] = c /\ file["remote"][c] = "none"
          /\ \A i \in If \ {c} : Agree(i)
      BY <2>1, <2>2, <2>5 DEF While
    <3>3. file'["addData"][c] = "none" /\ file'["remote"] = file["remote"]
          /\ \A i \in If \ {c} : file'["addData"][i] = file["addData"][i]
      BY <2>3, <2>5, <3>2 DEF TypeOK, Kind
    <3>4. While'
      BY <2>1, <2>3, <3>1, <3>2, <3>3 DEF While, Agree
    <3> QED
      BY <1>1, <2>1, <3>4 DEF BootInv, Boot, Paired
  <2> QED
    BY <2>4, <2>5 DEF TypeOK, Kind
<1>7. CASE Apply
  <2>1. While /\ UNCHANGED <<file, mounted>> /\ Running' = {} /\ appPc' # "off"
    BY <1>3, <1>7 DEF AppStep, Apply, dirVars
  <2>2. appPc = "apply" /\ kind = "addData"
    BY <1>7, <2>1 DEF Apply, TypeOK, Kind, While
  <2>3. hand["addData"] = hand["remote"] /\ \A i \in If : Agree(i)'
    BY <2>1, <2>2 DEF While, Agree
  <2>4. Paired'
    <3>1. Paired /\ delivered \in Seq((If \cup {NoIf}) \X (If \cup {NoIf}))
      BY DEF BootInv, Boot, TypeOK
    <3>2. CASE delivered' = delivered
      BY <3>1, <3>2 DEF Paired
    <3>3. CASE delivered' = Append(delivered, <<hand["remote"], hand["addData"]>>)
      BY <2>3, <3>1, <3>3 DEF Paired
    <3> QED
      BY <1>7, <3>2, <3>3 DEF Apply
  <2>5. AppRuns' => While'
    BY <1>7, <2>1, <2>3, RoundBoot DEF Apply, While
  <2> QED
    BY <1>1, <2>1, <2>4, <2>5 DEF BootInv
<1>8. CASE StopApp
  BY <1>1, <1>8 DEF StopApp, AppRuns, BootInv, Boot, Paired
<1>9. CASE VppReady
  BY <1>1, <1>9 DEF VppReady, appVars, dirVars, hostVars, AppRuns, BootInv, Boot, Paired,
    Before, While, Writing, Removing, Agree, Files, Running
<1> QED
  BY <1>2, <1>4, <1>5, <1>6, <1>7, <1>8, <1>9 DEF AppStep

(* and nothing is claimed when one fails. *)
LEMMA AppBoot ==
  ASSUME TypeOK, BootInv, AppAction
  PROVE  BootInv'
<1>a. CASE AppError
  <2>1. AppFault
    BY <1>a DEF AppError, GlobError, ReadError, KeepFile
  <2>2. appFaults' # 0
    BY <2>1, RemoteConstants DEF AppFault, TypeOK
  <2> QED
    BY <2>2 DEF BootInv
<1>b. CASE StartApp \/ AppStep \/ StopApp \/ VppReady
  <2>1. appFaults' = appFaults
    BY <1>b DEF StartApp, AppStep, Glob, Read, Remove, Apply, StopApp, VppReady, appVars
  <2>2. Boot => BootInv'
    BY <1>b, AppBootStep
  <2> QED
    BY <2>1, <2>2 DEF BootInv, Boot
<1> QED  BY <1>a, <1>b DEF AppAction

(* BootInv is an invariant of RemoteConfig. *)
THEOREM BootInvariant == Spec => []BootInv
<1>1. Init => BootInv
  BY DEF Init, BootInv, Paired, Alone, Running, AppRuns, Before, Writing, Removing,
     Agree, Kind
<1>2. TypeOK /\ BootInv /\ [Next]_vars => BootInv'
  <2> SUFFICES ASSUME TypeOK, BootInv, [Next]_vars PROVE BootInv'
    OBVIOUS
  <2>1. CASE UNCHANGED vars
    BY <2>1 DEF vars, dirVars, hostVars, appVars, BootInv, Paired, Alone, Running,
       AppRuns, Before, While, Writing, Removing, Agree, Files
  <2>2. CASE Next
    BY <2>2, HostBoot, AppBoot DEF Next, AppAction
  <2> QED
    BY <2>1, <2>2
<1> QED
  BY <1>1, <1>2, RemoteTypeCorrect, PTL DEF Spec

(* A container that is started after its ADDs programs every interface     *)
(* with its own additional data.                                           *)
THEOREM PairedAlways == Spec => []PairedDelivery
<1>1. BootInv => PairedDelivery
  BY DEF BootInv, PairedDelivery
<1> QED
  BY <1>1, BootInvariant, PTL

-----------------------------------------------------------------------------
(* Once, and only what was written. *)

HostAction(i) ==
  \/ StartAdd(i) \/ StartDel(i) \/ HostStep(i) \/ Abort(i) \/ CleanupError(i)

(* What the plugin does to the files: a request that is past the write of  *)
(* a file stays past it, and never makes it again.                         *)
LEMMA HostWrites ==
  ASSUME TypeOK, Posting, NEW i \in If, HostAction(i)
  PROVE  /\ UNCHANGED appVars
         /\ mounted' => mounted \/ ~AppRuns
         /\ \A j \in If, k \in Kind : Written(j, k) => Written(j, k)'
         /\ \A j \in If : Written(j, "remote") /\ file["remote"][j] = "none"
                            => file'["remote"][j] = "none"
         /\ Posting'
<1> USE DEF TypeOK, Posting, Written, Past, Kind, Goto, Return, dirVars, appVars, hostVars
<1>1. CASE StartAdd(i) \/ StartDel(i)
  BY <1>1 DEF StartAdd, StartDel
<1>2. CASE StatDir(i) \/ MakeDir(i) \/ Gather(i)
  BY <1>2 DEF StatDir, MakeDir, Gather, Open
<1>3. ASSUME NEW k \in Kind, OpenFile(i, k)
      PROVE  /\ UNCHANGED appVars /\ mounted' = mounted
             /\ \A j \in If, l \in Kind : Written(j, l) => Written(j, l)'
             /\ \A j \in If : Written(j, "remote") /\ file["remote"][j] = "none"
                                => file'["remote"][j] = "none"
             /\ Posting'
  <2>1. CASE k = "remote"
    BY <1>3, <2>1 DEF OpenFile, Open, Write
  <2>2. CASE k = "addData"
    BY <1>3, <2>2 DEF OpenFile, Open, Write
  <2> QED  BY <2>1, <2>2
<1>4. ASSUME NEW k \in Kind, WriteFile(i, k)
      PROVE  /\ UNCHANGED appVars /\ mounted' = mounted
             /\ \A j \in If, l \in Kind : Written(j, l) => Written(j, l)'
             /\ \A j \in If : Written(j, "remote") /\ file["remote"][j] = "none"
                                => file'["remote"][j] = "none"
             /\ Posting'
  <2>1. CASE k = "remote"
    <3>1. /\ hostPc[i] = "writeRemote" /\ hostPc' = [hostPc EXCEPT ![i] = "openAddData"]
          /\ phase' = phase /\ mounted' = mounted /\ UNCHANGED appVars
      BY <1>4, <2>1 DEF WriteFile, Open, Write
    <3>2. \A l \in Kind, j \in If : file'[l][j] # file[l][j] => l = "remote" /\ j = i
      BY <1>4, <2>1 DEF WriteFile
    <3>3. file["remote"][i] = "none" => file'["remote"][i] = "none"
      BY <1>4, <2>1 DEF WriteFile
    <3> QED  BY <3>1, <3>2, <3>3
  <2>2. CASE k = "addData"
    <3>1. /\ hostPc[i] = "writeAddData" /\ hostPc' = [hostPc EXCEPT ![i] = "idle"]
          /\ phase' = [phase EXCEPT ![i] = "added"] /\ mounted' = mounted /\ UNCHANGED appVars
      BY <1>4, <2>2 DEF WriteFile, Write
    <3>2. \A l \in Kind, j \in If : file'[l][j] # file[l][j] => l = "addData" /\ j = i
      BY <1>4, <2>2 DEF WriteFile
    <3> QED  BY <3>1, <3>2
  <2> QED  BY <2>1, <2>2
<1>5. CASE RemoveFile(i)
  BY <1>5 DEF RemoveFile, Files
<1>6. CASE NoMoreFiles(i) \/ RemoveDir(i)
  BY <1>6 DEF NoMoreFiles, RemoveDir
<1>7. CASE Abort(i) \/ CleanupError(i)
  <2>1. /\ hostPc' = [hostPc EXCEPT ![i] = "idle"] /\ UNCHANGED <<file, mounted, appVars>>
        /\ \E p \in {"failed", "deleted"} : phase' = [phase EXCEPT ![i] = p]
    BY <1>7 DEF Abort, CleanupError
  <2> QED  BY <2>1
<1> QED  BY <1>1, <1>2, <1>3, <1>4, <1>5, <1>6, <1>7 DEF HostAction, HostStep

(* The plugin keeps the invariant. *)
LEMMA HostOnce ==
  ASSUME TypeOK, OnceInv, NEW i \in If, HostAction(i)
  PROVE  OnceInv'
<1>0. Posting
  BY DEF OnceInv
<1> USE <1>0, HostWrites
<1>1. \A n \in DOMAIN delivered : delivered[n][1] \in If /\ delivered[n][2] \in If
  BY DEF OnceInv
<1>2. Posting' /\ AtMostOnce' /\ (\A n \in DOMAIN delivered' : delivered'[n] \in If \X If)
      /\ (appPc' = "off" => delivered' = <<>> /\ kind' = "remote")
  BY DEF OnceInv, AtMostOnce, appVars
<1>3. OnlyWritten'
  BY <1>1 DEF OnceInv, OnlyWritten, Kind, appVars
<1>4. ASSUME AppRuns' PROVE Carrying'
  <2>1. AppRuns /\ Carrying
    BY <1>4 DEF OnceInv, AppRuns, appVars
  <2>2. \A j \in If : Used(j) => Used(j)'
    BY <2>1 DEF Used, Kind, appVars
  <2>3. \A j \in If : Unread(j) => Unread(j)'
    BY DEF Unread, appVars
  <2>4. kind \in Kind
    BY DEF TypeOK
  <2> QED  BY <1>1, <2>1, <2>2, <2>3, <2>4 DEF Carrying, Kind, appVars
<1> QED  BY <1>2, <1>3, <1>4 DEF OnceInv

(* vpp-app writes no file. *)
LEMMA AppReads ==
  ASSUME TypeOK, AppAction
  PROVE  /\ UNCHANGED <<hostPc, phase, mounted>> /\ kept \subseteq kept'
         /\ \A k \in Kind, i \in If : file'[k][i] \in {file[k][i], "none"}
<1>1. CASE Remove
  BY <1>1 DEF TypeOK, Remove, Kind, dirVars, hostVars
<1>2. CASE Glob \/ Read \/ Apply
  BY <1>2 DEF Glob, Read, Apply, dirVars, hostVars
<1>3. CASE StartApp \/ StopApp \/ VppReady
  BY <1>3 DEF StartApp, StopApp, VppReady, dirVars, hostVars, appVars
<1>4. CASE AppError
  BY <1>4 DEF AppError, GlobError, ReadError, KeepFile, AppFault, dirVars, hostVars
<1> QED  BY <1>1, <1>2, <1>3, <1>4 DEF AppAction, AppStep

(* A step that delivers nothing keeps what is known of the deliveries,     *)
(* and the end of a round leaves nothing in hand.                          *)
LEMMA SameDeliveries ==
  ASSUME TypeOK, OnceInv, AppAction, delivered' = delivered
  PROVE  /\ Posting' /\ AtMostOnce' /\ OnlyWritten'
         /\ \A n \in DOMAIN delivered' : delivered'[n] \in If \X If
         /\ \A i \in If : (Used(i) => Used(i)') /\ (Unread(i) => Unread(i)')
         /\ \A i \in If, k \in Kind : Written(i, k) => Written(i, k)'
         /\ AppRuns => \A n \in DOMAIN delivered' : Used(delivered[n][1])'
<1>1. Posting'
  BY AppReads DEF OnceInv, Posting, Written
<1>2. \A i \in If : (Used(i) => Used(i)') /\ (Unread(i) => Unread(i)')
  BY AppReads DEF Used, Unread, Written, Kind
<1>3. \A i \in If, k \in Kind : Written(i, k) => Written(i, k)'
  BY AppReads DEF Written
<1>4. OnlyWritten' /\ AtMostOnce' /\ \A n \in DOMAIN delivered' : delivered'[n] \in If \X If
  BY <1>3, AppReads DEF OnceInv, OnlyWritten, AtMostOnce, Kind
<1>5. AppRuns => \A n \in DOMAIN delivered' : Used(delivered[n][1])'
  <2>1. \A n \in DOMAIN delivered : delivered[n][1] \in If
    BY DEF OnceInv
  <2> QED  BY <1>2, <2>1 DEF OnceInv, Carrying
<1> QED  BY <1>1, <1>2, <1>3, <1>4, <1>5

LEMMA RoundOnce ==
  ASSUME TypeOK, AppRuns, NEW f \in BOOLEAN, Round(f),
         \A n \in DOMAIN delivered' : Used(delivered[n][1])'
  PROVE  Carrying' /\ appPc' # "off"
  BY RoundType DEF Carrying

(* What was read is used or dropped, whether its file is gone or kept. *)
LEMMA ParseOnce ==
  ASSUME TypeOK, OnceInv, AppAction, Carrying, appPc = "remove", Parse, delivered' = delivered,
         kind = "remote" /\ mounted => \/ file'["remote"][hand["remote"]] = "none"
                                      \/ hand["remote"] \in kept'
  PROVE  OnceInv'
<1>1. AppRuns
  BY DEF AppRuns
<1>2. CASE text = "torn"
  BY <1>1, <1>2, SameDeliveries, RoundOnce DEF Parse, OnceInv
<1>3. CASE text # "torn"
  <2>1. hand' = hand /\ hand[kind] \in If /\ Written(hand[kind], kind) /\ kind \in Kind
    BY <1>3 DEF Parse, Carrying, TypeOK
  <2>2. CASE kind = "remote"
    <3>1. appPc' = "glob" /\ kind' = "addData" /\ Unread(hand["remote"])
      BY <1>3, <2>2 DEF Parse, Carrying
    <3>2. Used(hand["remote"])'
      BY <2>1, <2>2, AppReads DEF Used, Written
    <3>3. Carrying'
      BY <1>1, <2>1, <2>2, <3>1, <3>2, SameDeliveries DEF Carrying
    <3> QED  BY <3>1, <3>3, SameDeliveries DEF OnceInv
  <2>3. CASE kind = "addData"
    <3>1. appPc' = "apply" /\ kind' = "addData"
      BY <1>3, <2>3 DEF Parse
    <3>2. Carrying'
      BY <1>1, <2>1, <2>3, <3>1, SameDeliveries DEF Carrying
    <3> QED  BY <3>1, <3>2, SameDeliveries DEF OnceInv
  <2> QED  BY <2>1, <2>2, <2>3 DEF Kind
<1> QED  BY <1>2, <1>3

(* vpp-app keeps the invariant. *)
LEMMA AppOnce ==
  ASSUME TypeOK, OnceInv, AppAction
  PROVE  OnceInv'
<1>1. CASE StartApp
  <2>1. delivered' = delivered /\ delivered = <<>> /\ kind' = "remote" /\ appPc' = "glob"
    BY <1>1 DEF StartApp, OnceInv
  <2> QED  BY <2>1, SameDeliveries DEF OnceInv, Carrying
<1>2. CASE StopApp \/ VppReady
  <2>1. delivered' = delivered
    BY <1>2 DEF StopApp, VppReady, appVars
  <2>2. AppRuns' => AppRuns /\ UNCHANGED <<appPc, kind, hand, text>>
    BY <1>2 DEF StopApp, VppReady, appVars, AppRuns
  <2>3. appPc' = "off" => appPc = "off" /\ kind' = kind
    BY <1>2 DEF StopApp, VppReady, appVars
  <2>4. AppRuns' => Carrying'
    BY <2>1, <2>2, SameDeliveries DEF OnceInv, Carrying, TypeOK, Kind
  <2> QED  BY <2>1, <2>3, <2>4, SameDeliveries DEF OnceInv
<1>3. CASE Glob
  <2>1. delivered' = delivered /\ AppRuns /\ Carrying
    BY <1>3 DEF Glob, OnceInv, AppRuns
  <2>2. CASE Seen(kind) = {}
    BY <1>3, <2>1, <2>2, SameDeliveries, RoundOnce DEF Glob, OnceInv
  <2>3. CASE Seen(kind) # {}
    <3>1. First(Seen(kind)) \in Seen(kind)
      BY <2>3, FirstIsIn DEF Seen, Files
    <3>2. kind = "remote" => Unread(First(Seen(kind)))
      BY <2>1, <3>1 DEF Carrying, Used, Unread, Seen, Files
    <3>3. First(Seen(kind)) \in If
      BY <3>1 DEF Seen, Files
    <3>4. appPc' = "read" /\ kind' = kind /\ hand' = [hand EXCEPT ![kind] = First(Seen(kind))]
      BY <1>3, <2>3 DEF Glob
    <3>5. hand'[kind] = First(Seen(kind)) /\ (kind = "addData" => hand'["remote"] = hand["remote"])
      BY <3>4 DEF TypeOK, Kind
    <3>6. Carrying'
      BY <2>1, <3>2, <3>3, <3>4, <3>5, SameDeliveries DEF Carrying
    <3> QED  BY <2>1, <3>4, <3>6, SameDeliveries DEF OnceInv
  <2> QED  BY <2>2, <2>3
<1>4. CASE Read
  <2>1. delivered' = delivered /\ AppRuns /\ Carrying
    BY <1>4 DEF Read, OnceInv, AppRuns
  <2>2. CASE hand[kind] \notin Seen(kind)
    BY <1>4, <2>1, <2>2, SameDeliveries, RoundOnce DEF Read, OnceInv
  <2>3. CASE hand[kind] \in Seen(kind)
    <3>1. /\ appPc' = "remove" /\ kind' = kind /\ hand' = hand
          /\ text' = file[kind][hand[kind]] /\ hand[kind] \in If /\ file[kind][hand[kind]] # "none"
      BY <1>4, <2>3 DEF Read, Seen, Files
    <3>2. kind \in Kind /\ text' \in {"torn", "full"}
      BY <3>1 DEF TypeOK, Content
    <3>3. text' = "full" => Written(hand[kind], kind)
      BY <3>1, <3>2 DEF OnceInv, Posting
    <3>4. Carrying'
      BY <1>4, <2>1, <3>1, <3>2, <3>3, SameDeliveries DEF Carrying, Read
    <3> QED  BY <2>1, <3>1, <3>4, SameDeliveries DEF OnceInv
  <2> QED  BY <2>2, <2>3
<1>5. CASE Remove
  <2>1. delivered' = delivered /\ appPc = "remove" /\ Carrying /\ Parse
    BY <1>5 DEF Remove, OnceInv, AppRuns
  <2>2. kind = "remote" /\ mounted => file'["remote"][hand["remote"]] = "none"
    BY <1>5, <2>1 DEF Remove, Carrying, TypeOK, Kind
  <2> QED  BY <2>1, <2>2, ParseOnce
<1>6. CASE Apply
  <2>1. AppRuns /\ Carrying /\ appPc = "apply" /\ kind = "addData"
    BY <1>6 DEF Apply, OnceInv, AppRuns, Carrying
  <2>2. CASE delivered' = delivered
    BY <1>6, <2>1, <2>2, SameDeliveries, RoundOnce DEF Apply, OnceInv
  <2>3. CASE delivered' = Append(delivered, <<hand["remote"], hand["addData"]>>)
    <3> DEFINE r == hand["remote"]
               d == hand["addData"]
               len == Len(delivered)
    <3>1. r \in If /\ d \in If /\ Written(r, "remote") /\ Written(d, "addData")
          /\ Used(r) /\ Unread(r)
      BY <2>1 DEF Carrying, Used
    <3>2. file' = file
      BY <1>6 DEF Apply
    <3>3. delivered \in Seq((If \cup {NoIf}) \X (If \cup {NoIf}))
      BY DEF TypeOK
    <3> HIDE DEF r, d
    <3>4. /\ len \in Nat /\ DOMAIN delivered = 1..len /\ DOMAIN delivered' = 1..(len + 1)
          /\ \A n \in 1..len : delivered'[n] = delivered[n]
          /\ delivered'[len + 1] = <<r, d>>
      BY <2>3, <3>3 DEF r, d
    <3> HIDE DEF len
    <3>5. \A n \in DOMAIN delivered' : (n \in DOMAIN delivered /\ delivered'[n] = delivered[n])
                                       \/ (n = len + 1 /\ delivered'[n] = <<r, d>>)
      BY <3>4
    <3>6. \A n \in DOMAIN delivered : delivered[n][1] \in If /\ delivered[n][2] \in If
      BY DEF OnceInv
    <3>7. \A n \in DOMAIN delivered' : delivered'[n] \in If \X If
      BY <3>1, <3>5 DEF OnceInv
    <3>8. OnlyWritten'
      <4>1. ASSUME NEW i \in If, NEW k \in Kind, Written(i, k) PROVE Written(i, k)'
        BY <4>1, AppReads DEF Written
      <4>2. ASSUME NEW n \in DOMAIN delivered'
            PROVE  Written(delivered[n][1], "remote")' /\ Written(delivered[n][2], "addData")'
        <5>1. CASE n \in DOMAIN delivered /\ delivered'[n] = delivered[n]
          BY <3>6, <4>1, <5>1 DEF OnceInv, OnlyWritten, Kind
        <5>2. CASE delivered'[n] = <<r, d>>
          BY <3>1, <4>1, <5>2 DEF Kind
        <5> QED  BY <3>5, <4>2, <5>1, <5>2
      <4> QED  BY <4>2 DEF OnlyWritten
    <3>9. AtMostOnce'
      BY <3>1, <3>5, AppReads DEF OnceInv, AtMostOnce, Unread
    <3>10. \A n \in DOMAIN delivered' : Used(delivered[n][1])'
      <4>1. ASSUME NEW n \in DOMAIN delivered' PROVE Used(delivered'[n][1])
        BY <2>1, <3>1, <3>5, <4>1 DEF Carrying
      <4> QED  BY <3>2, <4>1, AppReads DEF Used, Written
    <3>11. Posting'
      BY <3>2, AppReads DEF OnceInv, Posting, Written
    <3> QED  BY <1>6, <2>1, <3>7, <3>8, <3>9, <3>10, <3>11, RoundOnce DEF Apply, OnceInv
  <2> QED  BY <1>6, <2>2, <2>3 DEF Apply
<1>7. CASE KeepFile
  <2>1. delivered' = delivered /\ appPc = "remove" /\ Carrying /\ Parse
    BY <1>7 DEF KeepFile, AppFault, OnceInv, AppRuns
  <2>2. kind = "remote" => hand["remote"] \in kept'
    BY <1>7 DEF KeepFile
  <2> QED  BY <2>1, <2>2, ParseOnce
<1>8. CASE GlobError \/ ReadError
  <2>1. delivered' = delivered /\ AppRuns /\ \E f \in BOOLEAN : Round(f)
    BY <1>8 DEF GlobError, ReadError, AppFault, AppRuns
  <2> QED  BY <2>1, SameDeliveries, RoundOnce DEF OnceInv
<1> QED  BY <1>1, <1>2, <1>3, <1>4, <1>5, <1>6, <1>7, <1>8 DEF AppAction, AppStep,
            AppError

(* Every configuration is in a file that was written once and never will   *)
(* be again, in vpp-app's hand or delivered, and in no two of these but    *)
(* for a file that vpp-app could not delete.                               *)
THEOREM WrittenOnce == Spec => []OnceInv
<1>1. Init => OnceInv
  BY DEF Init, OnceInv, Posting, AtMostOnce, OnlyWritten, AppRuns
<1>2. TypeOK /\ OnceInv /\ [Next]_vars => OnceInv'
  <2> SUFFICES ASSUME TypeOK, OnceInv, [Next]_vars PROVE OnceInv'
    OBVIOUS
  <2>1. CASE UNCHANGED vars
    BY <2>1 DEF vars, dirVars, hostVars, appVars, OnceInv, Posting, AtMostOnce,
       OnlyWritten, AppRuns, Carrying, Used, Unread, Written
  <2>2. CASE Next
    BY <2>2, HostOnce, AppOnce DEF Next, HostAction, AppAction
  <2> QED  BY <2>1, <2>2
<1> QED  BY <1>1, <1>2, RemoteTypeCorrect, PTL DEF Spec

(* vpp-app programs the configuration of an interface at most once,        *)
(* however DELs, faults and rounds of the search interleave with it,       *)
(* unless it could not delete the file that it read.                       *)
THEOREM DeliveredAtMostOnce == Spec => []AtMostOnce
<1>1. OnceInv => AtMostOnce
  BY DEF OnceInv
<1> QED  BY <1>1, WrittenOnce, PTL

(* vpp-app programs nothing that the plugin has not finished writing.      *)
THEOREM DeliveredIsWritten == Spec => []OnlyWritten
<1>1. OnceInv => OnlyWritten
  BY DEF OnceInv
<1> QED  BY <1>1, WrittenOnce, PTL
=============================================================================
