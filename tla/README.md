# Verification of the user space CNI plugin

TLA+ models, TLC runs and TLAPS proofs for the user space CNI plugin: the
program that gives a container a memif (VPP) or vhost-user (OVS-DPDK)
interface. Paths below are relative to the repository's root, `src/`.

## 1. Inventory

### The system

The container runtime (through Multus) starts one process of the plugin for
every request, `ADD` or `DEL` of one interface of one container. Processes keep
nothing in memory between requests. They share the dataplane on the host, files
under `/var/run/vpp/cni`, and no lock. A second program, `vpp-app`, runs once
inside the container and programs the container's own VPP with what the plugin
left for it in files.

| Component | State it keeps | Operations | Talks to |
|---|---|---|---|
| CNI entry points, `userspace/userspace.go`, `usrsptypes/` | none (NetConf on stdin) | `cmdAdd`: host, IPAM, container. `cmdDel`: host, container, IPAM, link | both engines, the IPAM plugin |
| VPP engine, `cnivpp/cnivpp/cnivpp.go` | index and socket id of the request, in memory | `AddOnHost`, `DelFromHost`, `AddOnContainer`, `DelFromContainer`, `CniContainerConfig` | API wrappers, `vppdb` |
| VPP API wrappers, `cnivpp/api/*` | one govpp connection per process | memif, socket, bridge, interface: create, delete, find in a dump | VPP by messages |
| `vppdb`, host side | `data/local-<ContainerId:12>-<If0name>.json` | `SaveVppConfig`, `LoadVppConfig`, `FileCleanup` | file system |
| `vppdb`, container side | `<ContainerId>/remote-*.json`, `addData-*.json` | `SaveRemoteConfig`, `FindRemoteConfig`, `findFile`, `CleanupRemoteConfig` | file system, seen from host and container |
| `vpp-app` | `processedCnt` | poll, program, exit | `vppdb`, the container's VPP |
| OVS engine, `cniovs/` | `ovsdb` saved data, socket files | `AddOnHost`, `DelFromHost` through `ovs-config.py` | `ovs-vsctl` |
| VPP (external) | sockets, interfaces, bridges | serves one message at a time | |
| govpp (vendored) | the connection | send, wait with a timeout, connect once | VPP |

### What is hard here, and what makes each part correct

- **Interleaving on the host.** Every choice is made from a dump and carried
  out in a later message: the next free socket id, "the bridge is missing",
  "nobody else uses this socket". Correct means that the requests of one
  attachment never touch what belongs to another and that the last user of a
  socket or bridge removes it.
- **Failures half way.** The index of the interface is saved at the very end of
  an `ADD`. A request can be killed or time out at every message before, and the
  `DEL` then works with whatever it finds. Correct means at least that it never
  deletes on the strength of a wrong record.
- **Removals nobody checks.** The saved data of an engine and the files for the
  container are read and then removed, and whoever reads them ignores whether
  the removal failed (`vppdb.go:122`, `vppdb.go:357`, `ovsdb.go:115`). What was
  used once can then be used again. Correct means that nothing else makes it
  used twice.
- **Refusals nobody reads.** VPP reports a refusal in `Retval`; the wrappers
  look only at transport errors.
- **Restart of VPP.** The saved data outlives the VPP that gave out its index.
- **Liveness.** Two searches wait for the end of a dump and ignore errors.
- **Host to container.** Two files per interface, written one after the other,
  found by globbing, paired by sort order alone and deleted before use. Correct
  means each interface is programmed once, with its own IPAM result, and that
  no interface is left out.
- **Errors of one step of several.** `cmdAdd` returns on the first error and
  undoes nothing; `cmdDel` returns on the first error and leaves the rest. What
  is cleaned up hangs on the `DEL`s that the runtime repeats. Correct means that
  a reported success is complete and that a repeated `DEL` releases the lease.
- **Errors nobody sees.** The OVS engine reads only the output of its script,
  and the script does not read the exit status of its commands. Correct means at
  least that the saved data names the port while nothing fails unnoticed.
- **Shared names and directories.** OVS sockets are deleted by the beginning of
  their name, and the directory of a container by a count of its files.

`PROJECT.json` lists each hazard at its line.

## 2. Modules

| Module | What it is | Code |
|---|---|---|
| `Vpp` | state of VPP and one operator for each message | external, as `cnivpp/api` uses it |
| `HostVpp` (extends `Vpp`) | `AddOnHost` and `DelFromHost` with all they call | `cnivpp.go`, `cnivpp/api`, host side of `vppdb.go` |
| `HostPorts` | abstract promise of an engine to `cmdAdd` and `cmdDel` | refined by `HostVpp` and `HostOvs`, used by `UserSpaceCni` |
| `MCHostVpp` | values for TLC | |
| `HostVppInv` (extends `HostVpp`) | the invariants that its properties rest on, and the configurations they hold in | |
| `HostVppProofs` | theorems: types, whose interface is whose | |
| `HostVppNetProofs` | theorems: sockets and bridges, any number of concurrent requests | |
| `HostVppSerialProofs` | theorems: what an ADD has made, one request at a time | |
| `HostVppPromiseProofs` | theorem: the refinement of `HostPorts`, step by step | |
| `HostVppCleanProofs` | theorems: what a DEL leaves, which requests succeed | |
| `RemoteConfig` | plugin, directory of the container, `vpp-app` | container side of `vppdb.go`, `cnivpp.go:221-250`, `vpp-app.go` |
| `MCRemoteConfig` | values for TLC | |
| `RemoteProofs` | theorems about `RemoteConfig`, at boot and at any time | |
| `HostOvs` | `AddOnHost` and `DelFromHost` of OVS with the script and `ovsdb` | `cniovs.go`, `ovsdb.go`, `ovs-config.py` |
| `MCHostOvs` | values for TLC | |
| `HostOvsProofs` | theorems about `HostOvs`, the refinement among them | |
| `UserSpaceCni` | `cmdAdd` and `cmdDel` over engines that keep `HostPorts` | `userspace.go`, `usrsptypes.go` |
| `MCUserSpaceCni` | values for TLC | |
| `UserSpaceCniProofs` | theorems about `UserSpaceCni` | |

The modules compose in two layers. `HostVpp` and `HostOvs` describe the engines
message by message and each implements `HostPorts`; `UserSpaceCni` has the
variables of `HostPorts` as its own and takes each of its steps of the engine
from there, so that its results hold for either engine, as far as the engine keeps
that promise: until VPP restarts or something fails unnoticed, as section 4 says.

### `HostVpp`

An *attachment* (`Att`) is one interface of one container; its name also stands
for its socket file `memif-<ContainerId:12>-<If0name>.sock`. At most one request
per attachment is under way, as CNI demands, so `pc[a]`, `idx[a]` (the code's
`data.SwIfIndex`) and `sid[a]` (the socket id) are the state of its process.
`phase[a]` is what the runtime knows of it. Each action is one message to VPP or
one system call, in the code's order:

- `ADD`: `FindSocket, AddSocket, CreateIf, SetUp`, then by `NetType` either
  `FindBridge, AddBridge, JoinBridge` or `AddAddress` or neither, then
  `StatDir, MakeDir, OpenSaved, WriteSaved`.
- `DEL`: `LoadSaved, RemoveDir, LeaveBridge, CountBridge, DeleteBridge, FindIf,
  DeleteIf, CountSocket, DeleteSocket, Unlink`. `LoadSaved` reads, parses and
  removes the saved data; without it the DEL goes on with index 0, which is
  `local0`.
- Faults that the request sees, or that end it: `Abort` (the reply timer fires, a
  system call fails, the process is killed), `BridgeTimeout` (`findBridge` takes
  any error for "not found").
- Faults of `LoadVppConfig` that it ignores, `Unnoticed`: `KeepSaved` (the removal
  fails, `vppdb.go:122`: the DEL goes on and the saved data stays), `MissSaved` (an
  error of `Stat` is taken for "no file", lines 108 and 117: the DEL goes on with
  index 0 and leaves the saved data), `KeepDir` (the empty directory stays).
- Environment: `NoReply` (what each message does on a connection that died with
  VPP), `PeerListens` (the container's VPP makes a slave's socket file),
  `VppRestart`.
- History: `kept` has the attachments whose saved data outlived the DEL that read
  it; `misled` says that a DEL has gone on with such data or without the data that
  was there. `Trusted` (no restart, not misled) is the limit of what can be said
  of indices.

Modelling decisions:

- A request whose reply comes too late is one that VPP served just before the
  `Abort`; one that VPP never received is an `Abort` without the message.
- Opening the connection changes no state: it is part of `StartAdd` and
  `StartDel`, and its failure is an `Abort` there.
- `findMemifSocket` compares the file name with a decoded 128-byte field that
  keeps its NUL padding, so the comparison is never true: the model collects all
  ids and takes the least free one, and panics when `usedList` is full
  (`MaxUsed`, 20 in the code).
- The index of a refused `memif_create` is whatever the reply carries:
  `RefusedIdx` has 0 and a value that names no interface.
- `JoinCreates`: VPP releases differ on whether joining a missing bridge makes
  it. The runs use both values.
- `USERSPACE_MEMIF_SOCKFILE` is unset. The compatibility checks and debug
  dumps of the code change nothing and are left out.
- The runtime adds an attachment only when it is absent (CNI: no `ADD` twice
  without a `DEL`), and sends a `DEL` in the phases `DelFrom`.

### `RemoteConfig`

`file[kind][i]` is a file of interface `i`: none, torn (created, not yet
written) or full. `hostPc` is the plugin's request, `appPc` the step of
`vpp-app`, `hand` what it has taken, `processed` the code's `processedCnt`, and
`delivered` a history of the pairs it has programmed. System calls of `vpp-app`
fail in `GlobError` (`findFile` finds nothing), `ReadError` (an error, and the
file stays) and `KeepFile` (`findFile` ignores that the file could not be
deleted, `vppdb.go:357`); `appFaults` counts them, and `kept` is a history of
the interfaces whose configuration was read and not deleted. `Round` is one end
of the loop of `main`. `AddOnHost` in the container is the single step `Apply`
here; its own messages are checked by the run `host_container` of `HostVpp`.

- The runtime sets the networks of one container up one after the other
  (`vendor/github.com/containernetworking/cni/SPEC.md:34`), so one request of the
  container runs at a time; `vpp-app` interleaves with every step of it.
- `StartAfterAdd`: `scripts/vpp-docker-run.sh` adds (line 14) before it starts
  the container (line 23). `~DelLive`: it deletes in its exit trap, after the
  container has stopped. `VppFirst`: `vppcni.sh` starts VPP before `vpp-app`.
  `remote_boot` assumes all three and `remote_live` none.
- When a `DEL` removes the directory while the container runs, the container
  keeps its mount of the removed directory: `mounted`.
- govpp allows one connection per process and keeps a failed one
  (`core.go:196-214`): `dead`.
- Each interface lives once, which is what the interface names of a container
  do in one life of the container.

### `HostOvs`

Ports, sockets and files are named `<ContainerId:12>-<If0name>`, so an
attachment stands for its port of `br0` (`port`), the socket where OVS makes it
(`runFile`), the socket in the directory of the container (`sockFile`) and its
saved data (`saved`: none, torn, without or with the name of the port). `folder`
has the containers whose directory exists, `dataDir` says whether the directory
of saved data does. `named` has the requests with `data.Vhostname` in hand.

- `ADD`: `StatDir, MakeDir`, the script's `AddPort, MoveSocket`, then
  `StatData, MakeData, OpenSaved, WriteSaved`. `NetType` matters only in
  `AfterVhost`: the error for `bridge` is overwritten by the next call, and
  `interface` reads the IPAM result, which is always nil on the host.
- `DEL`: `LoadSaved, RemoveData`, the script's `DeletePort`, then `ListFiles,
  RemoveFile, NoMoreFiles, RemoveFolder`. `Matches` is the set of names that the
  regular expression of `cniovs.go:223` matches, taken from `Names`.
- `Abort`: a system call fails or the process is killed, which its caller sees.
  `CommandError` and `ScriptError`: a command of the script, or the script
  itself, fails and nobody notices; `KeepSaved`, `MissSaved` and `KeepDir` are the
  failures that `LoadConfig` ignores (`ovsdb.go:101-115`), as in `HostVpp`. All of
  these are counted apart, in `swallowed`, because nearly everything depends on
  their absence.
- `getmac` is run as the directory of the containers and not as the script
  (`cniovs.go:189`), which always fails: the MAC address is never known. `br0`
  itself, which a `delete` without a name would name, is no port that
  `ovs-vsctl` deletes. `VhostConf.Mode` is not read: OVS is always the server.
- The runtime adds the networks of a container in `Order` and deletes them in
  the reverse (`SPEC.md:34-35`); requests of different containers interleave.
- `marred` is a history variable: attachments of which an `ADD` failed or a
  `DEL` was cut short.

### `UserSpaceCni`

`stage`, `port` and `held` are those of `HostPorts`. `hostFile` has the
attachments with the one thing on the host without which `DelFromHost` fails:
the socket file for VPP, which a master makes in `Provide` and for a slave the
container's VPP makes (`PeerListens`), or the directory for OVS (`MakeFolder`).
`torn` has those whose saved data does not parse. `lease` is what the IPAM
plugin has given out, `handed` what is left for the container, `result` the
requests whose result is not nil.

- `ADD`: the engine's `Provide`, `HostAdded`, then `Ipam`, `AddOnContainer`,
  `PrintResult`; `HostError` for an unknown engine or an interface type that the
  engine refuses. `DEL`: `Withdraw`,
  `HostDeleted`, then `DelFromContainer`, `DelIpam`, `DelLink`.
- `HostDelError` are the errors of `DelFromHost` that need no fault: an unknown
  engine, saved data that does not parse, and a missing file, which both engines
  find out after all else has been deleted (`cnivpp.go:372`, `cniovs.go:208`).
- `Abort` ends a request at any step; in the engine it may leave torn data.
- A result that `NewResultFromResult` refuses or that has no address is a branch
  of `Ipam` and no fault: the lease exists by then.
- `ContainerStops`: the namespace goes, and `DelLink` may fail.
- The runtime sends a `DEL` for what it added or tried to add, and again after a
  failure (`SPEC.md:274`); it adds only what is absent.

## 3. Runs

| Run | Question | Bounds |
|---|---|---|
| `host_serial` | Does everything succeed and is everything cleaned up when nothing goes wrong, and does every request end when VPP restarts? | 3 masters, one request at a time, one restart at any step |
| `host_faults` | Does the engine keep the promise `HostPorts` when one request fails anywhere, and do other attachments stay wired? | a master, a slave, a refused request; DEL from every phase; one fault, the ignored ones included |
| `host_concurrent` | Can interleaved requests harm each other? | 2 masters on one bridge, both at once, one fault, the ignored ones included |
| `host_container` | Is a reported success a working interface when `AddOnHost` runs in the container? | IPAM result present, empty, and a bridge; one fault |
| `remote_boot` | Is every interface of a container programmed, with its own data? | 2 interfaces, one fault of the plugin and one of `vpp-app`, the scripts' order |
| `remote_live` | What still holds when nothing is ordered? | 2 interfaces that write their files and a third whose ADD fails for lack of IPAM; ADD, DEL and poll interleaved, one fault of the plugin and one of `vpp-app`, VPP late |
| `ovs_host` | Does the OVS engine keep `HostPorts`, and can the DEL of one attachment take what another uses? | 4 attachments of 3 containers, `net1` and `net10` in one; 2 requests at a time; one fault and one unnoticed failure of a command or of `LoadConfig` |
| `cni_retry` | What is complete after a success, and is the lease released by repeated DELs? | one attachment with any of 8 configurations beside one without IPAM; 3 ports; one fault |

What they show:

- One request at a time, without faults: `ServableSucceeds` and
  `CleanDelLeavesNothing` (no interface, socket, file or record remains),
  `OneIdPerFile` (no socket file is registered twice, although the code never
  finds a registered one: every DEL has removed it before). With one fault:
  `AddedIsWired` (an added attachment is on its own socket, up, bridged or
  addressed, and recorded, also after faults of others, as long as `Trusted`),
  `KeepsPromise` (refinement: each step as long as `Trusted`, and, without that
  condition, that every request ends). `StepsKeepPromise` is its safety part, in
  `host_serial` with a restart of VPP at any step. `AloneInv` is what the proofs
  rest on.
- Two at a time, as long as `Trusted`: `SavedNamesOwn` and `ForeignUntouched` (a
  DEL never takes away another attachment's interface), `NothingUnused`
  (counting before deleting leaves neither an idle socket nor an idle bridge,
  although it is two messages), `AddedIsBridged`. `OwnSocket` does not hold, see
  below.
- `Terminates`: every request ends, but for a DEL caught by the restart in
  `findMemifInterface` or `findMemifSocketCnt`, which loops for ever
  (`Hung`).
- OVS: `AddedHasPort` (a reported ADD has its port, and its saved data names it),
  `AddedIsWired` and `DelLeavesNoFile` (the prefix match and the count of files
  take no socket in use and leave none), `DelSucceeds` (a DEL fails only for an
  attachment of which a request failed before), `KeepsPromise` (refinement).
- `cmdAdd` and `cmdDel`: `AddedIsComplete` (port, address, configuration for the
  container), `DelReleases` (no lease, port, file or torn record left),
  `LeaseReleasable` (nothing that can fail by itself stands between the
  removal of the host's file and the release of the lease), `RetryReleases` (when
  a request has failed and its lease is still there, the next DEL that no new fault
  cuts short releases it, provided that it starts with the host's file there, its
  saved data readable and the container's engine known). A DEL that never asks
  the IPAM plugin, or asks it only while the namespace is there, violates it.
- Container: `PairedDelivery` and `Delivered` (for two interfaces) at boot as long
  as no system call of `vpp-app` fails, `ExitsAfterFound` in any case; `OnlyWritten`
  always and `AtMostOnce` but for files that `vpp-app` could not delete, resting
  on `OnceInv`.

Runs that refute what the repository says (`findings` in `PROJECT.json`):

| Run | The claim | What the code does |
|---|---|---|
| `found_socket_race` | `findMemifSocket` returns the *next free* id | two ADDs pick the same id; one interface ends on the other's socket |
| `found_third_interface` | vpp-app reads the files of every interface | it exits one round after the first success: the third is never read |
| `found_mispaired` | `addData-<If0name>` holds the IPAM result of that interface | polled between the two writes, the address goes to the next interface |
| `found_lease_leak` | a DEL completes even if some resources are missing | without the socket file of a slave every DEL fails before it releases the address |

The models show more consequences that no run claims or refutes by itself, at
the hazards of `PROJECT.json`: a DEL before the peer has made a slave's socket
file deletes everything and fails; a DEL can remove the empty data directory
between another ADD's `stat` and `open`; an ADD without IPAM panics in
`SaveRemoteConfig` or `PrintResult` after the host interface was made; the DEL of
one interface removes the files of all interfaces of the container in the
directory of `vpp-app`. An ADD that is repeated after a failure registers its
socket file under a second of the 20 ids (`memif.go:409`), which is why
`OneIdPerFile` is claimed without faults. After a restart of VPP a DEL deletes
whatever interface has the saved index by then (`memif.go:133`), which is why
`SavedNamesOwn` and `ForeignUntouched` are claimed up to the first restart.
They are claimed up to the first misled DEL for the same reason: a DEL cannot
remove its saved data and goes on, another ADD is given the index that became
free, and a repeated DEL deletes it. Without `~misled` in `Trusted`, TLC finds
that behaviour. In the same way a configuration whose file `vpp-app` could not
delete is programmed again in the next round, with the additional data of whatever
interface comes next (`vppdb.go:357`): without the exception for `kept`,
`AtMostOnce` fails. The repository's READMEs do not expect either
(`cnivpp/README.md:87-89` and `114-115`: the saved index "is used later to
delete the interface", and a file that is read is deleted).

For OVS: a port that a failed ADD left behind makes the repeated ADD succeed
without a socket, hence `marred` in `AddedIsWired`; the last DEL of such a
container may find its directory gone, and then fails for ever. Torn saved data
makes every DEL fail. A DEL reports success although its saved data is still
there when `LoadConfig` could not remove it. A script that dies lets the DEL
report success with the port still in `br0`. A DEL of `net1` before that of
`net10` would remove both sockets; only the runtime's order prevents it.

### Bounds

Two attachments are enough for each race: every shared object has one reader
that decides and one writer that invalidates. The third in `host_serial` and
`host_faults` makes the socket and the bridge survive one DEL, and puts another
attachment's records beside a failed one. One fault is enough for the properties
that compare one request cut short with whole ones; a second fault mostly
repeats the first. Ignored failures come out of the same fault: one kept record
is enough for a misled DEL, which is two requests later. `vpp-app` has a fault
of its own (`MaxAppFaults`), so that it meets one of the plugin. `MaxUsed`
equals `MaxSock`, so a request that meets no free id has panicked before, as the
code does at the 20th entry; left-over sockets reach it in `host_concurrent`; in
the other runs no request meets it. One restart is the first moment at which an
index can be stale. Two interfaces are what `vpp-app` can deliver; the third is
a finding, and in `remote_live` it is an ADD that panics beside the two that
write. In `ovs_host` the two interfaces of one container exercise the prefix
match and the count of files, the other containers the shared directory of saved
data and the two kinds of refused ADD. Two requests at a time and one failure of
each kind reach every action. In `cni_retry` attachments meet only in the ports:
one more port than attachments is left for an ADD after a forgotten one.
`SYMMETRY` is used over interface indices in `host_concurrent`, which checks no
liveness. `CHECK_DEADLOCK FALSE` stands where the system may stop: in
`host_container` (no DEL), `host_serial` (hung DEL) and in `RemoteConfig` (the
container has stopped).

### Fairness

`HostVpp` has weak fairness on the steps of each process: the operating system
schedules it, VPP answers a live connection, and the reply timer fires on a dead
one. Nothing obliges the runtime to send requests, the peer to listen or a fault
to happen. `RemoteConfig` has weak fairness on the plugin, on `vpp-app`, which
polls for ever, and on the container's VPP becoming ready. `CleanupError`,
`StopApp`, `StartDel`, `Abort` and the failing system calls are never obliged.
`UserSpaceCni` has weak fairness on the steps of each process, whose system
calls and plugins answer or fail, and on `Retry`: the runtime repeats the DEL of
what it could not add or delete, as `SPEC.md:274` asks of it. It is not obliged
to delete what it added, and the peer of a slave is not obliged to listen.
`HostOvs` states none: its promise to `cmdAdd` is one of safety.

## 4. Proofs

All theorems hold for every value of the constants that the assumptions
`VppConstants`, `HostVppConstants`, `RemoteConstants`, `HostOvsConstants` and
`CniConstants` admit: any number of
attachments or interfaces, of requests in parallel, of faults and restarts.

- `TypeCorrect`, `RemoteTypeCorrect`: one lemma per group of actions. The type
  says more than types: in `RemoteConfig` it bounds `processed`, so that
  `vpp-app` is out of its loop after the second round that counts.
- `SavedIsOwn`: `SavedNamesOwn` (a saved index names the attachment's own
  interface) is not inductive, because the record is written from an index in a
  process's hand and read back into one. `HandInv` adds `HandNamesOwn` (the
  index in hand from `CreateIf` until `DeleteIf` is the attachment's own) and
  `LoadedOnce` (a DEL that holds an index has removed the record, so no other
  request can use it again, or the attachment is in `kept`). Both are claimed
  while `Trusted`: a record in `kept` may be stale, and nothing is said of the
  first DEL that uses it again nor of what comes after. The heart is that only
  `CreateIf` gives an interface an owner and only `DeleteIf` takes one away
  (`CreateOwn`, `DeleteOwn`); all other messages leave owners alone
  (`HarmlessOwn`). The socket races do not matter here, which is why this holds
  however many requests interleave while `OwnSocket` does not.
- `ForeignIsUntouched`: the action property, from `HandInv`: a step that deletes
  or unbridges an interface is `DeleteIf` or `LeaveBridge` with an index in hand.
  It holds with any number of faults, ignored ones included, until VPP restarts or
  a DEL is misled; so does `AddedStaysBridged` below.
- `Invariant` (`IInv`, which is `HandInv` and `NetInv`), `NoneUnused` and
  `AddedStaysBridged`: for any number of concurrent requests. `NothingUnused`
  speaks of states in which nothing runs; `NetInv` says what holds in between: a
  socket without an interface has a request that is about to make one, or to
  count and remove it (`Empty`); a member of a bridge is an interface that an
  attachment is still to leave with (`Joined`), and a bridge has somebody still
  to count its members (`Counted`), or else a stray interface that no request
  will ever work on. `InHand` is the index that the requests of an attachment
  work on, in a process or in the record. That two leavers do not each miss that
  they are the last rests on `memif_delete` and the message that leaves a bridge
  preceding the count. `AddedStaysBridged` assumes `JoinCreates`: where joining a
  missing bridge is refused, a DEL between `AddBridge` and `JoinBridge` of another
  request does leave it outside.
- `SerialInvariant`, `SocketsAreOwn`, `AddedStaysWired`: under `Serial`
  (`MaxParallel <= 1`, a runtime that sends one request at a time; with two, the
  run `found_socket_race` refutes `OwnSocket`), with faults and restarts;
  `AddedStaysWired` as long as `Trusted`, `SocketsAreOwn` always.
  `SerialInv` says that whoever runs is alone, that a request without a
  connection is alone in an empty VPP (`LostAlone`), that an ADD fills a socket
  of its own (`Filling`), that no two interfaces share one (`OneIf`), and which
  part of the wiring each step of ADD has made (`Wiring`).
- `VppKeepsPromise`: under `Serial`, the initial states of `HostVpp` map to
  those of `HostPorts` and every step to one of its steps or to a stutter,
  faults included, until VPP restarts or a DEL is misled. Each action is shown
  to be `Allowed`, one of five kinds of step, and each kind to be a step of
  `HostPorts`. `PromiseInv` is needed at the ends: an ADD that makes an
  interface has none remembered (`Fresh`), and a DEL that reports success works
  on nothing any more (`Freed`).
- `CleanInvariant`, `IdsAreUnique`, `DelCleansUp`: under `Serial` and `NoPanic`
  (no attachment with `NetType` `interface` and a nil IPAM result, for which
  `AddOnHost` panics after it made the interface and leaves it behind). `Known`
  is the point: each registered socket is about to be filled, has the interface
  that its attachment works on, or is about to be removed; so an attachment
  that registers its file has no socket yet, although `findMemifSocket` could not
  tell.
- `ServableIsServed`: under `Serial` and `Served`: masters, no more attachments
  than `usedList` has room for, and no DEL of what was never added (which fails at
  its last step). Because the sockets have files of different attachments, there
  are fewer of them than attachments (`FewSockets`), and the panic is not reached.
  For a slave whose peer has not made the file the DEL does fail.
- `AloneInvariant` states all invariants of one request at a time together, as
  `host_serial` checks them.
- `BootInvariant` and `PairedAlways`: in a container that starts after its ADDs,
  for any number of interfaces and any order of their names, each interface is
  programmed with its own additional data until a system call of `vpp-app`
  fails: a remote file that is skipped or kept shifts the pairs. `BootInv` says
  why: before the start the two files of each interface agree but for the one
  being written (`Before`); while `vpp-app` runs, all agree but for the
  interface in its hand, which was the least of the remote files and is
  therefore the least of the additional ones (`While`). `FirstIsIn` gives the
  least element of a set of names by well-founded induction over `Rank`.
- `WrittenOnce`, and from it `DeliveredAtMostOnce` and `DeliveredIsWritten`:
  with ADDs, DELs, faults on both sides and polls in any order. `OnceInv` says
  that a configuration is in one place at a time, in a file, in the hand of
  `vpp-app` or delivered, unless its interface is in `kept`, which `AtMostOnce`
  exempts; and that what `vpp-app` has taken or delivered is of an interface
  whose ADD is past the writing and will not come back to it.
- `OvsInvariant` and `AddedKeepsPort`: that the saved data names an existing
  port rests on what requests have in hand. `PortInv` adds `PortInHand` (from
  the script to the write a request has its port, and a DEL past its port has
  deleted it or never knew it) and `SavedOnce` (no request starts from saved
  data of an earlier one, as long as nothing failed unnoticed). A step changes
  these for its own attachment only, which one lemma states for the others.
- `NoFileLeft`, `AddedStaysWired`, `DelsSucceed` (of `HostOvs`): `FileInv` says
  where an attachment that no failure has marred is in its life, and what of its
  port, socket, record and directory follows (`Sound`); that the requests of one
  container exclude each other and that a DEL finds every later interface gone
  (`Exclusive`, `LatestFirst`), so that the files a DEL removes by the beginning
  of their names are those of interfaces already gone; and that the directory of
  a container has an attachment (`InUse`). The last two theorems assume
  `NamesInOrder`: no interface name of a container begins with a later one, as in
  `net1`, `net2`, ..., `net10`. A runtime that added `net10` before `net1` would
  lose its socket, so the assumption cannot be dropped.
- `OvsKeepsPromise`: the initial states of `HostOvs` map to those of `HostPorts`,
  and every step to one of its steps or to a stutter, until something fails
  unnoticed. The mapping takes a port as held while the script, the request or
  the saved data knows it; `IInv` is needed where a DEL ends, to know that
  nothing is held any more.
- `CniInvariant`, and from it `AddIsComplete`, `DelIsComplete` and
  `LeaseIsReleasable`: the invariant says at each step of `cmdAdd` and `cmdDel`
  what has been made or taken away (`Adding`, `Deleting`), that a held port
  belongs to its attachment (`PortOwned`), and that a lease without its file
  belongs to a DEL that is about to release it (`Releasable`). The lemmas
  `HostStep` and `HostEffect` say what a step of the promise does to its own
  attachment and to others, and are all that is used of the engines.

Only model-checked: the liveness properties `Delivered`, `Terminates`,
`ExitsAfterFound` and `RetryReleases`, and that every request ends in
`KeepsPromise` of `HostVpp` (`Ends` of `HostPorts`), because the prover does not
treat fairness and `ENABLED`. Every invariant and every safety property that a
run checks is proved, under the hypotheses above.

## 5. Not modelled

- The vhost-user wrapper `cnivpp/api/vhostuser`: no engine calls it.
- `USERSPACE_MEMIF_SOCKFILE`, which makes all attachments share one socket file.
- The defaults that `SaveRemoteConfig` fills in for the container (engine, role,
  network type): what reaches the container is opaque in `RemoteConfig` and
  `UserSpaceCni`.
- govpp beyond timeouts, dead connections and the single connect: vendored.
- The test programs, container image and build files. Logging and dumps.

## 6. Plan

Done, in this order: `Vpp`, `HostVpp`, `HostPorts`, the proofs of the type and
of `HandInv`; `RemoteConfig`, its findings, the proof of `PairedDelivery`;
`HostOvs` with its invariant and the proof of the refinement; `UserSpaceCni`
over `HostPorts`, with its invariant; then the invariants `FileInv`, `OnceInv`,
`NetInv`, `SerialInv`, `CleanInv`, `PromiseInv` and `ReadyInv`, and from them the
rest of the safety properties and the refinement of `HostPorts` by `HostVpp`.

To do, most important first:

1. Proofs: weaker hypotheses. `DelCleansUp` for any number of concurrent
   requests that share no socket id; `AddedStaysWired` of `HostVpp` without
   `Serial` for the parts that the socket race does not reach.
2. `UserSpaceCni` composed with `RemoteConfig`: `handed` refined into the two
   files, for a container whose `vpp-app` runs while DELs are repeated.
3. The defaults of `vppdb.go:159-196`: the two memif roles of an attachment are
   complementary.
4. `USERSPACE_MEMIF_SOCKFILE` in `HostVpp`: one socket file shared by all
   attachments.
