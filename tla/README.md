# fleetbox: verification project

TLA+ models of [fleetbox](../src), a tool that runs small clusters of local VMs.
The repository's `ARCHITECTURE.md` describes the program; this file says which of
its behaviour is modelled, what TLC checks and what TLAPS proves.

## 1. The system

A *client* (the CLI or the Go library) prepares files on disk and drives a
*holder*, a separate process that owns one cluster: a shared network and every VM
on it. There is no daemon above the holders. All that processes share is the
directory tree `~/.fleetbox`, the sockets in it, and the host's network.

    client process                       holder process
    orchestrator ── control ── socket ── holder ── backend (vz | cloud-hypervisor)
        │                                   │            │
      store, image cache, ssh key       pidfiles     bridge, taps, firewall, VMs

### Components, state and operations

| component | state | operations | what makes it correct |
|---|---|---|---|
| holder (`internal/holder`) | member registry, member objects, `running`, `done`, `network`, `reservations`; a socket and a pidfile per member | `createnetwork`, `reserve`, `boot-member`, `stop`, `status`; teardown on signal, on `done`, on the loss of a bound parent | the counter is exact; the process lives exactly as long as a member does; a member's files lead to that member; one VM per disk; the network outlives its VMs; nothing is left behind |
| control (`internal/control`) | a `Session`: child process and bind connection | `Spawn`, the bind handshake, `Stop` with its pidfile poll, `Close` | a test that dies takes its holder along; `Close` ends; a `Stop` that returns success means the VM is down |
| orchestrator (`internal/orchestrator`) | `VM` and `Cluster` handles | `Start`, `StartN`, `AddMember`, rollback, `Stop`, `Destroy` | a failed start leaves no fresh files and no running VM; an existing disk survives a failed start |
| store (`internal/store`) | a directory per VM: config, disk, seed, pidfile, socket, lock | `Create`, `Load`, `List`, `Delete`, `IsRunning` | a listed VM is complete; a delete removes nothing that runs |
| remote backend (`internal/backend/remote`) | the client half of network, reservation and VM | the RPCs above | it sends the calls in the order the holder accepts them |
| network, Linux (`internal/backend/cloudhypervisor`) | a write-ahead record per network; bridge, taps, nft table; the uplink's forwarding flag and its marker | `CreateNetwork`, `createTap`, `deleteTap`, `Close`, `Reconcile`, `Prune`, `Reserve` | the record names all that exists; a later sweep reclaims what a crash left; a live network is left alone; forwarding goes back to its first value; addresses are unique |
| VM, Linux and macOS (`vm.go`, `vz.go`) | process or framework handle, tap, serial log | `Start`, `WaitForIP`, `Stop` | `Stop` ends with the VM down, however far `Start` got |
| artifact cache (`fetch`, `image`, `helperdist`) | files under a cache directory | `Ensure` | a name in the cache is a verified, complete file, with several processes filling it |
| ssh key (`internal/sshkey`) | a key pair | `EnsureKey` | all processes use one matching pair |
| file copy (`internal/sshkey/copy.go`) | a producer, a pipe, a remote command | `CopyTo`, `CopyFrom` | both ends finish when either fails; nothing is written outside the destination |
| command line (`cmd/fleetbox`) | none | target resolution, `up`, `down`, `rm` | a pattern reaches the VMs it names |

Not modelled: `seed`, `fixture` (they render text and build file-system images), `dhcp`
(parses a file of the host's), `opts` (defaults), `contrib/catalog` (an offline
generator), the fake backend (a test double), `third_party/vz`. Section 13 has the
parts of modelled components that are left out.

### Where it is hard

The holder has no queue: every RPC is a goroutine, locks are held for a few lines,
and the slow calls (create a network, boot a VM, stop a VM) run outside them. So
what one handler read is stale by the time it acts. Clients are several processes
that do not know of each other and meet only in the files. Holders crash, and the
next one cleans up. `PROJECT.json` lists these hazards, each at its line.

## 2. Modules

| module | what | composes or refines | section |
|---|---|---|---|
| `Holder` | the holder process and its handlers | | 3 |
| `NetLifecycle` | record, bridge, taps, table, forwarding; crash and reclaim by other holders | | 4 |
| `ClientUp` | orchestrator, store and control: `up`, `down`, `rm`, a library's cluster | clients with the helpers they spawn | 5 |
| `Artifacts` | several processes filling the caches and making the key | fetch, image, sshkey, boot extraction | 6 |
| `Machine` | one VM of either backend with all that call it | implements `VMContract` | 7 |
| `BoundSession` | a test process and the helper bound to it | control with the holder's `Run` | 8 |
| `CopyPipe` | a copy to or from a guest | goroutine, caller, channel, guest | 9 |
| `Addressing` | subnets, reservations, the address that is kept in the seed | both backends' networks, holder, orchestrator | 10 |

Each has its theorems in a module beside it (section 11): `HolderProofs`, `NetProofs`,
`ClientUpProofs`, `ArtifactsProofs`, `MachineProofs` (with the refinement of `VMContract`),
`BoundSessionProofs`, `CopyPipeProofs`, `AddressingProofs`. `MC<module>` gives its module instances, and `MC<module>_<run>.cfg` is the run.

The processes meet at narrow interfaces, and each model keeps of its neighbours
what its own process can tell apart: `ClientUp` has the helpers of `Holder` as
member states behind a socket and a pidfile; `Holder` has VMs that start or fail, and
takes for granted of `Stop` what `VMContract` says, which `Machine` is shown to
implement; `BoundSession` has `stopAll` as one step.

Every module keeps its parameters as constants with a named assumption, one action per
operation, faults as a constant set, and no recursive operator, so that it can be
proved about. `TypeOK` of a module is its type invariant; it is a theorem of each, and no run
lists it: add it to the INVARIANTS of a configuration to have TLC check it.

What would come next, in this order:

1. The abstract member (down, booting, up, failed) that `Holder` implements with orderly
   clients, as a refinement, so that the helper of `ClientUp` is justified by a theorem.
2. `RecordCovers` and `HostRestored` for single processes that no mishap touches, where others have
   some: the conditions now are on the whole host.
3. Fewer lapses: which pairs of commands on one name are harmless (`ClientUp`), and which
   meetings (`Artifacts`).

## 3. Holder

`Holder.tla` models `internal/holder/holder.go`: the main goroutine of `Run`, from
the point where the spawn names are registered to the end of the process, and the
handlers of `createnetwork`, `reserve`, `boot-member` and `stop`.

**Grain.** One step is one critical section of `h.mu` or `m.mu`, or one slow call
outside them. File steps that no other handler can tell apart are one step
(`register` up to the pidfile; the listener, socket and pidfile of `retire`). A
handler is a record: where it is, and its locals, each of which may be stale.

| code | model |
|---|---|
| `h.members`, `h.running`, `h.done`, `h.network`, `h.reservations` | `members`, `running`, `done`, `network`, `reserved` |
| a `*member`: `state`, `vm`, `retireOnce` | `mem[o]`; `retired` is "unlinked" while `retire` is between files and registry |
| a new `*member` of a runtime-added name | the object named by the boot request that registers it; old objects stay, as pointers do |
| VMs that run; networks on the host | `live` (a VM is named by its boot request), `nets` |
| a member's socket, its pidfile | `sock[n]` (the object whose listener is bound there), `pidfile` |
| goroutines | `netPc`, `boot`, `stop`, `main` |

`bootMember` is `BootBegin` to `BootDecRunning`, `stopMember` is `StopBegin` to
`StopUnregister`, `stopAll` with the deferred `network.Close` is `ShutDown` to
`Exit`. `DecRunning`, `RetireFiles` and `RetireEntry` are the helpers of the same
names; `retireOnce` makes a second caller wait for the first, so its disjunct waits
for "yes". Every backend call may fail where the code has an error path. A boot
needs its network on the host, as a NIC does.

Abstracted: `status` (reads only), the address a reservation holds, the contents of
a spec, error texts, the ownership of sockets, the 30 s context of `stopAll`.
`StateDownloading`, which the code tests for but never sets, is left out.

**Shutdown.** `ShutDown` has no condition but that the process serves: a signal, the loss of a
bound parent, or `done`, which the `down` of the last counted member closes while the `up` of
another is on its way from `memberByName` to the registry (229-233, 367-371, 462-471). `stopAll`
goes by the list of members it drew up and marks nobody stopped (546-562), so a boot it overtook goes on: its VM
may start late, and runs without a network until the process exits; its socket, its pidfile
and a network it made stay behind. The comment at 518-520, that teardown is seen by
`markRunning`, does not hold for it. `main.before` keeps, for the properties only, what was answered
when the shutdown began; `NetworkClosedLast`, `CleanExit` and, past that point, `OneVMPerName` and
`StopMeansDown` speak of that (`Kept`).

**Lapses.** The holder trusts its clients to be orderly, one operation on a name at
a time and no retry of a failed boot, and the backend to stop what it is told to. `Lapses` lists what
a run allows beyond that, so that each property is checked under the
weakest condition the code needs, and what breaks it otherwise is named:

| lapse | why the code can see it |
|---|---|
| `dupBoot` | two `up` of one name, or two library `Start`, which nothing locks |
| `retryError` | `up` again after a boot that failed in a cluster that lives on |
| `stopBooting` | `down` while `up` runs |
| `earlyRejoin` | `up` as soon as `control.Stop`, which polls the pidfile, returns |
| `dupStop` | `down` twice, or `down` and `rm` |
| `vmOutlives` | a VM survives a `vm.Stop`, whose error `reap`, `stopMember` and `stopAll` do not read (500-520, 538, 559) |

### Runs

Two names; one is a spawn name, the other is added at run time. A request is used
once, so the numbers of requests bound the run: two createnetworks for the race
between them, two boots for a re-join or a second object, two stops for an
overlap. Requests of a kind are interchangeable (`Symmetry`); the liveness run uses no
symmetry.

| run | requests, lapses | checks |
|---|---|---|
| `holder_orderly` | two of each kind; `retryError` (1.6 million states) | `NetworkOwned`, `OneVMPerName`, `StopMeansDown`, `NetworkClosedLast`, `CleanExit`, `RefusalMeansRunning` |
| `holder_overlap` | one createnetwork, one boot, two stops; `stopBooting`, `earlyRejoin`, `dupStop`, `vmOutlives`; fair (0.5 million states) | `CounterExact`, `SocketServesMember`, `DoneOnlyWhenEmpty`, `HolderExits` |

A lapse outside a run breaks a property of it, and shows where the code does less than a
comment says. TLC finds the violation when the configuration is given this value of `MCHolder`
for `Lapses`:

| configuration | value | property | shown |
|---|---|---|---|
| overlap, with `BootReqs2` | `Overlapping` | `HolderExits` | both boots of a runtime-added name find it missing and register it (`holder.go:462`); one object is counted for ever, and `Run`, which serves "until every member has been stopped individually" (223-224), does not end |
| overlap, with `BootReqs2` | `Retrying` | `DoneOnlyWhenEmpty` | a failed boot takes its member off the counter; a second boot of it is accepted and not counted (570-583), and the stop of a sibling ends the process, which is to survive "until the last one leaves" (14-15), under it |
| orderly | `StoppingEarly` | `StopMeansDown` | the pidfile is gone while the VM of the boot runs |
| orderly | `Rejoining` | `RefusalMeansRunning` | a re-join is refused as "already running" while the VM is dead |
| orderly, with `StopScoped` | `StoppingTwice` | `StopScoped` | a stop is carried out on the successor of the member it was sent to |
| orderly | `Outliving` | `StopMeansDown`, `NetworkClosedLast`, `OneVMPerName` | the member is retired, and counted out, over a VM that runs; the network is closed under it, or a re-join boots a second VM on its disk |

**Fairness** (`FairSpec`). The Go scheduler runs every goroutine that can run; backend
calls return, since each is bounded by a timeout; the `select` of `Run` sees a closed
`done`. So the steps of a handler that has begun, of the main goroutine, and
`ShutDown` once `done` is closed are weakly fair. No client is made to send
anything, no signal is made to arrive.

`CHECK_DEADLOCK` stays on: an exited holder stutters in `Gone`, and until then the
shutdown is always enabled or on its way.

## 4. NetLifecycle

`NetLifecycle.tla` models the Linux network of `internal/backend/cloudhypervisor`
(`network.go`, `netstate.go`, `forwarding.go`, `nftables.go`) as several processes use it on one
host. A process runs `reconcile` first (`Run`, or `RunReconcile` of `prune`, which then
leaves), may create a network, makes and removes taps from one handler per VM slot,
closes the network and leaves. It may crash on the way, and what it made stays.

**Grain.** Processes share the host and the record directory without a lock. A step is what
a process does to one thing there (one link, table, file or flag) or one section of `n.mu`.
Two looks with nothing done in between are one step: `delLink` with its `linkExists`, the read of all
records by `list`, the lookups of a tap's attachment.

| code | model |
|---|---|
| a record file, and the taps in it | `recorded`, `recTaps` |
| `chNetwork.taps`, in memory | `taps` |
| `fbx-*` bridges, nft tables, `fbt-*` taps | `bridges`, `tables`, `links` |
| `conf/<uplink>/forwarding`; the file `fwd-<uplink>.orig` | `fwd`; `marker`, "empty" between its creation and its write, "cut" for good when its writer failed or died there |
| the records a sweep has read | `listed`, `snap`, `cur` |
| where a process, and where each `createTap` or `deleteTap`, is | `pc` and `phase`, `tapPc` |

`SweepList` to `SweepEnd` are `reconcile`; `Restore` to `RestoreClear` are
`maybeRestoreForwarding`, at the end of `Reconcile` and of `Close`; `NetRecord` to `NetFirewall` are
`CreateNetwork`; `TapBegin` to `TapRewrite` are `createTap`, its rollback, `deleteTap` and
`dropTap`; `CloseClone` to `CloseRecord` are `Close`.

Abstracted: subnets and addresses (`Addressing`), names (a network has that of its
process, which makes at most one), the content of the firewall, the forwarding flag of the
bridge (it dies with the bridge), the VM processes (those of a dead holder are
taken to be dead: `killProcsUsingTap`), the reuse of process numbers, a host with no uplink
or with global forwarding (nothing is flipped). That the kernel refuses an empty value for a
sysctl is from its handler of integers: a write without a number is an error.

**Mishaps.** `Mishaps` lists what may go wrong in a run beyond interleaving:

| mishap | what it allows |
|---|---|
| `crash` | a process dies at any step but the next |
| `crashMidSweep` | ... while another has read its record and not yet looked at its pid |
| `addFails` | a record, marker, bridge, address, flag, table or tap cannot be made or written |
| `delFails` | a link or table cannot be deleted |
| `closeBusy` | `Close` while a VM's tap is being made, used or removed |
| `createDuringRestore` | a record is written while another process is in `maybeRestoreForwarding` |

### Runs

| run | instance, mishaps | checks |
|---|---|---|
| `net_crash` | 3 processes, 1 slot; `crash`, `addFails` (0.65 million states) | `RecordCovers`, `EgressForwarded`, `FwdRecoverable` |
| `net_anything` | 2 processes, 1 slot; all (1.7 million states) | `NetworkRecorded`, `LiveUntouched` |
| `net_live` | 2 processes, 1 slot; `crash`; fair (6 thousand states) | `HostRestored`, `Reclaimed` |

Three processes are one that is up, one that has died and one that sweeps. One slot is
enough for what the record says of a tap: taps of one network meet only in `n.taps` and
the record, both written under `n.mu`. No counter needs a bound: a process makes one
network and a slot one tap, after which both are over. Processes and slots are
interchangeable (`Symmetry`), except in the liveness run. That run has two
processes because its graph with three is past what TLC's liveness check finishes in
minutes; the one that died and the one that sweeps are the two it needs, and a
sweep works on one record at a time.

One mishap more breaks a property. TLC finds the violation when `MCNet_crash.cfg` is given this
value of `MCNetLifecycle` for `Mishaps`:

| value | property | shown |
|---|---|---|
| `Refusing` | `RecordCovers` | a tap the kernel keeps is dropped from the record (`network.go:259-262`), or the record is deleted with it on the host (209-232, 350-371): not "always a superset of what exists on the host" (`netstate.go:33-35`) |
| `Creating` | `EgressForwarded` | `forwarding.go:109-120` reads records and bridges before it writes; a network that comes up in between loses its forwarding, against which the look is "the cross-process backstop" (`network.go:453-455`) |
| `LateCrash` | `RecordCovers` | a sweep goes by the record it read; a tap added since stays, and its record goes |
| `ClosingBusy` | `RecordCovers` | `Close` forgets the taps, and a `createTap` in flight writes a record without its own |
| `Failing` | `HostRestored` | a failed `CreateNetwork` deletes its record, and nobody restores the flag |

`FwdRecoverable` says that the marker is never missing while the flag is flipped, and holds its
first value, but for one case that no lock or order excludes: `saveForwardingOrig` creates the
file and then writes it (`netstate.go:159-170`), and when the write fails, or its process dies in
between, the file stays empty. That creation fails, but the next one takes the file for the
value and flips the flag (`forwarding.go:68-80`), the restore writes an empty string, which the
kernel refuses, and the flag is never restored. A failed write needs no crash.

**Fairness** (`FairSpec`). A process that runs goes on with the sweep, creation, restore or close it
has begun: these are straight-line code with no wait but for system calls. Nobody has to
start, to create, to use taps or to close, and crashes are never required.

A host on which every process is over stutters in `Quiet`; before that some process
can always take a step, and deadlock is checked.

## 5. ClientUp

`ClientUp.tla` models the client side: `cmd/fleetbox` (`up`, `down`, `rm`), the library's `StartCluster` and
`Cluster.Close`, `internal/orchestrator`, `internal/store`, the detached `Spawn` and `Stop` of
`internal/control`, and the calls of `internal/backend/remote`. Several client processes work on
one store; each runs one command and may spawn one helper, which is named after it.

| code | model |
|---|---|
| a member directory: `config.json`, `disk.raw`, `seed.iso`, the pidfile in it; the socket | `entry[n]`: `dir`, `cfg`, `cut` (a `config.json` that does not parse), `disk` (who copied it), `seed`, `pid`, `sock` |
| a helper, its members, the VMs it runs and on which disk | `helper[h]`: `up`, `mem`, `run` |
| a client: where it is, its targets, `missing`/`running` of `upMembers`, `Cluster.members` with `preExisting` | `cl[c]`: `pc`, `names`, `todo`, `mark`, `existing`, ... |
| whether a `Session` has its bind connection | `cl[c].bind` |
| the clients that did not take turns, or died, and what a late helper took | `lapse` (history) |

`UpLook` and `UpDecide` are `upMembers` with `soleHolder`; `Bind` is `dialBind`; `AddMember` to `WaitMember` are `Cluster.Add`,
`AddMember` and `startOnNetwork`, a step for each thing on disk or at the helper, and
`DeleteFailed` its deferred delete; `Rollback` to `RolledBack` are `rollback` and `Destroy`; `StopCheck` to `StopPoll`
are `control.Stop`; `DownNext` to `RmDelete` the loops of `down` and `rm`. Every RPC goes to whichever
process listens on the path, every test of liveness reads the pidfile, as in the code.
The helper's actions are the outcome of `Holder`: registered, booting, running, stopping,
in error, and reaping, for a member stopped while it boots.

Abstracted: addresses (`Addressing`), the image and key of `resolveStartDeps` (`Artifacts`), the contents of
specs and of configurations, listing and printing.

**Faults**: every step of `startOnNetwork` fails, `store.Create` among them, which may leave an empty
or cut `config.json` before the delete is deferred (`CreateEntry`); the spawn or createnetwork fails; a
boot or a wait fails; the client gives up on a helper that is still coming up, on the bind after 5 s and
on a request after 10 s, and the helper registers later (`slowHelper`); a stop outlives the 30 s of
`control.Stop`; client or helper die at any point; two clients work on one name. A library's names are taken to be its own, as the
fixtures derive them from the name of the test.

Run `client_up`: two names of one cluster, one of them created earlier; two commands; all
faults (2.1 million states). Two names are the fewest with a primary and a member added to it, one
of which may fail after the other came up; one that existed and one that did not make
both halves of the rollback happen; two commands are one that leaves something
and one that finds it.

| property | what it says |
|---|---|
| `RunningKeepsDisk` | no VM loses the disk it runs on |
| `EntryComplete` | what `up` takes for an existing member, and can load, has a disk and a seed |
| `Addressable` | pidfile and socket of a running member lead to its helper, and a live detached helper is led to by some member |
| `AllOrNothing` | a failed `up` leaves none of its members running or booting on the helper it spawned |
| `UpKeepsDisks` | no step of an `up` removes or replaces the disk that a member had when it began |

`AllOrNothing` says no more than that: a stop that outlived its 30 s may still be under way, and the helper
of an `up` that gave up on it registers its first name afterwards and lives on without a VM. The next
`up` takes that name for running and reports success, until a `down` ends the helper.

An entry with a cut `config.json` stays until an `rm`: every `up` of the name fails at `Load`.

`UpKeepsDisks` is about members, that is, entries with a `config.json`. A directory may hold a disk
without one: `Delete` (`os.RemoveAll`) takes the files one by one, and another client may copy a disk
into the directory meanwhile. `up` takes such a name for new, and its rollback deletes
what it finds there.

`lapse` names what the code does not protect, and the properties exclude:

* two commands on one name at a time: nothing locks it (`TryLock` of the store has no
  caller), and of the five properties only `UpKeepsDisks` is stated for it;
* `Destroy` ignores the error of `Stop` (`orchestrator.go:544`) and deletes the entry of a VM that may
  still run, where the comment above it (540-542) says that it is confirmed down;
* a step that fails for a new member of a detached `up` deletes its directory
  (286-295), and with it the pidfile, and the socket, of a helper that may have it
  registered, in error or on its way down, and be led to by nothing else;
* a client that dies between `Create` and the seed leaves an entry that the next `up`
  takes for complete;
* a helper that registers after its client gave up takes pidfile and socket of its first name, from
  the helper that the next command spawned, or under a client that is at work on the name. Commands that take
  turns are enough for it, as the client that gave up has returned. Without this lapse
  `slowHelper` alone refutes `Addressable` and `RunningKeepsDisk`.

Seen on the way: a library's client whose bind gave up, and whose createnetwork timed out, waits in
`Session.Close` for a helper that does not know of it (`control.go:483-496`). When the helper registers after all, with
no member booted and no bind connection, neither ends the other. With `slowHelper` and without `clientCrash`
TLC reports it as a deadlock; with it, as in the run, the client can still be killed.

The specification has no fairness: a client that waits is ended by its own
timeouts, which are steps here, and no property is about progress.

## 6. Artifacts

`Artifacts.tla` models the files that outlive a process: `EnsureKey` (`sshkey.go`), `fetch.Ensure`, `image.Ensure` with
`convertQcow2ToRaw`, and the extraction of kernel and initrd through `atomicWrite` (`bootextract.go`,
`binaries.go`). `helperdist` and `ensureArtifact` call `fetch.Ensure`, and add nothing.

A path leads to an inode and an inode holds blocks, so that a process whose file is
renamed, removed or truncated by another goes on writing where it was. `file` is the
directory, `data` the blocks, `key` and `pub` the two key files, `proc` the processes. A process does
what `resolveStartDeps` does (key, then image), or `bootArgs` (kernel, then initrd).

**Faults**: a download breaks off or delivers another body; a conversion or extraction fails
part way; a write of either key file fails (`keyFails`); a process dies at any point; two processes meet.

Run `artifacts`: three processes, files of two blocks, all faults. A file of two blocks can be half
written. `CONSTRAINT TwoMeet` ends a behaviour where two processes have met and the third
begins: properties exclude what happened to processes that met, so the third one would
only repeat it. Without a meeting all three run: one that leaves something, one that stumbles
over it and one that is to recover.

| property | what it says |
|---|---|
| `CachedWhole` | what stands under a name that is served is whole, and verified when it is pinned |
| `KeysMatch` | the public key a process returned belongs to the private key on disk, or it is empty, and so is the file, which a writer that failed or died left |
| `Recovers` | a process fails by a fault of its own, or because a predecessor left a private key without a public one |

`lapse` records what the properties exclude, and the code does not protect:

* two processes meet in one download: they share the temporary name, one renames the
  half-written file of the other, and it is served at once, although `fetch.go:18-21` says that a
  partial download never leaves a usable file behind;
* two convert one image in place: it is visible while it is written, and a failure of
  one removes the raw image of the other;
* two make the key: the private file may be of one and the public file of the
  other;
* a crash in a conversion leaves half a raw image under the name that is served;
* a crash *or a failed write* in the making of the pair (`sshkey.go:75-80`) leaves half of it. A private key without
  a public one is refused by every later `EnsureKey`. A public file that was created and not written is
  returned, empty, with success (36-46), and goes into the seeds.

## 7. Machine and VMContract

`VMContract.tla` is what the holder takes for granted of a `backend.VM`: once `Stop` has returned without an
error the VM is down, and it does not come up again; it names the one exception, a VM that
outlives the last wait. `Machine.tla` has one VM of either backend (`vm.go` and `cloudhypervisor.go`, `vz.go`) and its
callers: the handler that boots it, which creates, starts, waits, and stops what failed
(`bootMember`), and the handlers that stop it once it was adopted. `Contract` is the refinement mapping, and `KeepsContract`
the property.

| code | model |
|---|---|
| the process of cloud-hypervisor, or VZ's state | `vm`; `asked`, what it was asked |
| what the wait goroutine has published: the state, then the closed channel | `obs` |
| tap, API socket, serial log | `res`; a tap is "taken" between `cleanup`'s mutex and `deleteTap` |
| the callers | `pc` |

Linux: `RequestCH` (REST shutdown), `Escalate` (5 s, SIGTERM, 5 s, SIGKILL, 2 s), `Exited`, and `TakeTap`, `DeleteTap`, `RemoveSocket` for
`cleanup`. macOS: `RequestVZ`, `SoftVZ`, `ForceVZ`, `LastVZ`, each way out through `ReturnVZ`. A timer may fire whenever what it
waits for has not come, and a context that is over is a timer that fires at once.

**Faults**: `Create`, the launch, the wait for the address fail; requests are refused; the VM ends by
itself, or enters VZ's error state; it outlives SIGKILL; the member is stopped while it boots; `setupSerial`
fails after it has opened the log (`serial`); the kernel keeps the tap (`tapKept`).

Run `machine`: both backends, two stops and the boot, all faults (4333 states). Two stops are enough to
race for the tap, which one takes; the theorems are for any number.
Properties: `HeldWhileRunning` (the tap is not taken from a VM that runs), `NothingLeft` (when the last stop has returned, or `Create` has failed, tap,
socket and serial log are gone, but for two failures that leave one of them), `KeepsContract`, and `CallsEnd`
(every boot and stop ends).

The two failures: `cleanup` forgets the tap and ignores the error of its deletion (`vm.go:302`), so a tap
the kernel keeps is not tried again; and when `setupSerial` fails after it opened the log (`vz.go:484-491`) it returns
before the closing is deferred (286-295), where the comment at 281-285 says that a failure on the way does not leak it.

The contract lets `Stop` return an error with the VM up. `holder.go` reads that error nowhere: section 3 has it as the lapse
`vmOutlives`.

**Fairness** (`FairSpec`): handlers and the wait goroutine are scheduled and their waits end by a timer; a
machine that was killed or forced goes. Nothing makes a guest obey a shutdown.

## 8. BoundSession

`BoundSession.tla` models a test process and its helper: the bound `Spawn`, `dialBind`, `bindHandshake` and `Close` of
`control.go` with `Run`, `watchParent`, `serveControl` and `handleBindConn` of `holder.go`. A connection is the dialer's end, the handler
and what is in flight; the bind command, the version and the ack are messages.

`Spawn` may fail before there is a helper; `Dial` to `Ack` are the handshake with its retries, `Kill` and `WaitKilled` the two steps by
which a helper of another version goes, `Close` and `Reap` are `Close`;
`Register` to `CloseNetwork` are `Run` with its select and its teardown, `Accept` to `ReadEOF` a connection in the helper,
`WatchParent` the poll of the parent's PID.

**Faults**: the runner log or the process cannot be made (`nospawn`); the test dies at any point, `kill -9` included; the helper dies, is signalled, cannot listen or speaks
another version; deadlines of the dialer and of the handshake pass. A stray
connection is one of anybody else that ends without a word.

Run `bound_session`: two attempts and one stray connection, all faults. Two attempts are one that fails and
one that is retried, whose death-watches could be confused (0.14 million states).

| property | what it says |
|---|---|
| `NoSpuriousTeardown` | the helper tears down for the session only when the session is over |
| `FallbackHasCause` | a session is without its connection only if the helper was late or slow, had no socket, was signalled or died |
| `DeathReaped` | however the test dies and however far the handshake was, the helper goes |
| `CloseEnds` | `Close` of a session with a connection ends, unless the helper dropped that very connection for being slow |

What the model shows beside them: without a bind connection (`dialBind` gives up quietly at its
deadline) `Close` waits until the last member was stopped or the helper dies, as nothing tells the
helper; so it does when the helper's own deadline dropped the session's connection just as it was
acked (`near = "slow"` in `CloseEnds`; a deadline that struck an earlier attempt is no excuse); and a helper killed for its version leaves socket, pidfiles and
network to the next sweep.

**Fairness** (`FairSpec`): both processes and every connection's handler run, the dialer's deadline passes,
`watchParent` polls for ever. Nothing makes the test close its session or stop its members.

## 9. CopyPipe

`CopyPipe.tla` models `CopyTo` and `CopyFrom` of `internal/sshkey/copy.go`: a goroutine and the caller over an `io.Pipe`, the guest's `tar` behind
an SSH channel, and the file systems at both ends. A tree is a function from paths to
kinds: directories, files, links, among them those whose mode denies their owner,
links out of the tree, and "other". `Walk` is the order of `filepath.WalkDir`, and an archive is not built but
read off it: its places are those of the walk whose path the tree has, then the end mark
(`ItemAt`, `InArchive`, `Comes`).

`BuildTar`, `StartTo`, `CopyStdin`, `WaitTo` are the way to the guest; `StartFrom`, `CopyStdout`, `ExtractEntry`, `RestoreDirModes` the way from
it; `CloseWithError`, `Drain`, `Join` and `Verdict` end both. The pipe is synchronous, the channel holds `Window` items. An
item is an entry of the archive or its end mark; a stream that is cut between two
entries is a short archive to `tar -x`.

An entry of kind "other" is a fifo or a device, and in an archive from the guest also the second name
of a file, which GNU tar writes as a hardlink. `extractTar` has no case for these and skips them without
an error (`copy.go:317-320`), so `CopyFrom` returns success without them (`Skipped`). To the guest they go
as they are, or the second name as a file of its own. Left out: a socket on the
host, which `FileInfoHeader` refuses (one more cause for the fault `host`), and fifos and devices among what stood at
the destination before.

**Faults**: the session does not start; the host cannot read or write; the guest's `tar` fails; the
connection breaks. The guest's `tar` is external: it reads or writes, and makes progress
while it runs, since a copy has no timeout of its own.

Run `copy_pipe`: every tree of a top, a child and a grandchild, to the guest, and from it onto every such
tree that may be there before; `Window` 1 (0.56 million states). Three levels are the fewest with a directory that is
both a child and a parent; a window of one makes every writer wait.

| property | what it says |
|---|---|
| `OkMeansCopied` | a copy without an error has copied the whole tree, with its modes; from the guest, all of it but the entries that are skipped, where what stood there stays |
| `Blame` | the error that is returned is the cause, not its symptom; onto nothing every tree extracts |
| `CopyEnds` | a copy returns, wherever it fails |

Seen on the way: the reader of `fromGuest` drains the pipe before it closes it, so the drain at `copy.go:526-528` has
nothing to do; and a second copy of a tree with read-only files or shut directories fails for
a user who is not root. That a link at the destination leads to a directory is left out, and
so is the check of names (`safeJoin`), a computation on strings.

**Fairness** (`FairSpec`): the Go scheduler runs both goroutines, and the guest's `tar` runs.

## 10. Addressing

`Addressing.tla` models `detectFreeIPv4Subnet` of both backends, `Reserve` of the holder and of the Linux network, and what
`startOnNetwork` keeps of a reservation in the config and the seed of a VM. The reservation dies with the
helper; the address in the seed stays, and the guest has it whatever is reserved.

| code | model |
|---|---|
| `net.Interfaces`, as far as it is not fleetbox's | `lan` |
| a helper: before, in and after its `CreateNetwork`; the subnet; `reservedSubnets` | `helper[c]` |
| `h.reservations` and the network's own map | `res` |
| the address in config and seed | `store` |
| the VM: booting for the first time, again, or up | `vm` |
| subnets that VZ refuses after a crash | `wedged` |

`DetectFreeSubnet` scans and chooses, `AddNetwork` makes the choice visible to others (on macOS that is the
moment the bridge shows, not the return of create-network: `vz.go:170-171`); `Offer` is `Reserve` with the hint;
`StartMember`, `Booted` and `BootFails` are the reservation, the probe of `WaitForIP` and the rollback; `Down`, `Remove`, `Exit`, `Crash` the ends.

**Faults**: the network cannot be made; a helper dies; a guest does not come up; the host joins a network; two
members come up together.

Runs: `addressing` has two clusters, three members of one, two subnets and two usable addresses (`LastSubnet` 1, `LastHost` 4), so that
clusters contend for subnets and members for addresses, and both run out.
`addressing_keeps` is the same without faults, on Linux.

| property | what it says |
|---|---|
| `NoAddressTwice` | no two members hold one reservation, none the gateway's, all in the subnet |
| `SubnetsApart` | two clusters share a /24 only if one scanned before the other's bridge had its address |
| `OwnAddress` | the guest that answers at a reserved address is the member's own, unless members came up together |
| `RejoinKeeps` | a member that leaves is offered its address again while the helper lives |
| `KeepsAddress` | a stopped member keeps its address while its /24 stays free: **violated** |

`KeepsAddress` is what `orchestrator.go:234-235` says. The helper picks the lowest free /24 whatever the seeds of its
members say, and gives a member without a hint the lowest address no member holds, also one that is in the seed of a
member not yet back; that one is then reserved another, and its guest keeps the first.
`SubnetsApart` names the race (`raced`) that "Concurrent networks get distinct /24s"
(`ARCHITECTURE.md:234`) does not: nothing orders the scans of two helpers.

## 11. Proofs

Each theorem holds for every value of the constants that the module's named
assumption admits, and for every set of lapses, mishaps or faults unless it says
otherwise.

### HolderProofs

`HolderProofs.tla`, for any names, requests and lapses of `HolderAssumption` (finite
sets of names and requests; a boot request is no name and no createnetwork):

* `TypeCorrect`: `Spec => []TypeOK`, from the stronger `Typed`, which says that a handler's
  locals are set wherever it uses them.
* `NetworkCorrect`: `Spec => []NetworkOwned`, inductive with `Typed`.
* `CounterCorrect`: `Serial /\ Spec => []CounterExact`. `Serial` excludes `dupBoot` and `retryError`,
  the two lapses that refute it (section 3); stops may overlap with anything, and the
  process may shut down at any point. `CounterExact` is not inductive: `markRunning` sets
  "running" whatever the state was, which changes the count if it was "error" or if the object was
  never registered. The invariant `Books` excludes both. `OneBoot`: a
  name has one boot in flight. `Named`: an object was made for one name, so two boots
  in flight never share one. `Fresh`: an object is counted from its registration on
  and not before. `NotFailed`: the member a boot works on is not in error, because only that
  boot could have put it there. The cardinalities then move by one element a
  step (`OneMore`, `OneLess`).
* `SocketCorrect`: `Single /\ Spec => []SocketServesMember`, `Single` being `Serial` without the clause on
  retries. `retire` and `register` work by name, so what is needed (`Served`) is that nobody
  does it late: a handler that holds an object which is not retired has the one in the
  registry (`Claims`), an object is unlinked by one goroutine (`Unlinkers`, `retireOnce`), a name is vacant
  while a boot registers it (`Vacant`), and its files stay until the entry follows (`Bound`).
* `OneVMCorrect`, `StopCorrect`, `ClosedLastCorrect`, `ExitCorrect`, `RefusalCorrect`: `Orderly /\ Spec` implies
  `[]OneVMPerName`, `[]StopMeansDown`, `[]NetworkClosedLast`, `[]CleanExit` and `RefusalMeansRunning`. `Orderly` admits
  overlapping stops of one name and retries of a failed boot, and the shutdown at any point,
  boots in flight or not. The four lapses it excludes are boots beside boots, boots beside stops, a re-join
  before the stop is through, and a VM that outlives its stop; the last three refute one of these
  properties in section 3 (`StoppingEarly`, `Rejoining`, `Outliving`). The invariant, `Settled`, follows a VM from its
  boot to its stop: a boot works on the registered member of its name, which has no VM
  (`BootKeeps`); a VM has one owner once its boot is over (`VMOwner`) and runs as the registered
  member's (`LiveHeld`, `VMUp`) until a stop or `stopAll` that holds *this* VM has stopped it (`Halted`,
  `Down`); `stopAll`'s list misses nobody but members registered after it was drawn up (`Listed`); files are
  somebody's (`FilesOwned`). From the shutdown on all this is about what was answered before it
  (`Held`, `Guarded`): such a VM is alone on its name (`Sole`), and belongs to a member that was answered before too
  (`Elders`), so that the list has it. `Cleared` says what is left of it after the exit,
  and `Powered` that `Create` is called with a network.
* `DoneCorrect`: `Serial /\ Spec => DoneOnlyWhenEmpty`. The step that closes `done` finds the
  counter at one and makes a pending decrement itself; by `CounterExact` nothing is left for
  a member that is up.

### NetProofs

`NetProofs.tla`, for any sets of processes and slots and any `Mishaps`:

* `NetTypeCorrect`: `Spec => []TypeOK`.
* `NetworkRecordedCorrect`: `Spec => []NetworkRecorded`, with no mishap excluded: a bridge or
  table is never without its record.
* `LiveUntouchedCorrect`: `Spec => []LiveUntouched`, likewise.

All follow from one inductive invariant, `NetInv` (`NetInvCorrect`). Neither property is inductive:
a record is deleted in four places, each safe only because of what was done before. `FreshHost` says that a
process has no bridge or table before it makes them (a failed bridge may delete its
record), `TornDown` that it has none any more where its record goes, `RecordHeld` that the record is
there while it makes them, `SweepsDead` that a sweep past the look at the pid works on a
process that is dead, and so adds nothing while table and bridge go. `OwnTaps` keeps the taps
of a record to those of its owner, so a sweep of one process takes no tap of another.
`Phases` and `SlotsIdle` order creation, taps and close.

Four theorems need mishaps excluded; what they exclude is what refutes them in section 4, as a
condition on the constant `Mishaps`:

* `EgressForwardedCorrect`: `NoneDuringRestore /\ Spec => []EgressForwarded`. `FwdInv`: while one process restores
  the flag nobody makes or has a network, and past the flip the flag is up.
* `FwdRecoverableCorrect`: `NoneDuringRestore /\ Spec => []FwdRecoverable`. `Written` says that there is a marker at each place
  where the flag is set or taken down, and that an empty one has its writer.
* `RecordCoversCorrect`: `Covering /\ Spec => []RecordCovers`. `CoverInv`: a slot has its tap in memory and in the record from
  before the tap is made until after it is deleted (`TapsHeld`), and a sweep that comes to
  delete a record has seen every tap its dead owner left (`SweepSees`). It is the last that
  `crashMidSweep` breaks.
* `HostRestoredCorrect`: `OnlyCrash /\ Spec => []HostRestored`. `ReturnInv`: a record is there as long as its network
  (`RecordOwned`), a restore runs on a host without records (`RestoreLast`), and a flag that is up is owed
  by a network, or by a process on its way to the restore (`FwdOwed`).

The assumption also says that `None` is no process and no value of the flag.

### BoundSessionProofs

For any number of attempts and stray connections and every set of faults:

* `TypeCorrect`: `Spec => []TypeOK`.
* `TeardownCorrect`: `Spec => []NoSpuriousTeardown`. The reader that arms the death-watch is one per
  connection, and connections of failed attempts end too. `Acked` says that an ack, in flight or
  read, is on the connection the test process holds, which is open until the session ends; `Open`
  that the handshake never waits on a connection it has closed itself.
* `FallbackCorrect`: `Spec => []FallbackHasCause`. `Smooth` follows the handshake while nothing has happened that would
  excuse it: the connection it waits on is the one the helper serves, so an attempt that was opened comes to its ack.

### CopyPipeProofs

For every walk of any number of paths, every set of trees and of earlier destinations,
every window and set of faults:

* `TypeCorrect`: `Spec => []TypeOK`.
* `CopiedCorrect`: `Spec => []OkMeansCopied`.
* `BlameCorrect`: `Spec => []Blame`.

`Ctl` says where goroutine and caller may be and what the pipe is then. To the guest, `Flow` accounts
for every item that was written: it is with the guest, in the channel, with the caller or in
the pipe; with `EndLast` (the end mark is the last) a guest that saw the end saw all (`Whole`).
From it, items come in the order of the walk (`InOrder`), so parents are there before their
children; what was taken from the pipe is on disk, but for directory modes and the entries that are skipped
(`Untouched`, `NoGap`), and a directory whose mode is applied has no child to come. The assumption asks of `Walk` what `WalkDir` gives: no path twice,
parents first.

### ArtifactsProofs

For any finite set of processes, any number of blocks, either kind of image and every set of faults:

* `TypeCorrect`: `Spec => []TypeOK`. That a creation finds an inode that is free is a matter of
  counting (`Fresh`): each name holds one at most, each process two.
* `CachedCorrect`: `Checked /\ Spec => []CachedWhole`, `Checked` being that the sources are pinned, or that the
  network delivers what was asked for: without a checksum `fetch.Ensure` serves what it got.
* `KeysCorrect`: `Spec => []KeysMatch`. `RecoversCorrect`: `Spec => []Recovers`.

`TurnInv` is for processes that have not met; from the first meeting on only types are kept, as
the properties exclude what came of it. No two names share an inode (`Apart`), so a write under
a temporary name leaves what is served alone; the temporary file is as whole as its writer has
come (`FetchAt`), and so is the raw image, which is written under its own name (`ConvertAt`). The public key is
never there without the private one it belongs to, and half a pair has its maker or is a lapse (`KeyInv`).

### ClientUpProofs

For any names, clients, clusters and faults, and with no condition beyond the lapses the
properties name:

* `TypeCorrect`: `Spec => []TypeOK`.
* `RunningCorrect`, `EntryCorrect`, `AddressCorrect`: `Spec` implies `[]RunningKeepsDisk`, `[]EntryComplete` and `[]Addressable`.
* `AllOrNothingCorrect`: `Spec => AllOrNothing`.
* `DisksCorrect`: `Spec => UpKeepsDisks`.

A client decides by what it read of the store, and others change it. `Inv` therefore says of each client
what its locals are still worth: what it has made of the member it is at (`FilesOf`), that a name it found missing
does not run but on its own helper (`MissOf`), that a helper not up yet is waited for, or its client has given up on
all it was to do (`SpawnOf`), that a helper it spawned serves nobody before its first
member is up (`FreshOf`), that what it has running there is marked for the rollback (`OwnedOf`). None of these survives
another client without `Turn`: on a name that has not lapsed one client is at work. Of the helpers
it says that a member is led to by its own paths (`Registration`), with one exception that the proof
turned up: a failed first member takes pidfile and socket with its directory, and its helper stays, led to by
nobody, until the rollback closes it (`Orphan`).

`UpKeepsDisks` holds without turns, so it has an invariant of its own, `DiskInv`. A disk bears the name of
the client that copied it, and a client copies one to a name once (`Once`), so a disk that an
`up` found and that is gone does not come back; a disk the `up` found stays under a `config.json` (`HadCfg`), and a member that the `up`
may destroy had none when it looked, or has lost that disk since (`NewOf`).

Frame lemmas (`ClientOnly`, `StepKeeps`, ...) say which part of the invariant a step leaves alone, by what it
writes; the actions themselves enter only through their effects (`Becomes`, `Ends`, `Put`, `Led`, `Deleted`).

### AddressingProofs

For any clusters, members, sizes of subnet, backends and faults:

* `AddressingTypeCorrect`: `Spec => []TypeOK`.
* `NoAddressTwiceCorrect`: `Spec => []NoAddressTwice`. The heart is `OfferFree`: what `Reserve` offers, honoured hint or
  lowest free address, is in the live subnet, is not the gateway and is nobody's.
* `SubnetsApartCorrect`: `Spec => []SubnetsApart`, from `ScansApart`, which says the same from the choice of a subnet on,
  before the bridge shows it.
* `OwnAddressCorrect`: `Spec => []OwnAddress`. It is not inductive: the probe is answered by any guest with the reserved
  address. `OneBoots` says that one member boots at a time, `HasAddress` that each guest has a reservation and
  a seed; the others that are up have their own address, by `OwnAddress` itself, and no two are
  the same, by `NoAddressTwice`.
* `RejoinKeepsCorrect`: `Spec => []RejoinKeeps`, from `ServedKeeps`: a member that was up keeps reservation and seed, and they
  are the same.

`Inv` is the conjunction of these. The assumption says that each member has a cluster and
that `None` is no address and no subnet.

### MachineProofs

For any number of handlers that stop the VM, either backend and every set of faults:

* `MachineTypeCorrect`: `Spec => []TypeOK`.
* `HeldWhileRunningCorrect`: `Spec => []HeldWhileRunning`.
* `NothingLeftCorrect`: `Spec => []NothingLeft`.
* `KeepsContractCorrect`: `Spec => KeepsContract`, the refinement: the initial state maps to `CInit`, and every step to one
  of `VMContract` or to a stutter (`ContractStep`, by the actions of boot, stops and machine).

All rest on `Gone`: a handler of cloud-hypervisor that is past its waits has seen the exit the wait
goroutine published (`ExitSeen`: it publishes none before the process is gone), or found no process, and
none is started after that (`StartsFirst`: the stops of an adopted VM follow its boot, which is over). `TapHeld`
says who has the tap: it is on the host from `Create` until one handler takes it, which then
tries to delete it. `OnlyOfKind` keeps the two backends apart.

## 12. What is only model-checked

* Liveness (`HolderExits`, `Reclaimed`, `CallsEnd`, `CopyEnds`, `DeathReaped`, `CloseEnds`) and `ENABLED` are out of the
  prover's reach.
* `KeepsAddress` is violated, and there is nothing to prove.
* Every invariant and action property that a run checks is stated by a theorem. TLC shows that the cases
  happen, which a proof does not: each property has a mutant of the model that breaks it.
* That the helper of `ClientUp` and the VM of `Holder` are what `Holder` and `Machine` make of them is proved of
  `Machine` only (`KeepsContract`), and by a reading of `Holder`.

Induction over data is out of the prover's reach too. No module declares a recursive
operator; the one computation over data that is modelled, the archive of a tree in
`CopyPipe`, is a selection from a fixed order, and the proofs follow it place by place.

## 13. Not modelled

* The fake backend, `seed`, `fixture`, `dhcp`, `opts`, `contrib/catalog`, `third_party/vz`: section 1 says why.
* Reading partition tables and file systems (`bootextract.go`): a computation on bytes, of which `Artifacts` has the writing.
* The framing of messages, `WaitMembers`, `status` and the owner of the sockets: they change no state that
  a property reads.
* The command line of cloud-hypervisor and the objects of Virtualization.framework: a translation of
  records.
* Flags, completion, elevation and printing of the command line; `ssh` and `cp`, which wrap calls
  modelled elsewhere.
* `SetStorageRoot`, and `TryLock` of the store, which nothing calls.
* The kernel, DHCP clients in guests, `nft` and sysctl are taken as the code uses them.
* The reuse of process numbers: their allocation is outside the code.
