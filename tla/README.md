# A TLA+ model of Condenser

Condenser is a container runtime daemon written in Go: an HTTP API creates,
starts, stops and deletes containers, pods, ReplicaSets, services, networks and
policies, and an external low level runtime, Droplet, runs the processes. This
project models the parts of the daemon whose correctness depends on what
happens in between: the stores behind everything, the address manager, the life
of a container, pods with their controller, network policies, L4 services with
theirs, bottles, and images with their layers and builds.

## 1. The system

The daemon (`cmd/condenser`) runs in one process: the management API, the hook
server and the CA server, each with one goroutine per request; the pod
controller and the service controller, loops with a 5 s ticker; the container
monitor, a loop with a 1 s ticker and a file watcher; the DNS proxy; the log
enricher. They share no memory except through JSON files: every service builds
its own store objects, also for files that other services use.

| Component | State | Operations | What makes it correct |
|---|---|---|---|
| State files (`store/*/store.go`) | a JSON file, a lock file, a temporary file, one mutex per object | `withLock`, `withRLock` | updates are atomic across objects, errors and crashes |
| IPAM (`store/ipam`) | pools: bridge, /24, allocations with published ports | `Allocate`, `Release`, `SetForwardInfo`, `StoreBridge`, `RemoveBridge`, `SetConfig` | an address has one holder; reserved ones have none; ports follow the holder |
| Container service (`core/container`, `store/csm`) | csm entries, directories, cgroups, iptables rules | `Create` with rollback, `Start`, `Stop`, `Delete` | what a container took is given back; a live one keeps it |
| Hooks (`core/hook`, `cmd/condenser-hook`) | csm entries, certificates of the agent | one state report per runtime event | a report never revives what was deleted |
| Monitor (`monitor`) | its own copy of the container list | detect dead processes, refresh on file events | every dead process is noticed in the end |
| Pods (`core/pod`, `store/psm`, `api/http/pod`) | pods, templates, ReplicaSets | create, apply, scale, start, stop, remove | see below |
| Pod controller (`core/pod/controller.go`) | copies of three lists | `reconcileOnce`, `recreatePod`, `deletePod` | replicas converge, degraded pods recover, a user's stop is respected |
| Network (`core/network`) | bridges, forwarding rules | create and remove networks and rules | a network in use stays; what was made is undone |
| Policy (`core/policy`, `store/npm`) | policy file, its backup, iptables chains | add, remove, commit, revert | after a commit the chains deny by default, follow the mode and hold the applied policies |
| Services (`core/service`, `store/ssm`) | service file, the last applied state, nat chains | reconcile | the rules are those of the endpoints, and go with their service |
| Bottles (`core/bottle`, `store/bsm`) | bottles and their containers | register, start, stop, delete | the order of the dependencies; nothing is left of a failure |
| DNS (`dns`) | a bounded cache with expiry | lookup, store | never an expired or foreign answer |
| Images (`core/image`, `registry`, `store/ilm`) | image index, layers on disk, build containers | pull, build, remove, status | the index names complete images; a build gives back what it took |
| CA (`core/cert`) | keys and certificates | sign | (cryptography, not modelled) |

How they interact: the API handlers and both controllers call the services;
the container service calls IPAM, the network service, the csm store and the
runtime; the runtime calls back over the hook server, whose handler updates the
csm store while the original request is still waiting; the monitor writes csm
and psm entries from an old list; the pod and the bottle service call the
container service; hooks, network changes, bottles and the API all commit the
policies; a build runs its commands in a container of its own.
Each of these calls is one or more transactions on the files, and nothing holds
across two of them. This is where the hard behaviours are: check and act in two
transactions, rollbacks, half finished deletes, copies that are out of date,
crashes between two files. `PROJECT.json` lists them as hazards, at the line
where each of them bites.

## 2. The modules

| Module | Models | Used by |
|---|---|---|
| `AtomicStore` | what a state file promises | `FileStore` (refinement) |
| `FileStore` | `withLock`, `withRLock`, `loadOrInit`, `atomicSave` | `MCFileStore`, `FileStoreProofs` |
| `Ipam` | the operations of the address manager | `IpamScan`, `Container`, `IpamProofs` |
| `IpamScan` | the loop of `findFreeIpv4`, address by address | `MCIpam`, `IpamProofs` |
| `Container` | a container from Create to Delete, on top of `Ipam` | `MCContainer` |
| `Pod` | pod service, pod controller, pod API, pod store | `MCPod` |
| `Policy` | policy service, policy store with Backup and Revert, the iptables chains | `MCPolicy` |
| `Service` | service store and API, service controller, the nat rules | `MCService` |
| `Bottle` | bottle API, service and store, with the network made for a bottle | `MCBottle` |
| `Layers` | extraction of layers, COPY, the upper directory of a build (operators) | `Image` |
| `Image` | image service, registry client, build, index | `MCImage` |
| `IpamProofs`, `FileStoreProofs`, `ContainerProofs`, `PodProofs`, `PolicyProofs`, `ServiceProofs`, `BottleProofs`, `ImageProofs` | theorems about the module named first | |

**FileStore.** A request is one call of `withLock` or `withRLock`. `pc` is its
place in the function, `mu` the mutex of each store object, `flock` the lock on
the lock file, `st` the loaded copy, `path` and `tmp` the two files. The three
stages of `atomicSave` (truncate, write, rename) are three actions, each of
which may fail; `Crash` kills all requests and drops the locks. The content of
a file is the set of updates applied to it, so a lost update is a missing
element. `withRLock` takes the same exclusive lock in the code, and does here.
Since the seven stores share this protocol, every store operation in the other
modules is one atomic step.

**Ipam.** The variable `pools` is `IpamState.Pools`. An allocation that is not
in the Go map is `Unused`. Addresses are numbers relative to the runtime subnet.
`Allocate` uses the least free address; `IpamScan` has the loop itself, with the
carry of `incIP` and the wrap, and `ScanFindsLeastFree` compares the two.
Failing operations save nothing and are stuttering steps.

**Container.** `create[c]` is the Create request of a container: its next step,
arguments and the `RollbackFlag`. Each step of Create, of `rollback` and of
Delete is an action, as it works on another store; `allocateAddress` is two, the
address and then the gateway, since its caller sets the flag after both. The hooks run inside the
runtime calls, and each of them is where the runtime calls it. `droplet` is the
state of the container in the external runtime. `CreateFault`, `UndoFault` and
`DeleteFault` let a step fail, with part of its work done where the code can
leave it behind; `Crash` ends all requests and keeps the stores. `ghosts` are
the processes that the monitor's list still has although they are dead.
`suspect` are the containers whose Delete, rollback or daemon was interrupted, or
whose gateway could not be read when the address was taken (`GetBridgeAddrFails`):
the code reclaims nothing of them later, and `ResourcesReclaimed` does not claim it.

**Pod.** `call[a]` is the service call an actor is in (the controller or a
user), `ctl` the place of the controller in `reconcileOnce` with its copies.
Each transaction on the pod store is a step. A pod has an infra container and
one member, reduced to their state ("dead" is a process that has died while the
container store still says running). Names are the template's name (slot 0) or
the ReplicaSet's name with a slot, which stands for the eight ULID characters
that change about once a second. Ids are never used again; the model reuses one
once nobody remembers it. A stop of the container service calls the pod of a
running member degraded; this write is part of the step that stops the member.
`DeleteResourceYaml` removes, besides the pods of a template, any pods whose
labels match: labels are a choice of the users.

**Policy.** `file` and `running` are the policy file and its copy, `chains` the
rules of the four chains, in order. A commit is what the code makes of it: one
action per iptables command (`RunCommand`, over the list of commands that
`BuildPredefinedPolicy` issues) and per store transaction, and no lock around
them; Backup and Revert bypass the lock of the store. A rule is what it matches
(`on`, a set of interfaces) and its target; NFLOG rules decide nothing and are
left out. The requests of users, the commits of hooks (`HostChange`, which also
moves a container to another interface) and of network changes (`NetworkChange`)
share the processes. `last` records how the last rebuild ended: "boot",
"commit", "failed", or that requests overlapped. Init has an empty file or
one policy applied by an earlier run of the daemon.

**Service.** `chain`, `jumps` and `forward` are the kernel's rules, `lastState`
what the controller remembers, `ctl` its place in `reconcileOnce` with its lists.
Each read of a store, each group of iptables calls with one error check and each
clean-up of a port is an action, so that clients and pods come in between.
`failed`, `doubled` and `forgot` mark the services of which the code itself gives
up the rules (an error in a pass, a jump or a chain that could not be deleted, a
restart between removal and clean-up). A manifest may name any protocol
(`Protos`), while the clean-up deletes the jumps of two (`CleanedProtos`); it
ignores its errors, and never touches the rules in FORWARD. The order of Go's map
iteration is any order.

**Bottle.** One bottle with its record `bsm`, the states of its containers, the
pool and the bridge of its network, and the status of its policies. Every call to
a store or to another service is an action of its own, in the order of the code,
and its failure is another; rollbacks ignore errors where the code does. Another
client may attach a container (`Guest`) to the network or remove a policy.
What is done to a container is one step (`Container` has the detail). A commit is
two: it lists the policies (`listed`), and later writes for each what its listed
status asks for, whatever the status has become. Between flagging a policy and the
commit that removes it, and between the two steps of a commit, other requests and
the hooks commit (`OtherCommit`); `stale` are the policies whose removal flag such a
commit has overwritten or passed over. `Start_` and `Delete_` are the container service, `Start` and `Delete`
the bottle's.

**Layers** and **Image.** A tree is a function from a small set of paths to
nothing, a directory or a content, of which some are symbolic links;
`applyOneLayer` folds over the entries of an archive (file, directory, hard link,
device, whiteout, opaque marker) as the code does, entry by entry, and `Overlay`
says what a layer means. A link is made as a file is, and `copyDir` refuses one
onto anything. What the code does through a link that is there (`os.MkdirAll`,
`os.Stat` and `os.OpenFile` follow it) is not modelled: `Crosses` names the layers
that go through one, and no claim is made about them. Nor are paths that end in
".tmp", under which `writeFileFromTar` writes a file first. A device is skipped
below `dev/` and refused elsewhere.

`Image` uses these operators on the directories of images. `ilm` is the index,
`bundle` the directories: the one of a pulled image is named after its whole
repository, that of a built one after its last part, so images meet in one; so do
a built name and a pull of `docker.io/name`, which the registry client names by
`name` alone (`Named` are the names that the service's own parser gives; only a
pull can have another). `os.RemoveAll` of a directory and `copyDir` of a built tree
are two steps each, with some of the files gone or there in between, and either may
fail half way; `copyFile` makes the directories that it needs again, so a copy
survives a removal that began before it. `spoilt` are the directories in which such
steps of two requests may have left a mixture. `run` is the container of a RUN
line, whose end the hook and the monitor report in two transactions each; `litter`
is what ended builds have left, and at which step. The deferred functions that give
back what a build took are a step of their own (`BuildOver`, `RunOver`), of which a
call may fail. A configuration file stands for the tree of the image that it
belongs to, so that a tree of one version beside the configuration of another
shows. Init has an empty index, or one image that an earlier run of the daemon has
pulled or built.

## 3. Runs

| Run | Instance | Shows |
|---|---|---|
| `ipam` | 2 containers, 3 bridge names, 2 networks of 5 addresses (2 usable), 2 ports | `IpamTypeOK`, `BridgesUnique`, `AddressesUnique`, `ReservedFree`, `ScanFindsLeastFree`, `ForwardsFollowHolder` |
| `filestore` | 3 updates and 1 lookup over 2 store objects, 1 crash | `CopyIsCurrent`, `NeverTorn`, `EveryRequestEnds`, and that it implements `AtomicStore` |
| `container` | 2 containers, 1 name, 1 port, 1 fault, 1 crash | `ResourcesReclaimed`, `LiveHasResources`, `NoResurrection` |
| `pod_sets` | 1 client, 1 ReplicaSet of up to 2 replicas, 4 pod ids, 2 requests, 1 death | `SetHasTemplate`, `ReplicasConverge`, `DegradedRecovers` |
| `pod_requests` | 1 client, all kinds of request, 2 templates, 2 requests | `StopRespected` |
| `policy` | 2 processes, 3 requests, 1 added and 1 earlier policy, 1 host, 1 network, 1 overlap, failure or crash | `Isolation`, `EgressMode`, `RulesMatchStatus` |
| `bottle` | 3 services with any dependencies, 2 processes, 4 requests, 2 failures, a guest | `StartOrderSound`, `NothingLeftBehind`, `NetworkKept` |
| `service` | 2 services (53/tcp and 53/udp; 80/sctp), 2 pods, 4 changes, 1 failure, 1 restart | `RulesMatchState`, `NoLeftovers`, `Converges` |
| `image` | 3 names, 3 directories, 2 versions, an image of an earlier run or none, 2 processes, 2 requests, 1 failure or crash | `LayersSound`, `UsableImage`, `BuildReclaims`, `RunEnded` |
| `container_rollback` | 1 fault | violated: `RollbackRemovesRules` |
| `pod_apply_race` | 2 clients, apply and remove | violated: `ReplicasConverge` |
| `policy_commits` | two commits that overlap, no failure | violated: `DenyByDefault` |

Why the bounds are enough for the cases at stake. `ipam`: two containers fill
one pool, so exhaustion, reuse of an address by the other container and the wrap
of the search all happen; three names for two networks make bridges compete for
a /24 and `StoreBridge` run out of them; `MaxProbes` is more than one turn
around a network. `filestore`: two writers share an object and one does not, so
both locks are contended; the crash may hit every label. `container`: the second
container can take the address, the name or the port that the first one gives
back; one fault and one crash hit every step, also each other's clean-up.
`pod_sets`: two replicas make the names collide, scaling goes both ways, the one
death hits infra or member. `pod_requests`: with two templates of one name, a
create replaces the pod of another; a longer sequence of requests does not
finish in reasonable time. `policy`: three requests are enough to add a policy,
commit it and flag, revert or overtake it, and `MaxTrouble` puts one overlap,
failing command or crash at any point of them; the policy of an earlier run is in
the chain of the enforce mode, so that a switch of modes meets rules that stand.
`bottle`: three services make chains, shared dependencies, cycles and a
service on its own (a diamond needs four; `StartOrderIsSound` has every graph);
the second failure hits the rollback of the first, and commits of other requests
overlap those of the bottle. `service`:
the two services select a common pod, an address moves from one pod to the other,
one port number has two protocols, one protocol is not cleaned up, and a removal may fall before, into or after
a pass and a restart. `image`: two of the names have directories of
their own when pulled and share one when built, and the third is a pull of
`docker.io/app`, which meets them there; one version has a directory where the
other has a file, so that a pull over the other version conflicts, and a symbolic
link, onto which a copy fails. The daemon starts with no image, with a pulled one of
either version or with a built one of either name (`Earlier`), so that both requests
may meet over an image that is there. One build at a time has RUN lines (`MaxRuns`),
since build containers share nothing but the address pool. `LayersSound` does not
depend on the state: it extracts all pairs of well-formed archives of up to two
entries (files, symbolic links, directories, hard links, devices in and outside of
`dev/`, whiteouts, opaque markers), one over the other, and compares with `Overlay`;
pairs in which a path goes through a link are left out. Well-formed means what image builders
write: a marker before what it would remove, a path once, nothing below a file,
a link after the file that it names.

The scope of `pod_sets` is part of its meaning: requests follow one another and
make one ReplicaSet. `SetHasTemplate` and `ReplicasConverge` do not hold
without that. With two clients, `pod_apply_race` shows it. With one client and two
ReplicaSets whose templates have the same name, the controller itself does it: it
names the pod that it makes anew after the template, and the check for a taken
name removes the pod of the second template, which is stored and not yet
referenced by its ReplicaSet, and with the pod the template. The cause is the
same as in `pod_apply_race`: template and ReplicaSet are stored in two steps.

What a property leaves out is what the code gives up, and it is named there.
`Isolation`, `EgressMode` and `RulesMatchStatus` speak of a commit that no other
request overlapped, whatever happened before it: the next undisturbed commit
repairs the chains. `RulesMatchState` and `NoLeftovers` leave out services whose
rules the controller has given up; `NoLeftovers` leaves out the protocols that are
not cleaned up, with their chains, and the rules in FORWARD as well.
`ResourcesReclaimed` leaves out an address that was taken and not flagged. `NothingLeftBehind` leaves out a
clean-up call that failed, the two failures without a rollback, and the policies in
`stale`: a commit that listed a policy before it was flagged writes its status
later, and the policy outlives its bottle with no call failing. `NetworkKept`
leaves out a guest that comes between the check of the network and its removal.
`UsableImage` leaves out the directories in `spoilt`: two contents written at once,
a content written while the directory is removed (half a tree with a configuration
does stay then), a removal or copy that fails half way, a build that ends between
its tree and its configuration, a crash during a write. It asks whether an image is
complete, and not whose it is: a build of another name that shares the directory
replaces the files, and the older entry names the new ones. `BuildReclaims` and
`RunEnded` enumerate the steps at which something is left or a failed command
passes; a deferred call that fails may leave anything it should give back, and the
control group stays when a process of the container lives at the end of the build.

`CHECK_DEADLOCK FALSE` stands where the bounded requests of a run come to an
end. `ipam` and `service` never stop; `policy`, `bottle` and `image` have an
explicit `Done` when all requests are served; these five are checked for
deadlock.

**Fairness.** `FileStore`: weak fairness per goroutine, as the Go scheduler
gives, of the steps that do not fail (an error must not be what ends a wait); the mutex and the flock are waited for, but there are finitely many
requests and each takes each lock once, so nobody can be overtaken for ever.
`Pod`: weak fairness of the controller (a ticker drives it), of the monitor (so
does one) and of the goroutine of each request that has been made. Nobody has to
make a request, and nothing has to die. `Service`: weak fairness of the
controller's own steps, which a ticker drives and which wait for nobody; failures,
clients, pods and restarts are not fair, and bounded.

### What the violations show

* `rollback` releases the address before `cleanupForwardRules`, which looks up
  the ports recorded with that address and finds none. The iptables rules stay
  and forward a host port to whoever gets the address next.
* `ApplyPodYaml` stores the template of a ReplicaSet before the ReplicaSet. If
  the controller wakes up in between it makes a pod from the template; when
  that pod is removed before the ReplicaSet is stored, the template goes with
  it and the ReplicaSet never gets a pod.
* Nothing keeps two commits apart. Both flush the chains and then append: the
  RETURN at the end of the first one stands before the DROP rules of the second,
  and traffic between containers passes ("deny all inter-container traffic",
  `core/policy/service.go`) until the next commit.

Four more disagreements are in the model without a run. `allocateAddress` takes an
address and then reads the gateway; when that fails, Create returns before the flag
is set, the rollback passes over the address, and no container is left whose Delete
would release it. `cleanupService` deletes the jumps and chains of a removed
service, and leaves the ACCEPT rules that `addForwardRules` made in FORWARD for its
endpoints. Two Creates with one name
both pass "validate the name is not used by other container" and are both
stored. A pod that is only created, by an API documented "no container start", is
replaced and started by the next reconcile, which takes a missing infra
container for a dead one.

## 4. Proofs

Proved with TLAPS for all values of the constants. The assumptions are the
named `ASSUME`s of the modules, and there are no others: sizes and bounds are
natural numbers (a network has at least 4 addresses, the search loop makes at
least one turn), markers such as `None` are not members of the sets they are
kept apart from, services, pod ids and processes are finitely many where the code counts
them, the ports of a service are a non-empty list of numbers that are not 0, with
protocols of any set that includes tcp and udp. For
images: the layers that a registry serves are well-formed archives (§3), and
neither they nor what a command writes goes through a symbolic link; an image of an
earlier run is in a directory that a pull or a build gives it. Any images
may share any directories, pulled or built. TLC
evaluates each of them on the instances of §3.

| Module | Theorems |
|---|---|
| `IpamProofs` | `IpamTypeCorrect`, `BridgesAreUnique`, `AddressesAreUnique`, `ReservedStaysFree`, `ForwardsAlwaysFollow`, `ScanIsComplete` |
| `FileStoreProofs` | `StoreTypeCorrect`, `CopyStaysCurrent`, `StateFileNeverTorn`, `StoreImplementsAtomic` |
| `ContainerProofs` | `ContainerTypeCorrect`, `EntriesAreNotResurrected`, `ResourcesAreReclaimed`, `LiveContainersAreWhole`, `ContainerImplementsIpam` |
| `PodProofs` | `PodTypeCorrect`, `PodInvariant`, `UserStopIsRespected` |
| `PolicyProofs` | `PolicyTypeCorrect`, `BridgesAreIsolated`, `EgressFollowsMode`, `PolicyNumbers`, `RulesFollowStatus` |
| `ServiceProofs` | `ServiceTypeCorrect`, `RulesFollowMemory`, `RulesAreTakenAway` |
| `BottleProofs` | `BottleTypeCorrect`, `StartOrderIsSound`, `NothingIsLeftBehind`, `NetworkIsKept` |
| `ImageProofs` | `BuildsReclaim`, `RunsHaveEnded`, `ExtractionIsOverlay`, `LayersAreSound`, `TypeInvariant`, `ImageTyped`, `FilesInvariant`, `ImagesAreUsable` |

*Address manager* (`IpamProofs`). The inductive invariant is the conjunction of
`IpamTypeOK`, `BridgesUnique`, `SubnetsDisjoint` and `ReservedFree`.
`AddressesUnique` is not inductive: it speaks of addresses in use, and an empty
pool cut twice from one network violates it only later. `SubnetsDisjoint` is
the strengthening; `AddressesUnique` follows from it because the decomposition
of an address into network and host is unique (`AddressInjective`).
Allocate, Release and SetForwardInfo all replace one
allocation of one pool (`SetAllocationKeeps`); StoreBridge adds an empty pool,
RemoveBridge drops one. `ForwardsFollowHolder` is an action property, proved
from the same invariant: two pools with the same network, before and after a
step, are the same pool up to one allocation. `ScanIsComplete` is about the
recursive function `Cursor`: its value after i iterations has a closed form
(`Orbit`), shown by an induction over a set of numbers that rests on
`NatLessThanWellFounded` alone; one turn of the orbit meets every address of the
network.

*State files* (`FileStoreProofs`). The invariant is `TypeOK`, `CopyIsCurrent`
(at most one request is between load and rename, its copy is the content of the
file, and the temporary file about to be renamed is its copy), `NeverTorn`, and
`NoResultYet` (a request that has not finished has no result).
`StoreImplementsAtomic` is the refinement: the rename is the abstract update, the
end of `fn` the abstract lookup, an error or a crash the abstract abort, and
every other step a stutter.

*Containers* (`ContainerProofs`). `ContainerInv` extends `IpamInv`, since every
step of the module is a step of the address manager or leaves it alone
(`ContainerImplementsIpam`). For each container it says what the step of its
Create, its rollback and its Delete imply: which flags are set and which state
the runtime is in (`Progress`), which of directory, cgroup and entry exist
(`Files`), how many addresses it has (`Addressed`) and which rules
(`Forwarded`). The strengthening that `ResourcesReclaimed` needs is `HeldOnce`:
Release drops the first address it finds, so a container with two would keep
one. `NoResurrection` is an action property; it holds of every step by itself.

*Pods* (`PodProofs`). `StopRespected` is not inductive: the walk of a template
remembers a stopped pod (`ctl.stopped`) and starts it later, and a list with two
copies of a pod could disagree with itself. `PodInv` adds that the controller has
one copy of each pod, that its lists are parts of one reading, and that the pod it
remembers was not stopped by a user in that reading (`OneReading`). The rest of
`PodInv` is what a call has in hand at its step (`Ready`). Every step of
`PodService` advances the call of one actor and restarts no pod that the
controller has listed (`Advances`): a new pod has an id that nobody remembers. That
there is a suffix for its name is a pigeonhole argument (`SuffixesAreSlots`).

*Policies* (`PolicyProofs`). A request that nobody overlaps is the only busy one
(`PolicyInv`), and its `Sound(r)` says, step by step, what it has made: after
the k-th command of its plan the chains are those of that prefix of the plan
(`Progress`), for the mode in the file and the networks there are. At the end of
the plan the chains are the ones of `Isolation` and `EgressMode`. A request that
was overlapped claims nothing; `last` then says so until the next rebuild, which
starts with the flushes of its plan and needs nothing of what was there.
`RulesMatchStatus` needs two more invariants. `IdsKept`: the policies of a chain
have different numbers, in the file, in its copy and in what a request has opened;
without it an update by number could mark a policy whose rule was never inserted.
`RulesInv`: while a request that nobody overlaps works through the policies, the
rules of users in each chain are those of the policies it has dealt with
(`Written`, with `Dealt` for "all of the chains before, of the chain in hand those
no longer to do"), the rest of what it listed is still in the file (`InHand`), and
between its insertion and its mark a rule counts for the policy as it will be
marked. From the fourth command on no rule of an earlier rebuild is left
(`Flushed`). A rule that could not be inserted ends the claim (`complete`).

*Services* (`ServiceProofs`). `ServiceInv` says that the entries of the service
in hand before `ctl.port` are applied, the chain of `ctl.port` as far as
`ctl.end` (`BetweenPorts`, `InChain`, `InJumps`), that every other remembered
service has all its rules (`Matched`), that a rule is that of a port of its
service (`OwnRules`), and that a service that is not remembered has none that the
clean-up deletes (`Unremembered`, and `Cleaned` for the clean-up under way). Two entries with one port number share a chain, so "applied" is said
of the last entry that fills a chain (`LastBefore`); that the jumps come out as
one needs `SingleJumps`, at most one before. The order in which endpoints are
sorted is any that `Sorts` accepts; that there is one is proved by insertion.

*Bottles* (`BottleProofs`). The invariant has a part for each resource:
`OrderInv`, `RecordInv`, `ContainerInv`, `NetworkInv`, `PolicyInv`, `GuestInv`. `OrderInv` holds the correctness of Kahn's algorithm: the queue and
the order so far are the services all of whose dependencies are placed, so what
remains at the end has a cycle. The argument for the rest, without any lock: while the one
registration is creating, no deletion has a record that lists all containers, and such
a deletion ends at the last service of the order, which it looks at first,
before it has changed anything. For the policies `PolicyInv` says that between its
flag and the commit that removes it a policy is flagged, gone or `stale`, and that
the commit under way has listed it so (`Doomed`).

*Builds* (`ImageProofs`). `BuildInv` says for each step of a build what it holds
and which of it `buildRollback` has flagged (`HeldInv`), what the container of
RUN has reported (`RunInv`, `WaitInv`), and that what ended builds have left is on
the list of `BuildReclaims`. A process of the container lives from its creation to
the end of the command, so a control group can only be kept between these steps.

*Layers* (`ImageProofs`). `ExtractionIsOverlay` is about every archive, of any
length, over every tree, that goes through no link. `applyOneLayer` is a fold; it is first shown to be a run,
a sequence of states with one entry between each two, and what holds along a run
is shown by the least index at which it would fail (`NatLessThanWellFounded`, as
for `Cursor`). The claim about a prefix of the archive is `Extracted`: the tree is
the overlay of the entries so far, or one of them had to be refused. One lemma per
kind of entry shows that it survives that entry. This is where well-formedness is
used: a marker after the files it would remove takes away files of its own layer.

*Images* (`ImageProofs`). `TypeInv` says for each request that it has the
directory that its step works on, that its layer is one of its version and its tree
is a tree (`PlaceInv`), and that a directory that is not there has neither blobs nor
a configuration (`BundleInv`). `UsableImage` is not inductive: a pull writes the
configuration before the layers. `FilesInv` says, of a directory that is not spoilt,
that all requests that write it make one content of it, a pulled version, a built
tree or nothing (`Agree`), that a configuration beside them is theirs
(`ConfigOfWriters`), that every file of the configuration is in the tree or is owed:
by a layer that a pull has still to apply, by a copy or by a removal under way
(`TreeOfConfig` with `Owes`), and that what a build has copied of its tree stays
until its configuration is written (`TreeOfBuild` with `HasCopied`). That a pull
keeps what it owes rests on `LastTouch`: what the last layer that touches a path puts
there is what the whole image has there.

Each inductive invariant was checked by TLC on the instance of its run before
it was proved.

Only model-checked:

* liveness (`EveryRequestEnds`, `ReplicasConverge`, `DegradedRecovers`,
  `Converges`): fairness and ENABLED are out of the prover's reach;
* `SetHasTemplate` of `Pod`: it holds of one ReplicaSet and requests that follow
  one another, and is false for general constants (§3).

## 5. Not modelled, and the plan

Left out: the CA, the log enricher, AppArmor profiles, statistics and metrics,
websockets, the parsers of manifests, bottles and Dripfiles, HTTP and digests of
the registry client, listings. They are sequential I/O and text. The DNS proxy is
a map with expiry behind one mutex and the forwarding of packets.

Left out of `Image`: what an archive does through a symbolic link or to a path that
ends in ".tmp" (§2), and a FROM that names `docker.io/name` itself.

Abstracted in the modules above: I/O errors of stores inside `Container` and
`Pod` (`FileStore` has them); label selectors (`Service` has the set of pods
that a selector matches); pod namespaces; file modes and owners in images; ENV,
CMD and ENTRYPOINT; container and service ids that agree in the characters the
code uses of them; the monitor's watcher, in whose place the list may be of any
age; the copying of a policy file, which is one step.

The plan, in order:

1. `Monitor`: `Watch` and `Refresh`, dropped events and the shared map.
2. `HookCert`: the agent's key and certificate; `DnsCache`: capacity and expiry.
