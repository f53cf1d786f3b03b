------------------------------ MODULE Container ------------------------------
(***************************************************************************)
(* The life of a standalone container: ContainerService (internal/core/    *)
(* container) creating, starting, stopping and deleting it, the hooks by   *)
(* which the runtime reports back (internal/core/hook), and the monitor    *)
(* that notices a dead process (internal/monitor).                         *)
(*                                                                         *)
(* A container owns an address, published ports and their iptables rules,  *)
(* an entry of the container state store (csm), a directory and a cgroup.  *)
(* Each lives in another store, so every step of Create, of its rollback   *)
(* and of Delete is an action of its own, and the steps of different       *)
(* requests interleave.  A store operation is atomic (FileStore), the      *)
(* addresses are those of Ipam, and the runtime (Droplet, an external      *)
(* program) is the variable droplet.                                       *)
(*                                                                         *)
(* Not modelled here: pod members, networks that are removed under their   *)
(* containers, two container ids that collide, and I/O errors of the       *)
(* stores.                                                                 *)
(***************************************************************************)
EXTENDS Ipam

CONSTANTS
    Names,          \* container names
    NoEntry,        \* a container the csm does not know
    MaxFaults,      \* bound on the steps that fail by themselves
    MaxCrashes      \* bound on the crashes of the daemon

\* What the csm holds of a container.
Entry == [State: {"creating", "created", "running", "stopped"}, Name: Names]

ASSUME ContainerAssumption ==
    /\ NoEntry \notin Entry
    /\ MaxFaults \in Nat /\ MaxCrashes \in Nat

VARIABLES
    csm,        \* the container state store: ContainerId -> entry
    dirs,       \* containers that have a directory below ContainerRootDir
    cgroups,    \* containers that have a cgroup
    rules,      \* iptables: how many DNAT rule sets per address and port
    droplet,    \* the state of the container in the runtime
    create,     \* per container: its Create request, and the rollback
    start,      \* per container: a Start request
    delete,     \* per container: a Delete request
    ghosts,     \* containers of which the monitor lists a process that is dead
    suspect,    \* containers whose Delete or rollback failed half way, or whose
                \* Create failed with an address it had not flagged
    faults, crashes

stores == <<pools, csm, dirs, cgroups, rules>>
bounds == <<suspect, faults, crashes>>
vars == <<stores, droplet, create, start, delete, ghosts, bounds>>

-----------------------------------------------------------------------------
Known(c) == csm[c] # NoEntry

InState(c, S) == Known(c) /\ csm[c].State \in S

IsNameAlreadyUsed(n) == \E c \in Containers : Known(c) /\ csm[c].Name = n

\* Slip: an unknown container is added instead of refused.
UpsertContainer(c, state) ==
    csm' = IF Known(c) THEN [csm EXCEPT ![c].State = state]
           ELSE [csm EXCEPT ![c] = [State |-> state, Name |-> create[c].name]]

\* UpdateContainer returns an error for a container the store does not know.
UpdateContainer(c, state) ==
    csm' = IF Known(c) THEN [csm EXCEPT ![c].State = state] ELSE csm

\* Slip: the entry is marked instead of removed.
MarkContainer(c) ==
    csm' = IF Known(c) THEN [csm EXCEPT ![c].State = "removed"] ELSE csm

RemoveContainer(c) == csm' = [csm EXCEPT ![c] = NoEntry]

\* A rule set is identified by the address it forwards to and the port.
Rules == (0..(NumSubnets * SubnetSize - 1)) \X ForwardInfos

\* GetForwardInfo: the ports recorded with the addresses of the container.
Published(c) ==
    {k \in Rules :
        \E p \in pools, h \in Host :
            /\ Holds(c, p, h) /\ Address(p, h) = k[1]
            /\ \E i \in DOMAIN p.Allocations[h].Forwards :
                   p.Allocations[h].Forwards[i] = k[2]}

\* setForwardRules appends to the chains.
AddRule(k) == rules' = [rules EXCEPT ![k] = @ + 1]

\* deleteForwardRules takes the first match of each port's rules, if there is one.
deleteForwardRules(ports) ==
    rules' = [k \in DOMAIN rules |->
                 IF k \in ports /\ rules[k] > 0 THEN rules[k] - 1 ELSE rules[k]]

\* cleanupForwardRules removes the rules of every recorded port.
cleanupForwardRules(c) == deleteForwardRules(Published(c))

-----------------------------------------------------------------------------
\* Create.  The record of a request: the next step, the name, the network and
\* the ports asked for, the port in hand, and the RollbackFlag.
At(c, step) == create[c].step = step

Goto(c, step) == create' = [create EXCEPT ![c].step = step]

GotoWithFlag(c, step, flag) ==
    create' = [create EXCEPT ![c].step = step, ![c].flags = @ \cup {flag}]

\* The name is checked here and stored four steps later.
CreateRequest(c, n, b, ports) ==
    /\ At(c, "new")
    /\ ~IsNameAlreadyUsed(n)
    /\ create' = [create EXCEPT ![c].step = "image",
                                ![c].name = n, ![c].network = b,
                                ![c].ports = ports]
    /\ UNCHANGED <<stores, droplet, start, delete, ghosts, bounds>>

\* Parse the reference, pull the image if it is missing, read its config.
PrepareImage(c) ==
    /\ At(c, "image")
    /\ Goto(c, "address")
    /\ UNCHANGED <<stores, droplet, start, delete, ghosts, bounds>>

\* allocateAddress: the address is taken in one transaction of the address
\* manager and the gateway is looked up in another; its caller sets the flag
\* when both are done.
allocateAddress(c) ==
    /\ At(c, "address")
    /\ \/ /\ Allocate(c, create[c].network)
          /\ Goto(c, "gateway")
       \/ /\ AllocateFails(create[c].network)
          /\ Goto(c, "undo address")
    /\ UNCHANGED <<csm, dirs, cgroups, rules, droplet, start, delete, ghosts, bounds>>

\* Slip: the RollbackFlag of the address is not set.
GetBridgeAddrUnflagged(c) ==
    /\ At(c, "gateway")
    /\ Goto(c, "entry")
    /\ UNCHANGED <<stores, droplet, start, delete, ghosts, bounds>>

GetBridgeAddr(c) ==
    /\ At(c, "gateway")
    /\ GotoWithFlag(c, "entry", "address")
    /\ UNCHANGED <<stores, droplet, start, delete, ghosts, bounds>>

\* The gateway cannot be read: the flag is not set, so the rollback keeps the
\* address, and no request can release it later.
GetBridgeAddrFails(c) ==
    /\ faults < MaxFaults
    /\ At(c, "gateway")
    /\ Goto(c, "undo address")
    /\ faults' = faults + 1
    /\ suspect' = suspect \cup {c}
    /\ UNCHANGED <<stores, droplet, start, delete, ghosts, crashes>>

StoreContainer(c) ==
    /\ At(c, "entry")
    /\ csm' = [csm EXCEPT ![c] = [State |-> "creating", Name |-> create[c].name]]
    /\ GotoWithFlag(c, "directory", "entry")
    /\ UNCHANGED <<pools, dirs, cgroups, rules, droplet, start, delete, ghosts, bounds>>

setupContainerDirectory(c) ==
    /\ At(c, "directory")
    /\ dirs' = dirs \cup {c}
    /\ GotoWithFlag(c, "cgroup", "directory")
    /\ UNCHANGED <<pools, csm, cgroups, rules, droplet, start, delete, ghosts, bounds>>

\* setupEtcFiles, which only writes below the directory, and the cgroup.
setupCgroupSubtree(c) ==
    /\ At(c, "cgroup")
    /\ cgroups' = cgroups \cup {c}
    /\ GotoWithFlag(c, "spec", "cgroup")
    /\ UNCHANGED <<pools, csm, dirs, rules, droplet, start, delete, ghosts, bounds>>

createContainerSpec(c) ==
    /\ At(c, "spec")
    /\ Goto(c, "ports")
    /\ UNCHANGED <<stores, droplet, start, delete, ghosts, bounds>>

\* setupForwardRule: for each port the iptables rules, then the record in the
\* address manager; the flag is set after the last port.
SetupRule(c, f) ==
    /\ At(c, "ports")
    /\ f \in create[c].ports
    /\ \E p \in pools, h \in Host : Holds(c, p, h) /\ AddRule(<<Address(p, h), f>>)
    /\ create' = [create EXCEPT ![c].step = "record", ![c].port = f]
    /\ UNCHANGED <<pools, csm, dirs, cgroups, droplet, start, delete, ghosts, bounds>>

RecordPort(c) ==
    /\ At(c, "record")
    /\ SetForwardInfo(c, create[c].port)
    /\ create' = [create EXCEPT ![c].step = "ports",
                                ![c].ports = @ \ {create[c].port}]
    /\ UNCHANGED <<csm, dirs, cgroups, rules, droplet, start, delete, ghosts, bounds>>

PortsPublished(c) ==
    /\ At(c, "ports")
    /\ create[c].ports = {}
    /\ GotoWithFlag(c, "runtime", "rules")
    /\ UNCHANGED <<stores, droplet, start, delete, ghosts, bounds>>

\* createContainer runs the runtime, which calls two hooks.  Each of them
\* updates the csm, and fails if the container is not there any more.
RuntimeCreate(c) ==
    /\ At(c, "runtime")
    /\ droplet[c] = "none" /\ Known(c)
    /\ droplet' = [droplet EXCEPT ![c] = "creating"]
    /\ UpdateContainer(c, "creating")
    /\ Goto(c, "hook")
    /\ UNCHANGED <<pools, dirs, cgroups, rules, start, delete, ghosts, bounds>>

RuntimeCreated(c) ==
    /\ At(c, "hook")
    /\ droplet[c] = "creating" /\ Known(c)
    /\ droplet' = [droplet EXCEPT ![c] = "created"]
    /\ UpdateContainer(c, "created")
    /\ Goto(c, "done")
    /\ UNCHANGED <<pools, dirs, cgroups, rules, start, delete, ghosts, bounds>>

\* The hook fails: a Delete of the container, still "creating", came first.
RuntimeCreateFails(c) ==
    /\ At(c, "hook")
    /\ ~Known(c)
    /\ Goto(c, "undo address")
    /\ UNCHANGED <<stores, droplet, start, delete, ghosts, bounds>>

\* A step of Create fails by itself.  A failed step may have done part of its
\* work: made some of the directories, installed a rule, started a process.
CreateFault(c) ==
    /\ faults < MaxFaults
    /\ create[c].step \in {"image", "directory", "cgroup", "spec", "ports",
                           "runtime", "hook"}
    /\ At(c, "ports") => create[c].ports # {}
    /\ \/ UNCHANGED <<dirs, rules, droplet>>
       \/ /\ At(c, "directory")
          /\ dirs' = dirs \cup {c}
          /\ UNCHANGED <<rules, droplet>>
       \/ /\ At(c, "ports")
          /\ \E f \in create[c].ports, p \in pools, h \in Host :
                 Holds(c, p, h) /\ AddRule(<<Address(p, h), f>>)
          /\ UNCHANGED <<dirs, droplet>>
       \/ /\ At(c, "hook")
          /\ droplet' = [droplet EXCEPT ![c] = "none"]
          /\ UNCHANGED <<dirs, rules>>
    /\ Goto(c, "undo address")
    /\ faults' = faults + 1
    /\ UNCHANGED <<pools, csm, cgroups, start, delete, ghosts, suspect, crashes>>

-----------------------------------------------------------------------------
\* rollback, in its order; a step without its flag is skipped.
Flagged(c, flag) == flag \in create[c].flags

UndoAddress(c) ==
    /\ At(c, "undo address")
    /\ IF Flagged(c, "address") THEN Release(c) ELSE UNCHANGED pools
    /\ Goto(c, "undo entry")
    /\ UNCHANGED <<csm, dirs, cgroups, rules, droplet, start, delete, ghosts, bounds>>

UndoEntry(c) ==
    /\ At(c, "undo entry")
    /\ IF Flagged(c, "entry") THEN RemoveContainer(c) ELSE UNCHANGED csm
    /\ Goto(c, "undo directory")
    /\ UNCHANGED <<pools, dirs, cgroups, rules, droplet, start, delete, ghosts, bounds>>

UndoDirectory(c) ==
    /\ At(c, "undo directory")
    /\ dirs' = IF Flagged(c, "directory") THEN dirs \ {c} ELSE dirs
    /\ Goto(c, "undo cgroup")
    /\ UNCHANGED <<pools, csm, cgroups, rules, droplet, start, delete, ghosts, bounds>>

\* A cgroup that still holds a process is busy, which is ignored.  One that
\* does not exist is not: os.Remove says "no such file or directory", while
\* isNotFoundErr looks for "not found", and the rollback stops there.
UndoCgroup(c) ==
    /\ At(c, "undo cgroup")
    /\ cgroups' = IF Flagged(c, "cgroup") /\ droplet[c] = "none"
                  THEN cgroups \ {c} ELSE cgroups
    /\ Goto(c, IF Flagged(c, "cgroup") /\ c \notin cgroups
               THEN "failed" ELSE "undo rules")
    /\ UNCHANGED <<pools, csm, dirs, rules, droplet, start, delete, ghosts, bounds>>

UndoRules(c) ==
    /\ At(c, "undo rules")
    /\ IF Flagged(c, "rules") THEN cleanupForwardRules(c) ELSE UNCHANGED rules
    /\ Goto(c, "failed")
    /\ UNCHANGED <<pools, csm, dirs, cgroups, droplet, start, delete, ghosts, bounds>>

\* The directory or the cgroup cannot be removed: the rest is skipped.
UndoFault(c) ==
    /\ faults < MaxFaults
    /\ \/ At(c, "undo directory") /\ Flagged(c, "directory")
       \/ At(c, "undo cgroup") /\ Flagged(c, "cgroup")
    /\ Goto(c, "failed")
    /\ faults' = faults + 1
    /\ suspect' = suspect \cup {c}
    /\ UNCHANGED <<stores, droplet, start, delete, ghosts, crashes>>

-----------------------------------------------------------------------------
\* Start: the state is read from the csm, then the runtime is called; a
\* stopped container is created again first.
StartRequest(c) ==
    /\ start[c] = "none"
    /\ \/ InState(c, {"created"}) /\ start' = [start EXCEPT ![c] = "run"]
       \/ InState(c, {"stopped"}) /\ start' = [start EXCEPT ![c] = "recreate"]
    /\ UNCHANGED <<stores, droplet, create, delete, ghosts, bounds>>

RuntimeRecreate(c) ==
    /\ start[c] = "recreate"
    /\ \/ /\ droplet[c] = "stopped" /\ Known(c)
          /\ droplet' = [droplet EXCEPT ![c] = "created"]
          /\ UpdateContainer(c, "created")
          /\ start' = [start EXCEPT ![c] = "run"]
       \/ /\ droplet[c] # "stopped" \/ ~Known(c)
          /\ start' = [start EXCEPT ![c] = "none"]
          /\ UNCHANGED <<droplet, csm>>
    /\ UNCHANGED <<pools, dirs, cgroups, rules, create, delete, ghosts, bounds>>

\* The runtime starts the process and the poststart hook reports it.
RuntimeStart(c) ==
    /\ start[c] = "run"
    /\ start' = [start EXCEPT ![c] = "none"]
    /\ \/ /\ droplet[c] = "created"
          /\ droplet' = [droplet EXCEPT ![c] = "running"]
          /\ UpdateContainer(c, "running")
       \/ /\ droplet[c] # "created"
          /\ UNCHANGED <<droplet, csm>>
    /\ UNCHANGED <<pools, dirs, cgroups, rules, create, delete, ghosts, bounds>>

\* Stop kills the process; the stopContainer hook reports it.
Stop(c) ==
    /\ InState(c, {"running"})
    /\ droplet[c] = "running"
    /\ droplet' = [droplet EXCEPT ![c] = "stopped"]
    /\ UpdateContainer(c, "stopped")
    /\ ghosts' = ghosts \cup {c}
    /\ UNCHANGED <<pools, dirs, cgroups, rules, create, start, delete, bounds>>

\* The process ends by itself, which no hook reports.
ProcessExits(c) ==
    /\ droplet[c] \in {"created", "running"}
    /\ droplet' = [droplet EXCEPT ![c] = "stopped"]
    /\ ghosts' = ghosts \cup {c}
    /\ UNCHANGED <<stores, create, start, delete, bounds>>

\* The monitor finds that a process it lists is dead and records the container
\* as stopped.  Its list is a copy of the csm and may be old: the container
\* may have been started again, or deleted, since it was made.
MonitorDown(c) ==
    /\ c \in ghosts
    /\ UpdateContainer(c, "stopped")
    /\ UNCHANGED <<pools, dirs, cgroups, rules, droplet, create, start, delete,
                   ghosts, bounds>>

\* The monitor copies an entry that has no process, or another one.
Refresh(c) ==
    /\ c \in ghosts
    /\ ~(InState(c, {"created", "running"}) /\ droplet[c] \notin {"created", "running"})
    /\ ghosts' = ghosts \ {c}
    /\ UNCHANGED <<stores, droplet, create, start, delete, bounds>>

-----------------------------------------------------------------------------
\* Delete: the state is read from the csm, then the steps follow.
DeleteGoto(c, step) == delete' = [delete EXCEPT ![c] = step]

DeleteRequest(c) ==
    /\ delete[c] = "none"
    /\ InState(c, {"creating", "created", "stopped"})
    /\ DeleteGoto(c, "runtime")
    /\ UNCHANGED <<stores, droplet, create, start, ghosts, bounds>>

\* Slip: the error of the runtime is dropped and Delete goes on.
RuntimeDeleteUnchecked(c) ==
    /\ delete[c] = "runtime"
    /\ \/ /\ droplet[c] \in {"creating", "created", "stopped"}
          /\ droplet' = [droplet EXCEPT ![c] = "none"]
          /\ RemoveContainer(c)
       \/ /\ droplet[c] \in {"none", "running"}
          /\ UNCHANGED <<droplet, csm>>
    /\ DeleteGoto(c, "rules")
    /\ UNCHANGED <<pools, dirs, cgroups, rules, create, start, ghosts, bounds>>

\* The runtime deletes a container that it knows and that is not running; its
\* poststop hook removes the entry of the csm, or fails if there is none.
RuntimeDelete(c) ==
    /\ delete[c] = "runtime"
    /\ \/ /\ droplet[c] \in {"creating", "created", "stopped"}
          /\ droplet' = [droplet EXCEPT ![c] = "none"]
          /\ RemoveContainer(c)
          /\ DeleteGoto(c, IF Known(c) THEN "rules" ELSE "none")
       \/ /\ droplet[c] \in {"none", "running"}
          /\ DeleteGoto(c, "none")
          /\ UNCHANGED <<droplet, csm>>
    /\ UNCHANGED <<pools, dirs, cgroups, rules, create, start, ghosts, bounds>>

DeleteRules(c) ==
    /\ delete[c] = "rules"
    /\ cleanupForwardRules(c)
    /\ DeleteGoto(c, "address")
    /\ UNCHANGED <<pools, csm, dirs, cgroups, droplet, create, start, ghosts, bounds>>

releaseAddress(c) ==
    /\ delete[c] = "address"
    /\ Release(c)
    /\ DeleteGoto(c, "directory")
    /\ UNCHANGED <<csm, dirs, cgroups, rules, droplet, create, start, ghosts, bounds>>

deleteContainerDirectory(c) ==
    /\ delete[c] = "directory"
    /\ dirs' = dirs \ {c}
    /\ DeleteGoto(c, "cgroup")
    /\ UNCHANGED <<pools, csm, cgroups, rules, droplet, create, start, ghosts, bounds>>

deleteCgroupSubtree(c) ==
    /\ delete[c] = "cgroup"
    /\ cgroups' = IF droplet[c] = "none" THEN cgroups \ {c} ELSE cgroups
    /\ DeleteGoto(c, "none")
    /\ UNCHANGED <<pools, csm, dirs, rules, droplet, create, start, ghosts, bounds>>

\* A step of Delete fails.  The csm has forgotten the container, so no later
\* Delete finds it.
DeleteFault(c) ==
    /\ faults < MaxFaults
    /\ delete[c] \in {"rules", "directory", "cgroup"}
    /\ DeleteGoto(c, "none")
    /\ faults' = faults + 1
    /\ suspect' = suspect \cup {c}
    /\ UNCHANGED <<stores, droplet, create, start, ghosts, crashes>>

-----------------------------------------------------------------------------
CreateEnded(c) == create[c].step \in {"new", "done", "failed", "killed"}

\* The daemon is killed: the requests are gone and nothing is rolled back.
\* The stores, the iptables rules and the runtime's containers stay.
Crash ==
    /\ crashes < MaxCrashes
    /\ crashes' = crashes + 1
    /\ suspect' = suspect \cup {c \in Containers :
                                   ~CreateEnded(c) \/ delete[c] # "none"}
    /\ create' = [c \in Containers |->
                     IF CreateEnded(c) THEN create[c]
                     ELSE [create[c] EXCEPT !.step = "killed"]]
    /\ start' = [c \in Containers |-> "none"]
    /\ delete' = [c \in Containers |-> "none"]
    /\ ghosts' = {c \in ghosts : InState(c, {"created", "running"})
                                /\ droplet[c] \notin {"created", "running"}}
    /\ UNCHANGED <<stores, droplet, faults>>

NoRequest == [step |-> "new", name |-> "", network |-> "", ports |-> {},
              port |-> "", flags |-> {}]

Init ==
    /\ IpamInit
    /\ csm = [c \in Containers |-> NoEntry]
    /\ dirs = {} /\ cgroups = {}
    /\ rules = [k \in Rules |-> 0]
    /\ droplet = [c \in Containers |-> "none"]
    /\ create = [c \in Containers |-> NoRequest]
    /\ start = [c \in Containers |-> "none"]
    /\ delete = [c \in Containers |-> "none"]
    /\ ghosts = {} /\ suspect = {} /\ faults = 0 /\ crashes = 0

CreateStep(c) ==
    \/ \E n \in Names, b \in Bridges, ports \in SUBSET ForwardInfos :
           CreateRequest(c, n, b, ports)
    \/ PrepareImage(c) \/ allocateAddress(c)
    \/ GetBridgeAddr(c) \/ GetBridgeAddrFails(c) \/ StoreContainer(c)
    \/ setupContainerDirectory(c) \/ setupCgroupSubtree(c) \/ createContainerSpec(c)
    \/ \E f \in ForwardInfos : SetupRule(c, f)
    \/ RecordPort(c) \/ PortsPublished(c)
    \/ RuntimeCreate(c) \/ RuntimeCreated(c) \/ RuntimeCreateFails(c)
    \/ CreateFault(c)
    \/ UndoAddress(c) \/ UndoEntry(c) \/ UndoDirectory(c) \/ UndoCgroup(c)
    \/ UndoRules(c) \/ UndoFault(c)

RunStep(c) ==
    \/ StartRequest(c) \/ RuntimeRecreate(c) \/ RuntimeStart(c)
    \/ Stop(c) \/ ProcessExits(c) \/ MonitorDown(c) \/ Refresh(c)

DeleteStep(c) ==
    \/ DeleteRequest(c) \/ RuntimeDelete(c) \/ DeleteRules(c)
    \/ releaseAddress(c) \/ deleteContainerDirectory(c)
    \/ deleteCgroupSubtree(c) \/ DeleteFault(c)

Next ==
    \/ \E c \in Containers : CreateStep(c) \/ RunStep(c) \/ DeleteStep(c)
    \/ Crash

Spec == Init /\ [][Next]_vars
-----------------------------------------------------------------------------
Steps == {"new", "image", "address", "gateway", "entry", "directory", "cgroup",
          "spec", "ports", "record", "runtime", "hook", "done", "undo address",
          "undo entry", "undo directory", "undo cgroup", "undo rules",
          "failed", "killed"}

Request == [step: Steps, name: Names \cup {""}, network: Bridges \cup {""},
            ports: SUBSET ForwardInfos, port: ForwardInfos \cup {""},
            flags: SUBSET {"address", "entry", "directory", "cgroup", "rules"}]

TypeOK ==
    /\ IpamTypeOK
    /\ csm \in [Containers -> Entry \cup {NoEntry}]
    /\ dirs \subseteq Containers /\ cgroups \subseteq Containers
    /\ ghosts \subseteq Containers /\ suspect \subseteq Containers
    /\ rules \in [Rules -> Nat]
    /\ droplet \in [Containers ->
           {"none", "creating", "created", "running", "stopped"}]
    /\ create \in [Containers -> Request]
    /\ \A c \in Containers : ~At(c, "new") => /\ create[c].name \in Names
                                             /\ create[c].network \in Bridges
    /\ \A c \in Containers : At(c, "record") => create[c].port \in ForwardInfos
    /\ start \in [Containers -> {"none", "recreate", "run"}]
    /\ delete \in [Containers -> {"none", "runtime", "rules", "address",
                                  "directory", "cgroup"}]
    /\ faults \in 0..MaxFaults /\ crashes \in 0..MaxCrashes

\* A container that Create gave up, or that Delete has finished with.
Gone(c) ==
    /\ c \notin suspect /\ delete[c] = "none"
    /\ create[c].step = "failed" \/ (create[c].step = "done" /\ ~Known(c))

\* Rollback and Delete give back the address and the csm entry however a
\* Delete overtakes a Create and wherever a Create stops, but for one place:
\* when the gateway cannot be read, the new address is not flagged yet and
\* stays (such a container is in suspect).  Delete gives back the directory and
\* the cgroup as well.
ResourcesReclaimed ==
    \A c \in Containers :
        Gone(c) => /\ ~HasAddress(c)
                   /\ ~Known(c)
                   /\ create[c].step = "done" => c \notin dirs \cup cgroups

\* A container that is up in the runtime has its address, its directory, its
\* cgroup and the rules of its published ports, also when its state was read
\* long before Delete acted on it and when other requests fail or crash.
LiveHasResources ==
    \A c \in Containers :
        (create[c].step = "done" /\ droplet[c] \in {"created", "running"}) =>
            /\ HasAddress(c)
            /\ c \in dirs /\ c \in cgroups
            /\ \A k \in Published(c) : rules[k] > 0

\* Only Create makes an entry: a late hook or the monitor never brings back a
\* container that a Delete or a rollback removed.
NoResurrection ==
    [][\A c \in Containers :
          (csm[c] = NoEntry /\ csm'[c] # NoEntry) => create[c].step = "entry"]_vars

\* "RollbackFlag for handling rollback handling when process is not completed
\* successfuly" (service_create.go): when every Create that failed had its
\* ForwardRule flag set and is rolled back, no iptables rule forwards a host
\* port to an address that nobody holds.
RollbackRemovesRules ==
    (\A c \in Containers : /\ CreateEnded(c)
                           /\ At(c, "failed") => Flagged(c, "rules")) =>
        \A k \in Rules : rules[k] > 0 =>
            \E p \in pools, h \in Host : IsAllocated(p, h) /\ Address(p, h) = k[1]
=============================================================================
