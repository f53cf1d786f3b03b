-------------------------------- MODULE Bottle --------------------------------
(***************************************************************************)
(* The life of one bottle, a group of containers with dependencies: its    *)
(* registration, start, stop and deletion (internal/core/bottle and the    *)
(* bottle API), the network made for it (internal/core/network) and the    *)
(* policies that come with it.                                             *)
(*                                                                         *)
(* Every call to a store or to another service is one action; requests     *)
(* of several clients interleave, a step may fail, and another client may  *)
(* attach a container to the network of the bottle or remove one of its    *)
(* policies.  A container is created, started, stopped and deleted in one  *)
(* step each (Container has the detail).  Of a policy commit there are two *)
(* steps, the list of the policies and what is written for them later      *)
(* (Policy has the detail, and the revert of policies to an older file).   *)
(* The id of a bottle is never used again, so a container of it is named   *)
(* by its service.                                                         *)
(***************************************************************************)
EXTENDS Naturals, FiniteSets, SequencesExt

CONSTANTS
    Services,       \* services of the bottle
    Unknown,        \* a name in DependsOn that is no service
    Guest,          \* a container of another client
    Policies,       \* policies of the bottle, in order
    Procs,          \* requests that are served at one time
    None,           \* no bottle
    MaxRequests,    \* bound on the requests after the registration
    MaxFaults       \* bound on the steps that fail by themselves

\* The names that a service may depend on, and the record of a bottle.
Deps == [Services -> SUBSET (Services \cup {Unknown})]
Bottles == [order : Seq(Services), deps : Deps, containers : SUBSET Services, network : BOOLEAN]

\* A spec without services is refused ("services is required").
ASSUME BottleAssumption ==
    /\ MaxRequests \in Nat \ {0} /\ MaxFaults \in Nat
    /\ IsFiniteSet(Services) /\ Services # {}
    /\ Unknown \notin Services /\ Guest \notin Services
    /\ Policies \in Seq(ToSet(Policies))
    /\ None \notin Bottles

VARIABLES
    bsm,        \* the bottle store: the record of the bottle
    csm,        \* states of the containers
    pool,       \* whether the address manager has a pool for the bridge
    bridge,     \* whether the bridge interface exists
    npm,        \* status of the policies of the bottle in the policy store
    proc,       \* the requests under way
    listed,     \* the policies as the commit of a request read them, or None
    halted,     \* whether a clean-up failed, or a step failed that none covers
    late,       \* whether the guest came while the network was made or removed
    stale,      \* policies whose flag a commit overwrote, or that it passed over
    requests, faults

vars == <<bsm, csm, pool, bridge, npm, proc, listed, halted, late, stale, requests, faults>>
world == <<csm, pool, bridge, npm>>
ghosts == <<halted, late>>
commits == <<listed, stale>>
bounds == <<requests, faults>>

Containers == Services \cup {Guest}

\* "stored" is every status but the flag: waiting, applied or unresolved.
Status == {"none", "stored", "remove_next_commit"}

-----------------------------------------------------------------------------
\* Container service, as far as a bottle sees it.
Start_(c) == csm[c] \in {"created", "stopped"} /\ csm' = [csm EXCEPT ![c] = "running"]
StartRefused(c) == csm[c] \notin {"created", "stopped"}

Delete_(c) == csm[c] \in {"created", "stopped"} /\ csm' = [csm EXCEPT ![c] = "none"]
DeleteRefused(c) == csm[c] \notin {"created", "stopped"}

NumContainers == Cardinality({c \in Containers : csm[c] # "none"})

-----------------------------------------------------------------------------
\* A request: the next step, its own copy of the bottle, the services still to
\* do, those whose containers it has made, and the dependencies of the spec.
Idle == [kind |-> "none", step |-> "idle", info |-> None, todo |-> <<>>,
         made |-> <<>>, order |-> <<>>, deps |-> [s \in Services |-> {}]]

Busy == {r \in Procs : proc[r].step # "idle"}

At(r, step) == proc[r].step = step

Goto(r, step) == proc' = [proc EXCEPT ![r].step = step]

End(r) == proc' = [proc EXCEPT ![r] = Idle]

Fault == faults < MaxFaults /\ faults' = faults + 1

Begin(r, kind, step, info, todo) ==
    /\ At(r, "idle")
    /\ requests < MaxRequests
    /\ requests' = requests + 1
    /\ proc' = [proc EXCEPT ![r] = [Idle EXCEPT !.kind = kind, !.step = step,
                                                !.info = info, !.todo = todo]]

-----------------------------------------------------------------------------
\* CommitPolicy, at the steps of a request that call it.
Committing(r) ==
    \/ proc[r].step \in {"policies", "undo policies"} /\ proc[r].todo = <<>>
    \/ proc[r].step \in {"refresh", "undo network", "net refresh", "drop policy"}

\* BuildUserPolicy lists the policies...
ListPolicies(r) ==
    /\ Committing(r) /\ listed[r] = None
    /\ listed' = [listed EXCEPT ![r] = npm]
    /\ UNCHANGED <<bsm, world, proc, ghosts, stale, bounds>>

Flagged(list) == {p \in ToSet(Policies) : list[p] = "remove_next_commit"}

\* Slip: a flagged policy keeps its entry.
OutcomeKeepsEntry(r, p) == IF listed[r][p] = "remove_next_commit" THEN "removed" ELSE "stored"

\* Slip: flagged policies are applied like the others.
OutcomeStored(r, p) == "stored"

\* ...and writes for each what its listed status asks for: what was flagged
\* leaves the store, everything else is applied or found unresolved, whatever
\* its status has become.
Outcome(r, p) == IF listed[r][p] = "remove_next_commit" THEN "none" ELSE "stored"

\* A policy that is gone is an error, which ends the writes to its chain.
Gone(r) == \E p \in ToSet(Policies) : listed[r][p] # "none" /\ npm[p] = "none"

Writes(r, W) ==
    /\ npm' = [p \in DOMAIN npm |->
                  IF p \in W /\ listed[r][p] # "none" /\ npm[p] # "none" THEN Outcome(r, p) ELSE npm[p]]
    /\ stale' = stale \cup (Flagged(npm) \ IF Gone(r) THEN {} ELSE Flagged(listed[r]))
    /\ listed' = [listed EXCEPT ![r] = None]

Commits(r) ==
    /\ listed[r] # None
    /\ IF Gone(r) THEN \E W \in SUBSET ToSet(Policies) : Writes(r, W) ELSE Writes(r, ToSet(Policies))

\* A step of the commit fails, or the error of a policy that is gone is returned.
CommitFails(r) ==
    /\ listed[r] # None
    /\ Fault \/ (Gone(r) /\ UNCHANGED faults)
    /\ \E W \in SUBSET ToSet(Policies) : Writes(r, W)

-----------------------------------------------------------------------------
\* RegisterBottle.  BuildStartOrder first: the queue holds, in any order, the
\* services none of whose dependencies are left.
RegisterBottle(r, deps) ==
    /\ At(r, "idle") /\ bsm = None
    /\ requests' = 1
    /\ \E queue \in SetToSeqs({s \in Services : deps[s] = {}}) :
          proc' = [proc EXCEPT ![r] =
                      [Idle EXCEPT !.kind = "register", !.todo = queue, !.deps = deps,
                          !.step = IF \E s \in Services : Unknown \in deps[s]
                                   THEN "invalid" ELSE "order"]]
    /\ UNCHANGED <<bsm, world, ghosts, faults>>

\* Slip: a service is queued when any of its dependencies is done.
ReadyByAny(r, n) == {s \in Services : n \in proc[r].deps[s]} \ ToSet(proc[r].order)

Ready(r, n) ==
    {s \in Services : /\ n \in proc[r].deps[s]
                      /\ proc[r].deps[s] \subseteq ToSet(proc[r].order) \cup {n}}

BuildStartOrder(r) ==
    /\ At(r, "order") /\ proc[r].todo # <<>>
    /\ LET n == Head(proc[r].todo) IN
       \E next \in SetToSeqs(Ready(r, n)) :
          proc' = [proc EXCEPT ![r].order = Append(@, n),
                               ![r].todo = Tail(@) \o next]
    /\ UNCHANGED <<bsm, world, ghosts, bounds>>

OrderBuilt(r) ==
    /\ At(r, "order") /\ proc[r].todo = <<>>
    /\ \/ /\ Len(proc[r].order) = Cardinality(Services)
          /\ proc' = [proc EXCEPT ![r].step = "policies", ![r].todo = Policies]
       \/ /\ Len(proc[r].order) # Cardinality(Services)
          /\ Goto(r, "invalid")
    /\ UNCHANGED <<bsm, world, ghosts, bounds>>

Refuse(r) ==
    /\ At(r, "invalid")
    /\ End(r)
    /\ UNCHANGED <<bsm, world, ghosts, bounds>>

\* applyPolicies: all are added, then committed.
AddUserPolicy(r) ==
    /\ At(r, "policies") /\ proc[r].todo # <<>>
    /\ npm' = [npm EXCEPT ![Head(proc[r].todo)] = "stored"]
    /\ proc' = [proc EXCEPT ![r].todo = Tail(@)]
    /\ UNCHANGED <<bsm, csm, pool, bridge, ghosts, bounds>>

AddUserPolicyFails(r) ==
    /\ At(r, "policies") /\ proc[r].todo # <<>>
    /\ Fault
    /\ proc' = [proc EXCEPT ![r].step = "undo policies", ![r].todo = Policies]
    /\ UNCHANGED <<bsm, world, ghosts, requests>>

CommitPolicies(r) ==
    /\ At(r, "policies") /\ proc[r].todo = <<>>
    /\ Commits(r)
    /\ Goto(r, "store")
    /\ UNCHANGED <<bsm, csm, pool, bridge, ghosts, bounds>>

\* Nothing is rolled back when the commit fails.
CommitPoliciesFails(r) ==
    /\ At(r, "policies") /\ proc[r].todo = <<>>
    /\ CommitFails(r)
    /\ End(r)
    /\ halted' = TRUE
    /\ UNCHANGED <<bsm, csm, pool, bridge, late, requests>>

\* The bottle is visible to other requests from here on.  Whether a network
\* is to be made for it depends on its services.
StoreBottle(r) ==
    /\ At(r, "store")
    /\ bsm' = [order |-> proc[r].order, deps |-> proc[r].deps,
               containers |-> {}, network |-> FALSE]
    /\ proc' = [proc EXCEPT ![r].info = bsm', ![r].todo = proc[r].order, ![r].order = <<>>,
                            ![r].step = "network"]
    /\ UNCHANGED <<world, ghosts, bounds>>

StoreBottleFails(r) ==
    /\ At(r, "store")
    /\ Fault
    /\ proc' = [proc EXCEPT ![r].step = "undo policies", ![r].todo = Policies]
    /\ UNCHANGED <<bsm, world, ghosts, requests>>

-----------------------------------------------------------------------------
\* Create.  Services that name a network of their own get none from the bottle.
OwnNetworks(r) ==
    /\ At(r, "network")
    /\ Goto(r, "containers")
    /\ UNCHANGED <<bsm, world, ghosts, bounds>>

\* CreateNewNetwork: pool, interface, commit.
StoreBridge(r) ==
    /\ At(r, "network")
    /\ pool' = TRUE
    /\ Goto(r, "interface")
    /\ UNCHANGED <<bsm, csm, bridge, npm, ghosts, bounds>>

CreateBridgeInterface(r) ==
    /\ At(r, "interface")
    /\ bridge' = TRUE
    /\ Goto(r, "refresh")
    /\ UNCHANGED <<bsm, csm, pool, npm, ghosts, bounds>>

RefreshPolicy(r) ==
    /\ At(r, "refresh")
    /\ Commits(r)
    /\ Goto(r, "record network")
    /\ UNCHANGED <<bsm, csm, pool, bridge, ghosts, bounds>>

\* The rollback of CreateNewNetwork: what was made is removed again, then
\* another commit follows.  Here only the pool was made.
CreateNewNetworkFails(r) ==
    /\ At(r, "interface")
    /\ Fault
    /\ pool' = FALSE
    /\ Goto(r, "undo network")
    /\ UNCHANGED <<bsm, csm, bridge, npm, ghosts, requests>>

\* The interface is made but gets no address: the rollback forgets it.
CreateBridgeInterfaceFails(r) ==
    /\ At(r, "interface")
    /\ Fault
    /\ pool' = FALSE /\ bridge' = TRUE /\ halted' = TRUE
    /\ Goto(r, "undo network")
    /\ UNCHANGED <<bsm, csm, npm, late, requests>>

RefreshPolicyFails(r) ==
    /\ At(r, "refresh")
    /\ CommitFails(r)
    /\ pool' = FALSE /\ bridge' = FALSE
    /\ Goto(r, "undo network")
    /\ UNCHANGED <<bsm, csm, ghosts, requests>>

\* Its error is dropped.
CommitNetworkUndone(r) ==
    /\ At(r, "undo network")
    /\ (Commits(r) /\ UNCHANGED faults) \/ CommitFails(r)
    /\ Goto(r, "undo bottle")
    /\ UNCHANGED <<bsm, csm, pool, bridge, ghosts, requests>>

\* The record cannot be gone: Delete stops at a service without container.
UpdateBottleNetwork(r) ==
    /\ At(r, "record network") /\ bsm # None
    /\ bsm' = [bsm EXCEPT !.network = TRUE]
    /\ proc' = [proc EXCEPT ![r].step = "containers", ![r].info.network = TRUE]
    /\ UNCHANGED <<world, ghosts, bounds>>

UpdateBottleNetworkFails(r) ==
    /\ At(r, "record network")
    /\ Fault
    /\ Goto(r, "net check")
    /\ UNCHANGED <<bsm, world, ghosts, requests>>

\* The container of the next service, with the addresses of its dependencies
\* in its environment.
CreateContainer(r) ==
    /\ At(r, "containers") /\ proc[r].todo # <<>>
    /\ LET s == Head(proc[r].todo) IN
       /\ csm' = [csm EXCEPT ![s] = "created"]
       /\ proc' = [proc EXCEPT ![r].step = "record", ![r].made = Append(@, s)]
    /\ UNCHANGED <<bsm, pool, bridge, npm, ghosts, bounds>>

\* resolveEnvWithDeps or the creation of the container fails.
CreateContainerFails(r) ==
    /\ At(r, "containers") /\ proc[r].todo # <<>>
    /\ Fault
    /\ Goto(r, "undo containers")
    /\ UNCHANGED <<bsm, world, ghosts, requests>>

UpdateBottleContainer(r) ==
    /\ At(r, "record") /\ bsm # None
    /\ bsm' = [bsm EXCEPT !.containers = @ \cup {Head(proc[r].todo)}]
    /\ proc' = [proc EXCEPT ![r].step = "containers", ![r].todo = Tail(@)]
    /\ UNCHANGED <<world, ghosts, bounds>>

UpdateBottleContainerFails(r) ==
    /\ At(r, "record")
    /\ Fault
    /\ Goto(r, "undo containers")
    /\ UNCHANGED <<bsm, world, ghosts, requests>>

Registered(r) ==
    /\ At(r, "containers") /\ proc[r].todo = <<>>
    /\ End(r)
    /\ UNCHANGED <<bsm, world, ghosts, bounds>>

\* rollbackCreatedContainers: in reverse order, errors ignored.
UndoContainer(r) ==
    /\ At(r, "undo containers") /\ proc[r].made # <<>>
    /\ LET s == Last(proc[r].made) IN
       \/ Delete_(s) /\ UNCHANGED halted
       \/ DeleteRefused(s) /\ halted' = TRUE /\ UNCHANGED csm
    /\ proc' = [proc EXCEPT ![r].made = Front(@)]
    /\ UNCHANGED <<bsm, pool, bridge, npm, late, bounds>>

\* The record gets the request's copy of the containers back, which was empty.
UpdateBottleContainers(r) ==
    /\ At(r, "undo containers") /\ proc[r].made = <<>>
    /\ bsm' = IF bsm = None THEN None ELSE [bsm EXCEPT !.containers = {}]
    /\ Goto(r, IF proc[r].info.network THEN "net check" ELSE "undo bottle")
    /\ UNCHANGED <<world, ghosts, bounds>>

\* RegisterBottle after a failed Create: the record, then the policies.
RemoveFailedBottle(r) ==
    /\ At(r, "undo bottle")
    /\ bsm' = None
    /\ proc' = [proc EXCEPT ![r].step = "undo policies", ![r].todo = Policies]
    /\ UNCHANGED <<world, ghosts, bounds>>

\* rollbackPolicies: those that were added are flagged one by one, and a commit
\* removes them.
FlagPolicy(r) ==
    /\ At(r, "undo policies") /\ proc[r].todo # <<>>
    /\ LET p == Head(proc[r].todo) IN
       npm' = [npm EXCEPT ![p] = IF @ = "none" THEN @ ELSE "remove_next_commit"]
    /\ proc' = [proc EXCEPT ![r].todo = Tail(@)]
    /\ UNCHANGED <<bsm, csm, pool, bridge, ghosts, bounds>>

rollbackPolicies(r) ==
    /\ At(r, "undo policies") /\ proc[r].todo = <<>>
    /\ Commits(r)
    /\ End(r)
    /\ UNCHANGED <<bsm, csm, pool, bridge, ghosts, bounds>>

\* An error of the commit is ignored: they stay flagged until the next one.
rollbackPoliciesFails(r) ==
    /\ At(r, "undo policies") /\ proc[r].todo = <<>>
    /\ CommitFails(r)
    /\ End(r)
    /\ halted' = TRUE
    /\ UNCHANGED <<bsm, csm, pool, bridge, late, requests>>

-----------------------------------------------------------------------------
\* RemoveNetwork, called by Delete and by the rollback of Create, which goes
\* on after an error where Delete returns it.
NetworkStays(r) ==
    /\ halted' = TRUE
    /\ IF proc[r].kind = "delete" THEN End(r) ELSE Goto(r, "clear network")

\* Slip: the containers on the network are not counted.
CheckNetworkSkipped(r) ==
    /\ At(r, "net check")
    /\ Goto(r, "net interface")
    /\ UNCHANGED <<bsm, world, ghosts, bounds>>

\* The count is taken here, the interface and the pool go in later steps.
CheckNetworkEmpty(r) ==
    /\ At(r, "net check")
    /\ \/ /\ NumContainers = 0
          /\ Goto(r, "net interface")
          /\ UNCHANGED halted
       \/ /\ NumContainers # 0
          /\ NetworkStays(r)
    /\ UNCHANGED <<bsm, world, late, bounds>>

RemoveBridgeInterface(r) ==
    /\ At(r, "net interface") /\ bridge
    /\ bridge' = FALSE
    /\ Goto(r, "net pool")
    /\ UNCHANGED <<bsm, csm, pool, npm, ghosts, bounds>>

RemoveBridge(r) ==
    /\ At(r, "net pool") /\ pool
    /\ pool' = FALSE
    /\ Goto(r, "net refresh")
    /\ UNCHANGED <<bsm, csm, bridge, npm, ghosts, bounds>>

RefreshAfterRemove(r) ==
    /\ At(r, "net refresh")
    /\ Commits(r)
    /\ Goto(r, IF proc[r].kind = "delete" THEN "remove bottle" ELSE "clear network")
    /\ UNCHANGED <<bsm, csm, pool, bridge, ghosts, bounds>>

RemoveNetworkFails(r) ==
    /\ proc[r].step \in {"net interface", "net pool"}
    /\ Fault
    /\ NetworkStays(r)
    /\ UNCHANGED <<bsm, world, late, requests>>

\* The network is gone and the commit fails.
RefreshAfterRemoveFails(r) ==
    /\ At(r, "net refresh")
    /\ CommitFails(r)
    /\ NetworkStays(r)
    /\ UNCHANGED <<bsm, csm, pool, bridge, late, requests>>

ClearBottleNetwork(r) ==
    /\ At(r, "clear network")
    /\ bsm' = IF bsm = None THEN None ELSE [bsm EXCEPT !.network = FALSE]
    /\ Goto(r, "undo bottle")
    /\ UNCHANGED <<world, ghosts, bounds>>

-----------------------------------------------------------------------------
\* Start, in order.  A container that runs already is an error.
Start(r) ==
    /\ bsm # None
    /\ Begin(r, "start", "starting", bsm, bsm.order)
    /\ UNCHANGED <<bsm, world, ghosts, faults>>

StartContainer(r) ==
    /\ At(r, "starting") /\ proc[r].todo # <<>>
    /\ LET s == Head(proc[r].todo) IN
       \/ /\ s \in proc[r].info.containers
          /\ Start_(s)
          /\ proc' = [proc EXCEPT ![r].todo = Tail(@)]
       \/ /\ s \notin proc[r].info.containers \/ StartRefused(s)
          /\ End(r)
          /\ UNCHANGED csm
    /\ UNCHANGED <<bsm, pool, bridge, npm, ghosts, bounds>>

\* Stop, in reverse; what does not run is passed over, what is gone an error.
Stop(r) ==
    /\ bsm # None
    /\ Begin(r, "stop", "stopping", bsm, Reverse(bsm.order))
    /\ UNCHANGED <<bsm, world, ghosts, faults>>

StopContainer(r) ==
    /\ At(r, "stopping") /\ proc[r].todo # <<>>
    /\ LET s == Head(proc[r].todo) IN
       \/ /\ s \in proc[r].info.containers /\ csm[s] # "none"
          /\ csm' = [csm EXCEPT ![s] = IF @ = "running" THEN "stopped" ELSE @]
          /\ proc' = [proc EXCEPT ![r].todo = Tail(@)]
       \/ /\ s \notin proc[r].info.containers \/ csm[s] = "none"
          /\ End(r)
          /\ UNCHANGED csm
    /\ UNCHANGED <<bsm, pool, bridge, npm, ghosts, bounds>>

AllDone(r) ==
    /\ proc[r].step \in {"starting", "stopping"} /\ proc[r].todo = <<>>
    /\ End(r)
    /\ UNCHANGED <<bsm, world, ghosts, bounds>>

\* Delete, in reverse: each container is stopped if it runs, then deleted.
Delete(r) ==
    /\ bsm # None
    /\ Begin(r, "delete", "stop one", bsm, Reverse(bsm.order))
    /\ UNCHANGED <<bsm, world, ghosts, faults>>

StopToDelete(r) ==
    /\ At(r, "stop one") /\ proc[r].todo # <<>>
    /\ LET s == Head(proc[r].todo) IN
       \/ /\ s \in proc[r].info.containers /\ csm[s] # "none"
          /\ csm' = [csm EXCEPT ![s] = IF @ = "running" THEN "stopped" ELSE @]
          /\ Goto(r, "delete one")
       \/ /\ s \notin proc[r].info.containers \/ csm[s] = "none"
          /\ End(r)
          /\ UNCHANGED csm
    /\ UNCHANGED <<bsm, pool, bridge, npm, ghosts, bounds>>

DeleteContainer(r) ==
    /\ At(r, "delete one")
    /\ LET s == Head(proc[r].todo) IN
       \/ /\ Delete_(s)
          /\ proc' = [proc EXCEPT ![r].step = "stop one", ![r].todo = Tail(@)]
       \/ /\ DeleteRefused(s)
          /\ End(r)
          /\ UNCHANGED csm
    /\ UNCHANGED <<bsm, pool, bridge, npm, ghosts, bounds>>

\* The runtime fails to start, stop or delete a container.
ContainerFails(r) ==
    /\ proc[r].step \in {"starting", "stopping", "stop one", "delete one"}
    /\ proc[r].todo # <<>>
    /\ Fault
    /\ End(r)
    /\ UNCHANGED <<bsm, world, ghosts, requests>>

ContainersDeleted(r) ==
    /\ At(r, "stop one") /\ proc[r].todo = <<>>
    /\ proc' = [proc EXCEPT ![r].step = "remove policies", ![r].todo = Policies]
    /\ UNCHANGED <<bsm, world, ghosts, bounds>>

\* removeBottlePolicies: flag one and commit; one that is gone is an error.
RemoveUserPolicy(r) ==
    /\ At(r, "remove policies") /\ proc[r].todo # <<>>
    /\ LET p == Head(proc[r].todo) IN
       \/ /\ npm[p] # "none"
          /\ npm' = [npm EXCEPT ![p] = "remove_next_commit"]
          /\ Goto(r, "drop policy")
       \/ /\ npm[p] = "none"
          /\ End(r)
          /\ UNCHANGED npm
    /\ UNCHANGED <<bsm, csm, pool, bridge, ghosts, bounds>>

CommitRemoval(r) ==
    /\ At(r, "drop policy")
    /\ Commits(r)
    /\ proc' = [proc EXCEPT ![r].step = "remove policies", ![r].todo = Tail(@)]
    /\ UNCHANGED <<bsm, csm, pool, bridge, ghosts, bounds>>

\* The commit fails: the bottle stays, and the policy may stay flagged.
CommitRemovalFails(r) ==
    /\ At(r, "drop policy")
    /\ CommitFails(r)
    /\ End(r)
    /\ UNCHANGED <<bsm, csm, pool, bridge, ghosts, requests>>

PoliciesRemoved(r) ==
    /\ At(r, "remove policies") /\ proc[r].todo = <<>>
    /\ Goto(r, IF proc[r].info.network THEN "net check" ELSE "remove bottle")
    /\ UNCHANGED <<bsm, world, ghosts, bounds>>

RemoveBottle(r) ==
    /\ At(r, "remove bottle")
    /\ bsm' = None
    /\ End(r)
    /\ UNCHANGED <<world, ghosts, bounds>>

-----------------------------------------------------------------------------
\* Other clients: a container on the network of the bottle comes and goes, a
\* policy of the bottle is removed through the policy API.
GuestContainer ==
    /\ requests \in 1..(MaxRequests - 1)
    /\ requests' = requests + 1
    /\ \/ csm[Guest] = "none" /\ pool /\ csm' = [csm EXCEPT ![Guest] = "created"]
       \/ csm[Guest] # "none" /\ csm' = [csm EXCEPT ![Guest] = "none"]
    /\ late' = (late \/ \E r \in Procs : proc[r].step \in
                   {"interface", "refresh", "net interface", "net pool"})
    /\ UNCHANGED <<bsm, pool, bridge, npm, proc, halted, faults>>

UserRemovesPolicy ==
    /\ requests \in 1..(MaxRequests - 1)
    /\ requests' = requests + 1
    /\ \E p \in DOMAIN npm :
          npm[p] # "none" /\ npm' = [npm EXCEPT ![p] = "remove_next_commit"]
    /\ UNCHANGED <<bsm, csm, pool, bridge, proc, ghosts, faults>>

\* A commit of another request or of a container hook writes for one policy.
\* Such commits are under way at any time, so one of them may have listed the
\* policy before it was flagged, or when it was.
OtherCommit ==
    /\ \E p \in DOMAIN npm :
          \/ /\ npm[p] = "remove_next_commit" \/ (npm[p] # "none" /\ p \in stale)
             /\ npm' = [npm EXCEPT ![p] = "none"]
             /\ UNCHANGED stale
          \/ /\ npm[p] = "remove_next_commit"
             /\ npm' = [npm EXCEPT ![p] = "stored"]
             /\ stale' = stale \cup {p}
    /\ UNCHANGED <<bsm, csm, pool, bridge, proc, listed, ghosts, bounds>>

Init ==
    /\ bsm = None
    /\ csm = [c \in Containers |-> "none"]
    /\ pool = FALSE /\ bridge = FALSE
    /\ npm = [p \in ToSet(Policies) |-> "none"]
    /\ proc = [r \in Procs |-> Idle]
    /\ listed = [r \in Procs |-> None] /\ stale = {}
    /\ halted = FALSE /\ late = FALSE
    /\ requests = 0 /\ faults = 0

Request(r) ==
    \/ /\ requests = 0
       /\ \E deps \in Deps : RegisterBottle(r, deps)
    \/ Start(r) \/ Stop(r) \/ Delete(r)

RegisterStep(r) ==
    \/ BuildStartOrder(r) \/ OrderBuilt(r) \/ Refuse(r)
    \/ AddUserPolicy(r) \/ AddUserPolicyFails(r)
    \/ StoreBottle(r) \/ StoreBottleFails(r)

CreateStep(r) ==
    \/ OwnNetworks(r) \/ StoreBridge(r) \/ CreateBridgeInterface(r)
    \/ CreateBridgeInterfaceFails(r) \/ CreateNewNetworkFails(r)
    \/ UpdateBottleNetwork(r) \/ UpdateBottleNetworkFails(r)
    \/ CreateContainer(r) \/ CreateContainerFails(r)
    \/ UpdateBottleContainer(r) \/ UpdateBottleContainerFails(r) \/ Registered(r)
    \/ UndoContainer(r) \/ UpdateBottleContainers(r) \/ ClearBottleNetwork(r)
    \/ RemoveFailedBottle(r) \/ FlagPolicy(r)

ActionStep(r) ==
    \/ StartContainer(r) \/ StopContainer(r) \/ AllDone(r)
    \/ StopToDelete(r) \/ DeleteContainer(r) \/ ContainerFails(r)
    \/ ContainersDeleted(r) \/ RemoveUserPolicy(r) \/ PoliciesRemoved(r)
    \/ CheckNetworkEmpty(r) \/ RemoveBridgeInterface(r) \/ RemoveBridge(r)
    \/ RemoveNetworkFails(r) \/ RemoveBottle(r)

\* The steps that write what a commit has listed.
CommitStep(r) ==
    \/ CommitPolicies(r) \/ CommitPoliciesFails(r)
    \/ RefreshPolicy(r) \/ RefreshPolicyFails(r) \/ CommitNetworkUndone(r)
    \/ rollbackPolicies(r) \/ rollbackPoliciesFails(r)
    \/ CommitRemoval(r) \/ CommitRemovalFails(r)
    \/ RefreshAfterRemove(r) \/ RefreshAfterRemoveFails(r)

\* There is one registration; without its bottle there is nothing to do.
Done ==
    /\ Busy = {} /\ requests > 0
    /\ bsm = None \/ requests = MaxRequests
    /\ UNCHANGED vars

Next ==
    \/ Done
    \/ /\ \/ \E r \in Procs : Request(r) \/ RegisterStep(r) \/ CreateStep(r) \/ ActionStep(r)
          \/ GuestContainer \/ UserRemovesPolicy
       /\ UNCHANGED commits
    \/ \E r \in Procs : ListPolicies(r) \/ CommitStep(r)
    \/ OtherCommit

Spec == Init /\ [][Next]_vars
-----------------------------------------------------------------------------
PolicySteps == {"policies", "undo policies", "remove policies", "drop policy"}

Steps == {"idle", "order", "invalid", "store", "network", "interface", "refresh", "record network",
          "containers", "record", "undo containers", "undo network", "undo bottle", "net check",
          "net interface", "net pool", "net refresh", "clear network", "starting", "stopping",
          "stop one", "delete one", "remove bottle"} \cup PolicySteps

Handler == [kind : {"none", "register", "start", "stop", "delete"}, step : Steps, info : Bottles \cup {None},
            todo : Seq(Services) \cup Seq(ToSet(Policies)), made : Seq(Services), order : Seq(Services), deps : Deps]

\* The record lists services of the bottle, containers and policies have the
\* states of their stores, and a request goes over policies at the steps for
\* them and over services at all others; only a commit has policies listed.
TypeOK ==
    /\ bsm \in Bottles \cup {None}
    /\ csm \in [Containers -> {"none", "created", "running", "stopped"}]
    /\ pool \in BOOLEAN /\ bridge \in BOOLEAN
    /\ npm \in [ToSet(Policies) -> Status]
    /\ proc \in [Procs -> Handler]
    /\ \A r \in Procs :
          proc[r].todo \in IF proc[r].step \in PolicySteps THEN Seq(ToSet(Policies)) ELSE Seq(Services)
    /\ listed \in [Procs -> [ToSet(Policies) -> Status] \cup {None}]
    /\ \A r \in Procs : listed[r] # None => Committing(r)
    /\ stale \subseteq ToSet(Policies)
    /\ halted \in BOOLEAN /\ late \in BOOLEAN
    /\ requests \in 0..MaxRequests /\ faults \in 0..MaxFaults

Cyclic(deps) == \E S \in SUBSET Services : S # {} /\ \A s \in S : deps[s] \cap S # {}

Topological(order, deps) ==
    /\ Len(order) = Cardinality(Services) /\ ToSet(order) = Services
    /\ \A i \in DOMAIN order : deps[order[i]] \subseteq ToSet(SubSeq(order, 1, i - 1))

\* BuildStartOrder: the order of a bottle that is accepted has every service
\* once and after its dependencies, so that resolveEnvWithDeps finds their
\* containers; a bottle is refused only for an unknown name or a cycle.
StartOrderSound ==
    /\ bsm # None => Topological(bsm.order, bsm.deps)
    /\ \A r \in Procs :
          At(r, "invalid") =>
              Cyclic(proc[r].deps) \/ \E s \in Services : Unknown \in proc[r].deps[s]
    /\ \A r \in Procs :
          At(r, "containers") /\ proc[r].todo # <<>> =>
              \A d \in proc[r].deps[Head(proc[r].todo)] : csm[d] # "none"

\* RegisterBottle and Delete: when the record of a bottle is gone, after a
\* failure at any step of the registration or after a deletion, so are its
\* containers, its network and its policies, unless a step of the clean-up
\* itself was refused or failed, or the failure was one of the two that no
\* rollback covers: the commit of the policies in applyPolicies, and an
\* interface that CreateBridgeInterface made but could not configure.  A policy
\* may also outlive its bottle with no call failing, when a commit that listed
\* it before it was flagged wrote its status over the flag, or one that found
\* another policy gone passed it over.
NothingLeftBehind ==
    bsm = None /\ Busy = {} /\ ~halted =>
        /\ \A s \in Services : csm[s] = "none"
        /\ ~bridge /\ ~pool
        /\ \A p \in DOMAIN npm : npm[p] = "none" \/ p \in stale

\* RemoveNetwork ("contains existing container"): a container of another
\* client keeps its network, unless it came after the containers were counted
\* or while the network was still being made.
NetworkKept == csm[Guest] # "none" /\ ~late => pool

=============================================================================
