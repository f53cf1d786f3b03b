--------------------------- MODULE ContainerProofs ---------------------------
(***************************************************************************)
(* Proofs about the life of a container, for any number of containers,     *)
(* names, networks and ports, and any number of faults and crashes.        *)
(***************************************************************************)
EXTENDS Container, IpamProofs

\* The steps of Create before its address, before the flag of the address is
\* set, before the runtime is called, and once the address is allocated; the
\* steps that follow UndoAddress.
NotAllocated == {"new", "image", "address"}
NotFlagged == NotAllocated \cup {"gateway"}
NotRun == NotFlagged \cup {"entry", "directory", "cgroup", "spec", "ports",
                             "record", "runtime"}
HasCgroup == {"spec", "ports", "record", "runtime", "hook", "done"}
HasDir == HasCgroup \cup {"cgroup"}
Stored == HasDir \cup {"directory"}
EntryUndone == {"undo directory", "undo cgroup", "undo rules", "failed"}
AddressUndone == EntryUndone \cup {"undo entry"}

\* The runtime has deleted the container and Delete is cleaning up.
Cleaning(c) == delete[c] \in {"rules", "address", "directory", "cgroup"}

\* Create put the container into the csm and nobody has taken it out again.
Established(c) == create[c].step \in Stored /\ Known(c)

\* Delete has taken the container out after Create had finished, undisturbed.
Deleted(c) == create[c].step = "done" /\ ~Known(c) /\ c \notin suspect

\* How far Create, the csm, the runtime and Delete are with one container.
Progress(c) ==
    /\ create[c].step \in NotFlagged => create[c].flags = {}
    /\ create[c].step = "entry" => create[c].flags = {"address"}
    /\ Known(c) => Flagged(c, "entry")
    /\ create[c].step \in EntryUndone => ~Known(c)
    /\ droplet[c] # "none" => create[c].step \notin NotRun
    /\ Cleaning(c) => /\ ~Known(c) /\ droplet[c] = "none"
                      /\ create[c].step \notin NotRun
    /\ delete[c] = "runtime" => Known(c) \/ create[c].step \in EntryUndone
    /\ (create[c].step \in {"hook", "done"} /\ droplet[c] # "none") => Known(c)

\* Who has a directory and a cgroup.
Files(c) ==
    /\ (Known(c) /\ create[c].step \in HasDir) => c \in dirs
    /\ (Known(c) /\ create[c].step \in HasCgroup) => c \in cgroups
    /\ Deleted(c) => /\ delete[c] \in {"cgroup", "none"} => c \notin dirs
                     /\ delete[c] = "none" => c \notin cgroups

HeldOnce(c) == \A p, q \in pools, h, k \in Host :
                  Holds(c, p, h) /\ Holds(c, q, k) => p = q /\ h = k

\* Who has an address.  Release drops one of a container's addresses, so it is
\* essential that there is only one.
Addressed(c) ==
    /\ create[c].step \in NotAllocated => ~HasAddress(c)
    /\ HasAddress(c) => \/ Flagged(c, "address") \/ c \in suspect
                        \/ create[c].step = "gateway"
    /\ (create[c].step \in AddressUndone /\ c \notin suspect) => ~HasAddress(c)
    /\ create[c].step \in {"gateway", "entry"} \/ Established(c) => HasAddress(c)
    /\ (Deleted(c) /\ delete[c] \in {"directory", "cgroup", "none"}) => ~HasAddress(c)
    /\ HeldOnce(c)

\* Which rules are installed: those of the recorded ports, and between the two
\* halves of setupForwardRule that of the port in hand.
Forwarded(c) ==
    /\ create[c].step \in {"gateway", "entry"} \/ Established(c) =>
           \A k \in Published(c) : rules[k] > 0
    /\ (create[c].step = "record" /\ Known(c)) =>
           \A p \in pools, h \in Host :
               Holds(c, p, h) => rules[<<Address(p, h), create[c].port>>] > 0

ContainerInv ==
    /\ TypeOK /\ IpamInv
    /\ \A c \in Containers : Progress(c) /\ Files(c) /\ Addressed(c) /\ Forwarded(c)

-----------------------------------------------------------------------------
\* What the assignments of the actions do to the records they change.

Flags == {"address", "entry", "directory", "cgroup", "rules"}

\* The request of c moves to step s; its other fields, and the other requests,
\* are as before.
Moves(c, s) ==
    /\ create' \in [Containers -> Request]
    /\ \A d \in Containers \ {c} : create'[d] = create[d]
    /\ create'[c].step = s

SameNames(c) == /\ create'[c].name = create[c].name
                /\ create'[c].network = create[c].network

LEMMA GotoEffect ==
    ASSUME create \in [Containers -> Request], NEW c \in Containers, NEW s \in Steps,
           Goto(c, s)
    PROVE  /\ Moves(c, s) /\ SameNames(c)
           /\ create'[c].flags = create[c].flags
           /\ create'[c].port = create[c].port
  <1> DEFINE q == [create[c] EXCEPT !.step = s]
  <1>1. create[c] \in Request
    OBVIOUS
  <1>2. create' = [create EXCEPT ![c] = q]
    BY DEF Goto
  <1>3. /\ q \in Request /\ q.step = s /\ q.name = create[c].name
        /\ q.network = create[c].network
        /\ q.port = create[c].port /\ q.flags = create[c].flags
    BY <1>1 DEF Request, Flags
  <1> HIDE DEF q
  <1> QED
    BY <1>2, <1>3 DEF Moves, SameNames

LEMMA GotoWithFlagEffect ==
    ASSUME create \in [Containers -> Request], NEW c \in Containers, NEW s \in Steps,
           NEW f \in Flags, GotoWithFlag(c, s, f)
    PROVE  /\ Moves(c, s) /\ SameNames(c)
           /\ create'[c].flags = create[c].flags \cup {f}
           /\ create'[c].port = create[c].port
  <1> DEFINE q == [create[c] EXCEPT !.step = s, !.flags = @ \cup {f}]
  <1>1. create[c] \in Request
    OBVIOUS
  <1>2. create' = [create EXCEPT ![c] = q]
    BY DEF GotoWithFlag
  <1>3. /\ q \in Request /\ q.step = s /\ q.name = create[c].name
        /\ q.network = create[c].network
        /\ q.port = create[c].port /\ q.flags = create[c].flags \cup {f}
    BY <1>1 DEF Request, Flags
  <1> HIDE DEF q
  <1> QED
    BY <1>2, <1>3 DEF Moves, SameNames

LEMMA CreateRequestEffect ==
    ASSUME create \in [Containers -> Request], NEW c \in Containers,
           NEW n \in Names, NEW b \in Bridges, NEW ports \in SUBSET ForwardInfos,
           CreateRequest(c, n, b, ports)
    PROVE  /\ Moves(c, "image") /\ create'[c].name = n /\ create'[c].network = b
           /\ create'[c].flags = create[c].flags
  <1> DEFINE q == [create[c] EXCEPT !.step = "image", !.name = n, !.network = b,
                                    !.ports = ports]
  <1>1. create[c] \in Request
    OBVIOUS
  <1>2. create' = [create EXCEPT ![c] = q]
    BY DEF CreateRequest
  <1>3. /\ q \in Request /\ q.step = "image" /\ q.name = n /\ q.network = b
        /\ q.flags = create[c].flags
    BY <1>1 DEF Request, Steps
  <1> HIDE DEF q
  <1> QED
    BY <1>2, <1>3 DEF Moves

LEMMA SetupRuleEffect ==
    ASSUME create \in [Containers -> Request], NEW c \in Containers,
           NEW f \in ForwardInfos, SetupRule(c, f)
    PROVE  /\ Moves(c, "record") /\ SameNames(c) /\ create'[c].port = f
           /\ create'[c].flags = create[c].flags
  <1> DEFINE q == [create[c] EXCEPT !.step = "record", !.port = f]
  <1>1. create[c] \in Request
    OBVIOUS
  <1>2. create' = [create EXCEPT ![c] = q]
    BY DEF SetupRule
  <1>3. /\ q \in Request /\ q.step = "record" /\ q.name = create[c].name
        /\ q.network = create[c].network /\ q.port = f /\ q.flags = create[c].flags
    BY <1>1 DEF Request, Steps
  <1> HIDE DEF q
  <1> QED
    BY <1>2, <1>3 DEF Moves, SameNames

LEMMA RecordPortEffect ==
    ASSUME create \in [Containers -> Request], NEW c \in Containers, RecordPort(c)
    PROVE  /\ Moves(c, "ports") /\ SameNames(c)
           /\ create'[c].flags = create[c].flags
  <1> DEFINE q == [create[c] EXCEPT !.step = "ports", !.ports = @ \ {create[c].port}]
  <1>1. create[c] \in Request
    OBVIOUS
  <1>2. create' = [create EXCEPT ![c] = q]
    BY DEF RecordPort
  <1>3. /\ q \in Request /\ q.step = "ports" /\ q.name = create[c].name
        /\ q.network = create[c].network /\ q.flags = create[c].flags
    BY <1>1 DEF Request, Steps
  <1> HIDE DEF q
  <1> QED
    BY <1>2, <1>3 DEF Moves, SameNames

CsmOK == csm \in [Containers -> Entry \cup {NoEntry}]

\* Only the entry of c may change.
OthersKept(c) == \A d \in Containers \ {c} : csm'[d] = csm[d]

\* Recording a state neither makes an entry nor takes one away.
LEMMA UpdateContainerEffect ==
    ASSUME CsmOK, NEW c \in Containers,
           NEW s \in {"creating", "created", "running", "stopped"},
           UpdateContainer(c, s)
    PROVE  CsmOK' /\ OthersKept(c) /\ Known(c)' = Known(c)
  <1>1. Known(c) => [csm[c] EXCEPT !.State = s] \in Entry
    BY DEF Known, Entry, CsmOK
  <1>2. NoEntry \notin Entry
    BY ContainerAssumption
  <1>3. CASE Known(c)
    <2>1. csm' = [csm EXCEPT ![c] = [csm[c] EXCEPT !.State = s]]
      BY <1>3 DEF UpdateContainer
    <2> QED
      BY <1>1, <1>2, <1>3, <2>1 DEF CsmOK, OthersKept, Known
  <1>4. CASE ~Known(c)
    BY <1>4 DEF UpdateContainer, CsmOK, OthersKept, Known
  <1> QED
    BY <1>3, <1>4

LEMMA RemoveContainerEffect ==
    ASSUME CsmOK, NEW c \in Containers, RemoveContainer(c)
    PROVE  CsmOK' /\ OthersKept(c) /\ ~Known(c)'
  BY DEF RemoveContainer, CsmOK, OthersKept, Known

LEMMA StoreContainerEffect ==
    ASSUME CsmOK, NEW c \in Containers, StoreContainer(c), create[c].name \in Names
    PROVE  CsmOK' /\ OthersKept(c)
  <1>1. [State |-> "creating", Name |-> create[c].name] \in Entry
    BY DEF Entry
  <1> QED
    BY <1>1 DEF StoreContainer, CsmOK, OthersKept

-----------------------------------------------------------------------------
\* Type correctness.

\* Every address of a pool is an address of the rule table.
LEMMA AddressInRange ==
    ASSUME IpamTypeOK, NEW p \in pools, NEW h \in Host, NEW f \in ForwardInfos
    PROVE  <<Address(p, h), f>> \in Rules
  <1>1. p.Subnet \in 0..(NumSubnets - 1) /\ h \in 0..(SubnetSize - 1)
    BY DEF IpamTypeOK, Pool, Subnets, Host
  <1>2. SubnetSize \in Nat /\ NumSubnets \in Nat
    BY IpamAssumption
  <1>3. p.Subnet * SubnetSize \in Nat
    BY <1>1, <1>2
  <1>4. PICK d \in Nat : NumSubnets = p.Subnet + 1 + d
    <2>1. NumSubnets - p.Subnet - 1 \in Nat
      BY <1>1, <1>2
    <2> QED
      BY <1>1, <1>2, <2>1
  <1>5. NumSubnets * SubnetSize = p.Subnet * SubnetSize + SubnetSize + d * SubnetSize
    BY <1>1, <1>2, <1>4
  <1>6. d * SubnetSize \in Nat /\ NumSubnets * SubnetSize \in Nat
    BY <1>2
  <1>7. p.Subnet * SubnetSize + h \in 0..(NumSubnets * SubnetSize - 1)
    BY <1>1, <1>2, <1>3, <1>5, <1>6
  <1> QED
    BY <1>7 DEF Rules, Address

\* A rule more, and a rule less where there is one, leave a table of counters.
LEMMA RulesType ==
    ASSUME rules \in [Rules -> Nat]
    PROVE  /\ \A k \in Rules : AddRule(k) => rules' \in [Rules -> Nat]
           /\ \A c : cleanupForwardRules(c) => rules' \in [Rules -> Nat]
  BY DEF AddRule, cleanupForwardRules, deleteForwardRules

\* The parts of TypeOK that more than one action changes.
RequestsOK ==
    /\ create \in [Containers -> Request]
    /\ \A c \in Containers : ~At(c, "new") => /\ create[c].name \in Names
                                             /\ create[c].network \in Bridges
    /\ \A c \in Containers : At(c, "record") => create[c].port \in ForwardInfos

Rest ==
    /\ dirs \subseteq Containers /\ cgroups \subseteq Containers
    /\ ghosts \subseteq Containers /\ suspect \subseteq Containers
    /\ rules \in [Rules -> Nat]
    /\ droplet \in [Containers ->
           {"none", "creating", "created", "running", "stopped"}]
    /\ start \in [Containers -> {"none", "recreate", "run"}]
    /\ delete \in [Containers -> {"none", "runtime", "rules", "address",
                                  "directory", "cgroup"}]
    /\ faults \in 0..MaxFaults /\ crashes \in 0..MaxCrashes

LEMMA TypeParts == TypeOK <=> IpamTypeOK /\ CsmOK /\ RequestsOK /\ Rest
  BY DEF TypeOK, CsmOK, RequestsOK, Rest

-----------------------------------------------------------------------------
\* The steps that touch each of the stores.

LEMMA PoolSteps ==
    ASSUME NEW c \in Containers, CreateStep(c) \/ RunStep(c) \/ DeleteStep(c)
    PROVE  \/ UNCHANGED pools
           \/ allocateAddress(c) \/ RecordPort(c) \/ UndoAddress(c) \/ releaseAddress(c)
  BY DEF CreateStep, RunStep, DeleteStep, stores, CreateRequest, PrepareImage, GetBridgeAddr,
         GetBridgeAddrFails,
         StoreContainer, setupContainerDirectory, setupCgroupSubtree,
         createContainerSpec, SetupRule, PortsPublished, RuntimeCreate, RuntimeCreated,
         RuntimeCreateFails, CreateFault, UndoEntry, UndoDirectory, UndoCgroup,
         UndoRules, UndoFault, StartRequest, RuntimeRecreate, RuntimeStart, Stop,
         ProcessExits, MonitorDown, Refresh, DeleteRequest, RuntimeDelete, DeleteRules,
         deleteContainerDirectory, deleteCgroupSubtree, DeleteFault

LEMMA CsmSteps ==
    ASSUME NEW c \in Containers, CreateStep(c) \/ RunStep(c) \/ DeleteStep(c)
    PROVE  \/ UNCHANGED csm
           \/ StoreContainer(c)
           \/ RemoveContainer(c) /\ (UndoEntry(c) \/ RuntimeDelete(c))
           \/ \E s \in {"creating", "created", "running", "stopped"} :
                  UpdateContainer(c, s)
  BY DEF CreateStep, RunStep, DeleteStep, stores, CreateRequest, PrepareImage, GetBridgeAddr,
         GetBridgeAddrFails,
         allocateAddress, setupContainerDirectory, setupCgroupSubtree,
         createContainerSpec, SetupRule, RecordPort, PortsPublished, RuntimeCreate,
         RuntimeCreated, RuntimeCreateFails, CreateFault, UndoAddress, UndoEntry,
         UndoDirectory, UndoCgroup, UndoRules, UndoFault, StartRequest,
         RuntimeRecreate, RuntimeStart, Stop, ProcessExits, MonitorDown, Refresh,
         DeleteRequest, RuntimeDelete, DeleteRules, releaseAddress,
         deleteContainerDirectory, deleteCgroupSubtree, DeleteFault

\* The address manager keeps its own invariant.
LEMMA IpamStep ==
    ASSUME TypeOK, IpamInv, NEW c \in Containers,
           CreateStep(c) \/ RunStep(c) \/ DeleteStep(c)
    PROVE  IpamInv'
  <1>1. CASE UNCHANGED pools
    BY <1>1 DEF IpamInv, IpamTypeOK, BridgesUnique, SubnetsDisjoint, ReservedFree,
                IsAllocated
  <1>2. CASE allocateAddress(c)
    <2>1. create[c].network \in Bridges
      BY <1>2 DEF TypeOK, allocateAddress, At
    <2> QED
      BY <1>1, <1>2, <2>1, AllocateInv DEF allocateAddress, AllocateFails
  <1>3. CASE RecordPort(c)
    <2>1. create[c].port \in ForwardInfos
      BY <1>3 DEF TypeOK, RecordPort, At
    <2> QED
      BY <1>3, <2>1, SetForwardInfoInv DEF RecordPort
  <1>4. CASE UndoAddress(c)
    BY <1>1, <1>4, ReleaseInv DEF UndoAddress
  <1>5. CASE releaseAddress(c)
    BY <1>5, ReleaseInv DEF releaseAddress
  <1> QED
    BY <1>1, <1>2, <1>3, <1>4, <1>5, PoolSteps

LEMMA CsmStep ==
    ASSUME TypeOK, NEW c \in Containers,
           CreateStep(c) \/ RunStep(c) \/ DeleteStep(c)
    PROVE  CsmOK'
  <1>1. CsmOK
    BY TypeParts
  <1>2. CASE StoreContainer(c)
    <2>1. create[c].name \in Names
      BY <1>2 DEF TypeOK, StoreContainer, At
    <2> QED
      BY <1>1, <1>2, <2>1, StoreContainerEffect
  <1>3. CASE UNCHANGED csm
    BY <1>1, <1>3 DEF CsmOK
  <1> QED
    BY <1>1, <1>2, <1>3, CsmSteps, UpdateContainerEffect, RemoveContainerEffect

\* Where a step of one container takes its request.
LEMMA RequestSteps ==
    ASSUME TypeOK, NEW c \in Containers,
           CreateStep(c) \/ RunStep(c) \/ DeleteStep(c)
    PROVE  \/ UNCHANGED create
           \/ /\ \E s \in Steps : s \notin {"new", "record"} /\ Moves(c, s)
              /\ create'[c].name \in Names /\ create'[c].network \in Bridges
           \/ /\ Moves(c, "record") /\ create'[c].port \in ForwardInfos
              /\ create'[c].name \in Names /\ create'[c].network \in Bridges
  <1>1. create \in [Containers -> Request]
    BY DEF TypeOK
  <1> DEFINE Onward == /\ create[c].step # "new"
                       /\ \E s \in Steps \ {"new", "record"} :
                             \/ Goto(c, s)
                             \/ \E f \in Flags : GotoWithFlag(c, s, f)
  <1>2. ASSUME Onward
        PROVE  /\ \E s \in Steps : s \notin {"new", "record"} /\ Moves(c, s)
               /\ create'[c].name \in Names /\ create'[c].network \in Bridges
    <2>1. create[c].name \in Names /\ create[c].network \in Bridges
      BY <1>2 DEF TypeOK, At
    <2> QED
      BY <1>1, <1>2, <2>1, GotoEffect, GotoWithFlagEffect DEF SameNames
  <1>3. CASE CreateStep(c)
    <2>1. ASSUME NEW n \in Names, NEW b \in Bridges, NEW ports \in SUBSET ForwardInfos,
                 CreateRequest(c, n, b, ports)
          PROVE  /\ Moves(c, "image") /\ create'[c].name \in Names
                 /\ create'[c].network \in Bridges
      BY <1>1, <2>1, CreateRequestEffect
    <2>2. ASSUME NEW f \in ForwardInfos, SetupRule(c, f)
          PROVE  /\ Moves(c, "record") /\ create'[c].port \in ForwardInfos
                 /\ create'[c].name \in Names /\ create'[c].network \in Bridges
      BY <1>1, <2>2, SetupRuleEffect DEF SetupRule, At, TypeOK, SameNames
    <2>3. CASE RecordPort(c)
      BY <1>1, <2>3, RecordPortEffect DEF RecordPort, At, TypeOK, SameNames, Steps
    <2>4. CASE \/ PrepareImage(c) \/ allocateAddress(c) \/ GetBridgeAddr(c)
               \/ GetBridgeAddrFails(c) \/ StoreContainer(c)
               \/ setupContainerDirectory(c) \/ setupCgroupSubtree(c)
               \/ createContainerSpec(c) \/ PortsPublished(c) \/ RuntimeCreate(c)
      <3>1. Onward
        BY <2>4 DEF PrepareImage, allocateAddress, GetBridgeAddr, GetBridgeAddrFails,
                    StoreContainer, At, Steps, Flags, setupContainerDirectory, setupCgroupSubtree, createContainerSpec,
                    PortsPublished, RuntimeCreate
      <3> QED
        BY <1>2, <3>1
    <2>5. CASE \/ RuntimeCreated(c) \/ RuntimeCreateFails(c) \/ CreateFault(c)
               \/ UndoAddress(c) \/ UndoEntry(c) \/ UndoDirectory(c)
               \/ UndoCgroup(c) \/ UndoRules(c) \/ UndoFault(c)
      <3>1. Onward
        BY <2>5 DEF RuntimeCreated, RuntimeCreateFails, CreateFault, UndoAddress, At,
                    UndoEntry, UndoDirectory, UndoCgroup, UndoRules, UndoFault, Steps
      <3> QED
        BY <1>2, <3>1
    <2> QED
      BY <1>3, <2>1, <2>2, <2>3, <2>4, <2>5 DEF CreateStep, Steps
  <1>4. CASE RunStep(c) \/ DeleteStep(c)
    BY <1>4 DEF RunStep, DeleteStep, StartRequest, RuntimeRecreate, RuntimeStart, Stop,
                ProcessExits, MonitorDown, Refresh, DeleteRequest, RuntimeDelete,
                DeleteRules, releaseAddress, deleteContainerDirectory,
                deleteCgroupSubtree, DeleteFault
  <1> QED
    BY <1>3, <1>4

LEMMA RequestsStep ==
    ASSUME TypeOK, NEW c \in Containers,
           CreateStep(c) \/ RunStep(c) \/ DeleteStep(c)
    PROVE  RequestsOK'
  <1>1. RequestsOK
    BY TypeParts
  <1>2. CASE UNCHANGED create
    BY <1>1, <1>2 DEF RequestsOK, At
  <1>3. ASSUME NEW s \in Steps, s \notin {"new", "record"}, Moves(c, s),
               create'[c].name \in Names, create'[c].network \in Bridges
        PROVE  RequestsOK'
    BY <1>1, <1>3 DEF RequestsOK, At, Moves
  <1>4. CASE /\ Moves(c, "record") /\ create'[c].port \in ForwardInfos
             /\ create'[c].name \in Names /\ create'[c].network \in Bridges
    BY <1>1, <1>4 DEF RequestsOK, At, Moves
  <1> QED
    BY <1>2, <1>3, <1>4, RequestSteps

LEMMA RestStep ==
    ASSUME TypeOK, NEW c \in Containers,
           CreateStep(c) \/ RunStep(c) \/ DeleteStep(c)
    PROVE  Rest'
  <1> USE ContainerAssumption DEF Rest, stores, bounds
  <1>1. Rest /\ IpamTypeOK
    BY TypeParts
  <1>2. \A p \in pools, h \in Host, f \in ForwardInfos :
            AddRule(<<Address(p, h), f>>) => rules' \in [Rules -> Nat]
    BY <1>1, AddressInRange, RulesType
  <1>3. cleanupForwardRules(c) => rules' \in [Rules -> Nat]
    BY <1>1, RulesType
  <1>4. create[c].ports \subseteq ForwardInfos
    BY DEF TypeOK, Request
  <1>0. faults < MaxFaults => faults + 1 \in 0..MaxFaults
    BY <1>1
  <1>5. CASE CreateStep(c)
    <2>1. CASE \/ \E n \in Names, b \in Bridges, ports \in SUBSET ForwardInfos :
                     CreateRequest(c, n, b, ports)
               \/ PrepareImage(c) \/ allocateAddress(c) \/ GetBridgeAddr(c)
               \/ StoreContainer(c)
               \/ setupContainerDirectory(c) \/ setupCgroupSubtree(c)
               \/ createContainerSpec(c) \/ RecordPort(c) \/ PortsPublished(c)
               \/ RuntimeCreate(c) \/ RuntimeCreated(c) \/ RuntimeCreateFails(c)
      BY <1>1, <2>1
      DEF CreateRequest, PrepareImage, allocateAddress, GetBridgeAddr, StoreContainer,
          setupContainerDirectory, setupCgroupSubtree, createContainerSpec, RecordPort,
          PortsPublished, RuntimeCreate, RuntimeCreated, RuntimeCreateFails
    <2>2. CASE \E f \in ForwardInfos : SetupRule(c, f)
      BY <1>1, <1>2, <2>2 DEF SetupRule
    <2>3. CASE CreateFault(c)
      <3>1. rules' \in [Rules -> Nat]
        BY <1>1, <1>2, <1>4, <2>3 DEF CreateFault
      <3>2. dirs' \subseteq Containers /\ faults' \in 0..MaxFaults
        BY <1>0, <1>1, <2>3 DEF CreateFault
      <3>3. droplet' \in [Containers ->
                {"none", "creating", "created", "running", "stopped"}]
        BY <1>1, <2>3 DEF CreateFault
      <3> QED
        BY <1>1, <2>3, <3>1, <3>2, <3>3 DEF CreateFault
    <2>4. CASE \/ UndoAddress(c) \/ UndoEntry(c) \/ UndoDirectory(c)
               \/ UndoCgroup(c)
      BY <1>1, <2>4 DEF UndoAddress, UndoEntry, UndoDirectory, UndoCgroup
    <2>6. CASE UndoFault(c) \/ GetBridgeAddrFails(c)
      BY <1>0, <1>1, <2>6 DEF UndoFault, GetBridgeAddrFails
    <2>5. CASE UndoRules(c)
      BY <1>1, <1>3, <2>5 DEF UndoRules
    <2> QED
      BY <1>5, <2>1, <2>2, <2>3, <2>4, <2>5, <2>6 DEF CreateStep
  <1>6. CASE RunStep(c)
    BY <1>1, <1>6 DEF RunStep, StartRequest, RuntimeRecreate, RuntimeStart, Stop,
                      ProcessExits, MonitorDown, Refresh
  <1>7. CASE DeleteStep(c)
    <2>1. CASE DeleteRules(c)
      BY <1>1, <1>3, <2>1 DEF DeleteRules, DeleteGoto
    <2>2. CASE \/ DeleteRequest(c) \/ RuntimeDelete(c) \/ releaseAddress(c)
               \/ deleteContainerDirectory(c) \/ deleteCgroupSubtree(c) \/ DeleteFault(c)
      BY <1>1, <2>2
      DEF DeleteRequest, RuntimeDelete, releaseAddress, deleteContainerDirectory,
          deleteCgroupSubtree, DeleteFault, DeleteGoto
    <2> QED
      BY <1>7, <2>1, <2>2 DEF DeleteStep
  <1> QED
    BY <1>5, <1>6, <1>7

\* A crash ends the requests that are under way.
LEMMA CrashEffect ==
    ASSUME create \in [Containers -> Request], Crash
    PROVE  /\ create' \in [Containers -> Request]
           /\ \A c \in Containers :
                  IF CreateEnded(c) THEN create'[c] = create[c]
                  ELSE /\ create'[c].step = "killed" /\ SameNames(c)
                       /\ create'[c].flags = create[c].flags
  <1> DEFINE k(c) == [create[c] EXCEPT !.step = "killed"]
  <1>1. \A c \in Containers :
            /\ k(c) \in Request /\ k(c).step = "killed" /\ k(c).name = create[c].name
            /\ k(c).network = create[c].network /\ k(c).flags = create[c].flags
    BY DEF Request, Steps
  <1>2. create' = [c \in Containers |-> IF CreateEnded(c) THEN create[c] ELSE k(c)]
    BY DEF Crash
  <1> HIDE DEF k
  <1> QED
    BY <1>1, <1>2 DEF SameNames

LEMMA CrashType ==
    ASSUME TypeOK, IpamInv, Crash
    PROVE  TypeOK' /\ IpamInv'
  <1>1. IpamInv' /\ IpamTypeOK'
    BY DEF Crash, stores, IpamInv, IpamTypeOK, BridgesUnique, SubnetsDisjoint,
           ReservedFree, IsAllocated
  <1>2. CsmOK'
    BY TypeParts DEF Crash, stores, CsmOK
  <1>3. RequestsOK'
    BY TypeParts, CrashEffect DEF RequestsOK, At, CreateEnded, SameNames
  <1>4. Rest'
    <2>1. Rest /\ crashes < MaxCrashes /\ MaxCrashes \in Nat
      BY TypeParts, ContainerAssumption DEF Crash
    <2>2. crashes' \in 0..MaxCrashes
      BY <2>1 DEF Rest, Crash
    <2> QED
      BY <2>1, <2>2 DEF Rest, Crash, stores
  <1>5. TypeOK' <=> IpamTypeOK' /\ CsmOK' /\ RequestsOK' /\ Rest'
    BY DEF TypeOK, CsmOK, RequestsOK, Rest
  <1> QED
    BY <1>1, <1>2, <1>3, <1>4, <1>5

LEMMA InitTypeInv == Init => TypeOK /\ IpamInv
  <1> SUFFICES ASSUME Init PROVE TypeOK /\ IpamInv
    OBVIOUS
  <1>1. IpamInv
    BY InitInv DEF Init
  <1>2. NoRequest \in Request /\ NoRequest.step = "new"
    BY DEF NoRequest, Request, Steps
  <1>3. RequestsOK
    BY <1>2 DEF Init, RequestsOK, At
  <1>4. CsmOK /\ Rest
    BY ContainerAssumption DEF Init, CsmOK, Rest
  <1> QED
    BY <1>1, <1>3, <1>4, TypeParts DEF IpamInv

LEMMA NextTypeInv == TypeOK /\ IpamInv /\ [Next]_vars => (TypeOK /\ IpamInv)'
  <1> SUFFICES ASSUME TypeOK, IpamInv, [Next]_vars PROVE TypeOK' /\ IpamInv'
    OBVIOUS
  <1>1. ASSUME NEW c \in Containers, CreateStep(c) \/ RunStep(c) \/ DeleteStep(c)
        PROVE  TypeOK' /\ IpamInv'
    <2>1. IpamInv' /\ CsmOK' /\ RequestsOK' /\ Rest'
      BY <1>1, IpamStep, CsmStep, RequestsStep, RestStep
    <2>2. TypeOK' <=> IpamTypeOK' /\ CsmOK' /\ RequestsOK' /\ Rest'
      BY DEF TypeOK, CsmOK, RequestsOK, Rest
    <2> QED
      BY <2>1, <2>2 DEF IpamInv
  <1>2. CASE UNCHANGED vars
    BY <1>2 DEF vars, stores, bounds, TypeOK, At, IpamInv, IpamTypeOK, BridgesUnique,
                SubnetsDisjoint, ReservedFree, IsAllocated
  <1> QED
    BY <1>1, <1>2, CrashType DEF Next

\* Type correctness: the csm, the requests, the iptables rules and the
\* runtime's states are well formed, and the addresses of the containers
\* satisfy all that IpamProofs shows of the address manager alone.
THEOREM ContainerTypeCorrect == Spec => [](TypeOK /\ IpamInv)
  BY InitTypeInv, NextTypeInv, PTL DEF Spec

\* No hook and no report of the monitor brings back an entry of the csm that
\* Delete or the rollback removed: only StoreContainer makes one.
THEOREM EntriesAreNotResurrected == Spec => NoResurrection
  <1> DEFINE Kept == \A c \in Containers :
                        (csm[c] = NoEntry /\ csm'[c] # NoEntry) =>
                            create[c].step = "entry"
  <1>1. TypeOK /\ [Next]_vars => [Kept]_vars
    <2> SUFFICES ASSUME TypeOK, Next PROVE Kept
      OBVIOUS
    <2>1. CsmOK
      BY TypeParts
    <2>2. ASSUME NEW d \in Containers, CreateStep(d) \/ RunStep(d) \/ DeleteStep(d)
          PROVE  Kept
      <3>1. CASE UNCHANGED csm
        BY <3>1
      <3>2. CASE StoreContainer(d)
        <4>1. create[d].step = "entry" /\ create[d].name \in Names
          BY <3>2 DEF StoreContainer, At, TypeOK
        <4> QED
          BY <2>1, <3>2, <4>1, StoreContainerEffect DEF OthersKept
      <3>3. CASE RemoveContainer(d)
        BY <2>1, <3>3, RemoveContainerEffect DEF OthersKept, Known
      <3>4. ASSUME NEW s \in {"creating", "created", "running", "stopped"},
                   UpdateContainer(d, s)
            PROVE  Kept
        BY <2>1, <3>4, UpdateContainerEffect DEF OthersKept, Known
      <3> QED
        BY <2>2, <3>1, <3>2, <3>3, <3>4, CsmSteps
    <2>3. CASE Crash
      BY <2>3 DEF Crash, stores
    <2> QED
      BY <2>2, <2>3 DEF Next
  <1> QED
    BY <1>1, ContainerTypeCorrect, PTL DEF Spec, NoResurrection

-----------------------------------------------------------------------------
\* Progress and Files speak of one container.  A step of another one does not
\* touch it.
Untouched(c) ==
    /\ create'[c] = create[c] /\ csm'[c] = csm[c]
    /\ droplet'[c] = droplet[c] /\ delete'[c] = delete[c]
    /\ (c \in dirs' <=> c \in dirs) /\ (c \in cgroups' <=> c \in cgroups)
    /\ (c \in suspect' <=> c \in suspect)

LEMMA OtherContainer ==
    ASSUME TypeOK, NEW d \in Containers, CreateStep(d) \/ RunStep(d) \/ DeleteStep(d),
           NEW c \in Containers, c # d
    PROVE  Untouched(c)
  <1>1. create'[c] = create[c]
    BY RequestSteps DEF Moves
  <1>2. csm'[c] = csm[c]
    <2>1. CsmOK
      BY TypeParts
    <2>2. CASE StoreContainer(d)
      BY <2>1, <2>2 DEF StoreContainer, CsmOK
    <2> QED
      BY <2>1, <2>2, CsmSteps, UpdateContainerEffect, RemoveContainerEffect
      DEF OthersKept
  <1>3. Rest
    BY TypeParts
  <1>4. droplet'[c] = droplet[c] /\ delete'[c] = delete[c]
    BY <1>3
    DEF Rest, CreateStep, RunStep, DeleteStep, stores, CreateRequest, PrepareImage, GetBridgeAddr,
         GetBridgeAddrFails,
        allocateAddress, StoreContainer, setupContainerDirectory, setupCgroupSubtree,
        createContainerSpec, SetupRule, RecordPort, PortsPublished, RuntimeCreate,
        RuntimeCreated, RuntimeCreateFails, CreateFault, UndoAddress, UndoEntry,
        UndoDirectory, UndoCgroup, UndoRules, UndoFault, StartRequest,
        RuntimeRecreate, RuntimeStart, Stop, ProcessExits, MonitorDown, Refresh,
        DeleteRequest, RuntimeDelete, DeleteRules, releaseAddress,
        deleteContainerDirectory, deleteCgroupSubtree, DeleteFault, DeleteGoto
  <1>5. /\ (c \in dirs' <=> c \in dirs) /\ (c \in cgroups' <=> c \in cgroups)
        /\ (c \in suspect' <=> c \in suspect)
    BY DEF CreateStep, RunStep, DeleteStep, stores, bounds, CreateRequest, PrepareImage, GetBridgeAddr,
         GetBridgeAddrFails,
        allocateAddress, StoreContainer, setupContainerDirectory, setupCgroupSubtree,
        createContainerSpec, SetupRule, RecordPort, PortsPublished, RuntimeCreate,
        RuntimeCreated, RuntimeCreateFails, CreateFault, UndoAddress, UndoEntry,
        UndoDirectory, UndoCgroup, UndoRules, UndoFault, StartRequest,
        RuntimeRecreate, RuntimeStart, Stop, ProcessExits, MonitorDown, Refresh,
        DeleteRequest, RuntimeDelete, DeleteRules, releaseAddress,
        deleteContainerDirectory, deleteCgroupSubtree, DeleteFault
  <1> QED
    BY <1>1, <1>2, <1>4, <1>5 DEF Untouched

Local(c) == Progress(c) /\ Files(c)

LEMMA UntouchedLocal ==
    ASSUME NEW c \in Containers, Local(c), Untouched(c)
    PROVE  Local(c)'
  BY DEF Local, Progress, Files, Deleted, Untouched, Known, Flagged, Cleaning

\* The steps of Create that carry it forward.
LEMMA ForwardLocal ==
    ASSUME TypeOK, NEW c \in Containers, Local(c),
           \/ \E n \in Names, b \in Bridges, ports \in SUBSET ForwardInfos :
                 CreateRequest(c, n, b, ports)
           \/ PrepareImage(c) \/ allocateAddress(c) \/ GetBridgeAddr(c)
           \/ StoreContainer(c)
           \/ setupContainerDirectory(c) \/ setupCgroupSubtree(c)
           \/ createContainerSpec(c) \/ \E f \in ForwardInfos : SetupRule(c, f)
           \/ RecordPort(c) \/ PortsPublished(c) \/ RuntimeCreate(c)
           \/ RuntimeCreated(c)
    PROVE  Local(c)'
  <1> USE DEF Local, Progress, Files, Deleted, Flagged, Cleaning, At, Moves,
              NotAllocated, NotFlagged, NotRun, HasCgroup, HasDir, EntryUndone
  <1>1. create \in [Containers -> Request] /\ CsmOK /\ Rest
    BY TypeParts DEF RequestsOK
  <1>2. ASSUME NEW n \in Names, NEW b \in Bridges, NEW ports \in SUBSET ForwardInfos,
               CreateRequest(c, n, b, ports)
        PROVE  Local(c)'
    <2>1. Moves(c, "image") /\ create'[c].flags = create[c].flags
      BY <1>1, <1>2, CreateRequestEffect
    <2> QED
      BY <1>2, <2>1 DEF CreateRequest, stores, bounds, Known
  <1>3. CASE PrepareImage(c)
    <2>1. Moves(c, "address") /\ create'[c].flags = create[c].flags
      BY <1>1, <1>3, GotoEffect DEF PrepareImage, Steps
    <2> QED
      BY <1>3, <2>1 DEF PrepareImage, stores, bounds, Known
  <1>4. CASE allocateAddress(c)
    <2>1. CASE Goto(c, "gateway")
      <3>1. Moves(c, "gateway") /\ create'[c].flags = create[c].flags
        BY <1>1, <2>1, GotoEffect DEF Steps
      <3> QED
        BY <1>4, <3>1 DEF allocateAddress, bounds, Known
    <2>2. CASE Goto(c, "undo address")
      <3>1. Moves(c, "undo address") /\ create'[c].flags = create[c].flags
        BY <1>1, <2>2, GotoEffect DEF Steps
      <3> QED
        BY <1>4, <3>1 DEF allocateAddress, bounds, Known
    <2> QED
      BY <1>4, <2>1, <2>2 DEF allocateAddress
  <1>0. CASE GetBridgeAddr(c)
    <2>1. /\ Moves(c, "entry")
          /\ create'[c].flags = create[c].flags \cup {"address"}
      BY <1>0, <1>1, GotoWithFlagEffect DEF GetBridgeAddr, Steps, Flags
    <2> QED
      BY <1>0, <2>1 DEF GetBridgeAddr, stores, bounds, Known
  <1>5. CASE StoreContainer(c)
    <2>1. /\ Moves(c, "directory")
          /\ create'[c].flags = create[c].flags \cup {"entry"}
      BY <1>1, <1>5, GotoWithFlagEffect DEF StoreContainer, Steps, Flags
    <2>2. csm'[c] # NoEntry
      <3>1. csm'[c] \in Entry
        BY <1>1, <1>5 DEF StoreContainer, CsmOK, Entry, TypeOK
      <3> QED
        BY <3>1, ContainerAssumption
    <2> QED
      BY <1>5, <2>1, <2>2 DEF StoreContainer, bounds, Known
  <1>6. CASE setupContainerDirectory(c)
    <2>1. /\ Moves(c, "cgroup")
          /\ create'[c].flags = create[c].flags \cup {"directory"}
      BY <1>1, <1>6, GotoWithFlagEffect DEF setupContainerDirectory, Steps, Flags
    <2> QED
      BY <1>6, <2>1 DEF setupContainerDirectory, bounds, Known
  <1>7. CASE setupCgroupSubtree(c)
    <2>1. /\ Moves(c, "spec")
          /\ create'[c].flags = create[c].flags \cup {"cgroup"}
      BY <1>1, <1>7, GotoWithFlagEffect DEF setupCgroupSubtree, Steps, Flags
    <2> QED
      BY <1>7, <2>1 DEF setupCgroupSubtree, bounds, Known
  <1>8. CASE createContainerSpec(c)
    <2>1. Moves(c, "ports") /\ create'[c].flags = create[c].flags
      BY <1>1, <1>8, GotoEffect DEF createContainerSpec, Steps
    <2> QED
      BY <1>8, <2>1 DEF createContainerSpec, stores, bounds, Known
  <1>9. ASSUME NEW f \in ForwardInfos, SetupRule(c, f)
        PROVE  Local(c)'
    <2>1. Moves(c, "record") /\ create'[c].flags = create[c].flags
      BY <1>1, <1>9, SetupRuleEffect
    <2> QED
      BY <1>9, <2>1 DEF SetupRule, bounds, Known
  <1>10. CASE RecordPort(c)
    <2>1. Moves(c, "ports") /\ create'[c].flags = create[c].flags
      BY <1>1, <1>10, RecordPortEffect
    <2> QED
      BY <1>10, <2>1 DEF RecordPort, bounds, Known
  <1>11. CASE PortsPublished(c)
    <2>1. /\ Moves(c, "runtime")
          /\ create'[c].flags = create[c].flags \cup {"rules"}
      BY <1>1, <1>11, GotoWithFlagEffect DEF PortsPublished, Steps, Flags
    <2> QED
      BY <1>11, <2>1 DEF PortsPublished, stores, bounds, Known
  <1>12. CASE RuntimeCreate(c)
    <2>1. Moves(c, "hook") /\ create'[c].flags = create[c].flags
      BY <1>1, <1>12, GotoEffect DEF RuntimeCreate, Steps
    <2>2. Known(c)' = Known(c)
      BY <1>1, <1>12, UpdateContainerEffect DEF RuntimeCreate
    <2> QED
      BY <1>1, <1>12, <2>1, <2>2 DEF RuntimeCreate, bounds, Rest
  <1>13. CASE RuntimeCreated(c)
    <2>1. Moves(c, "done") /\ create'[c].flags = create[c].flags
      BY <1>1, <1>13, GotoEffect DEF RuntimeCreated, Steps
    <2>2. Known(c)' = Known(c)
      BY <1>1, <1>13, UpdateContainerEffect DEF RuntimeCreated
    <2> QED
      BY <1>1, <1>13, <2>1, <2>2 DEF RuntimeCreated, bounds, Rest
  <1> QED
    BY <1>0, <1>2, <1>3, <1>4, <1>5, <1>6, <1>7, <1>8, <1>9, <1>10, <1>11, <1>12, <1>13

\* The steps at which Create fails, and the rollback.
LEMMA UndoLocal ==
    ASSUME TypeOK, NEW c \in Containers, Local(c),
           \/ RuntimeCreateFails(c) \/ CreateFault(c) \/ GetBridgeAddrFails(c)
           \/ UndoAddress(c) \/ UndoEntry(c) \/ UndoDirectory(c) \/ UndoCgroup(c)
           \/ UndoRules(c) \/ UndoFault(c)
    PROVE  Local(c)'
  <1> USE DEF Local, Progress, Files, Deleted, Flagged, Cleaning, At, Moves,
              NotAllocated, NotFlagged, NotRun, HasCgroup, HasDir, EntryUndone
  <1>1. create \in [Containers -> Request] /\ CsmOK /\ Rest
    BY TypeParts DEF RequestsOK
  <1>2. CASE RuntimeCreateFails(c)
    <2>1. Moves(c, "undo address") /\ create'[c].flags = create[c].flags
      BY <1>1, <1>2, GotoEffect DEF RuntimeCreateFails, Steps
    <2> QED
      BY <1>2, <2>1 DEF RuntimeCreateFails, stores, bounds, Known
  <1>0. CASE GetBridgeAddrFails(c)
    <2>1. Moves(c, "undo address") /\ create'[c].flags = create[c].flags
      BY <1>0, <1>1, GotoEffect DEF GetBridgeAddrFails, Steps
    <2> QED
      BY <1>0, <2>1 DEF GetBridgeAddrFails, stores, Known
  <1>3. CASE CreateFault(c)
    <2>1. Moves(c, "undo address") /\ create'[c].flags = create[c].flags
      BY <1>1, <1>3, GotoEffect DEF CreateFault, Steps
    <2>2. /\ droplet'[c] = droplet[c] \/ droplet'[c] = "none"
          /\ UNCHANGED <<csm, delete>>
      BY <1>1, <1>3 DEF CreateFault, Rest
    <2> QED
      BY <1>3, <2>1, <2>2 DEF CreateFault, Known
  <1>4. CASE UndoAddress(c)
    <2>1. Moves(c, "undo entry") /\ create'[c].flags = create[c].flags
      BY <1>1, <1>4, GotoEffect DEF UndoAddress, Steps
    <2> QED
      BY <1>4, <2>1 DEF UndoAddress, bounds, Known
  <1>5. CASE UndoEntry(c)
    <2>1. Moves(c, "undo directory") /\ create'[c].flags = create[c].flags
      BY <1>1, <1>5, GotoEffect DEF UndoEntry, Steps
    <2>2. ~Known(c)'
      BY <1>1, <1>5, RemoveContainerEffect DEF UndoEntry, Known
    <2> QED
      BY <1>5, <2>1, <2>2 DEF UndoEntry, bounds
  <1>6. CASE UndoDirectory(c)
    <2>1. Moves(c, "undo cgroup") /\ create'[c].flags = create[c].flags
      BY <1>1, <1>6, GotoEffect DEF UndoDirectory, Steps
    <2> QED
      BY <1>6, <2>1 DEF UndoDirectory, bounds, Known
  <1>7. CASE UndoCgroup(c)
    <2>1. /\ Moves(c, "failed") \/ Moves(c, "undo rules")
          /\ create'[c].flags = create[c].flags
      BY <1>1, <1>7, GotoEffect DEF UndoCgroup, Steps
    <2> QED
      BY <1>7, <2>1 DEF UndoCgroup, bounds, Known
  <1>8. CASE UndoRules(c)
    <2>1. Moves(c, "failed") /\ create'[c].flags = create[c].flags
      BY <1>1, <1>8, GotoEffect DEF UndoRules, Steps
    <2> QED
      BY <1>8, <2>1 DEF UndoRules, bounds, Known
  <1>9. CASE UndoFault(c)
    <2>1. Moves(c, "failed") /\ create'[c].flags = create[c].flags
      BY <1>1, <1>9, GotoEffect DEF UndoFault, Steps
    <2> QED
      BY <1>9, <2>1 DEF UndoFault, stores, Known
  <1> QED
    BY <1>0, <1>2, <1>3, <1>4, <1>5, <1>6, <1>7, <1>8, <1>9

\* Start, Stop, the process and the monitor.
LEMMA RunLocal ==
    ASSUME TypeOK, NEW c \in Containers, Local(c), RunStep(c)
    PROVE  Local(c)'
  <1> USE DEF Local, Progress, Files, Deleted, Flagged, Cleaning, RunStep
  <1>1. CsmOK /\ Rest
    BY TypeParts
  <1>2. Known(c)' <=> Known(c)
    BY <1>1, UpdateContainerEffect
    DEF StartRequest, RuntimeRecreate, RuntimeStart, Stop, ProcessExits, MonitorDown,
        Refresh, stores, Known
  <1>3. UNCHANGED <<create, delete, dirs, cgroups, suspect>>
    BY DEF StartRequest, RuntimeRecreate, RuntimeStart, Stop, ProcessExits, MonitorDown,
           Refresh, stores, bounds
  <1>4. droplet'[c] = droplet[c] \/ (droplet[c] # "none" /\ droplet'[c] # "none")
    BY <1>1
    DEF StartRequest, RuntimeRecreate, RuntimeStart, Stop, ProcessExits, MonitorDown,
        Refresh, Rest
  <1> QED
    BY <1>2, <1>3, <1>4

LEMMA DeleteLocal ==
    ASSUME TypeOK, NEW c \in Containers, Local(c), DeleteStep(c)
    PROVE  Local(c)'
  <1> USE DEF Local, Progress, Files, Deleted, Flagged, Cleaning, DeleteGoto
  <1>1. CsmOK /\ Rest
    BY TypeParts
  <1>2. CASE DeleteRequest(c)
    BY <1>1, <1>2 DEF DeleteRequest, InState, stores, bounds, Known, Rest
  <1>3. CASE RuntimeDelete(c)
    <2>1. CASE /\ droplet[c] # "none" /\ RemoveContainer(c)
               /\ droplet' = [droplet EXCEPT ![c] = "none"]
               /\ DeleteGoto(c, IF Known(c) THEN "rules" ELSE "none")
      <3>1. ~Known(c)' /\ droplet'[c] = "none"
        BY <1>1, <2>1, RemoveContainerEffect DEF Rest
      <3>2. delete'[c] = IF Known(c) THEN "rules" ELSE "none"
        BY <1>1, <2>1 DEF Rest
      <3>3. UNCHANGED <<create, dirs, cgroups, suspect>>
        BY <1>3 DEF RuntimeDelete, bounds
      <3> QED
        BY <2>1, <3>1, <3>2, <3>3 DEF NotRun, NotFlagged, NotAllocated
    <2>2. CASE DeleteGoto(c, "none") /\ UNCHANGED <<droplet, csm>>
      <3>1. delete'[c] = "none"
        BY <1>1, <2>2 DEF Rest
      <3> QED
        BY <1>3, <2>2, <3>1 DEF RuntimeDelete, bounds, Known, EntryUndone
    <2> QED
      BY <1>3, <2>1, <2>2 DEF RuntimeDelete
  <1>4. CASE DeleteRules(c)
    BY <1>1, <1>4 DEF DeleteRules, bounds, Rest, Known
  <1>5. CASE releaseAddress(c)
    BY <1>1, <1>5 DEF releaseAddress, bounds, Rest, Known
  <1>6. CASE deleteContainerDirectory(c)
    BY <1>1, <1>6 DEF deleteContainerDirectory, bounds, Rest, Known
  <1>7. CASE deleteCgroupSubtree(c)
    BY <1>1, <1>7 DEF deleteCgroupSubtree, bounds, Rest, Known
  <1>8. CASE DeleteFault(c)
    BY <1>1, <1>8 DEF DeleteFault, stores, Rest, Known
  <1> QED
    BY <1>2, <1>3, <1>4, <1>5, <1>6, <1>7, <1>8 DEF DeleteStep

LEMMA CrashLocal ==
    ASSUME TypeOK, NEW c \in Containers, Local(c), Crash
    PROVE  Local(c)'
  <1>1. create \in [Containers -> Request] /\ Rest
    BY TypeParts DEF RequestsOK
  <1>2. IF CreateEnded(c) THEN create'[c] = create[c]
        ELSE create'[c].step = "killed" /\ create'[c].flags = create[c].flags
    BY <1>1, CrashEffect
  <1>3. /\ delete'[c] = "none" /\ UNCHANGED <<csm, dirs, cgroups, droplet>>
        /\ c \in suspect' <=> \/ c \in suspect
                              \/ ~CreateEnded(c) \/ delete[c] # "none"
    BY DEF Crash, stores
  <1> QED
    BY <1>2, <1>3 DEF Local, Progress, Files, Deleted, Flagged, Cleaning, CreateEnded,
         Known, NotAllocated, NotFlagged, NotRun, HasCgroup, HasDir, EntryUndone

LEMMA LocalStep ==
    ASSUME TypeOK, NEW d \in Containers, CreateStep(d) \/ RunStep(d) \/ DeleteStep(d),
           NEW c \in Containers, Local(c)
    PROVE  Local(c)'
  <1>1. CASE c # d
    BY <1>1, OtherContainer, UntouchedLocal
  <1>2. CASE c = d
    <2>1. CASE RunStep(c) \/ DeleteStep(c)
      BY <2>1, RunLocal, DeleteLocal
    <2>2. CASE CreateStep(c)
      BY <2>2, ForwardLocal, UndoLocal DEF CreateStep
    <2> QED
      BY <1>2, <2>1, <2>2
  <1> QED
    BY <1>1, <1>2

-----------------------------------------------------------------------------
\* The addresses.  A lease is what the pools say of one address: its holder and
\* the ports published on it.
Lease(c, s, h, f) ==
    \E p \in pools : p.Subnet = s /\ p.Allocations[h] = [ContainerId |-> c, Forwards |-> f]

\* An allocation is made of its two fields.
LEMMA AllocationFields ==
    ASSUME NEW x \in Allocation, NEW c, NEW f
    PROVE  x = [ContainerId |-> c, Forwards |-> f] <=> x.ContainerId = c /\ x.Forwards = f
  BY DEF Allocation

LEMMA HoldsLease ==
    ASSUME IpamInv, NEW c \in Containers
    PROVE  /\ \A p \in pools, h \in Host :
                  Holds(c, p, h) <=> Lease(c, p.Subnet, h, p.Allocations[h].Forwards)
           /\ \A s, f : \A h \in Host : Lease(c, s, h, f) =>
                  \E p \in pools : /\ p.Subnet = s /\ Holds(c, p, h)
                                   /\ p.Allocations[h].Forwards = f
  <1>1. \A p \in pools : \A h \in Host : p.Allocations[h] \in Allocation
    BY DEF IpamInv, IpamTypeOK, Pool
  <1>2. \A p \in pools : \A h \in Host : \A f :
            p.Allocations[h] = [ContainerId |-> c, Forwards |-> f] <=>
                p.Allocations[h].ContainerId = c /\ p.Allocations[h].Forwards = f
    BY <1>1, AllocationFields
  <1>3. \A p, q \in pools : p.Subnet = q.Subnet => p = q
    BY DEF IpamInv, SubnetsDisjoint
  <1> QED
    BY <1>2, <1>3 DEF Lease, Holds

\* An address has one holder.
LEMMA LeaseExclusive ==
    ASSUME IpamInv, NEW c, NEW d, NEW s, NEW h, NEW f, NEW g,
           Lease(c, s, h, f), Lease(d, s, h, g)
    PROVE  c = d /\ f = g
  <1>1. [ContainerId |-> c, Forwards |-> f] = [ContainerId |-> d, Forwards |-> g]
    BY DEF Lease, IpamInv, SubnetsDisjoint
  <1> QED
    BY <1>1

\* An update of one address changes that lease and no other.
LEMMA SetAllocationLeases ==
    ASSUME IpamInv, NEW p \in pools, NEW h \in Host, NEW a \in Allocation,
           SetAllocation(p, h, a)
    PROVE  \A c, s, f : \A k \in Host :
               Lease(c, s, k, f)' <=>
                   IF s = p.Subnet /\ k = h THEN a.ContainerId = c /\ a.Forwards = f
                   ELSE Lease(c, s, k, f)
  <1> DEFINE q == [p EXCEPT !.Allocations[h] = a]
  <1>1. p \in Pool /\ \A r \in pools : r.Subnet = p.Subnet => r = p
    BY DEF IpamInv, IpamTypeOK, SubnetsDisjoint
  <1>2. q.Subnet = p.Subnet /\ q.Allocations = [p.Allocations EXCEPT ![h] = a]
    BY <1>1, UpdatedPool
  <1>3. pools' = (pools \ {p}) \cup {q}
    BY DEF SetAllocation
  <1>4. \A k \in Host : q.Allocations[k] = IF k = h THEN a ELSE p.Allocations[k]
    BY <1>1, <1>2 DEF Pool
  <1> HIDE DEF q
  <1>5. \A c, f : a = [ContainerId |-> c, Forwards |-> f] <=>
                      a.ContainerId = c /\ a.Forwards = f
    BY AllocationFields
  <1> SUFFICES ASSUME NEW c, NEW s, NEW f, NEW k \in Host
               PROVE  Lease(c, s, k, f)' <=>
                   IF s = p.Subnet /\ k = h THEN a.ContainerId = c /\ a.Forwards = f
                   ELSE Lease(c, s, k, f)
    OBVIOUS
  <1>6. CASE s # p.Subnet
    BY <1>2, <1>3, <1>6 DEF Lease
  <1>7. CASE s = p.Subnet
    <2>1. Lease(c, s, k, f)' <=> q.Allocations[k] = [ContainerId |-> c, Forwards |-> f]
      BY <1>1, <1>2, <1>3, <1>7 DEF Lease
    <2>2. Lease(c, s, k, f) <=> p.Allocations[k] = [ContainerId |-> c, Forwards |-> f]
      BY <1>1, <1>7 DEF Lease
    <2> QED
      BY <1>4, <1>5, <1>7, <2>1, <2>2
  <1> QED
    BY <1>6, <1>7

LEMMA AllocateLeases ==
    ASSUME IpamInv, NEW c \in Containers, NEW b, Allocate(c, b)
    PROVE  \E s : \E h \in Host :
               \A d \in Containers : \A t, f : \A k \in Host :
                   Lease(d, t, k, f)' <=>
                       \/ Lease(d, t, k, f)
                       \/ d = c /\ t = s /\ k = h /\ f = <<>>
  <1> DEFINE a == [ContainerId |-> c, Forwards |-> <<>>]
  <1>1. PICK p \in pools, h \in Host : findFreeIpv4(p, h) /\ SetAllocation(p, h, a)
    BY DEF Allocate
  <1>2. a \in Allocation /\ a.ContainerId = c /\ a.Forwards = <<>>
    BY DEF Allocation
  <1>3. \A d \in Containers : ~Holds(d, p, h)
    BY <1>1, IpamAssumption
    DEF findFreeIpv4, IsLeast, FreeHosts, IsAllocated, Holds
  <1>4. \A d \in Containers : \A f : ~Lease(d, p.Subnet, h, f)
    BY <1>3, HoldsLease DEF IpamInv, SubnetsDisjoint
  <1> HIDE DEF a
  <1>5. \A d, t, f : \A k \in Host :
               Lease(d, t, k, f)' <=>
                   IF t = p.Subnet /\ k = h THEN a.ContainerId = d /\ a.Forwards = f
                   ELSE Lease(d, t, k, f)
    BY <1>1, <1>2, SetAllocationLeases
  <1>6. \A d \in Containers : \A t, f : \A k \in Host :
            Lease(d, t, k, f)' <=>
                \/ Lease(d, t, k, f)
                \/ d = c /\ t = p.Subnet /\ k = h /\ f = <<>>
    BY <1>2, <1>4, <1>5
  <1> WITNESS p.Subnet
  <1> WITNESS h \in Host
  <1> QED
    BY <1>6

\* Release takes one lease of the container: all of them if there is only one.
LEMMA ReleaseLeases ==
    ASSUME IpamInv, NEW c \in Containers, HeldOnce(c), Release(c)
    PROVE  \A d \in Containers : \A t, f : \A k \in Host :
               Lease(d, t, k, f)' <=> d # c /\ Lease(d, t, k, f)
  <1>1. CASE ~HasAddress(c) /\ UNCHANGED pools
    BY <1>1, HoldsLease DEF HasAddress, Lease
  <1>2. ASSUME NEW p \in pools, NEW h \in Host, Holds(c, p, h),
               SetAllocation(p, h, Unused)
        PROVE  \A d \in Containers : \A t, f : \A k \in Host :
                   Lease(d, t, k, f)' <=> d # c /\ Lease(d, t, k, f)
    <2>1. /\ Unused \in Allocation /\ Unused.ContainerId = NoContainer
          /\ NoContainer \notin Containers
      BY IpamAssumption DEF Allocation, Unused
    <2>2. \A d, t, f : \A k \in Host :
               Lease(d, t, k, f)' <=>
                   IF t = p.Subnet /\ k = h
                   THEN Unused.ContainerId = d /\ Unused.Forwards = f
                   ELSE Lease(d, t, k, f)
      BY <1>2, <2>1, SetAllocationLeases
    <2>3. \A t, f : \A k \in Host : Lease(c, t, k, f) => t = p.Subnet /\ k = h
      BY <1>2, HoldsLease DEF HeldOnce
    <2>4. \A d \in Containers : \A f : Lease(d, p.Subnet, h, f) => d = c
      BY <1>2, HoldsLease, LeaseExclusive
    <2> QED
      BY <2>1, <2>2, <2>3, <2>4
  <1> QED
    BY <1>1, <1>2 DEF Release

\* Recording a port keeps the leases and appends to one of the container's.
LEMMA SetForwardInfoLeases ==
    ASSUME IpamInv, NEW c \in Containers, HeldOnce(c), NEW e \in ForwardInfos,
           SetForwardInfo(c, e)
    PROVE  \E s, g : \E h \in Host :
               /\ g \in Seq(ForwardInfos) /\ Lease(c, s, h, g)
               /\ \A d \in Containers : \A t, f : \A k \in Host :
                      Lease(d, t, k, f)' <=>
                          IF d = c THEN t = s /\ k = h /\ f = Append(g, e)
                          ELSE Lease(d, t, k, f)
  <1>1. PICK p \in pools, h \in Host :
            /\ Holds(c, p, h)
            /\ SetAllocation(p, h,
                   [p.Allocations[h] EXCEPT !.Forwards = Append(@, e)])
    BY DEF SetForwardInfo
  <1> DEFINE x == p.Allocations[h]
             a == [x EXCEPT !.Forwards = Append(@, e)]
  <1>2. x \in Allocation
    BY DEF IpamInv, IpamTypeOK, Pool
  <1>3. /\ a \in Allocation /\ a.ContainerId = x.ContainerId
        /\ a.Forwards = Append(x.Forwards, e)
    BY <1>2, AppendedForward
  <1>4. SetAllocation(p, h, a) /\ x.ContainerId = c
    BY <1>1 DEF Holds
  <1>5. x.Forwards \in Seq(ForwardInfos)
    BY <1>2 DEF Allocation
  <1>6. Lease(c, p.Subnet, h, x.Forwards)
    BY <1>1, HoldsLease
  <1> HIDE DEF a
  <1>7. \A d, t, f : \A k \in Host :
               Lease(d, t, k, f)' <=>
                   IF t = p.Subnet /\ k = h THEN a.ContainerId = d /\ a.Forwards = f
                   ELSE Lease(d, t, k, f)
    BY <1>3, <1>4, SetAllocationLeases
  <1>8. \A t, f : \A k \in Host : Lease(c, t, k, f) => t = p.Subnet /\ k = h
    BY <1>1, HoldsLease DEF HeldOnce
  <1>9. \A d \in Containers : \A f : Lease(d, p.Subnet, h, f) => d = c
    BY <1>6, LeaseExclusive
  <1>10. \A d \in Containers : \A t, f : \A k \in Host :
            Lease(d, t, k, f)' <=>
                IF d = c THEN t = p.Subnet /\ k = h /\ f = Append(x.Forwards, e)
                ELSE Lease(d, t, k, f)
    <2> HIDE DEF x
    <2> QED
      BY <1>3, <1>4, <1>7, <1>8, <1>9
  <1> HIDE DEF x
  <1> QED
    BY <1>5, <1>6, <1>10

\* The predicates of the model, in terms of leases.
LeaseView ==
    \A c \in Containers :
        /\ HasAddress(c) <=> \E s, f : \E h \in Host : Lease(c, s, h, f)
        /\ HeldOnce(c) <=>
               \A s, t, f, g : \A h, k \in Host :
                   Lease(c, s, h, f) /\ Lease(c, t, k, g) => s = t /\ h = k
        /\ \A r \in Rules :
               r \in Published(c) <=>
                   \E s, f : \E h \in Host :
                       /\ Lease(c, s, h, f) /\ s * SubnetSize + h = r[1]
                       /\ \E i \in DOMAIN f : f[i] = r[2]
        /\ \A e : (\A p \in pools, h \in Host :
                       Holds(c, p, h) => rules[<<Address(p, h), e>>] > 0) <=>
                  \A s, f : \A h \in Host :
                       Lease(c, s, h, f) => rules[<<s * SubnetSize + h, e>>] > 0

LEMMA LeaseViewHolds == IpamInv => LeaseView
  <1> SUFFICES ASSUME IpamInv, NEW c \in Containers
               PROVE  /\ HasAddress(c) <=> \E s, f : \E h \in Host : Lease(c, s, h, f)
                      /\ HeldOnce(c) <=>
                             \A s, t, f, g : \A h, k \in Host :
                                 Lease(c, s, h, f) /\ Lease(c, t, k, g) => s = t /\ h = k
                      /\ \A r \in Rules :
                            r \in Published(c) <=>
                               \E s, f : \E h \in Host :
                                   /\ Lease(c, s, h, f) /\ s * SubnetSize + h = r[1]
                                   /\ \E i \in DOMAIN f : f[i] = r[2]
                      /\ \A e : (\A p \in pools, h \in Host :
                                 Holds(c, p, h) => rules[<<Address(p, h), e>>] > 0) <=>
                            \A s, f : \A h \in Host :
                                 Lease(c, s, h, f) => rules[<<s * SubnetSize + h, e>>] > 0
    BY DEF LeaseView
  <1>1. \A p \in pools, h \in Host :
            Holds(c, p, h) => Lease(c, p.Subnet, h, p.Allocations[h].Forwards)
    BY HoldsLease
  <1>2. \A s, f : \A h \in Host : Lease(c, s, h, f) =>
            \E p \in pools : /\ p.Subnet = s /\ Holds(c, p, h)
                             /\ p.Allocations[h].Forwards = f
    BY HoldsLease
  <1>3. \A p, q \in pools : p.Subnet = q.Subnet => p = q
    BY DEF IpamInv, SubnetsDisjoint
  <1>4. HasAddress(c) <=> \E s, f : \E h \in Host : Lease(c, s, h, f)
    BY <1>1, <1>2 DEF HasAddress
  <1>5. HeldOnce(c) <=>
            \A s, t, f, g : \A h, k \in Host :
                Lease(c, s, h, f) /\ Lease(c, t, k, g) => s = t /\ h = k
    BY <1>1, <1>2, <1>3 DEF HeldOnce
  <1>6. ASSUME NEW r \in Rules
        PROVE  r \in Published(c) <=>
                   \E s, f : \E h \in Host :
                       /\ Lease(c, s, h, f) /\ s * SubnetSize + h = r[1]
                       /\ \E i \in DOMAIN f : f[i] = r[2]
    BY <1>1, <1>2 DEF Published, Address
  <1>7. ASSUME NEW e
        PROVE  (\A p \in pools, h \in Host :
                   Holds(c, p, h) => rules[<<Address(p, h), e>>] > 0) <=>
               \A s, f : \A h \in Host :
                   Lease(c, s, h, f) => rules[<<s * SubnetSize + h, e>>] > 0
    BY <1>1, <1>2 DEF Address
  <1> QED
    BY <1>4, <1>5, <1>6, <1>7

LEMMA LeaseViewNext == IpamInv' => LeaseView'
  BY LeaseViewHolds, PTL

-----------------------------------------------------------------------------
\* How a step of the container moves it between the cases of Addressed.
Tracks(c) ==
    /\ create[c].flags \subseteq create'[c].flags
    /\ c \in suspect => c \in suspect'
    /\ create'[c].step \in NotAllocated => create[c].step \in NotAllocated
    /\ create[c].step = "gateway" =>
           \/ "address" \in create'[c].flags \/ c \in suspect'
           \/ create'[c].step = "gateway"
    /\ create'[c].step \in AddressUndone =>
           create[c].step \in AddressUndone \/ UndoAddress(c)
    /\ create'[c].step \in {"gateway", "entry"} \/ Established(c)' =>
           create[c].step \in {"gateway", "entry"} \/ Established(c) \/ allocateAddress(c)
    /\ (Deleted(c)' /\ delete'[c] \in {"directory", "cgroup", "none"}) =>
           \/ Deleted(c) /\ delete[c] \in {"directory", "cgroup", "none"}
           \/ releaseAddress(c)

LEMMA CreateTracks ==
    ASSUME TypeOK, NEW c \in Containers, Local(c), CreateStep(c)
    PROVE  Tracks(c)
  <1> USE DEF Tracks, Established, Deleted, At, Moves, AddressUndone, EntryUndone,
              Stored, HasDir, HasCgroup, NotAllocated
  <1>18. suspect \subseteq suspect'
    BY DEF CreateStep, stores, bounds, CreateRequest, PrepareImage, GetBridgeAddr,
        GetBridgeAddrFails, allocateAddress, StoreContainer, setupContainerDirectory,
        setupCgroupSubtree, createContainerSpec, SetupRule, RecordPort, PortsPublished,
        RuntimeCreate, RuntimeCreated, RuntimeCreateFails, CreateFault, UndoAddress,
        UndoEntry, UndoDirectory, UndoCgroup, UndoRules, UndoFault
  <1>1. create \in [Containers -> Request] /\ CsmOK /\ Rest
    BY TypeParts DEF RequestsOK
  <1>2. ASSUME NEW n \in Names, NEW b \in Bridges, NEW ports \in SUBSET ForwardInfos,
               CreateRequest(c, n, b, ports)
        PROVE  Tracks(c)
    <2>1. Moves(c, "image") /\ create'[c].flags = create[c].flags
      BY <1>1, <1>2, CreateRequestEffect
    <2> QED
      BY <1>2, <1>18, <2>1 DEF CreateRequest
  <1>3. CASE PrepareImage(c)
    <2>1. Moves(c, "address") /\ create'[c].flags = create[c].flags
      BY <1>1, <1>3, GotoEffect DEF PrepareImage, Steps
    <2> QED
      BY <1>3, <1>18, <2>1 DEF PrepareImage
  <1>4. CASE allocateAddress(c)
    <2>1. /\ Moves(c, "gateway") \/ Moves(c, "undo address")
          /\ create'[c].flags = create[c].flags
      BY <1>1, <1>4, GotoEffect DEF allocateAddress, Steps
    <2> QED
      BY <1>18, <1>4, <2>1 DEF allocateAddress
  <1>0. CASE GetBridgeAddr(c)
    <2>1. /\ Moves(c, "entry")
          /\ create'[c].flags = create[c].flags \cup {"address"}
      BY <1>0, <1>1, GotoWithFlagEffect DEF GetBridgeAddr, Steps, Flags
    <2> QED
      BY <1>18, <1>0, <2>1 DEF GetBridgeAddr
  <1>17. CASE GetBridgeAddrFails(c)
    <2>1. Moves(c, "undo address") /\ create'[c].flags = create[c].flags
      BY <1>1, <1>17, GotoEffect DEF GetBridgeAddrFails, Steps
    <2> QED
      BY <1>18, <1>17, <2>1 DEF GetBridgeAddrFails
  <1>5. CASE StoreContainer(c)
    <2>1. Moves(c, "directory") /\ create[c].flags \subseteq create'[c].flags
      BY <1>1, <1>5, GotoWithFlagEffect DEF StoreContainer, Steps, Flags
    <2> QED
      BY <1>18, <1>5, <2>1 DEF StoreContainer
  <1>6. CASE setupContainerDirectory(c)
    <2>1. Moves(c, "cgroup") /\ create[c].flags \subseteq create'[c].flags
      BY <1>1, <1>6, GotoWithFlagEffect DEF setupContainerDirectory, Steps, Flags
    <2> QED
      BY <1>18, <1>6, <2>1 DEF setupContainerDirectory, Known
  <1>7. CASE setupCgroupSubtree(c)
    <2>1. Moves(c, "spec") /\ create[c].flags \subseteq create'[c].flags
      BY <1>1, <1>7, GotoWithFlagEffect DEF setupCgroupSubtree, Steps, Flags
    <2> QED
      BY <1>18, <1>7, <2>1 DEF setupCgroupSubtree, Known
  <1>8. CASE createContainerSpec(c)
    <2>1. Moves(c, "ports") /\ create'[c].flags = create[c].flags
      BY <1>1, <1>8, GotoEffect DEF createContainerSpec, Steps
    <2> QED
      BY <1>18, <1>8, <2>1 DEF createContainerSpec, stores, Known
  <1>9. ASSUME NEW f \in ForwardInfos, SetupRule(c, f)
        PROVE  Tracks(c)
    <2>1. Moves(c, "record") /\ create'[c].flags = create[c].flags
      BY <1>1, <1>9, SetupRuleEffect
    <2> QED
      BY <1>18, <1>9, <2>1 DEF SetupRule, Known
  <1>10. CASE RecordPort(c)
    <2>1. Moves(c, "ports") /\ create'[c].flags = create[c].flags
      BY <1>1, <1>10, RecordPortEffect
    <2> QED
      BY <1>18, <1>10, <2>1 DEF RecordPort, Known
  <1>11. CASE PortsPublished(c)
    <2>1. Moves(c, "runtime") /\ create[c].flags \subseteq create'[c].flags
      BY <1>1, <1>11, GotoWithFlagEffect DEF PortsPublished, Steps, Flags
    <2> QED
      BY <1>18, <1>11, <2>1 DEF PortsPublished, stores, Known
  <1>12. CASE RuntimeCreate(c)
    <2>1. Moves(c, "hook") /\ create'[c].flags = create[c].flags
      BY <1>1, <1>12, GotoEffect DEF RuntimeCreate, Steps
    <2>2. Known(c)' = Known(c)
      BY <1>1, <1>12, UpdateContainerEffect DEF RuntimeCreate
    <2> QED
      BY <1>18, <1>12, <2>1, <2>2 DEF RuntimeCreate
  <1>13. CASE RuntimeCreated(c)
    <2>1. Moves(c, "done") /\ create'[c].flags = create[c].flags
      BY <1>1, <1>13, GotoEffect DEF RuntimeCreated, Steps
    <2>2. Known(c)' = Known(c)
      BY <1>1, <1>13, UpdateContainerEffect DEF RuntimeCreated
    <2> QED
      BY <1>18, <1>13, <2>1, <2>2 DEF RuntimeCreated
  <1>14. CASE RuntimeCreateFails(c) \/ CreateFault(c)
    <2>1. Moves(c, "undo address") /\ create'[c].flags = create[c].flags
      BY <1>1, <1>14, GotoEffect DEF RuntimeCreateFails, CreateFault, Steps
    <2> QED
      BY <1>14, <1>18, <2>1 DEF RuntimeCreateFails, CreateFault
  <1>15. CASE UndoAddress(c)
    <2>1. Moves(c, "undo entry") /\ create'[c].flags = create[c].flags
      BY <1>1, <1>15, GotoEffect DEF UndoAddress, Steps
    <2> QED
      BY <1>15, <1>18, <2>1 DEF UndoAddress
  <1>16. CASE \/ UndoEntry(c) \/ UndoDirectory(c) \/ UndoCgroup(c) \/ UndoRules(c)
              \/ UndoFault(c)
    <2>1. /\ \E s \in AddressUndone : Moves(c, s)
          /\ create'[c].flags = create[c].flags
      BY <1>1, <1>16, GotoEffect
      DEF UndoEntry, UndoDirectory, UndoCgroup, UndoRules, UndoFault, Steps
    <2>2. create[c].step \in AddressUndone
      BY <1>16 DEF UndoEntry, UndoDirectory, UndoCgroup, UndoRules, UndoFault
    <2> QED
      BY <1>18, <2>1, <2>2
  <1> QED
    BY <1>2, <1>3, <1>4, <1>5, <1>6, <1>7, <1>8, <1>9, <1>10, <1>11, <1>12, <1>13,
       <1>14, <1>15, <1>16, <1>0, <1>17 DEF CreateStep

LEMMA RunDeleteTracks ==
    ASSUME TypeOK, NEW c \in Containers, Local(c), RunStep(c) \/ DeleteStep(c)
    PROVE  Tracks(c)
  <1> USE DEF Tracks, Established, Deleted
  <1>1. CsmOK /\ Rest
    BY TypeParts
  <1>2. UNCHANGED create
    BY DEF RunStep, DeleteStep, StartRequest, RuntimeRecreate, RuntimeStart, Stop,
           ProcessExits, MonitorDown, Refresh, DeleteRequest, RuntimeDelete,
           DeleteRules, releaseAddress, deleteContainerDirectory, deleteCgroupSubtree,
           DeleteFault
  <1>3. CASE RunStep(c)
    <2>1. Known(c)' <=> Known(c)
      BY <1>1, <1>3, UpdateContainerEffect
      DEF RunStep, StartRequest, RuntimeRecreate, RuntimeStart, Stop, ProcessExits,
          MonitorDown, Refresh, stores, Known
    <2>2. UNCHANGED <<delete, suspect>>
      BY <1>3 DEF RunStep, StartRequest, RuntimeRecreate, RuntimeStart, Stop,
                  ProcessExits, MonitorDown, Refresh, bounds
    <2> QED
      BY <1>2, <2>1, <2>2
  <1>4. CASE RuntimeDelete(c)
    <2>0. UNCHANGED suspect
      BY <1>4 DEF RuntimeDelete, bounds
    <2>1. CASE RemoveContainer(c) /\ DeleteGoto(c, IF Known(c) THEN "rules" ELSE "none")
      <3>1. /\ ~Known(c)' /\ delete'[c] = IF Known(c) THEN "rules" ELSE "none"
            /\ delete[c] = "runtime"
        BY <1>1, <1>4, <2>1, RemoveContainerEffect DEF Rest, DeleteGoto, RuntimeDelete
      <3>2. ~Known(c) => create[c].step # "done"
        BY <3>1 DEF Local, Progress, EntryUndone
      <3> QED
        BY <1>2, <2>0, <3>1, <3>2
    <2>2. CASE DeleteGoto(c, "none") /\ UNCHANGED csm
      <3>1. ~Known(c) => create[c].step # "done"
        BY <1>4 DEF RuntimeDelete, Local, Progress, EntryUndone
      <3> QED
        BY <1>2, <2>0, <2>2, <3>1 DEF Known
    <2> QED
      BY <1>4, <2>1, <2>2 DEF RuntimeDelete
  <1>5. CASE \/ DeleteRequest(c) \/ DeleteRules(c) \/ releaseAddress(c)
             \/ deleteContainerDirectory(c) \/ deleteCgroupSubtree(c) \/ DeleteFault(c)
    <2>1. UNCHANGED csm
      BY <1>5 DEF DeleteRequest, DeleteRules, releaseAddress, deleteContainerDirectory,
                  deleteCgroupSubtree, DeleteFault, stores
    <2>2. \/ delete'[c] \in {"runtime", "address"}
          \/ delete[c] \in {"directory", "cgroup"}
          \/ releaseAddress(c) \/ c \in suspect'
      BY <1>1, <1>5
      DEF DeleteRequest, DeleteRules, releaseAddress, deleteContainerDirectory,
          deleteCgroupSubtree, DeleteFault, DeleteGoto, Rest
    <2>3. suspect \subseteq suspect'
      BY <1>5 DEF DeleteRequest, DeleteRules, releaseAddress, deleteContainerDirectory,
                  deleteCgroupSubtree, DeleteFault, bounds
    <2> QED
      BY <1>2, <2>1, <2>2, <2>3 DEF Known
  <1> QED
    BY <1>3, <1>4, <1>5 DEF DeleteStep

\* A step of one container leaves the leases of the others alone.
LEMMA LeasesOfOthers ==
    ASSUME TypeOK, IpamInv, NEW d \in Containers, HeldOnce(d),
           CreateStep(d) \/ RunStep(d) \/ DeleteStep(d)
    PROVE  \A c \in Containers \ {d} : \A s, f : \A h \in Host :
               Lease(c, s, h, f)' <=> Lease(c, s, h, f)
  <1>1. CASE UNCHANGED pools
    BY <1>1 DEF Lease
  <1>2. CASE allocateAddress(d)
    BY <1>1, <1>2, AllocateLeases DEF allocateAddress, AllocateFails
  <1>3. CASE RecordPort(d)
    <2>1. create[d].port \in ForwardInfos /\ SetForwardInfo(d, create[d].port)
      BY <1>3 DEF RecordPort, TypeOK, At
    <2> QED
      BY <2>1, SetForwardInfoLeases
  <1>4. CASE UndoAddress(d) \/ releaseAddress(d)
    BY <1>1, <1>4, ReleaseLeases DEF UndoAddress, releaseAddress
  <1> QED
    BY <1>1, <1>2, <1>3, <1>4, PoolSteps

LEMMA AddressedOthers ==
    ASSUME TypeOK, IpamInv, IpamInv', NEW d \in Containers, HeldOnce(d),
           CreateStep(d) \/ RunStep(d) \/ DeleteStep(d),
           NEW c \in Containers, c # d, Addressed(c)
    PROVE  Addressed(c)'
  <1>1. Untouched(c)
    BY OtherContainer
  <1>2. \A s, f : \A h \in Host : Lease(c, s, h, f)' <=> Lease(c, s, h, f)
    BY LeasesOfOthers
  <1>3. (HasAddress(c)' <=> HasAddress(c)) /\ (HeldOnce(c)' <=> HeldOnce(c))
    BY <1>2, LeaseViewHolds, LeaseViewNext DEF LeaseView
  <1> QED
    BY <1>1, <1>3 DEF Addressed, Untouched, Established, Deleted, Known, Flagged

\* What the container's own step does to its leases.
LEMMA AddressedOwn ==
    ASSUME TypeOK, IpamInv, IpamInv', NEW c \in Containers,
           CreateStep(c) \/ RunStep(c) \/ DeleteStep(c), Local(c), Local(c)', Addressed(c)
    PROVE  Addressed(c)'
  <1>1. Tracks(c)
    BY CreateTracks, RunDeleteTracks
  <1>2. LeaseView /\ LeaseView'
    BY LeaseViewHolds, LeaseViewNext
  <1>3. CASE allocateAddress(c)
    <2>1. ~HasAddress(c) /\ create[c].step = "address"
      BY <1>3 DEF allocateAddress, At, Addressed, NotAllocated
    <2>2. create \in [Containers -> Request]
      BY TypeParts DEF RequestsOK
    <2>3. CASE Allocate(c, create[c].network) /\ Goto(c, "gateway")
      <3>4. Allocate(c, create[c].network)
        BY <2>3
      <3>0. PICK s : \E h \in Host : \A d \in Containers : \A t, f : \A k \in Host :
               Lease(d, t, k, f)' <=>
                   Lease(d, t, k, f) \/ (d = c /\ t = s /\ k = h /\ f = <<>>)
        BY <3>4, AllocateLeases
      <3>3. \A t, f : \A k \in Host : ~Lease(c, t, k, f)
        BY <1>2, <2>1 DEF LeaseView
      <3>5. PICK h \in Host : \A t, f : \A k \in Host :
               Lease(c, t, k, f)' <=> t = s /\ k = h /\ f = <<>>
        BY <3>0, <3>3
      <3>6. HasAddress(c)'
        <4>1. Lease(c, s, h, <<>>)'
          BY <3>5
        <4> QED
          BY <1>2, <4>1 DEF LeaseView
      <3>7. HeldOnce(c)'
        BY <1>2, <3>5 DEF LeaseView
      <3>1. HasAddress(c)' /\ HeldOnce(c)'
        BY <3>6, <3>7
      <3>2. create'[c].step = "gateway"
        BY <2>2, <2>3, GotoEffect DEF Moves, Steps
      <3> QED
        BY <3>1, <3>2 DEF Addressed, NotAllocated, AddressUndone, EntryUndone, Deleted
    <2>4. CASE UNCHANGED pools /\ Goto(c, "undo address")
      <3>1. create'[c].step = "undo address"
        BY <2>2, <2>4, GotoEffect DEF Moves, Steps
      <3>2. ~HasAddress(c)' /\ HeldOnce(c)'
        BY <2>1, <2>4 DEF HasAddress, HeldOnce
      <3> QED
        BY <3>1, <3>2 DEF Addressed, NotAllocated, AddressUndone, EntryUndone, Deleted,
             Established, Stored, HasDir, HasCgroup
    <2> QED
      BY <1>3, <2>3, <2>4 DEF allocateAddress, AllocateFails
  <1>4. CASE RecordPort(c)
    <2>1. create[c].port \in ForwardInfos /\ SetForwardInfo(c, create[c].port)
      BY <1>4 DEF RecordPort, TypeOK, At
    <2>2. HasAddress(c) /\ HasAddress(c)' /\ HeldOnce(c)'
      <3>1. HeldOnce(c)
        BY DEF Addressed
      <3>2. PICK s, g : \E h \in Host :
               /\ Lease(c, s, h, g)
               /\ \A d \in Containers : \A t, f : \A k \in Host :
                      Lease(d, t, k, f)' <=>
                          IF d = c THEN t = s /\ k = h /\ f = Append(g, create[c].port)
                          ELSE Lease(d, t, k, f)
        BY <2>1, <3>1, SetForwardInfoLeases
      <3>3. PICK h \in Host :
               /\ Lease(c, s, h, g)
               /\ \A t, f : \A k \in Host :
                      Lease(c, t, k, f)' <=>
                          t = s /\ k = h /\ f = Append(g, create[c].port)
        BY <3>2
      <3>4. HasAddress(c) /\ HasAddress(c)'
        <4>1. \E f : Lease(c, s, h, f)'
          BY <3>3
        <4>2. HasAddress(c)' <=> \E t, f : \E k \in Host : Lease(c, t, k, f)'
          BY <1>2 DEF LeaseView
        <4>3. HasAddress(c) <=> \E t, f : \E k \in Host : Lease(c, t, k, f)
          BY <1>2 DEF LeaseView
        <4> QED
          BY <3>3, <4>1, <4>2, <4>3
      <3>5. \A t, u, f, e : \A k, m \in Host :
                Lease(c, t, k, f)' /\ Lease(c, u, m, e)' => t = u /\ k = m
        BY <3>3
      <3>6. HeldOnce(c)'
        BY <1>2, <3>5 DEF LeaseView
      <3> QED
        BY <3>4, <3>6
    <2>3. ~allocateAddress(c) /\ ~UndoAddress(c)
      BY <1>4 DEF RecordPort, allocateAddress, UndoAddress, At
    <2>4. ~Deleted(c)' /\ create'[c].step \notin NotAllocated
      <3>1. create'[c].step = "ports"
        BY <1>4, RecordPortEffect, TypeParts DEF RequestsOK, Moves
      <3> QED
        BY <3>1 DEF Deleted, NotAllocated
    <2> QED
      BY <1>1, <2>2, <2>3, <2>4 DEF Addressed, Tracks, Flagged
  <1>5. CASE UndoAddress(c) \/ releaseAddress(c)
    <2>1. (HasAddress(c)' => c \in suspect') /\ HeldOnce(c)'
      <3>1. CASE Release(c)
        BY <1>2, <3>1, ReleaseLeases DEF Addressed, LeaseView
      <3>2. CASE UndoAddress(c) /\ ~Flagged(c, "address") /\ UNCHANGED pools
        BY <3>2 DEF Addressed, HasAddress, HeldOnce, UndoAddress, At, bounds
      <3> QED
        BY <1>5, <3>1, <3>2 DEF UndoAddress, releaseAddress
    <2>2. /\ create'[c].step \notin NotAllocated \cup {"gateway", "entry"}
          /\ ~Established(c)'
      <3>1. CASE UndoAddress(c)
        <4>1. create'[c].step = "undo entry"
          BY <3>1, TypeParts, GotoEffect DEF UndoAddress, RequestsOK, Moves, Steps
        <4> QED
          BY <4>1 DEF Established, Stored, HasDir, HasCgroup, NotAllocated
      <3>2. CASE releaseAddress(c)
        BY <3>2 DEF releaseAddress, Established, Local, Progress, Cleaning, NotRun,
             NotFlagged, Known
      <3> QED
        BY <1>5, <3>1, <3>2
    <2> QED
      BY <2>1, <2>2 DEF Addressed, Deleted
  <1>6. CASE /\ UNCHANGED pools
             /\ ~allocateAddress(c) /\ ~UndoAddress(c) /\ ~releaseAddress(c)
    <2>1. (HasAddress(c)' <=> HasAddress(c)) /\ (HeldOnce(c)' <=> HeldOnce(c))
      BY <1>6 DEF HasAddress, HeldOnce
    <2> QED
      BY <1>1, <1>6, <2>1 DEF Addressed, Tracks, Flagged
  <1> QED
    BY <1>3, <1>4, <1>5, <1>6, PoolSteps

\* A crash changes no lease.
LEMMA CrashAddressed ==
    ASSUME TypeOK, NEW c \in Containers, Local(c), Addressed(c), Crash
    PROVE  Addressed(c)'
  <1>1. create \in [Containers -> Request]
    BY TypeParts DEF RequestsOK
  <1>2. IF CreateEnded(c) THEN create'[c] = create[c]
        ELSE create'[c].step = "killed" /\ create'[c].flags = create[c].flags
    BY <1>1, CrashEffect
  <1>3. /\ delete'[c] = "none" /\ UNCHANGED <<csm, pools>>
        /\ c \in suspect' <=> \/ c \in suspect
                              \/ ~CreateEnded(c) \/ delete[c] # "none"
    BY DEF Crash, stores
  <1>4. (HasAddress(c)' <=> HasAddress(c)) /\ (HeldOnce(c)' <=> HeldOnce(c))
    BY <1>3 DEF HasAddress, HeldOnce
  <1> QED
    BY <1>2, <1>3, <1>4 DEF Addressed, Established, Deleted, Flagged, CreateEnded, Known,
         NotAllocated, AddressUndone, EntryUndone, Stored, HasDir, HasCgroup

Reclaimed == TypeOK /\ IpamInv /\ \A c \in Containers : Local(c) /\ Addressed(c)

LEMMA InitReclaimed == Init => Reclaimed
  <1> SUFFICES ASSUME Init PROVE Reclaimed
    OBVIOUS
  <1>1. TypeOK /\ IpamInv
    BY InitTypeInv
  <1> SUFFICES ASSUME NEW c \in Containers PROVE Local(c) /\ Addressed(c)
    BY <1>1 DEF Reclaimed
  <1>2. /\ create[c].step = "new" /\ create[c].flags = {} /\ ~Known(c)
        /\ droplet[c] = "none" /\ delete[c] = "none"
    BY DEF Init, NoRequest, Known
  <1>3. \A p \in pools, h \in Host : ~Holds(c, p, h)
    <2>1. \A p \in pools, h \in Host : p.Allocations[h] = Unused
      BY DefaultPoolInv DEF Init, IpamInit
    <2> QED
      BY <2>1, IpamAssumption DEF Unused, Holds
  <1> QED
    BY <1>2, <1>3
    DEF Local, Progress, Files, Addressed, HasAddress, HeldOnce, Cleaning, Deleted,
        Established, EntryUndone, AddressUndone, HasDir, HasCgroup, Stored

LEMMA NextReclaimed == Reclaimed /\ [Next]_vars => Reclaimed'
  <1> SUFFICES ASSUME Reclaimed, [Next]_vars PROVE Reclaimed'
    OBVIOUS
  <1>1. TypeOK' /\ IpamInv'
    BY NextTypeInv DEF Reclaimed
  <1> SUFFICES ASSUME NEW c \in Containers PROVE Local(c)' /\ Addressed(c)'
    BY <1>1 DEF Reclaimed
  <1>2. TypeOK /\ IpamInv /\ Local(c) /\ Addressed(c)
    BY DEF Reclaimed
  <1>3. ASSUME NEW d \in Containers, CreateStep(d) \/ RunStep(d) \/ DeleteStep(d)
        PROVE  Local(c)' /\ Addressed(c)'
    <2>1. Local(c)'
      BY <1>2, <1>3, LocalStep
    <2>2. HeldOnce(d)
      BY DEF Reclaimed, Addressed
    <2> QED
      BY <1>1, <1>2, <1>3, <2>1, <2>2, AddressedOthers, AddressedOwn
  <1>4. CASE Crash
    BY <1>2, <1>4, CrashLocal, CrashAddressed
  <1>5. CASE UNCHANGED vars
    BY <1>2, <1>5
    DEF vars, stores, bounds, Local, Progress, Files, Addressed, HasAddress, HeldOnce,
        Cleaning, Deleted, Established, Known, Flagged
  <1> QED
    BY <1>3, <1>4, <1>5 DEF Next

\* Rollback and Delete give back what they flagged: a container that Create
\* gave up, or that a Delete has finished with, has no address and no csm entry,
\* and after Delete no directory and no cgroup, for every interleaving of
\* Creates, rollbacks, Deletes, Starts, hooks and monitor reports, with faults
\* and crashes.  The containers in suspect are excepted, among them one whose
\* Create could not read the gateway of the address it had taken.  It rests on HeldOnce: Release drops one address, so a container
\* with two of them would keep one.
THEOREM ResourcesAreReclaimed == Spec => []ResourcesReclaimed
  <1>1. Reclaimed => ResourcesReclaimed
    BY DEF Reclaimed, Local, Files, Progress, Addressed, ResourcesReclaimed, Gone,
           Deleted, EntryUndone, AddressUndone
  <1> QED
    BY InitReclaimed, NextReclaimed, <1>1, PTL DEF Spec

-----------------------------------------------------------------------------
\* The iptables rules.

\* A rule goes away only with the ports of the container that is cleaned up.
LEMMA RulesStay ==
    ASSUME TypeOK, IpamInv, NEW d \in Containers,
           CreateStep(d) \/ RunStep(d) \/ DeleteStep(d)
    PROVE  \A k \in Rules : rules[k] > 0 =>
               \/ rules'[k] > 0
               \/ k \in Published(d) /\ (UndoRules(d) \/ DeleteRules(d))
  <1>1. rules \in [Rules -> Nat] /\ create[d].ports \subseteq ForwardInfos
    BY TypeParts DEF Rest, RequestsOK, Request
  <1>2. ASSUME NEW p \in pools, NEW h \in Host, NEW f \in ForwardInfos,
               AddRule(<<Address(p, h), f>>)
        PROVE  \A k \in Rules : rules[k] > 0 => rules'[k] > 0
    <2>1. <<Address(p, h), f>> \in Rules
      BY AddressInRange DEF IpamInv
    <2> QED
      BY <1>1, <1>2, <2>1 DEF AddRule
  <1>3. CASE UNCHANGED rules
    BY <1>3
  <1>4. CASE (UndoRules(d) \/ DeleteRules(d)) /\ cleanupForwardRules(d)
    BY <1>1, <1>4 DEF cleanupForwardRules, deleteForwardRules
  <1>5. CASE (\E f \in ForwardInfos : SetupRule(d, f)) \/ CreateFault(d)
    BY <1>1, <1>2, <1>3, <1>5 DEF SetupRule, CreateFault
  <1>6. \/ UNCHANGED rules
        \/ (\E f \in ForwardInfos : SetupRule(d, f)) \/ CreateFault(d)
        \/ (UndoRules(d) \/ DeleteRules(d)) /\ cleanupForwardRules(d)
    BY DEF CreateStep, RunStep, DeleteStep, stores, CreateRequest, PrepareImage, GetBridgeAddr,
         GetBridgeAddrFails,
        allocateAddress, StoreContainer, setupContainerDirectory, setupCgroupSubtree,
        createContainerSpec, RecordPort, PortsPublished, RuntimeCreate,
        RuntimeCreated, RuntimeCreateFails, UndoAddress, UndoEntry,
        UndoDirectory, UndoCgroup, UndoRules, UndoFault, StartRequest,
        RuntimeRecreate, RuntimeStart, Stop, ProcessExits, MonitorDown, Refresh,
        DeleteRequest, RuntimeDelete, DeleteRules, releaseAddress,
        deleteContainerDirectory, deleteCgroupSubtree, DeleteFault
  <1> QED
    BY <1>3, <1>4, <1>5, <1>6

\* The rules of an address are those of its holder.
LEMMA RulesOfHolder ==
    ASSUME IpamInv, NEW c \in Containers, NEW d \in Containers,
           NEW p \in pools, NEW h \in Host, Holds(c, p, h),
           NEW k \in Published(d), k[1] = Address(p, h)
    PROVE  c = d
  <1>1. PICK q \in pools, j \in Host : Holds(d, q, j) /\ Address(q, j) = k[1]
    BY DEF Published
  <1>2. InUse(p, h) /\ InUse(q, j)
    BY <1>1, IpamAssumption DEF InUse, IsAllocated, Holds
  <1>3. p = q /\ h = j
    BY <1>1, <1>2, AddressesUniqueInv DEF AddressesUnique
  <1> QED
    BY <1>1, <1>3 DEF Holds

\* The two parts of Forwarded, as facts about the present leases.
Installed(c) == \A k \in Published(c) : rules[k] > 0

InHand(c) == \A p \in pools, h \in Host :
                Holds(c, p, h) => rules[<<Address(p, h), create[c].port>>] > 0

\* A port that is published belongs to an address the container holds.
LEMMA PublishedAddress ==
    ASSUME NEW c, NEW k \in Published(c)
    PROVE  k \in Rules /\ \E p \in pools, h \in Host : Holds(c, p, h) /\ Address(p, h) = k[1]
  BY DEF Published

\* Rules are kept where the leases are and nothing is cleaned up.
LEMMA ForwardedOthers ==
    ASSUME TypeOK, IpamInv, IpamInv', NEW d \in Containers, HeldOnce(d),
           CreateStep(d) \/ RunStep(d) \/ DeleteStep(d),
           NEW c \in Containers, c # d, Forwarded(c)
    PROVE  Forwarded(c)'
  <1>1. Untouched(c)
    BY OtherContainer
  <1>2. \A s, f : \A h \in Host : Lease(c, s, h, f)' <=> Lease(c, s, h, f)
    BY LeasesOfOthers
  <1>3. LeaseView /\ LeaseView'
    BY LeaseViewHolds, LeaseViewNext
  <1>4. Installed(c) => Installed(c)'
    <2> SUFFICES ASSUME Installed(c), NEW k \in Published(c)'
                 PROVE  rules'[k] > 0
      BY DEF Installed
    <2>1. k \in Rules
      BY DEF Published
    <2>2. k \in Published(c)
      BY <1>2, <1>3, <2>1 DEF LeaseView
    <2>3. k \notin Published(d)
      BY <2>2, PublishedAddress, RulesOfHolder
    <2> QED
      BY <2>1, <2>2, <2>3, RulesStay DEF Installed
  <1>5. ASSUME InHand(c), create[c].port \in ForwardInfos
        PROVE  InHand(c)'
    <2> DEFINE e == create[c].port
    <2>1. \A s, f : \A h \in Host :
              Lease(c, s, h, f) => rules[<<s * SubnetSize + h, e>>] > 0
      BY <1>3, <1>5 DEF LeaseView, InHand
    <2>2. ASSUME NEW s, NEW f, NEW h \in Host, Lease(c, s, h, f)
          PROVE  rules'[<<s * SubnetSize + h, e>>] > 0
      <3>1. PICK p \in pools : p.Subnet = s /\ Holds(c, p, h)
        BY <2>2, HoldsLease
      <3>2. <<Address(p, h), e>> \in Rules
        BY <1>5, AddressInRange DEF IpamInv
      <3>3. <<Address(p, h), e>> \notin Published(d)
        BY <3>1, RulesOfHolder
      <3>4. Address(p, h) = s * SubnetSize + h
        BY <3>1 DEF Address
      <3> QED
        BY <2>1, <2>2, <3>2, <3>3, <3>4, RulesStay
    <2>3. create'[c].port = e
      BY <1>1 DEF Untouched
    <2> HIDE DEF e
    <2>4. \A s, f : \A h \in Host :
              Lease(c, s, h, f)' => rules'[<<s * SubnetSize + h, e>>] > 0
      BY <1>2, <2>2
    <2>5. \A p \in pools', h \in Host :
              Holds(c, p, h) => rules'[<<Address(p, h), e>>] > 0
      BY <1>3, <2>4 DEF LeaseView
    <2> QED
      BY <2>3, <2>5 DEF InHand
  <1>6. create[c].step = "record" => create[c].port \in ForwardInfos
    BY DEF TypeOK, At
  <1> QED
    BY <1>1, <1>4, <1>5, <1>6
    DEF Forwarded, Installed, InHand, Untouched, Established, Known

\* Where the pools stay, the rules of a container are only taken away by its own
\* cleanup.
LEMMA InstalledStays ==
    ASSUME TypeOK, IpamInv, NEW c \in Containers,
           CreateStep(c) \/ RunStep(c) \/ DeleteStep(c),
           UNCHANGED pools, ~UndoRules(c), ~DeleteRules(c), Installed(c)
    PROVE  Installed(c)'
  <1>1. Published(c)' = Published(c)
    BY DEF Published
  <1> QED
    BY <1>1, RulesStay, PublishedAddress DEF Installed

\* setupForwardRule records the port after its rule is in place.
LEMMA RecordPortInstalled ==
    ASSUME TypeOK, IpamInv, IpamInv', NEW c \in Containers, HeldOnce(c),
           RecordPort(c), Installed(c), InHand(c)
    PROVE  Installed(c)'
  <1> DEFINE e == create[c].port
  <1>1. LeaseView /\ LeaseView'
    BY LeaseViewHolds, LeaseViewNext
  <1>2. e \in ForwardInfos /\ SetForwardInfo(c, e) /\ UNCHANGED rules
    BY DEF RecordPort, TypeOK, At
  <1>3. \A s, f : \A h \in Host :
            Lease(c, s, h, f) => rules[<<s * SubnetSize + h, e>>] > 0
    BY <1>1 DEF LeaseView, InHand
  <1> HIDE DEF e
  <1>4. PICK s, g : \E h \in Host :
            /\ g \in Seq(ForwardInfos) /\ Lease(c, s, h, g)
            /\ \A t, f : \A k \in Host :
                   Lease(c, t, k, f)' <=> t = s /\ k = h /\ f = Append(g, e)
    BY <1>2, SetForwardInfoLeases
  <1>5. PICK h \in Host :
            /\ g \in Seq(ForwardInfos) /\ Lease(c, s, h, g)
            /\ \A t, f : \A k \in Host :
                   Lease(c, t, k, f)' <=> t = s /\ k = h /\ f = Append(g, e)
    BY <1>4
  <1> SUFFICES ASSUME NEW r \in Published(c)'
               PROVE  rules[r] > 0
    BY <1>2 DEF Installed
  <1>6. r \in Rules
    BY DEF Published
  <1>7. s * SubnetSize + h = r[1] /\ \E i \in DOMAIN Append(g, e) : Append(g, e)[i] = r[2]
    <2>1. \E t, f : \E k \in Host :
              /\ Lease(c, t, k, f)' /\ t * SubnetSize + k = r[1]
              /\ \E i \in DOMAIN f : f[i] = r[2]
      BY <1>1, <1>6 DEF LeaseView
    <2> QED
      BY <1>5, <2>1
  <1>8. r[2] = e \/ \E i \in DOMAIN g : g[i] = r[2]
    BY <1>2, <1>5, <1>7
  <1>9. CASE r[2] = e
    <2>1. r = <<s * SubnetSize + h, e>>
      BY <1>6, <1>7, <1>9 DEF Rules
    <2> QED
      BY <1>3, <1>5, <2>1
  <1>10. CASE \E i \in DOMAIN g : g[i] = r[2]
    <2>1. r \in Published(c)
      BY <1>1, <1>5, <1>6, <1>7, <1>10 DEF LeaseView
    <2> QED
      BY <2>1 DEF Installed
  <1> QED
    BY <1>8, <1>9, <1>10

\* The other half: the rule is in place when the port is in hand.
LEMMA SetupRuleInHand ==
    ASSUME TypeOK, IpamInv, NEW c \in Containers, HeldOnce(c), NEW f \in ForwardInfos,
           SetupRule(c, f)
    PROVE  InHand(c)'
  <1>1. PICK p \in pools, h \in Host : Holds(c, p, h) /\ AddRule(<<Address(p, h), f>>)
    BY DEF SetupRule
  <1>2. <<Address(p, h), f>> \in Rules
    BY AddressInRange DEF IpamInv
  <1>3. rules'[<<Address(p, h), f>>] > 0
    BY <1>1, <1>2, TypeParts DEF Rest, AddRule
  <1>4. create'[c].port = f
    BY TypeParts, SetupRuleEffect DEF RequestsOK
  <1>5. UNCHANGED pools /\ \A q \in pools, k \in Host : Holds(c, q, k) => q = p /\ k = h
    BY <1>1 DEF HeldOnce, SetupRule
  <1> QED
    BY <1>3, <1>4, <1>5 DEF InHand

LEMMA ForwardedOwn ==
    ASSUME TypeOK, IpamInv, IpamInv', NEW c \in Containers,
           CreateStep(c) \/ RunStep(c) \/ DeleteStep(c),
           Local(c), Local(c)', Addressed(c), Forwarded(c)
    PROVE  Forwarded(c)'
  <1>1. Tracks(c)
    BY CreateTracks, RunDeleteTracks
  <1>2. /\ create[c].step \in {"gateway", "entry"} \/ Established(c) => Installed(c)
        /\ create[c].step = "record" /\ Known(c) => InHand(c)
        /\ HeldOnce(c)
    BY DEF Forwarded, Installed, InHand, Addressed
  <1>3. create \in [Containers -> Request]
    BY TypeParts DEF RequestsOK
  <1>4. create'[c].step \in {"gateway", "entry"} \/ Established(c)' => Installed(c)'
    <2> SUFFICES ASSUME create'[c].step \in {"gateway", "entry"} \/ Established(c)'
                 PROVE  Installed(c)'
      OBVIOUS
    <2>1. CASE allocateAddress(c)
      <3>1. ~HasAddress(c)
        BY <2>1 DEF allocateAddress, At, Addressed, NotAllocated
      <3>2. Allocate(c, create[c].network)
        <4>1. ~Goto(c, "undo address")
          BY <1>3, GotoEffect DEF Moves, Steps, Established, Stored, HasDir, HasCgroup
        <4> QED
          BY <2>1, <4>1 DEF allocateAddress
      <3>3. \A t, f : \A k \in Host : Lease(c, t, k, f)' => f = <<>>
        BY <3>1, <3>2, AllocateLeases, LeaseViewHolds DEF LeaseView
      <3>4. \A r \in Rules : r \notin Published(c)'
        BY <3>3, LeaseViewNext DEF LeaseView
      <3> QED
        BY <3>4 DEF Installed, Published
    <2>2. ASSUME ~allocateAddress(c) PROVE Installed(c)
      BY <1>1, <1>2, <2>2 DEF Tracks
    <2>3. ~UndoAddress(c) /\ ~UndoRules(c)
      BY <1>3, GotoEffect
      DEF UndoAddress, UndoRules, Moves, Steps, Established, Stored, HasDir, HasCgroup
    <2>4. ~releaseAddress(c) /\ ~DeleteRules(c)
      BY DEF releaseAddress, DeleteRules, Local, Progress, Cleaning, Established, Known,
             NotRun, NotFlagged
    <2>5. CASE RecordPort(c)
      <3>1. create[c].step = "record" /\ UNCHANGED csm /\ create'[c].step = "ports"
        BY <1>3, <2>5, RecordPortEffect DEF RecordPort, At, Moves
      <3>2. InHand(c) /\ ~allocateAddress(c)
        BY <1>2, <3>1 DEF Established, Known, allocateAddress, At
      <3> QED
        BY <1>2, <2>2, <2>5, <3>2, RecordPortInstalled
    <2> QED
      BY <2>1, <2>2, <2>3, <2>4, <2>5, PoolSteps, InstalledStays
  <1>5. (create'[c].step = "record" /\ Known(c)') => InHand(c)'
    <2> SUFFICES ASSUME create'[c].step = "record", Known(c)' PROVE InHand(c)'
      OBVIOUS
    <2>1. CASE \E f \in ForwardInfos : SetupRule(c, f)
      BY <1>2, <2>1, SetupRuleInHand
    <2>2. CASE RunStep(c) \/ DeleteStep(c)
      <3>1. UNCHANGED create
        BY <2>2 DEF RunStep, DeleteStep, StartRequest, RuntimeRecreate, RuntimeStart,
             Stop, ProcessExits, MonitorDown, Refresh, DeleteRequest, RuntimeDelete,
             DeleteRules, releaseAddress, deleteContainerDirectory,
             deleteCgroupSubtree, DeleteFault
      <3>2. ~releaseAddress(c) /\ ~DeleteRules(c)
        BY <3>1 DEF releaseAddress, DeleteRules, Local, Progress, Cleaning, Known, NotRun,
             NotFlagged
      <3>3. UNCHANGED <<pools, rules>>
        BY <2>2, <3>2
        DEF RunStep, DeleteStep, StartRequest, RuntimeRecreate, RuntimeStart,
             Stop, ProcessExits, MonitorDown, Refresh, DeleteRequest, RuntimeDelete,
             deleteContainerDirectory, deleteCgroupSubtree, DeleteFault, stores
      <3>4. Known(c)
        <4>1. ~StoreContainer(c)
          BY <3>1 DEF StoreContainer, At
        <4> QED
          BY <4>1, TypeParts, CsmSteps, UpdateContainerEffect, RemoveContainerEffect
          DEF Known
      <3> QED
        BY <1>2, <3>1, <3>3, <3>4 DEF InHand
    <2>3. CASE CreateStep(c)
      <3>1. CASE RecordPort(c)
        BY <1>3, <3>1, RecordPortEffect DEF Moves
      <3>2. ASSUME NEW n \in Names, NEW b \in Bridges,
                   NEW ports \in SUBSET ForwardInfos, CreateRequest(c, n, b, ports)
            PROVE  FALSE
        BY <1>3, <3>2, CreateRequestEffect DEF Moves
      <3>3. ASSUME NEW s \in Steps \ {"record"},
                   Goto(c, s) \/ \E f \in Flags : GotoWithFlag(c, s, f)
            PROVE  FALSE
        BY <1>3, <3>3, GotoEffect, GotoWithFlagEffect DEF Moves
      <3> QED
        BY <2>1, <2>3, <3>1, <3>2, <3>3
        DEF CreateStep, PrepareImage, allocateAddress, GetBridgeAddr,
            GetBridgeAddrFails, StoreContainer, Steps, Flags,
            setupContainerDirectory, setupCgroupSubtree, createContainerSpec,
            PortsPublished, RuntimeCreate, RuntimeCreated, RuntimeCreateFails,
            CreateFault, UndoAddress, UndoEntry, UndoDirectory, UndoCgroup, UndoRules,
            UndoFault
    <2> QED
      BY <2>2, <2>3
  <1> QED
    BY <1>4, <1>5 DEF Forwarded, Installed, InHand

LEMMA CrashForwarded ==
    ASSUME TypeOK, NEW c \in Containers, Forwarded(c), Crash
    PROVE  Forwarded(c)'
  <1>1. IF CreateEnded(c) THEN create'[c] = create[c]
        ELSE create'[c].step = "killed"
    BY CrashEffect, TypeParts DEF RequestsOK
  <1>2. UNCHANGED <<csm, pools, rules>> /\ Published(c)' = Published(c)
    BY DEF Crash, stores, Published
  <1> QED
    BY <1>1, <1>2
    DEF Forwarded, Established, CreateEnded, Known, Stored, HasDir, HasCgroup

LEMMA InitContainerInv == Init => ContainerInv
  <1> SUFFICES ASSUME Init PROVE ContainerInv
    OBVIOUS
  <1>1. Reclaimed
    BY InitReclaimed
  <1>2. \A c \in Containers : Forwarded(c)
    BY DEF Init, NoRequest, Forwarded, Established, Stored, HasDir, HasCgroup
  <1> QED
    BY <1>1, <1>2 DEF Reclaimed, Local, ContainerInv

LEMMA NextContainerInv == ContainerInv /\ [Next]_vars => ContainerInv'
  <1> SUFFICES ASSUME ContainerInv, [Next]_vars PROVE ContainerInv'
    OBVIOUS
  <1>1. Reclaimed /\ Reclaimed'
    BY NextReclaimed DEF ContainerInv, Reclaimed, Local
  <1> SUFFICES ASSUME NEW c \in Containers PROVE Forwarded(c)'
    BY <1>1 DEF Reclaimed, Local, ContainerInv
  <1>2. /\ TypeOK /\ IpamInv /\ IpamInv' /\ Local(c) /\ Local(c)'
        /\ Addressed(c) /\ Forwarded(c)
    BY <1>1 DEF Reclaimed, ContainerInv
  <1>3. ASSUME NEW d \in Containers, CreateStep(d) \/ RunStep(d) \/ DeleteStep(d)
        PROVE  Forwarded(c)'
    <2>1. HeldOnce(d)
      BY <1>1 DEF Reclaimed, Addressed
    <2> QED
      BY <1>2, <1>3, <2>1, ForwardedOthers, ForwardedOwn
  <1>4. CASE Crash
    BY <1>2, <1>4, CrashForwarded
  <1>5. CASE UNCHANGED vars
    <2>1. Published(c)' = Published(c)
      BY <1>5 DEF vars, stores, Published
    <2> QED
      BY <1>2, <1>5, <2>1 DEF vars, stores, Forwarded, Established, Known
  <1> QED
    BY <1>3, <1>4, <1>5 DEF Next

\* The inductive invariant of the life of a container.
THEOREM ContainerInvariant == Spec => []ContainerInv
  BY InitContainerInv, NextContainerInv, PTL DEF Spec

\* A container that is up in the runtime has its address, its directory, its
\* cgroup and the iptables rules of its published ports: no step of another
\* request, no stale read of the state and no crash takes them from under it.
THEOREM LiveContainersAreWhole == Spec => []LiveHasResources
  <1>1. ContainerInv => LiveHasResources
    <2> SUFFICES ASSUME ContainerInv, NEW c \in Containers,
                        create[c].step = "done", droplet[c] \in {"created", "running"}
                 PROVE  /\ HasAddress(c) /\ c \in dirs /\ c \in cgroups
                        /\ \A k \in Published(c) : rules[k] > 0
      BY DEF LiveHasResources
    <2>1. Progress(c) /\ Files(c) /\ Addressed(c) /\ Forwarded(c)
      BY DEF ContainerInv
    <2>2. Known(c)
      BY <2>1 DEF Progress
    <2>3. create[c].step \in HasCgroup /\ Established(c)
      BY <2>2 DEF Established, Stored, HasDir, HasCgroup
    <2> QED
      BY <2>1, <2>2, <2>3 DEF Files, Addressed, Forwarded, HasDir
  <1> QED
    BY ContainerInvariant, <1>1, PTL

\* The container service uses the address manager by its operations only: what
\* IpamProofs shows of IpamSpec, ForwardsFollowHolder included, holds of the
\* addresses of the containers.
THEOREM ContainerImplementsIpam == Spec => IpamSpec
  <1>1. Init => IpamInit
    BY DEF Init
  <1>2. TypeOK /\ [Next]_vars => [IpamNext]_ipamVars
    <2> SUFFICES ASSUME TypeOK, [Next]_vars PROVE IpamNext \/ UNCHANGED pools
      BY DEF ipamVars
    <2>1. ASSUME NEW c \in Containers, CreateStep(c) \/ RunStep(c) \/ DeleteStep(c)
          PROVE  IpamNext \/ UNCHANGED pools
      <3>1. CASE allocateAddress(c)
        <4>1. create[c].network \in Bridges
          BY <3>1 DEF allocateAddress, TypeOK, At
        <4> QED
          BY <3>1, <4>1 DEF allocateAddress, AllocateFails, IpamNext
      <3>2. CASE RecordPort(c)
        <4>1. create[c].port \in ForwardInfos
          BY <3>2 DEF RecordPort, TypeOK, At
        <4> QED
          BY <3>2, <4>1 DEF RecordPort, IpamNext
      <3>3. CASE UndoAddress(c) \/ releaseAddress(c)
        BY <3>3 DEF UndoAddress, releaseAddress, IpamNext
      <3> QED
        BY <2>1, <3>1, <3>2, <3>3, PoolSteps
    <2>2. CASE Crash \/ UNCHANGED vars
      BY <2>2 DEF Crash, vars, stores
    <2> QED
      BY <2>1, <2>2 DEF Next
  <1> QED
    BY <1>1, <1>2, ContainerTypeCorrect, PTL DEF Spec, IpamSpec
=============================================================================
