-------------------------------- MODULE Ipam --------------------------------
(***************************************************************************)
(* The IP address manager, internal/store/ipam.  Its state is the file     *)
(* ipam.json; every operation runs inside withLock (see FileStore) and is  *)
(* therefore one atomic step; an operation that returns an error saves     *)
(* nothing and is a stuttering step.                                       *)
(*                                                                         *)
(* The runtime subnet (a /16 in the code) is NumSubnets consecutive /24    *)
(* networks of SubnetSize addresses.  An address is the number             *)
(* Subnet * SubnetSize + host, relative to the runtime subnet.  The slice  *)
(* IpamState.Pools is the set of its elements: the order of the slice only *)
(* decides between two pools of one interface, and BridgesUnique says that *)
(* there are none, and between two addresses of one container, where the   *)
(* iteration over a Go map is arbitrary anyway.                            *)
(***************************************************************************)
EXTENDS Integers, Sequences, FiniteSets

CONSTANTS
    Containers,     \* container ids
    NoContainer,    \* the holder of a free address
    Bridges,        \* bridge interface names
    DefaultBridge,  \* "raind0"
    ForwardInfos,   \* published ports: host port, container port and protocol
    SubnetSize,     \* addresses of one pool, 256 in the code
    NumSubnets,     \* /24 networks of the runtime subnet, 256 in the code
    MaxForwards     \* bound on the ports published for one container

ASSUME IpamAssumption ==
    /\ SubnetSize \in Nat /\ SubnetSize >= 4
    /\ NumSubnets \in Nat /\ NumSubnets >= 1
    /\ DefaultBridge \in Bridges
    /\ NoContainer \notin Containers
    /\ MaxForwards \in Nat

VARIABLE pools      \* IpamState.Pools

ipamVars == <<pools>>

-----------------------------------------------------------------------------
\* The addresses of a pool, by their last byte: broadcastIPv4 is the last one,
\* and StoreBridge puts the bridge itself (the gateway) on the one before it.
Host == 0..(SubnetSize - 1)
Gateway == SubnetSize - 2
Broadcast == SubnetSize - 1
Reserved == {0, Gateway, Broadcast}
Subnets == 0..(NumSubnets - 1)

Address(p, h) == p.Subnet * SubnetSize + h

\* A pool's Allocations map is a total function; an address that is not a key
\* of the map is mapped to Unused.
Allocation == [ContainerId: Containers \cup {NoContainer},
               Forwards: Seq(ForwardInfos)]
Unused == [ContainerId |-> NoContainer, Forwards |-> <<>>]
Pool == [Interface: Bridges, Subnet: Subnets, Allocations: [Host -> Allocation]]

NewPool(b, s) == [Interface |-> b, Subnet |-> s,
                  Allocations |-> [h \in Host |-> Unused]]

IsAllocated(p, h) == p.Allocations[h].ContainerId # NoContainer

Holds(c, p, h) == p.Allocations[h].ContainerId = c

HasAddress(c) == \E p \in pools, h \in Host : Holds(c, p, h)

\* The least element of a set of numbers.
IsLeast(n, S) == n \in S /\ \A m \in S : n <= m

-----------------------------------------------------------------------------
\* Slip: the gateway is not on the list of reserved addresses.
FreeHostsWithGateway(p) == {h \in Host \ {0, Broadcast} : ~IsAllocated(p, h)}

\* findFreeIpv4 returns the first address after the network address that is
\* neither reserved nor a key of the map (module IpamScan has the loop).
FreeHosts(p) == {h \in Host \ Reserved : ~IsAllocated(p, h)}

findFreeIpv4(p, h) == IsLeast(h, FreeHosts(p))

\* The /24 networks of the runtime subnet that no pool uses.
FreeSubnets == Subnets \ {p.Subnet : p \in pools}

SetAllocation(p, h, a) ==
    pools' = (pools \ {p}) \cup {[p EXCEPT !.Allocations[h] = a]}

Allocate(c, b) ==
    \E p \in pools, h \in Host :
        /\ p.Interface = b
        /\ findFreeIpv4(p, h)
        /\ SetAllocation(p, h, [ContainerId |-> c, Forwards |-> <<>>])

\* Allocate returns an error: the bridge is unknown, or its pool is full.
AllocateFails(b) ==
    /\ \A p \in pools : p.Interface = b => FreeHosts(p) = {}
    /\ UNCHANGED pools

\* Release drops the first allocation of the container that it meets, and
\* succeeds without one.
Release(c) ==
    \/ \E p \in pools, h \in Host :
        /\ Holds(c, p, h)
        /\ SetAllocation(p, h, Unused)
    \/ /\ ~HasAddress(c)
       /\ UNCHANGED pools

\* Slip: the forwards are assigned instead of appended to.
SetForwardInfoReplaced(c, f) ==
    \E p \in pools, h \in Host :
        /\ Holds(c, p, h)
        /\ SetAllocation(p, h, [ContainerId |-> c, Forwards |-> <<f>>])

SetForwardInfo(c, f) ==
    \E p \in pools, h \in Host :
        /\ Holds(c, p, h)
        /\ Len(p.Allocations[h].Forwards) < MaxForwards
        /\ SetAllocation(p, h,
               [p.Allocations[h] EXCEPT !.Forwards = Append(@, f)])

\* Slips: the search for a free /24 runs past the runtime subnet; a bridge
\* with the name is not looked for; the next /24 is the number of pools.
StoreBridgePastEnd(b) ==
    /\ \A p \in pools : p.Interface # b
    /\ \E s \in 0..NumSubnets :
        /\ IsLeast(s, (0..NumSubnets) \ {p.Subnet : p \in pools})
        /\ pools' = pools \cup {NewPool(b, s)}

StoreBridgeAgain(b) ==
    \E s \in Subnets :
        /\ IsLeast(s, FreeSubnets)
        /\ pools' = pools \cup {NewPool(b, s)}

StoreBridgeByCount(b) ==
    /\ \A p \in pools : p.Interface # b
    /\ Cardinality(pools) \in Subnets
    /\ pools' = pools \cup {NewPool(b, Cardinality(pools))}

StoreBridge(b) ==
    /\ \A p \in pools : p.Interface # b
    /\ \E s \in Subnets :
        /\ IsLeast(s, FreeSubnets)
        /\ pools' = pools \cup {NewPool(b, s)}

\* The allocations of the pool go with it, whoever holds them.
RemoveBridge(b) ==
    /\ \E p \in pools : p.Interface = b
    /\ pools' = {p \in pools : p.Interface # b}

\* SetupRuntime calls SetConfig at every start of the daemon.
SetConfig ==
    pools' = IF pools = {} THEN {NewPool(DefaultBridge, 0)} ELSE pools

-----------------------------------------------------------------------------
\* loadOrInit of a missing file.
IpamInit == pools = {NewPool(DefaultBridge, 0)}

IpamNext ==
    \/ \E c \in Containers, b \in Bridges : Allocate(c, b)
    \/ \E c \in Containers : Release(c)
    \/ \E c \in Containers, f \in ForwardInfos : SetForwardInfo(c, f)
    \/ \E b \in Bridges : StoreBridge(b) \/ RemoveBridge(b)
    \/ SetConfig

IpamSpec == IpamInit /\ [][IpamNext]_ipamVars

-----------------------------------------------------------------------------
IpamTypeOK == pools \in SUBSET Pool

\* StoreBridge refuses a second pool for an interface, so the "first pool of
\* the bridge" that Allocate and GetBridgeAddr look for is the only one.
BridgesUnique ==
    \A p, q \in pools : p.Interface = q.Interface => p = q

\* Two pools are never cut from the same /24, across any sequence of bridge
\* creations and removals.
SubnetsDisjoint ==
    \A p, q \in pools : p.Subnet = q.Subnet => p = q

\* No container is given the network, the gateway or the broadcast address,
\* and a free address carries no published ports.
ReservedFree ==
    \A p \in pools : /\ \A h \in Reserved : ~IsAllocated(p, h)
                     /\ \A h \in Host : ~IsAllocated(p, h) =>
                            p.Allocations[h] = Unused

\* An interface of the bridge networks has the address: the bridge of the pool
\* or the veth of a container.
InUse(p, h) == h = Gateway \/ IsAllocated(p, h)

\* GetInfoByIp, the policy chains and the forwarding rules identify a
\* container by its address: no two interfaces (bridges and containers, of all
\* pools) have the same one.
AddressesUnique ==
    \A p, q \in pools, h, k \in Host :
        (InUse(p, h) /\ InUse(q, k) /\ Address(p, h) = Address(q, k)) =>
            p = q /\ h = k

\* What a step may do to the holder of an address and its published ports.
Follows(old, new) ==
    IF old.ContainerId = new.ContainerId
    THEN /\ Len(new.Forwards) >= Len(old.Forwards)
         /\ SubSeq(new.Forwards, 1, Len(old.Forwards)) = old.Forwards
    ELSE new.Forwards = <<>>

ForwardsKept ==
    \A p \in pools, q \in pools', h \in Host :
        (p.Subnet = q.Subnet /\ IsAllocated(q, h)) =>
            Follows(p.Allocations[h], q.Allocations[h])

\* A published port (SetForwardInfo) belongs to the container it was published
\* for: the next holder of the address starts without forwards, and while a
\* container keeps its address it loses none.
ForwardsFollowHolder == [][ForwardsKept]_ipamVars
=============================================================================
