----------------------------- MODULE IpamProofs -----------------------------
(***************************************************************************)
(* Proofs about the address manager, for any number of containers,         *)
(* bridges and networks and any network size.                              *)
(***************************************************************************)
EXTENDS IpamScan, WellFoundedInduction, TLAPS

\* A pool whose map is updated at one address is a pool again.
LEMMA UpdatedPool ==
    ASSUME NEW p \in Pool, NEW h \in Host, NEW a \in Allocation
    PROVE  /\ [p EXCEPT !.Allocations[h] = a] \in Pool
           /\ [p EXCEPT !.Allocations[h] = a].Interface = p.Interface
           /\ [p EXCEPT !.Allocations[h] = a].Subnet = p.Subnet
           /\ [p EXCEPT !.Allocations[h] = a].Allocations =
                  [p.Allocations EXCEPT ![h] = a]
  BY DEF Pool

\* A new pool is a pool without allocations.
LEMMA NewPoolIsPool ==
    ASSUME NEW b \in Bridges, NEW s \in Subnets
    PROVE  /\ NewPool(b, s) \in Pool
           /\ NewPool(b, s).Interface = b
           /\ NewPool(b, s).Subnet = s
           /\ \A h \in Host : NewPool(b, s).Allocations[h] = Unused
  BY DEF NewPool, Pool, Allocation, Unused

\* The facts an update of one address leaves to prove: SetAllocation replaces
\* one pool by a pool of the same bridge and network.
IpamInv == IpamTypeOK /\ BridgesUnique /\ SubnetsDisjoint /\ ReservedFree

LEMMA SetAllocationInv ==
    ASSUME IpamInv, NEW p \in pools, NEW h \in Host, NEW a \in Allocation,
           SetAllocation(p, h, a),
           h \in Reserved => a.ContainerId = NoContainer,
           a.ContainerId = NoContainer => a = Unused
    PROVE  IpamInv'
  <1> DEFINE q == [p EXCEPT !.Allocations[h] = a]
  <1>1. p \in Pool
    BY DEF IpamInv, IpamTypeOK
  <1>2. /\ q \in Pool /\ q.Interface = p.Interface /\ q.Subnet = p.Subnet
        /\ q.Allocations = [p.Allocations EXCEPT ![h] = a]
    BY <1>1, UpdatedPool
  <1>3. pools' = (pools \ {p}) \cup {q}
    BY DEF SetAllocation
  <1> HIDE DEF q
  <1>4. IpamTypeOK'
    BY <1>2, <1>3 DEF IpamInv, IpamTypeOK
  <1>5. BridgesUnique'
    BY <1>2, <1>3 DEF IpamInv, BridgesUnique
  <1>6. SubnetsDisjoint'
    BY <1>2, <1>3 DEF IpamInv, SubnetsDisjoint
  <1>7. ReservedFree'
    <2> SUFFICES ASSUME NEW r \in pools'
                 PROVE  /\ \A k \in Reserved : ~IsAllocated(r, k)
                        /\ \A k \in Host : ~IsAllocated(r, k) =>
                               r.Allocations[k] = Unused
      BY DEF ReservedFree
    <2>1. CASE r \in pools
      BY <2>1 DEF IpamInv, ReservedFree
    <2>2. CASE r = q
      <3>1. p.Allocations \in [Host -> Allocation]
        BY <1>1 DEF Pool
      <3>2. \A k \in Host : r.Allocations[k] = IF k = h THEN a ELSE p.Allocations[k]
        BY <1>2, <2>2, <3>1
      <3>3. Reserved \subseteq Host
        BY IpamAssumption DEF Reserved, Host, Gateway, Broadcast
      <3>4. /\ \A k \in Reserved : p.Allocations[k].ContainerId = NoContainer
            /\ \A k \in Host : p.Allocations[k].ContainerId = NoContainer =>
                   p.Allocations[k] = Unused
        BY DEF IpamInv, ReservedFree, IsAllocated
      <3> QED
        BY <3>2, <3>3, <3>4 DEF IsAllocated
    <2> QED
      BY <1>3, <2>1, <2>2
  <1> QED
    BY <1>4, <1>5, <1>6, <1>7 DEF IpamInv

\* Each operation of the address manager keeps the invariant.
LEMMA AllocateInv ==
    ASSUME IpamInv, NEW c \in Containers, NEW b \in Bridges, Allocate(c, b)
    PROVE  IpamInv'
  <1>1. PICK p \in pools, h \in Host :
            /\ findFreeIpv4(p, h)
            /\ SetAllocation(p, h, [ContainerId |-> c, Forwards |-> <<>>])
    BY DEF Allocate
  <1> DEFINE a == [ContainerId |-> c, Forwards |-> <<>>]
  <1>2. a \in Allocation /\ a.ContainerId = c
    BY DEF Allocation
  <1>3. h \notin Reserved
    BY <1>1 DEF findFreeIpv4, IsLeast, FreeHosts
  <1>4. c # NoContainer
    BY IpamAssumption
  <1> HIDE DEF a
  <1>5. SetAllocation(p, h, a)
    BY <1>1 DEF a
  <1> QED
    BY <1>2, <1>3, <1>4, <1>5, SetAllocationInv

LEMMA ReleaseInv ==
    ASSUME IpamInv, NEW c \in Containers, Release(c)
    PROVE  IpamInv'
  <1>1. CASE UNCHANGED pools
    BY <1>1 DEF IpamInv, IpamTypeOK, BridgesUnique, SubnetsDisjoint, ReservedFree,
                IsAllocated
  <1>2. ASSUME NEW p \in pools, NEW h \in Host, SetAllocation(p, h, Unused)
        PROVE  IpamInv'
    <2>1. Unused \in Allocation /\ Unused.ContainerId = NoContainer
      BY DEF Allocation, Unused
    <2> QED
      BY <1>2, <2>1, SetAllocationInv
  <1> QED
    BY <1>1, <1>2 DEF Release

\* Recording one more port changes nothing else of an allocation.
LEMMA AppendedForward ==
    ASSUME NEW x \in Allocation, NEW f \in ForwardInfos
    PROVE  /\ [x EXCEPT !.Forwards = Append(@, f)] \in Allocation
           /\ [x EXCEPT !.Forwards = Append(@, f)].ContainerId = x.ContainerId
           /\ [x EXCEPT !.Forwards = Append(@, f)].Forwards = Append(x.Forwards, f)
  <1>1. x.Forwards \in Seq(ForwardInfos)
    BY DEF Allocation
  <1>2. Append(x.Forwards, f) \in Seq(ForwardInfos)
    BY <1>1
  <1> QED
    BY <1>2 DEF Allocation

LEMMA SetForwardInfoInv ==
    ASSUME IpamInv, NEW c \in Containers, NEW f \in ForwardInfos,
           SetForwardInfo(c, f)
    PROVE  IpamInv'
  <1>1. PICK p \in pools, h \in Host :
            /\ Holds(c, p, h)
            /\ SetAllocation(p, h,
                   [p.Allocations[h] EXCEPT !.Forwards = Append(@, f)])
    BY DEF SetForwardInfo
  <1> DEFINE a == [p.Allocations[h] EXCEPT !.Forwards = Append(@, f)]
  <1>2. p.Allocations[h] \in Allocation
    BY DEF IpamInv, IpamTypeOK, Pool
  <1>3. a \in Allocation /\ a.ContainerId = p.Allocations[h].ContainerId
    BY <1>2, AppendedForward
  <1>4. a.ContainerId = c /\ c # NoContainer
    BY <1>1, <1>3, IpamAssumption DEF Holds
  <1>5. h \notin Reserved
    BY <1>3, <1>4 DEF IpamInv, ReservedFree, IsAllocated
  <1>6. SetAllocation(p, h, a)
    BY <1>1
  <1> HIDE DEF a
  <1> QED
    BY <1>3, <1>4, <1>5, <1>6, SetAllocationInv

LEMMA StoreBridgeInv ==
    ASSUME IpamInv, NEW b \in Bridges, StoreBridge(b)
    PROVE  IpamInv'
  <1>1. PICK s \in Subnets : /\ IsLeast(s, FreeSubnets)
                             /\ pools' = pools \cup {NewPool(b, s)}
    BY DEF StoreBridge
  <1>2. \A p \in pools : p.Interface # b
    BY DEF StoreBridge
  <1>3. \A p \in pools : p.Subnet # s
    BY <1>1 DEF IsLeast, FreeSubnets
  <1> DEFINE q == NewPool(b, s)
  <1>4. /\ q \in Pool /\ q.Interface = b /\ q.Subnet = s
        /\ \A h \in Host : q.Allocations[h] = Unused
    BY NewPoolIsPool
  <1>5. pools' = pools \cup {q}
    BY <1>1
  <1> HIDE DEF q
  <1>6. IpamTypeOK' /\ BridgesUnique' /\ SubnetsDisjoint'
    BY <1>2, <1>3, <1>4, <1>5
    DEF IpamInv, IpamTypeOK, BridgesUnique, SubnetsDisjoint
  <1>7. ReservedFree'
    <2>1. Reserved \subseteq Host
      BY IpamAssumption DEF Reserved, Host, Gateway, Broadcast
    <2>2. Unused.ContainerId = NoContainer
      BY DEF Unused
    <2> QED
      BY <1>4, <1>5, <2>1, <2>2 DEF IpamInv, ReservedFree, IsAllocated
  <1> QED
    BY <1>6, <1>7 DEF IpamInv

LEMMA RemoveBridgeInv ==
    ASSUME IpamInv, NEW b \in Bridges, RemoveBridge(b)
    PROVE  IpamInv'
  <1>1. pools' \subseteq pools
    BY DEF RemoveBridge
  <1> QED
    BY <1>1 DEF IpamInv, IpamTypeOK, BridgesUnique, SubnetsDisjoint, ReservedFree,
                IsAllocated

\* The one pool of a fresh installation satisfies the invariant.
LEMMA DefaultPoolInv ==
    ASSUME NEW P, P = {NewPool(DefaultBridge, 0)}
    PROVE  /\ P \in SUBSET Pool
           /\ \A p, q \in P : p = q
           /\ \A p \in P : /\ \A h \in Reserved : ~IsAllocated(p, h)
                           /\ \A h \in Host : p.Allocations[h] = Unused
  <1>1. 0 \in Subnets /\ DefaultBridge \in Bridges
    BY IpamAssumption DEF Subnets
  <1>2. Reserved \subseteq Host
    BY IpamAssumption DEF Reserved, Host, Gateway, Broadcast
  <1>3. Unused.ContainerId = NoContainer
    BY DEF Unused
  <1> QED
    BY <1>1, <1>2, <1>3, NewPoolIsPool DEF IsAllocated

LEMMA SetConfigInv ==
    ASSUME IpamInv, SetConfig
    PROVE  IpamInv'
  <1>1. CASE pools = {}
    <2>1. pools' = {NewPool(DefaultBridge, 0)}
      BY <1>1 DEF SetConfig
    <2> QED
      BY <2>1, DefaultPoolInv
      DEF IpamInv, IpamTypeOK, BridgesUnique, SubnetsDisjoint, ReservedFree
  <1>2. CASE pools # {}
    BY <1>2 DEF SetConfig, IpamInv, IpamTypeOK, BridgesUnique, SubnetsDisjoint,
                ReservedFree, IsAllocated
  <1> QED
    BY <1>1, <1>2

LEMMA InitInv == IpamInit => IpamInv
  BY DefaultPoolInv
  DEF IpamInit, IpamInv, IpamTypeOK, BridgesUnique, SubnetsDisjoint, ReservedFree

LEMMA NextInv == IpamInv /\ [IpamNext]_ipamVars => IpamInv'
  <1> SUFFICES ASSUME IpamInv, [IpamNext]_ipamVars PROVE IpamInv'
    OBVIOUS
  <1>1. ASSUME NEW c \in Containers, NEW b \in Bridges, Allocate(c, b)
        PROVE  IpamInv'
    BY <1>1, AllocateInv
  <1>2. ASSUME NEW c \in Containers, Release(c)
        PROVE  IpamInv'
    BY <1>2, ReleaseInv
  <1>3. ASSUME NEW c \in Containers, NEW f \in ForwardInfos, SetForwardInfo(c, f)
        PROVE  IpamInv'
    BY <1>3, SetForwardInfoInv
  <1>4. ASSUME NEW b \in Bridges, StoreBridge(b)
        PROVE  IpamInv'
    BY <1>4, StoreBridgeInv
  <1>5. ASSUME NEW b \in Bridges, RemoveBridge(b)
        PROVE  IpamInv'
    BY <1>5, RemoveBridgeInv
  <1>6. CASE SetConfig
    BY <1>6, SetConfigInv
  <1>7. CASE UNCHANGED ipamVars
    BY <1>7 DEF ipamVars, IpamInv, IpamTypeOK, BridgesUnique, SubnetsDisjoint,
                ReservedFree, IsAllocated
  <1> QED
    BY <1>1, <1>2, <1>3, <1>4, <1>5, <1>6, <1>7 DEF IpamNext

\* The inductive invariant of the address manager holds in every state.
THEOREM IpamInvariant == IpamSpec => []IpamInv
  BY InitInv, NextInv, PTL DEF IpamSpec

\* Type correctness: the pools of ipam.json are well formed in every state.
THEOREM IpamTypeCorrect == IpamSpec => []IpamTypeOK
  <1>1. IpamInv => IpamTypeOK
    BY DEF IpamInv
  <1> QED
    BY IpamInvariant, <1>1, PTL

\* StoreBridge never gives an interface a second pool.
THEOREM BridgesAreUnique == IpamSpec => []BridgesUnique
  <1>1. IpamInv => BridgesUnique
    BY DEF IpamInv
  <1> QED
    BY IpamInvariant, <1>1, PTL

\* findFreeIpv4 never gives away the network, gateway or broadcast address.
THEOREM ReservedStaysFree == IpamSpec => []ReservedFree
  <1>1. IpamInv => ReservedFree
    BY DEF IpamInv
  <1> QED
    BY IpamInvariant, <1>1, PTL

\* An address determines the network it belongs to and the last byte.
LEMMA AddressInjective ==
    \A n, s, t, h, k \in Nat :
        (h < n /\ k < n /\ s * n + h = t * n + k) => s = t /\ h = k
  <1> SUFFICES ASSUME NEW n \in Nat, NEW s \in Nat, NEW t \in Nat,
                      NEW h \in Nat, NEW k \in Nat,
                      h < n, k < n, s * n + h = t * n + k
               PROVE  s = t /\ h = k
    OBVIOUS
  <1>1. ASSUME NEW x \in Nat, NEW y \in Nat, x < y
        PROVE  x * n + n <= y * n
    <2>1. PICK d \in Nat : y = x + 1 + d
      <3>1. y - x - 1 \in Nat /\ y = x + 1 + (y - x - 1)
        BY <1>1
      <3> QED
        BY <3>1
    <2>2. y * n = x * n + n + d * n
      BY <2>1
    <2>3. d * n \in Nat /\ x * n \in Nat
      OBVIOUS
    <2> QED
      BY <2>2, <2>3
  <1>2. s * n \in Nat /\ t * n \in Nat
    OBVIOUS
  <1>3. ~(s < t)
    BY <1>1, <1>2
  <1>4. ~(t < s)
    BY <1>1, <1>2
  <1>5. s = t
    BY <1>3, <1>4
  <1> QED
    BY <1>2, <1>5

\* Two pools have different /24 networks, so their addresses differ too.
LEMMA AddressesUniqueInv == IpamInv => AddressesUnique
  <1> SUFFICES ASSUME IpamInv, NEW p \in pools, NEW q \in pools,
                      NEW h \in Host, NEW k \in Host,
                      Address(p, h) = Address(q, k)
               PROVE  p = q /\ h = k
    BY DEF AddressesUnique
  <1>1. p.Subnet \in Nat /\ q.Subnet \in Nat
    BY IpamAssumption DEF IpamInv, IpamTypeOK, Pool, Subnets
  <1>2. SubnetSize \in Nat /\ h \in Nat /\ k \in Nat /\ h < SubnetSize /\ k < SubnetSize
    BY IpamAssumption DEF Host
  <1>3. p.Subnet * SubnetSize + h = q.Subnet * SubnetSize + k
    BY DEF Address
  <1>4. p.Subnet = q.Subnet /\ h = k
    <2>1. \A s, t \in Nat :
              s * SubnetSize + h = t * SubnetSize + k => s = t /\ h = k
      BY <1>2, AddressInjective
    <2> QED
      BY <1>1, <1>3, <2>1
  <1> QED
    BY <1>4 DEF IpamInv, SubnetsDisjoint

\* No two interfaces on the bridge networks ever have the same address.
THEOREM AddressesAreUnique == IpamSpec => []AddressesUnique
  BY IpamInvariant, AddressesUniqueInv, PTL

-----------------------------------------------------------------------------
\* A list of ports extends itself, and so does the list with one port more.
LEMMA ForwardsGrow ==
    ASSUME NEW s \in Seq(ForwardInfos), NEW f \in ForwardInfos
    PROVE  /\ SubSeq(s, 1, Len(s)) = s
           /\ Len(Append(s, f)) >= Len(s)
           /\ SubSeq(Append(s, f), 1, Len(s)) = s
  OBVIOUS

LEMMA FollowsItself ==
    ASSUME NEW x \in Allocation
    PROVE  Follows(x, x)
  <1>1. x.Forwards \in Seq(ForwardInfos)
    BY DEF Allocation
  <1>2. Len(x.Forwards) \in Nat /\ SubSeq(x.Forwards, 1, Len(x.Forwards)) = x.Forwards
    BY <1>1
  <1> QED
    BY <1>2 DEF Follows

\* An update of one address only has to answer for that address.
LEMMA SetAllocationKeeps ==
    ASSUME IpamInv, NEW p0 \in pools, NEW h0 \in Host, NEW a \in Allocation,
           SetAllocation(p0, h0, a),
           a.ContainerId # NoContainer => Follows(p0.Allocations[h0], a)
    PROVE  ForwardsKept
  <1> DEFINE q0 == [p0 EXCEPT !.Allocations[h0] = a]
  <1>1. p0 \in Pool
    BY DEF IpamInv, IpamTypeOK
  <1>2. q0.Subnet = p0.Subnet /\ q0.Allocations = [p0.Allocations EXCEPT ![h0] = a]
    BY <1>1, UpdatedPool
  <1>3. pools' = (pools \ {p0}) \cup {q0}
    BY DEF SetAllocation
  <1> HIDE DEF q0
  <1> SUFFICES ASSUME NEW p \in pools, NEW q \in pools', NEW h \in Host,
                      p.Subnet = q.Subnet, IsAllocated(q, h)
               PROVE  Follows(p.Allocations[h], q.Allocations[h])
    BY DEF ForwardsKept
  <1>4. p.Allocations \in [Host -> Allocation]
    BY DEF IpamInv, IpamTypeOK, Pool
  <1>5. CASE q = q0
    <2>1. p = p0
      BY <1>2, <1>5 DEF IpamInv, SubnetsDisjoint
    <2>2. CASE h = h0
      <3>1. q.Allocations[h] = a
        BY <1>2, <1>4, <1>5, <2>1, <2>2
      <3> QED
        BY <2>1, <2>2, <3>1 DEF IsAllocated
    <2>3. CASE h # h0
      <3>1. q.Allocations[h] = p.Allocations[h]
        BY <1>2, <1>4, <1>5, <2>1, <2>3
      <3> QED
        BY <1>4, <3>1, FollowsItself
    <2> QED
      BY <2>2, <2>3
  <1>6. CASE q \in pools
    <2>1. p = q
      BY <1>6 DEF IpamInv, SubnetsDisjoint
    <2> QED
      BY <1>4, <2>1, FollowsItself
  <1> QED
    BY <1>3, <1>5, <1>6

\* A step that adds no pool for a network in use keeps every allocation.
LEMMA SamePoolsKeep ==
    ASSUME IpamInv,
           \A q \in pools' : q \in pools \/ \A p \in pools : p.Subnet # q.Subnet
    PROVE  ForwardsKept
  <1> SUFFICES ASSUME NEW p \in pools, NEW q \in pools', NEW h \in Host,
                      p.Subnet = q.Subnet
               PROVE  Follows(p.Allocations[h], q.Allocations[h])
    BY DEF ForwardsKept
  <1>1. p = q
    BY DEF IpamInv, SubnetsDisjoint
  <1>2. p.Allocations[h] \in Allocation
    BY DEF IpamInv, IpamTypeOK, Pool
  <1> QED
    BY <1>1, <1>2, FollowsItself

LEMMA AllocateKeeps ==
    ASSUME IpamInv, NEW c \in Containers, NEW b \in Bridges, Allocate(c, b)
    PROVE  ForwardsKept
  <1> DEFINE a == [ContainerId |-> c, Forwards |-> <<>>]
  <1>1. PICK p \in pools, h \in Host : findFreeIpv4(p, h) /\ SetAllocation(p, h, a)
    BY DEF Allocate
  <1>2. a \in Allocation /\ a.ContainerId = c /\ a.Forwards = <<>>
    BY DEF Allocation
  <1>3. p.Allocations[h].ContainerId = NoContainer /\ c # NoContainer
    BY <1>1, IpamAssumption DEF findFreeIpv4, IsLeast, FreeHosts, IsAllocated
  <1> HIDE DEF a
  <1>4. Follows(p.Allocations[h], a)
    BY <1>2, <1>3 DEF Follows
  <1> QED
    BY <1>1, <1>2, <1>4, SetAllocationKeeps

LEMMA ReleaseKeeps ==
    ASSUME IpamInv, NEW c \in Containers, Release(c)
    PROVE  ForwardsKept
  <1>1. CASE UNCHANGED pools
    BY <1>1, SamePoolsKeep
  <1>2. ASSUME NEW p \in pools, NEW h \in Host, SetAllocation(p, h, Unused)
        PROVE  ForwardsKept
    <2>1. Unused \in Allocation /\ Unused.ContainerId = NoContainer
      BY DEF Allocation, Unused
    <2> QED
      BY <1>2, <2>1, SetAllocationKeeps
  <1> QED
    BY <1>1, <1>2 DEF Release

LEMMA SetForwardInfoKeeps ==
    ASSUME IpamInv, NEW c \in Containers, NEW f \in ForwardInfos,
           SetForwardInfo(c, f)
    PROVE  ForwardsKept
  <1>1. PICK p \in pools, h \in Host :
            SetAllocation(p, h, [p.Allocations[h] EXCEPT !.Forwards = Append(@, f)])
    BY DEF SetForwardInfo
  <1>2. p.Allocations[h] \in Allocation
    BY DEF IpamInv, IpamTypeOK, Pool
  <1> DEFINE x == p.Allocations[h]
             a == [x EXCEPT !.Forwards = Append(@, f)]
  <1>3. /\ a \in Allocation /\ a.ContainerId = x.ContainerId
        /\ a.Forwards = Append(x.Forwards, f)
    BY <1>2, AppendedForward
  <1>4. x.Forwards \in Seq(ForwardInfos)
    BY <1>2 DEF Allocation
  <1>5. Follows(x, a)
    <2> HIDE DEF a, x
    <2> QED
      BY <1>3, <1>4, ForwardsGrow DEF Follows
  <1>6. SetAllocation(p, h, a)
    BY <1>1
  <1> HIDE DEF a
  <1> QED
    BY <1>3, <1>5, <1>6, SetAllocationKeeps

\* A published port stays with the container it was published for: no step of
\* the address manager hands the forwards of one holder to the next one, or
\* drops a forward of a container that keeps its address.
THEOREM ForwardsAlwaysFollow == IpamSpec => ForwardsFollowHolder
  <1>1. IpamInv /\ [IpamNext]_ipamVars => [ForwardsKept]_ipamVars
    <2> SUFFICES ASSUME IpamInv, IpamNext PROVE ForwardsKept
      OBVIOUS
    <2>1. ASSUME NEW b \in Bridges, StoreBridge(b)
          PROVE  ForwardsKept
      <3>1. PICK s \in Subnets : /\ IsLeast(s, FreeSubnets)
                                 /\ pools' = pools \cup {NewPool(b, s)}
        BY <2>1 DEF StoreBridge
      <3>2. NewPool(b, s).Subnet = s /\ \A p \in pools : p.Subnet # s
        BY <3>1, NewPoolIsPool DEF IsLeast, FreeSubnets
      <3> QED
        BY <3>1, <3>2, SamePoolsKeep
    <2>2. ASSUME NEW b \in Bridges, RemoveBridge(b)
          PROVE  ForwardsKept
      BY <2>2, SamePoolsKeep DEF RemoveBridge
    <2>3. CASE SetConfig
      BY <2>3, SamePoolsKeep DEF SetConfig
    <2> QED
      BY <2>1, <2>2, <2>3, AllocateKeeps, ReleaseKeeps, SetForwardInfoKeeps
      DEF IpamNext
  <1> QED
    BY IpamInvariant, <1>1, PTL DEF IpamSpec, ForwardsFollowHolder

-----------------------------------------------------------------------------
\* The search loop of findFreeIpv4.  Numbers first: a set of numbers that holds
\* 0 and the successor of each of its elements holds every number.
LEMMA LeastNumber ==
    ASSUME NEW T, T \subseteq Nat, T # {}
    PROVE  \E x \in T : \A y \in T : x <= y
<1> DEFINE R == {ss \in Nat \X Nat : ss[1] < ss[2]}
<1>1. IsWellFoundedOn(R, Nat)
  BY NatLessThanWellFounded, Zenon DEF OpToRel
<1>2. \A x, y \in Nat : <<y, x>> \in R <=> y < x
  OBVIOUS
<1> HIDE DEF R
<1>3. PICK x \in T : \A y \in T : ~ (<<y, x>> \in R)
  BY <1>1, WFMin
<1>4. \A y \in T : ~(y < x)
  BY <1>2, <1>3
<1>5. \A y \in T : x <= y
  BY <1>4
<1> QED
  BY <1>5

LEMMA Counting ==
    ASSUME NEW S, 0 \in S, \A n \in Nat : n \in S => n + 1 \in S
    PROVE  \A n \in Nat : n \in S
<1> SUFFICES ASSUME NEW n \in Nat, n \notin S PROVE FALSE
  OBVIOUS
<1> DEFINE T == {m \in Nat : m \notin S}
<1>1. PICK x \in T : \A y \in T : x <= y
  <2>1. T \subseteq Nat /\ T # {}
    OBVIOUS
  <2> HIDE DEF T
  <2> QED
    BY <2>1, LeastNumber
<1>2. x \in Nat /\ x \notin S /\ x # 0
  OBVIOUS
<1>3. x - 1 \in Nat /\ x - 1 < x /\ x = (x - 1) + 1
  BY <1>2
<1>4. x - 1 \in S
  BY <1>1, <1>3
<1> QED
  BY <1>2, <1>3, <1>4

\* The remainder of a division is unique, and counts up to the divisor.
LEMMA RemainderUnique ==
    ASSUME NEW m \in Nat, m > 0, NEW q \in Int, NEW d \in Int,
           NEW r \in 0..(m - 1), NEW s \in 0..(m - 1), m * q + r = m * d + s
    PROVE  r = s
<1>1. m * (q - d) = s - r
  OBVIOUS
<1>2. CASE q - d >= 1
  <2>1. m * (q - d) >= m
    BY <1>2
  <2> QED
    BY <1>1, <2>1
<1>3. CASE q - d <= -1
  <2>1. m * (q - d) <= -m
    BY <1>3
  <2> QED
    BY <1>1, <2>1
<1>4. CASE q = d
  BY <1>4
<1> QED
  BY <1>2, <1>3, <1>4

LEMMA RemainderCounts ==
    ASSUME NEW x \in Nat, NEW m \in Nat, m > 0
    PROVE  (x + 1) % m = IF x % m = m - 1 THEN 0 ELSE (x % m) + 1
<1> DEFINE a == x % m
           b == (x + 1) % m
           q == x \div m
           d == (x + 1) \div m
<1>1. x = (m * q) + a /\ a \in 0..(m - 1) /\ q \in Int
  OBVIOUS
<1>2. x + 1 = (m * d) + b /\ b \in 0..(m - 1) /\ d \in Int
  OBVIOUS
<1>3. (m * d) + b = (m * q) + (a + 1)
  BY <1>1, <1>2
<1> HIDE DEF a, b, q, d
<1>4. CASE a = m - 1
  <2>1. (m * d) + b = m * (q + 1) + 0
    BY <1>1, <1>2, <1>3, <1>4
  <2>2. 0 \in 0..(m - 1) /\ q + 1 \in Int
    BY <1>1
  <2>3. b = 0
    BY <2>1, <2>2, <1>2, RemainderUnique
  <2> QED
    BY <2>3, <1>4 DEF a, b
<1>5. CASE a # m - 1
  <2>1. a + 1 \in 0..(m - 1)
    BY <1>1, <1>5
  <2>2. b = a + 1
    BY <2>1, <1>1, <1>2, <1>3, RemainderUnique
  <2> QED
    BY <2>2, <1>5 DEF a, b
<1> QED
  BY <1>4, <1>5

LEMMA RemainderSmall ==
    ASSUME NEW x \in Nat, NEW m \in Nat, m > 0
    PROVE  x % m \in 0..(m - 1) /\ (x < m => x % m = x)
OBVIOUS

\* One step of the cursor: it advances, and from the last address it goes back
\* to the first one, or to the network address when the runtime subnet is that
\* one network and the carry of incIP is lost.
FirstHost == IF NumSubnets = 1 THEN 0 ELSE 1
Advance(ip, s) == IF incIP(ip)[1] # s THEN incIP(<<s, 0>>) ELSE incIP(ip)

LEMMA IncIPIs ==
    ASSUME NEW s \in Subnets, NEW h \in Host
    PROVE  incIP(<<s, h>>) = IF h = Broadcast THEN <<(s + 1) % NumSubnets, 0>>
                                              ELSE <<s, h + 1>>
<1>1. SubnetSize \in Nat /\ SubnetSize >= 4 /\ h \in Nat /\ h <= SubnetSize - 1
  BY IpamAssumption DEF Host
<1>2. CASE h = Broadcast
  <2>1. h + 1 = SubnetSize /\ (h + 1) % SubnetSize = 0
    BY <1>1, <1>2 DEF Broadcast
  <2> QED
    BY <1>2, <2>1 DEF incIP
<1>3. CASE h # Broadcast
  <2>1. h + 1 < SubnetSize /\ h + 1 \in Nat /\ SubnetSize > 0
    BY <1>1, <1>3 DEF Broadcast
  <2>2. (h + 1) % SubnetSize = h + 1 /\ h + 1 # 0
    BY <1>1, <2>1, RemainderSmall
  <2> QED
    BY <1>3, <2>2 DEF incIP
<1> QED
  BY <1>2, <1>3

LEMMA AdvanceIs ==
    ASSUME NEW s \in Subnets, NEW h \in Host
    PROVE  Advance(<<s, h>>, s) = IF h = Broadcast THEN <<s, FirstHost>> ELSE <<s, h + 1>>
<1>1. /\ NumSubnets \in Nat /\ NumSubnets >= 1 /\ s \in Nat /\ s <= NumSubnets - 1
      /\ SubnetSize \in Nat /\ SubnetSize >= 4
  BY IpamAssumption DEF Subnets
<1>2. 0 \in Host /\ 0 # Broadcast
  BY <1>1 DEF Host, Broadcast
<1>3. incIP(<<s, 0>>) = <<s, 1>>
  <2>1. incIP(<<s, 0>>) = <<s, 0 + 1>>
    BY <1>2, IncIPIs
  <2> QED
    BY <2>1
<1>4. CASE h # Broadcast
  <2>1. incIP(<<s, h>>) = <<s, h + 1>>
    BY <1>4, IncIPIs
  <2> QED
    BY <1>4, <2>1 DEF Advance
<1>5. CASE h = Broadcast /\ NumSubnets = 1
  <2>1. s = 0 /\ (s + 1) % NumSubnets = 0
    BY <1>1, <1>5
  <2>2. incIP(<<s, h>>) = <<s, 0>>
    <3>1. incIP(<<s, h>>) = <<(s + 1) % NumSubnets, 0>>
      BY <1>5, IncIPIs
    <3> QED
      BY <2>1, <3>1
  <2> QED
    BY <1>5, <2>1, <2>2 DEF Advance, FirstHost
<1>6. CASE h = Broadcast /\ NumSubnets # 1
  <2>1. (s + 1) % NumSubnets # s
    <3>1. s % NumSubnets = s
      BY <1>1, RemainderSmall
    <3> QED
      BY <1>1, <1>6, <3>1, RemainderCounts
  <2>2. incIP(<<s, h>>) = <<(s + 1) % NumSubnets, 0>>
    BY <1>6, IncIPIs
  <2>3. incIP(<<s, h>>)[1] # s
    BY <2>1, <2>2
  <2> QED
    BY <1>3, <1>6, <2>3 DEF Advance, FirstHost
<1> QED
  BY <1>4, <1>5, <1>6

\* Where the cursor is in iteration i.
Round == SubnetSize - FirstHost
Orbit(s, i) == <<s, ((i + 1 - FirstHost) % Round) + FirstHost>>

LEMMA RoundIs ==
    /\ FirstHost \in {0, 1} /\ Round \in Nat /\ Round > 0
    /\ Round >= SubnetSize - 1 /\ Round + FirstHost = SubnetSize
BY IpamAssumption DEF FirstHost, Round

LEMMA OrbitIs ==
    ASSUME NEW s \in Subnets, NEW i \in Nat
    PROVE  /\ \E h \in Host : Orbit(s, i) = <<s, h>>
           /\ i + 1 < SubnetSize => Orbit(s, i) = <<s, i + 1>>
           /\ Orbit(s, i + 1) = Advance(Orbit(s, i), s)
<1> DEFINE x == i + 1 - FirstHost
           a == x % Round
           h == a + FirstHost
<1>1. /\ FirstHost \in {0, 1} /\ Round \in Nat /\ Round > 0
      /\ Round >= SubnetSize - 1 /\ Round + FirstHost = SubnetSize
      /\ SubnetSize \in Nat /\ SubnetSize >= 4
  BY RoundIs, IpamAssumption
<1>2. x \in Nat
  BY <1>1
<1> HIDE DEF x
<1>3. a \in 0..(Round - 1) /\ (x < Round => a = x)
  BY <1>1, <1>2, RemainderSmall
<1>4. Orbit(s, i) = <<s, h>>
  BY DEF Orbit, x
<1> HIDE DEF a
<1>5. h \in Host /\ (h = Broadcast <=> a = Round - 1)
  BY <1>1, <1>3 DEF Host, Broadcast
<1>6. i + 1 < SubnetSize => h = i + 1
  <2>1. SUFFICES ASSUME i + 1 < SubnetSize PROVE h = i + 1
    OBVIOUS
  <2>2. x < Round
    BY <1>1, <2>1 DEF x
  <2> QED
    BY <1>1, <1>3, <2>2 DEF x
<1>7. Orbit(s, i + 1) = Advance(Orbit(s, i), s)
  <2>1. Orbit(s, i + 1) = <<s, ((x + 1) % Round) + FirstHost>>
    <3>1. (i + 1) + 1 - FirstHost = x + 1
      BY <1>1 DEF x
    <3> QED
      BY <3>1 DEF Orbit
  <2>2. (x + 1) % Round = IF a = Round - 1 THEN 0 ELSE a + 1
    BY <1>1, <1>2, RemainderCounts DEF a
  <2>3. CASE h = Broadcast
    <3>1. (x + 1) % Round = 0
      BY <1>5, <2>2, <2>3
    <3>2. Orbit(s, i + 1) = <<s, FirstHost>>
      BY <1>1, <2>1, <3>1
    <3>3. Advance(<<s, h>>, s) = <<s, FirstHost>>
      <4> HIDE DEF h
      <4> QED
        BY <1>5, <2>3, AdvanceIs
    <3> QED
      BY <1>4, <3>2, <3>3
  <2>4. CASE h # Broadcast
    <3>1. (x + 1) % Round = a + 1
      BY <1>5, <2>2, <2>4
    <3>2. Orbit(s, i + 1) = <<s, h + 1>>
      <4>1. (a + 1) + FirstHost = h + 1
        BY <1>1, <1>3
      <4> QED
        BY <2>1, <3>1, <4>1
    <3>3. Advance(<<s, h>>, s) = <<s, h + 1>>
      <4> HIDE DEF h
      <4> QED
        BY <1>5, <2>4, AdvanceIs
    <3> QED
      BY <1>4, <3>2, <3>3
  <2> QED
    BY <2>3, <2>4
<1> QED
  BY <1>4, <1>5, <1>6, <1>7

\* The recursive definition of the cursor has a solution, and only this one.
LEMMA CursorIs ==
    ASSUME NEW p \in Pool, NEW i \in 0..MaxProbes
    PROVE  Cursor(p)[i] = Orbit(p.Subnet, i)
<1> DEFINE s == p.Subnet
           Step(f) == [j \in 0..MaxProbes |->
                          IF j = 0 THEN incIP(<<s, 0>>) ELSE Advance(f[j - 1], s)]
           orbit == [j \in 0..MaxProbes |-> Orbit(s, j)]
<1>1. s \in Subnets /\ MaxProbes \in Nat
  BY ProbesAssumption DEF Pool
<1>2. Cursor(p) = CHOOSE f : f = Step(f)
  BY Zenon DEF Cursor, Advance
<1> HIDE DEF s
<1>3. Orbit(s, 0) = incIP(<<s, 0>>)
  <2>1. 0 \in Host /\ 0 # Broadcast /\ 0 + 1 < SubnetSize /\ 0 \in Nat
    BY IpamAssumption DEF Host, Broadcast
  <2>2. incIP(<<s, 0>>) = <<s, 0 + 1>>
    BY <1>1, <2>1, IncIPIs
  <2> QED
    BY <1>1, <2>1, <2>2, OrbitIs
<1>4. orbit = Step(orbit)
  <2>1. ASSUME NEW j \in 0..MaxProbes, j # 0
        PROVE  Orbit(s, j) = Advance(orbit[j - 1], s)
    <3>1. j - 1 \in Nat /\ j - 1 \in 0..MaxProbes /\ (j - 1) + 1 = j
      BY <1>1, <2>1
    <3>2. Orbit(s, (j - 1) + 1) = Advance(Orbit(s, j - 1), s)
      BY <1>1, <3>1, OrbitIs
    <3> QED
      BY <3>1, <3>2
  <2> QED
    BY <1>3, <2>1
<1>5. Cursor(p) = Step(Cursor(p))
  <2> HIDE DEF orbit, Step
  <2>1. \E f : f = Step(f)
    BY <1>4
  <2> QED
    BY <1>2, <2>1, Zenon
<1> DEFINE T == {j \in Nat : j <= MaxProbes => Cursor(p)[j] = Orbit(s, j)}
           c == Cursor(p)
<1> HIDE DEF c
<1>6. /\ c[0] = incIP(<<s, 0>>)
      /\ \A j \in 1..MaxProbes : c[j] = Advance(c[j - 1], s)
  <2>1. c = Step(c)
    BY <1>5 DEF c
  <2>2. \A j \in 0..MaxProbes : Step(c)[j] = IF j = 0 THEN incIP(<<s, 0>>) ELSE Advance(c[j - 1], s)
    OBVIOUS
  <2> HIDE DEF Step
  <2>3. \A j \in 0..MaxProbes : c[j] = IF j = 0 THEN incIP(<<s, 0>>) ELSE Advance(c[j - 1], s)
    BY <2>1, <2>2
  <2> QED
    BY <1>1, <2>3
<1>7. 0 \in T
  BY <1>3, <1>6 DEF c
<1>8. ASSUME NEW n \in Nat, n \in T PROVE n + 1 \in T
  <2>1. SUFFICES ASSUME n + 1 <= MaxProbes PROVE c[n + 1] = Orbit(s, n + 1)
    BY DEF c
  <2>2. n + 1 \in 1..MaxProbes /\ n <= MaxProbes /\ (n + 1) - 1 = n
    BY <1>1, <2>1
  <2>3. c[n] = Orbit(s, n)
    BY <1>8, <2>2 DEF c
  <2>4. c[n + 1] = Advance(c[n], s)
    BY <1>6, <2>2
  <2> QED
    BY <1>1, <2>3, <2>4, OrbitIs
<1>9. \A n \in Nat : n \in T
  <2> HIDE DEF T
  <2> QED
    BY <1>7, <1>8, Counting
<1> QED
  BY <1>1, <1>9 DEF s

\* Every iteration looks at an address of the network, and the iterations before
\* the first wrap look at all of them but the network address, in order.
LEMMA ScanInPool ==
    ASSUME NEW p \in Pool
    PROVE  /\ ScanFails(p) <=> FreeHosts(p) = {}
           /\ ~ScanFails(p) => findFreeIpv4(p, ScanResult(p))
<1> DEFINE c == [i \in 0..MaxProbes |-> Cursor(p)[i][2]]
           H == Hits(p)
           F == FreeHosts(p)
<1>1. /\ MaxProbes \in Nat /\ SubnetSize \in Nat /\ SubnetSize >= 4 
      /\ MaxProbes >= SubnetSize /\ p.Subnet \in Subnets
  BY IpamAssumption, ProbesAssumption DEF Pool
<1>2. ASSUME NEW i \in 0..MaxProbes
      PROVE  c[i] \in Host /\ (i + 1 < SubnetSize => c[i] = i + 1)
  <2>1. i \in Nat
    BY <1>1
  <2>2. Cursor(p)[i] = Orbit(p.Subnet, i) /\ c[i] = Cursor(p)[i][2]
    BY CursorIs
  <2>3. PICK h \in Host : Orbit(p.Subnet, i) = <<p.Subnet, h>>
    BY <1>1, <2>1, OrbitIs
  <2>4. c[i] = h
    BY <2>2, <2>3
  <2>5. ASSUME i + 1 < SubnetSize PROVE c[i] = i + 1
    <3>1. Orbit(p.Subnet, i) = <<p.Subnet, i + 1>>
      BY <1>1, <2>1, <2>5, OrbitIs
    <3> QED
      BY <2>2, <3>1
  <2> QED
    BY <2>4, <2>5
<1>3. H = {i \in 0..(MaxProbes - 1) : ~(c[i] \in Reserved \/ IsAllocated(p, c[i]))}
  BY <1>1 DEF Hits, Skipped
<1> HIDE DEF c
<1>4. F = {h \in Host : ~(h \in Reserved \/ IsAllocated(p, h))}
  BY DEF FreeHosts
<1> HIDE DEF H, F
<1>5. ASSUME NEW i \in H PROVE c[i] \in F /\ i \in Nat /\ i \in 0..MaxProbes
  BY <1>1, <1>2, <1>3, <1>4
<1>6. ASSUME NEW h \in F PROVE h - 1 \in H /\ c[h - 1] = h
  <2>1. h \in Nat /\ h # 0 /\ h < SubnetSize - 1
    BY <1>1, <1>4 DEF Host, Reserved, Broadcast
  <2>2. h - 1 \in 0..(MaxProbes - 1) /\ h - 1 \in 0..MaxProbes /\ (h - 1) + 1 = h
    BY <1>1, <2>1
  <2>3. c[h - 1] = h
    BY <1>2, <2>1, <2>2, <1>1
  <2> QED
    BY <1>3, <1>4, <2>2, <2>3
<1>7. H = {} <=> F = {}
  BY <1>5, <1>6
<1>8. ASSUME H # {} PROVE IsLeast(c[Min(H)], F) /\ Min(H) \in 0..MaxProbes
  <2>1. \E x \in H : \A y \in H : x <= y
    <3>1. H \subseteq Nat
      BY <1>5
    <3> QED
      BY <1>8, <3>1, LeastNumber
  <2>2. Min(H) \in H /\ \A y \in H : Min(H) <= y
    BY <2>1, Zenon DEF Min
  <2> DEFINE n == Min(H)
  <2> HIDE DEF n
  <2>3. n \in H /\ \A y \in H : n <= y
    BY <2>2 DEF n
  <2>4. c[n] \in F /\ n \in Nat /\ n \in 0..MaxProbes
    BY <1>5, <2>3
  <2>5. \A h \in F : c[n] <= h
    <3>1. SUFFICES ASSUME NEW h \in F PROVE c[n] <= h
      OBVIOUS
    <3>2. n <= h - 1
      BY <1>6, <2>3
    <3>3. h \in Nat /\ h < SubnetSize
      BY <1>1, <1>4 DEF Host
    <3>4. n + 1 < SubnetSize /\ n + 1 <= h
      BY <1>1, <2>4, <3>2, <3>3
    <3> QED
      BY <1>2, <2>4, <3>4
  <2> QED
    BY <2>4, <2>5 DEF IsLeast, n
<1>9. ASSUME H # {} PROVE findFreeIpv4(p, ScanResult(p))
  <2>1. ScanResult(p) = c[Min(H)]
    BY <1>8, <1>9 DEF ScanResult, H, c
  <2> QED
    BY <1>8, <1>9, <2>1 DEF findFreeIpv4, F
<1> QED
  BY <1>7, <1>9 DEF ScanFails, H, F

\* The search loop of findFreeIpv4 returns the least free address of the network
\* and gives up exactly when there is none, in every pool that the operations can
\* build: the carry of incIP and the wrap neither miss an address nor leave the
\* network, for every size of the network.
THEOREM ScanIsComplete == IpamSpec => []ScanFindsLeastFree
<1>1. IpamTypeOK => ScanFindsLeastFree
  BY ScanInPool DEF IpamTypeOK, ScanFindsLeastFree
<1> QED
  BY <1>1, IpamTypeCorrect, PTL
=============================================================================
