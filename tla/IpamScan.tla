------------------------------ MODULE IpamScan ------------------------------
(***************************************************************************)
(* The search loop of findFreeIpv4 (internal/store/ipam), address by       *)
(* address: the cursor starts after the network address, skips what is     *)
(* reserved or used, and goes back to the start when incIP carries it out  *)
(* of the network.  Module Ipam uses what the loop computes, the least     *)
(* free address; ScanFindsLeastFree compares the two on every pool that    *)
(* the operations can build.                                               *)
(***************************************************************************)
EXTENDS Ipam, FiniteSetsExt

CONSTANT MaxProbes      \* iterations before the loop gives up, 1 << 24 in the code

ASSUME ProbesAssumption == MaxProbes \in Nat /\ MaxProbes >= SubnetSize

\* An address as two digits, the number of the network and the last byte; the
\* carry of incIP drops what leaves the first digit.
incIP(ip) ==
    LET low == (ip[2] + 1) % SubnetSize
    IN  <<IF low = 0 THEN (ip[1] + 1) % NumSubnets ELSE ip[1], low>>

\* The cursor in iteration i, after the test that it is inside the network.
Cursor(p) ==
    LET start == incIP(<<p.Subnet, 0>>)
        cursor[i \in 0..MaxProbes] ==
            IF i = 0 THEN start
            ELSE LET next == incIP(cursor[i - 1])
                 IN  IF next[1] # p.Subnet THEN start ELSE next
    IN  cursor

\* Slip: the gateway is not skipped.
SkippedButGateway(p, ip) == ip[2] \in {0, Broadcast} \/ IsAllocated(p, ip[2])

Skipped(p, ip) == ip[2] \in Reserved \/ IsAllocated(p, ip[2])

\* The iterations in which the loop could return.
Hits(p) == {i \in 0..(MaxProbes - 1) : ~Skipped(p, Cursor(p)[i])}

ScanFails(p) == Hits(p) = {}

ScanResult(p) == Cursor(p)[Min(Hits(p))][2]

-----------------------------------------------------------------------------
\* The loop of findFreeIpv4 returns the least free address of the network, and
\* reports "no free ip" exactly when every usable address is taken: the wrap
\* and the carry neither miss an address nor leave the network.
ScanFindsLeastFree ==
    \A p \in pools :
        /\ ScanFails(p) <=> FreeHosts(p) = {}
        /\ ~ScanFails(p) => findFreeIpv4(p, ScanResult(p))
=============================================================================
