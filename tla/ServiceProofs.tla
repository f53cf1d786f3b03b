---------------------------- MODULE ServiceProofs ----------------------------
(***************************************************************************)
(* Proofs about the service controller, for any services, ports, pods and  *)
(* addresses and any number of changes, failures and restarts: the NAT     *)
(* rules are those of the endpoints that the controller remembers, and     *)
(* what it does not remember has no rules.                                 *)
(***************************************************************************)
EXTENDS Service, WellFoundedInduction, TLAPS

-----------------------------------------------------------------------------
\* The inductive invariant.

\* The first n rules of a chain for these endpoints, and the chain of port entry
\* i of s.
Prefix(ends, n, port) == [k \in 1..n |-> EndpointRule(ends, k, port)]
RulesOf(s, i, ends) == Prefix(ends, Len(ends), Ports[s][i])

ChainOf(s, i) == <<s, Ports[s][i].port>>
JumpOf(h, s, i) == JumpId(h, s, Ports[s][i].port, Ports[s][i].proto)
JumpsOf(s, i) == {JumpOf(h, s, i) : h \in Hooks}

\* i is the last of the entries before k that fill its chain.
LastBefore(s, i, k) ==
    /\ i \in DOMAIN Ports[s] /\ i < k
    /\ \A j \in DOMAIN Ports[s] :
          j < k /\ Ports[s][j].port = Ports[s][i].port => j <= i

\* In the chains ch and the jumps js the entries of s before k are applied, for
\* these endpoints, but for the chains in C and the jumps in J, which are being
\* replaced.
Filled(ch, ends, s, k, C) ==
    \A i \in DOMAIN Ports[s] :
        LastBefore(s, i, k) /\ ChainOf(s, i) \notin C => ch[ChainOf(s, i)] = RulesOf(s, i, ends)
Jumped(js, s, k, J) ==
    \A i \in DOMAIN Ports[s], h \in Hooks :
        i < k /\ JumpOf(h, s, i) \notin J => js[JumpOf(h, s, i)] = 1

Settled(s) ==
    /\ Filled(chain, lastState[s], s, Len(Ports[s]) + 1, {})
    /\ s \notin doubled => Jumped(jumps, s, Len(Ports[s]) + 1, {})

\* Between two entries, and while entry ctl.port is applied.
BetweenPorts ==
    ctl.at = "port" =>
        /\ ctl.end = 1 /\ Filled(chain, ctl.ends, ctl.svc, ctl.port, {})
        /\ ctl.svc \notin doubled => Jumped(jumps, ctl.svc, ctl.port, {})
InChain ==
    ctl.at \in Working \ {"port"} =>
        /\ Filled(chain, ctl.ends, ctl.svc, ctl.port, {ChainOf(ctl.svc, ctl.port)})
        /\ ctl.end <= Len(ctl.ends) + 1 /\ (ctl.at # "rules" => ctl.end = 1)
        /\ chain[ChainOf(ctl.svc, ctl.port)] =
               Prefix(ctl.ends, ctl.end - 1, Ports[ctl.svc][ctl.port])
InJumps ==
    /\ ctl.at = "unjump" /\ ctl.svc \notin doubled => Jumped(jumps, ctl.svc, ctl.port, {})
    /\ ctl.at = "jump" /\ ctl.svc \notin doubled =>
          /\ Jumped(jumps, ctl.svc, ctl.port, JumpsOf(ctl.svc, ctl.port))
          /\ \A j \in JumpsOf(ctl.svc, ctl.port) : jumps[j] = 0
    /\ ctl.at = "rules" /\ ctl.svc \notin doubled => Jumped(jumps, ctl.svc, ctl.port + 1, {})

\* Whoever is remembered and not being worked on has its rules.
Matched ==
    \A s \in Services :
        lastState[s] # None /\ s \notin failed
          /\ ~(ctl.svc = s /\ ctl.at \in Working \cup {"cleanup"}) => Settled(s)

\* The counters of a pass are at their start when it is at none of its rules.
AtStart ==
    /\ ctl.at \notin Working \cup {"cleanup"} => ctl.port = 1 /\ ctl.end = 1
    /\ ctl.at = "cleanup" /\ ctl.svc = None => ctl.port = 1
    /\ ctl.at = "cleanup" => ctl.end = 1
    /\ ctl.at \in {"asleep", "pods", "services"} => ctl.svc = None

\* A jump is never doubled, unless one could not be deleted.
SingleJumps ==
    \A j \in DOMAIN jumps : j[2] \notin doubled => jumps[j] <= 1

\* A chain is that of an entry of its service, and so is a jump.
OwnRules ==
    /\ \A c \in serviceChainName : chain[c] # None =>
          \E i \in DOMAIN Ports[c[1]] : Ports[c[1]][i].port = c[2]
    /\ \A j \in DOMAIN jumps : jumps[j] > 0 =>
          \E i \in DOMAIN Ports[j[2]] : Ports[j[2]][i].port = j[3] /\ Ports[j[2]][i].proto = j[4]

Bare(s) ==
    /\ \A n \in PortNumbers : Cleanable(s, n) => chain[<<s, n>>] = None
    /\ \A j \in DOMAIN jumps : j[2] = s /\ j[4] \in CleanedProtos => jumps[j] = 0
Unremembered ==
    \A s \in Services : lastState[s] = None /\ s \notin doubled \cup forgot => Bare(s)

\* The ports of a removed service before ctl.port are clean.
Cleaned ==
    ctl.at = "cleanup" /\ ctl.svc # None /\ ctl.svc \notin doubled =>
        \A i \in DOMAIN Ports[ctl.svc] :
            i < ctl.port =>
                /\ Cleanable(ctl.svc, Ports[ctl.svc][i].port) => chain[ChainOf(ctl.svc, i)] = None
                /\ \A j \in PortJumps(ctl.svc, Ports[ctl.svc][i].port) : jumps[j] = 0

RulesInv == BetweenPorts /\ InChain /\ InJumps /\ Matched
LeftInv == OwnRules /\ Unremembered /\ Cleaned
ServiceInv == TypeOK /\ AtStart /\ SingleJumps /\ RulesInv /\ LeftInv

-----------------------------------------------------------------------------
\* Sorting: buildStateKey has an order to choose.

LEMMA LeastNumber ==
    ASSUME NEW T, T \subseteq Nat, T # {}
    PROVE  \E x \in T : \A y \in T : x <= y
<1> DEFINE R == {ss \in Nat \X Nat : ss[1] < ss[2]}
<1>1. IsWellFoundedOn(R, Nat)
  BY NatLessThanWellFounded, Zenon DEF OpToRel
<1>2. \A x, y \in Nat : <<y, x>> \in R <=> y < x
  OBVIOUS
<1> HIDE DEF R
<1>3. PICK x \in T : \A y \in T : ~ (<<y, x>> \in R)
  BY <1>1, WFMin
<1>4. \A y \in T : ~(y < x)
  BY <1>2, <1>3
<1>5. \A y \in T : x <= y
  BY <1>4
<1> QED
  BY <1>5

\* A set of numbers with an upper bound has a greatest element.
LEMMA GreatestNumber ==
    ASSUME NEW n \in Nat, NEW T, T \subseteq 0..n, T # {}
    PROVE  \E x \in T : \A y \in T : y <= x
<1> DEFINE U == {m \in 0..n : n - m \in T}
<1>1. U \subseteq Nat /\ U # {}
  <2>1. PICK x \in T : TRUE
    OBVIOUS
  <2>2. n - x \in U
    <3>1. x \in 0..n /\ n - x \in 0..n /\ n - (n - x) = x
      BY <2>1
    <3> QED
      BY <2>1, <3>1
  <2>3. U \subseteq Nat
    OBVIOUS
  <2> QED
    BY <2>2, <2>3
<1>2. PICK m \in U : \A y \in U : m <= y
  <2> HIDE DEF U
  <2> QED
    BY <1>1, LeastNumber
<1>3. ASSUME NEW y \in T PROVE y <= n - m
  <2>1. y \in 0..n /\ n - y \in 0..n /\ n - (n - y) = y
    OBVIOUS
  <2>2. n - y \in U
    BY <2>1
  <2> QED
    BY <1>2, <2>1, <2>2
<1> QED
  BY <1>3

LEMMA Counting ==
    ASSUME NEW S, 0 \in S, \A n \in Nat : n \in S => n + 1 \in S
    PROVE  \A n \in Nat : n \in S
<1> SUFFICES ASSUME NEW n \in Nat, n \notin S PROVE FALSE
  OBVIOUS
<1> DEFINE T == {m \in Nat : m \notin S}
<1>1. PICK x \in T : \A y \in T : x <= y
  <2>1. T \subseteq Nat /\ T # {}
    OBVIOUS
  <2> HIDE DEF T
  <2> QED
    BY <2>1, LeastNumber
<1>2. x \in Nat /\ x \notin S /\ x # 0
  OBVIOUS
<1>3. x - 1 \in Nat /\ x - 1 < x /\ x = (x - 1) + 1
  BY <1>2
<1>4. x - 1 \in S
  BY <1>1, <1>3
<1> QED
  BY <1>2, <1>3, <1>4

Orders(n, p, f) ==
    /\ p \in [1..n -> 1..n]
    /\ \A i, j \in 1..n : p[i] = p[j] => i = j
    /\ \A i, j \in 1..n : i < j => f[p[i]] <= f[p[j]]

\* Insertion: the last element goes before the first one that is greater.
LEMMA OrderInsert ==
    ASSUME NEW n \in Nat, NEW f \in [1..(n + 1) -> Nat], NEW q, Orders(n, q, f)
    PROVE  \E p : Orders(n + 1, p, f)
<1>0. /\ q \in [1..n -> 1..n]
      /\ \A i, j \in 1..n : q[i] = q[j] => i = j
      /\ \A i, j \in 1..n : i < j => f[q[i]] <= f[q[j]]
  BY Zenon DEF Orders
<1>a. /\ n + 1 \in 1..(n + 1) /\ f[n + 1] \in Nat
      /\ \A i \in 1..n : q[i] \in 1..n /\ q[i] \in 1..(n + 1) /\ q[i] # n + 1
  <2>1. n + 1 \in 1..(n + 1) /\ f[n + 1] \in Nat
    OBVIOUS
  <2>2. ASSUME NEW i \in 1..n PROVE q[i] \in 1..n
    BY <1>0
  <2>3. ASSUME NEW x \in 1..n PROVE x \in 1..(n + 1) /\ x # n + 1
    OBVIOUS
  <2> QED
    BY <2>1, <2>2, <2>3
<1>b. \A i \in 1..n : f[q[i]] \in Nat
  BY <1>a
<1> DEFINE T == {i \in 1..(n + 1) : i = n + 1 \/ f[q[i]] > f[n + 1]}
<1>1. PICK m \in T : \A y \in T : m <= y
  <2>1. T \subseteq Nat /\ n + 1 \in T
    OBVIOUS
  <2>2. T # {}
    BY <2>1
  <2> HIDE DEF T
  <2> QED
    BY <2>1, <2>2, LeastNumber
<1>2. m \in 1..(n + 1)
  OBVIOUS
<1>3. ASSUME NEW i \in 1..n, i < m PROVE f[q[i]] <= f[n + 1]
  <2>1. i \notin T /\ i \in 1..(n + 1) /\ i # n + 1
    BY <1>1, <1>2, <1>3
  <2>2. ~(f[q[i]] > f[n + 1])
    BY <2>1
  <2>3. q[i] \in 1..n /\ f[q[i]] \in Nat /\ f[n + 1] \in Nat
    BY <1>a, <1>b
  <2> QED
    BY <2>2, <2>3
<1>4. ASSUME NEW i \in 1..n, m <= i PROVE f[n + 1] <= f[q[i]]
  <2>1. m # n + 1 /\ m \in 1..n
    BY <1>2, <1>4
  <2>2. f[q[m]] > f[n + 1]
    BY <2>1
  <2>3. f[q[m]] <= f[q[i]]
    <3>1. CASE m = i
      <4>1. q[i] \in 1..n /\ f[q[i]] \in Nat
        BY <1>a, <1>b
      <4> QED
        BY <3>1, <4>1
    <3>2. CASE m < i
      BY <1>0, <2>1, <3>2
    <3> QED
      BY <1>2, <1>4, <3>1, <3>2
  <2>4. /\ q[i] \in 1..n /\ f[q[i]] \in Nat /\ q[m] \in 1..n /\ f[q[m]] \in Nat
        /\ f[n + 1] \in Nat
    BY <1>a, <1>b, <2>1
  <2> QED
    BY <2>2, <2>3, <2>4
<1> HIDE DEF T
<1> DEFINE p == [i \in 1..(n + 1) |-> IF i < m THEN q[i] ELSE IF i = m THEN n + 1 ELSE q[i - 1]]
<1>5. ASSUME NEW i \in 1..(n + 1)
      PROVE  /\ i < m => i \in 1..n /\ p[i] = q[i]
             /\ i = m => p[i] = n + 1
             /\ i > m => i - 1 \in 1..n /\ p[i] = q[i - 1] /\ m <= i - 1
  BY <1>2
<1> HIDE DEF p
<1>6. \A i \in 1..n : q[i] \in 1..(n + 1) /\ q[i] # n + 1
  BY <1>a
<1>7. p \in [1..(n + 1) -> 1..(n + 1)]
  <2>1. ASSUME NEW i \in 1..(n + 1) PROVE p[i] \in 1..(n + 1)
    <3>1. CASE i < m
      BY <1>5, <1>6, <3>1
    <3>2. CASE i = m
      BY <1>5, <1>a, <3>2
    <3>3. CASE i > m
      BY <1>5, <1>6, <3>3
    <3> QED
      BY <1>2, <3>1, <3>2, <3>3
  <2>2. p = [i \in 1..(n + 1) |-> p[i]]
    BY DEF p
  <2> QED
    BY <2>1, <2>2
<1>8. \A i, j \in 1..n : q[i] = q[j] => i = j
  BY <1>0
<1>9. \A i, j \in 1..n : i < j => f[q[i]] <= f[q[j]]
  BY <1>0
<1>10. ASSUME NEW i \in 1..(n + 1), NEW j \in 1..(n + 1), p[i] = p[j] PROVE i = j
  <2>1. CASE i = m
    BY <1>2, <1>5, <1>6, <1>10, <2>1
  <2>2. CASE j = m
    BY <1>2, <1>5, <1>6, <1>10, <2>2
  <2>3. CASE i < m /\ j < m
    BY <1>5, <1>8, <1>10, <2>3
  <2>4. CASE i < m /\ j > m
    <3>1. i = j - 1 /\ m <= j - 1
      BY <1>5, <1>8, <1>10, <2>4
    <3> QED
      BY <1>2, <2>4, <3>1
  <2>5. CASE i > m /\ j < m
    <3>1. j = i - 1 /\ m <= i - 1
      BY <1>5, <1>8, <1>10, <2>5
    <3> QED
      BY <1>2, <2>5, <3>1
  <2>6. CASE i > m /\ j > m
    <3>1. i - 1 = j - 1
      BY <1>5, <1>8, <1>10, <2>6
    <3> QED
      BY <3>1
  <2> QED
    BY <1>2, <2>1, <2>2, <2>3, <2>4, <2>5, <2>6
<1>11. ASSUME NEW i \in 1..(n + 1), NEW j \in 1..(n + 1), i < j PROVE f[p[i]] <= f[p[j]]
  <2>1. CASE j < m
    <3>1. i < m
      BY <1>2, <1>11, <2>1
    <3> QED
      BY <1>5, <1>9, <1>11, <2>1, <3>1
  <2>2. CASE j = m
    BY <1>2, <1>3, <1>5, <1>11, <2>2
  <2>3. CASE j > m /\ i < m
    <3>1. i \in 1..n /\ j - 1 \in 1..n /\ p[i] = q[i] /\ p[j] = q[j - 1] /\ m <= j - 1
      BY <1>5, <2>3
    <3>2. i < j - 1
      BY <1>2, <2>3, <3>1
    <3> QED
      BY <1>9, <3>1, <3>2
  <2>4. CASE j > m /\ i = m
    BY <1>4, <1>5, <2>4
  <2>5. CASE j > m /\ i > m
    <3>1. i - 1 \in 1..n /\ j - 1 \in 1..n /\ p[i] = q[i - 1] /\ p[j] = q[j - 1] /\ i - 1 < j - 1
      BY <1>5, <1>11, <2>5
    <3> QED
      BY <1>9, <3>1
  <2> QED
    BY <1>2, <2>1, <2>2, <2>3, <2>4, <2>5
<1>12. Orders(n + 1, p, f)
  BY <1>7, <1>10, <1>11 DEF Orders
<1> QED
  BY <1>12

LEMMA OrderExists ==
    ASSUME NEW n \in Nat, NEW f \in [1..n -> Nat]
    PROVE  \E p : Orders(n, p, f)
<1> DEFINE S == {m \in Nat : \A g \in [1..m -> Nat] : \E p : Orders(m, p, g)}
<1>1. 0 \in S
  <2> SUFFICES ASSUME NEW g PROVE Orders(0, [i \in 1..0 |-> 0], g)
    OBVIOUS
  <2>1. 1..0 = {}
    OBVIOUS
  <2> QED
    BY <2>1 DEF Orders
<1>2. ASSUME NEW m \in Nat, m \in S PROVE m + 1 \in S
  <2> SUFFICES ASSUME NEW g \in [1..(m + 1) -> Nat] PROVE \E p : Orders(m + 1, p, g)
    OBVIOUS
  <2> DEFINE h == [i \in 1..m |-> g[i]]
  <2>1. h \in [1..m -> Nat] /\ \A i \in 1..m : h[i] = g[i]
    OBVIOUS
  <2> HIDE DEF h
  <2>2. PICK q : Orders(m, q, h)
    BY <1>2, <2>1
  <2>3. Orders(m, q, g)
    BY <2>1, <2>2 DEF Orders
  <2> QED
    BY <2>3, OrderInsert
<1>3. n \in S
  <2> HIDE DEF S
  <2> QED
    BY <1>1, <1>2, Counting
<1> QED
  BY <1>3

\* The state key of a sequence of addresses is one, of the same length.
LEMMA StateKeyType ==
    ASSUME NEW ends \in Seq(Addrs)
    PROVE  StateKey(ends) \in Seq(Addrs) /\ StateKey(ends) # None
<1> DEFINE D == 1..Len(ends)
           order == CHOOSE p \in [D -> D] : Sorts(p, ends)
<1>0. Addrs \subseteq Nat /\ None \notin Seq(Addrs)
  BY ServiceAssumption
<1>1. /\ Len(ends) \in Nat /\ DOMAIN ends = D /\ ends \in [D -> Addrs]
      /\ ends \in [D -> Nat]
  <2>1. Len(ends) \in Nat /\ DOMAIN ends = D /\ ends \in [D -> Addrs]
    OBVIOUS
  <2> HIDE DEF D
  <2> QED
    BY <1>0, <2>1
<1>2. \E p \in [D -> D] : Sorts(p, ends)
  <2>1. PICK p : Orders(Len(ends), p, ends)
    BY <1>1, OrderExists
  <2> QED
    BY <1>1, <2>1 DEF Orders, Sorts
<1>3. order \in [D -> D]
  BY <1>2, Zenon
<1>4. StateKey(ends) = [i \in D |-> ends[order[i]]]
  <2>1. DOMAIN ends = D
    BY <1>1
  <2> HIDE DEF D
  <2> QED
    BY <2>1 DEF StateKey
<1> HIDE DEF order
<1>5. [i \in D |-> ends[order[i]]] \in [D -> Addrs]
  BY <1>1, <1>3
<1>6. StateKey(ends) \in [1..Len(ends) -> Addrs]
  BY <1>4, <1>5
<1>7. StateKey(ends) \in Seq(Addrs)
  BY <1>1, <1>6
<1> QED
  BY <1>0, <1>7

-----------------------------------------------------------------------------
\* What the actions do to the controller.

Goes(at, svc, port, end, ends) ==
    /\ ctl' \in Pass /\ ctl'.at = at /\ ctl'.svc = svc /\ ctl'.port = port
    /\ ctl'.end = end /\ ctl'.ends = ends

LEMMA PortsAre ==
    ASSUME NEW s \in Services
    PROVE  /\ Ports[s] \in Seq([port : Nat \ {0}, target : Nat \ {0}, proto : Protos])
           /\ Len(Ports[s]) \in Nat /\ DOMAIN Ports[s] = 1..Len(Ports[s])
           /\ \A i \in DOMAIN Ports[s] :
                 /\ Ports[s][i].port \in Nat /\ Ports[s][i].target \in Nat
                 /\ Ports[s][i].proto \in Protos /\ Ports[s][i].port \in PortNumbers
                 /\ ChainOf(s, i) \in serviceChainName
                 /\ \A h \in Hooks : JumpOf(h, s, i) \in Hooks \X Services \X PortNumbers \X Protos
<1>1. Ports[s] \in Seq([port : Nat \ {0}, target : Nat \ {0}, proto : Protos])
  BY ServiceAssumption
<1>2. Len(Ports[s]) \in Nat /\ DOMAIN Ports[s] = 1..Len(Ports[s])
  BY <1>1
<1>3. ASSUME NEW i \in DOMAIN Ports[s]
      PROVE  /\ Ports[s][i].port \in Nat /\ Ports[s][i].target \in Nat
             /\ Ports[s][i].proto \in Protos /\ Ports[s][i].port \in PortNumbers
  <2>1. Ports[s][i] \in [port : Nat \ {0}, target : Nat \ {0}, proto : Protos]
    <3> DEFINE e == [port : Nat \ {0}, target : Nat \ {0}, proto : Protos]
    <3>1. Ports[s] \in Seq(e)
      BY <1>1
    <3> HIDE DEF e
    <3>2. Ports[s][i] \in e
      BY <3>1
    <3> QED
      BY <3>2 DEF e
  <2>2. Ports[s][i].port \in PortNumbers
    BY DEF PortNumbers
  <2> QED
    BY <2>1, <2>2
<1> QED
  BY <1>1, <1>2, <1>3 DEF ChainOf, JumpOf, JumpId, serviceChainName

LEMMA NoEnds == <<>> \in Seq(Addrs) /\ <<>> \in Seq(Rule) /\ 1 \in Nat \ {0}
OBVIOUS

LEMMA AsleepIs ==
    /\ Asleep \in Pass /\ Asleep.at = "asleep" /\ Asleep.svc = None
    /\ Asleep.port = 1 /\ Asleep.end = 1 /\ Asleep.ends = <<>>
BY NoEnds DEF Asleep, Pass

LEMMA ContinueEffect ==
    ASSUME ctl \in Pass, Continue
    PROVE  Goes("services", None, 1, 1, <<>>)
<1> DEFINE q == [[[ctl EXCEPT !.at = "services"] EXCEPT !.svc = None] EXCEPT !.ends = <<>>]
           r == [[q EXCEPT !.port = 1] EXCEPT !.end = 1]
<1>1. ctl' = r
  BY DEF Continue
<1>2. q \in Pass /\ q.at = "services" /\ q.svc = None /\ q.ends = <<>>
  BY NoEnds DEF Pass
<1> HIDE DEF q
<1>3. /\ r \in Pass /\ r.at = q.at /\ r.svc = q.svc /\ r.ends = q.ends
      /\ r.port = 1 /\ r.end = 1
  BY <1>2, NoEnds DEF Pass
<1> QED
  BY <1>1, <1>2, <1>3 DEF Goes

LEMMA WakeEffects ==
    ASSUME ctl \in Pass, ssm \subseteq Services, pods \subseteq Pods
    PROVE  /\ Tick => ctl'.at \in {"cleanup", "pods"} /\ Goes(ctl'.at, None, 1, 1, <<>>)
           /\ ListPods => Goes("services", ctl.svc, ctl.port, ctl.end, ctl.ends)
           /\ ListPodsFails => ctl' = Asleep
<1>1. ASSUME Tick PROVE ctl'.at \in {"cleanup", "pods"} /\ Goes(ctl'.at, None, 1, 1, <<>>)
  <2> DEFINE at == IF ssm = {} THEN "cleanup" ELSE "pods"
             q == [[[Asleep EXCEPT !.list = ssm] EXCEPT !.todo = ssm] EXCEPT !.at = at]
  <2>1. at \in {"cleanup", "pods"}
    OBVIOUS
  <2>2. ctl' = q
    BY <1>1 DEF Tick
  <2> HIDE DEF at
  <2>3. /\ q \in Pass /\ q.at = at /\ q.svc = Asleep.svc /\ q.port = Asleep.port
        /\ q.end = Asleep.end /\ q.ends = Asleep.ends
    BY <2>1, AsleepIs DEF Pass
  <2> QED
    BY <2>1, <2>2, <2>3, AsleepIs DEF Goes
<1>2. ASSUME ListPods PROVE Goes("services", ctl.svc, ctl.port, ctl.end, ctl.ends)
  BY <1>2 DEF ListPods, Goes, Pass
<1> QED
  BY <1>1, <1>2 DEF ListPodsFails

LEMMA PassEffects ==
    ASSUME ctl \in Pass, addr \in [Pods -> Addrs \cup {None}]
    PROVE  /\ NextService => /\ ctl'.svc \in Services
                             /\ Goes("endpoints", ctl'.svc, ctl.port, ctl.end, ctl.ends)
           /\ ServicesDone => Goes("cleanup", ctl.svc, ctl.port, ctl.end, ctl.ends)
           /\ ReadEndpoint => Goes("endpoints", ctl.svc, ctl.port, ctl.end, ctl'.ends)
           /\ EndpointsSame => Goes("services", None, 1, 1, <<>>)
           /\ EndpointsChanged =>
                 Goes("port", ctl.svc, ctl.port, ctl.end, StateKey(ctl.ends))
<1>1. ASSUME NextService
      PROVE  ctl'.svc \in Services /\ Goes("endpoints", ctl'.svc, ctl.port, ctl.end, ctl.ends)
  <2>1. PICK s \in ctl.todo :
           ctl' = [ctl EXCEPT !.svc = s, !.todo = @ \ {s}, !.at = "endpoints",
                              !.toRead = ctl.pods \cap Selects[s]]
    BY <1>1 DEF NextService
  <2>2. s \in Services /\ ctl.todo \ {s} \subseteq Services /\ ctl.pods \cap Selects[s] \subseteq Pods
    BY DEF Pass
  <2> QED
    BY <2>1, <2>2 DEF Goes, Pass
<1>2. ASSUME ServicesDone PROVE Goes("cleanup", ctl.svc, ctl.port, ctl.end, ctl.ends)
  BY <1>2 DEF ServicesDone, Goes, Pass
<1>3. ASSUME ReadEndpoint PROVE Goes("endpoints", ctl.svc, ctl.port, ctl.end, ctl'.ends)
  <2>1. PICK p \in ctl.toRead :
          ctl' = [ctl EXCEPT !.toRead = @ \ {p},
                             !.ends = IF addr[p] = None THEN @ ELSE Append(@, addr[p])]
    BY <1>3 DEF ReadEndpoint
  <2> DEFINE ends == IF addr[p] = None THEN ctl.ends ELSE Append(ctl.ends, addr[p])
             q == [[ctl EXCEPT !.toRead = @ \ {p}] EXCEPT !.ends = ends]
  <2>2. ends \in Seq(Addrs)
    <3>1. p \in Pods /\ ctl.ends \in Seq(Addrs)
      BY DEF Pass
    <3>2. addr[p] # None => addr[p] \in Addrs
      BY <3>1
    <3> QED
      BY <3>1, <3>2
  <2>3. ctl' = q
    BY <2>1
  <2> HIDE DEF ends
  <2>4. /\ q \in Pass /\ q.at = ctl.at /\ q.svc = ctl.svc /\ q.port = ctl.port
        /\ q.end = ctl.end
    BY <2>2 DEF Pass
  <2> QED
    BY <1>3, <2>3, <2>4 DEF Goes, ReadEndpoint, At
<1>4. ASSUME EndpointsChanged
      PROVE  Goes("port", ctl.svc, ctl.port, ctl.end, StateKey(ctl.ends))
  <2> DEFINE key == StateKey(ctl.ends)
  <2>1. key \in Seq(Addrs)
    BY StateKeyType DEF Pass
  <2>2. ctl' = [ctl EXCEPT !.ends = key, !.at = "port"]
    BY <1>4 DEF EndpointsChanged
  <2> HIDE DEF key
  <2>3. Goes("port", ctl.svc, ctl.port, ctl.end, key)
    BY <2>1, <2>2 DEF Goes, Pass, Working
  <2> QED
    BY <2>3 DEF key
<1>5. ASSUME EndpointsSame PROVE Goes("services", None, 1, 1, <<>>)
  BY <1>5, ContinueEffect DEF EndpointsSame
<1> QED
  BY <1>1, <1>2, <1>3, <1>4, <1>5

LEMMA ApplyEffects ==
    ASSUME ctl \in Pass
    PROVE  /\ FlushChain => Goes("unjump", ctl.svc, ctl.port, ctl.end, ctl.ends)
           /\ deleteJumpRule \/ deleteJumpRuleFails =>
                 Goes("jump", ctl.svc, ctl.port, ctl.end, ctl.ends)
           /\ addJumpRule => Goes("rules", ctl.svc, ctl.port, ctl.end, ctl.ends)
           /\ addEndpointRule => Goes("rules", ctl.svc, ctl.port, ctl.end + 1, ctl.ends)
           /\ PortDone => Goes("port", ctl.svc, ctl.port + 1, 1, ctl.ends)
           /\ RulesApplied \/ applyRulesFails => Goes("services", None, 1, 1, <<>>)
<1>1. ctl.port + 1 \in Nat \ {0} /\ ctl.end + 1 \in Nat \ {0}
  BY DEF Pass
<1>3. FlushChain => Goes("unjump", ctl.svc, ctl.port, ctl.end, ctl.ends)
  BY DEF FlushChain, Goes, Pass, Working
<1>4. deleteJumpRule => Goes("jump", ctl.svc, ctl.port, ctl.end, ctl.ends)
  BY DEF deleteJumpRule, Goes, Pass, Working
<1>5. deleteJumpRuleFails => Goes("jump", ctl.svc, ctl.port, ctl.end, ctl.ends)
  BY DEF deleteJumpRuleFails, Goes, Pass, Working
<1>6. addJumpRule => Goes("rules", ctl.svc, ctl.port, ctl.end, ctl.ends)
  BY DEF addJumpRule, Goes, Pass, Working
<1>7. addEndpointRule => Goes("rules", ctl.svc, ctl.port, ctl.end + 1, ctl.ends)
  BY <1>1 DEF addEndpointRule, At, Goes, Pass
<1>8. PortDone => Goes("port", ctl.svc, ctl.port + 1, 1, ctl.ends)
  <2> DEFINE q == [[[ctl EXCEPT !.at = "port"] EXCEPT !.port = ctl.port + 1] EXCEPT !.end = 1]
  <2>1. PortDone => ctl' = q
    BY DEF PortDone
  <2>2. /\ q \in Pass /\ q.at = "port" /\ q.svc = ctl.svc /\ q.ends = ctl.ends
        /\ q.port = ctl.port + 1 /\ q.end = 1
    BY <1>1, NoEnds DEF Pass, Working
  <2> QED
    BY <2>1, <2>2 DEF Goes
<1>9. RulesApplied \/ applyRulesFails => Goes("services", None, 1, 1, <<>>)
  BY ContinueEffect DEF RulesApplied, applyRulesFails
<1> QED
  BY <1>3, <1>4, <1>5, <1>6, <1>7, <1>8, <1>9

LEMMA CleanEffects ==
    ASSUME ctl \in Pass
    PROVE  /\ NextCleanup => ctl'.svc \in Removed /\ Goes("cleanup", ctl'.svc, ctl.port, ctl.end, ctl.ends)
           /\ CleanPort \/ CleanPortFails => Goes("cleanup", ctl.svc, ctl.port + 1, ctl.end, ctl.ends)
           /\ CleanupDone => Goes("cleanup", None, 1, ctl.end, ctl.ends)
<1>1. ctl.port + 1 \in Nat \ {0}
  BY DEF Pass
<1>2. ASSUME NextCleanup
      PROVE  ctl'.svc \in Removed /\ Goes("cleanup", ctl'.svc, ctl.port, ctl.end, ctl.ends)
  <2>1. PICK s \in Removed : ctl' = [ctl EXCEPT !.svc = s]
    BY <1>2 DEF NextCleanup
  <2>2. s \in Services
    BY DEF Removed
  <2> QED
    BY <1>2, <2>1, <2>2 DEF NextCleanup, At, Goes, Pass
<1>3. CleanPort \/ CleanPortFails => Goes("cleanup", ctl.svc, ctl.port + 1, ctl.end, ctl.ends)
  BY <1>1 DEF CleanPort, CleanPortFails, At, Goes, Pass
<1>4. CleanupDone => Goes("cleanup", None, 1, ctl.end, ctl.ends)
  <2> DEFINE q == [[ctl EXCEPT !.svc = None] EXCEPT !.port = 1]
  <2>1. CleanupDone => ctl' = q /\ ctl.at = "cleanup"
    BY DEF CleanupDone, At
  <2>2. /\ q \in Pass /\ q.at = ctl.at /\ q.svc = None /\ q.ends = ctl.ends
        /\ q.port = 1 /\ q.end = ctl.end
    BY NoEnds DEF Pass
  <2> QED
    BY <2>1, <2>2 DEF Goes
<1> QED
  BY <1>2, <1>3, <1>4

-----------------------------------------------------------------------------
\* Types.

StoresOK ==
    /\ ssm \subseteq spent /\ checked \subseteq spent \ ssm /\ spent \subseteq Services
    /\ failed \subseteq Services /\ doubled \subseteq Services /\ forgot \subseteq Services
    /\ changes \in 0..MaxChanges /\ faults \in 0..MaxFaults /\ restarts \in 0..MaxRestarts
HostsOK ==
    /\ pods \subseteq Pods /\ addr \in [Pods -> Addrs \cup {None}]
    /\ \A p \in Pods : addr[p] # None => p \in pods
JumpIds == Hooks \X Services \X PortNumbers \X Protos
ChainsOK == chain \in [serviceChainName -> Seq(Rule) \cup {None}]
JumpsOK == jumps \in [JumpIds -> Nat]
ForwardOK == forward \subseteq Addrs \X Nat \X Protos
MemoryOK == lastState \in [Services -> Seq(Addrs) \cup {None}]
PassOK ==
    /\ ctl \in Pass
    /\ ctl.at = "endpoints" \/ ctl.at \in Working => ctl.svc \in Services
    /\ ctl.at \in Working => ctl.ends = lastState[ctl.svc]
    /\ ctl.at \in Working \ {"port"} =>
          /\ ctl.port <= Len(Ports[ctl.svc])
          /\ chain[<<ctl.svc, Ports[ctl.svc][ctl.port].port>>] \in Seq(Rule)

LEMMA TypeParts ==
    TypeOK <=> StoresOK /\ HostsOK /\ ChainsOK /\ JumpsOK /\ ForwardOK /\ MemoryOK /\ PassOK
BY DEF TypeOK, StoresOK, HostsOK, ChainsOK, JumpsOK, ForwardOK, MemoryOK, PassOK, JumpIds

\* The steps that change only the controller, and those that change the rules.
Quiet ==
    \/ Tick \/ ListPods \/ ListPodsFails \/ NextService \/ ServicesDone \/ ReadEndpoint
    \/ EndpointsSame \/ PortDone \/ RulesApplied \/ NextCleanup \/ Sleep
Applies ==
    \/ FlushChain \/ deleteJumpRule \/ deleteJumpRuleFails \/ addJumpRule
    \/ addEndpointRule \/ applyRulesFails
Cleans == CleanPort \/ CleanPortFails

LEMMA NextCases ==
    ASSUME Next
    PROVE  Clients \/ Quiet \/ EndpointsChanged \/ Applies \/ Cleans \/ CleanupDone \/ Restart
BY DEF Next, Controller, Failure, Quiet, Applies, Cleans

LEMMA ClientsKeep ==
    ASSUME Clients
    PROVE  /\ UNCHANGED <<chain, jumps, forward, lastState, ctl, failed, doubled, forgot>>
           /\ UNCHANGED <<faults, restarts>>
<1>1. ASSUME NEW s \in Services, CreateService(s) \/ StoreService(s) \/ RemoveService(s)
      PROVE  /\ UNCHANGED <<chain, jumps, forward, lastState, ctl, failed, doubled, forgot>>
             /\ UNCHANGED <<faults, restarts>>
  BY <1>1 DEF CreateService, StoreService, RemoveService, nat, ghosts, bounds, Change
<1>2. ASSUME NEW p \in Pods, PodStored(p) \/ PodRemoved(p) \/ \E a \in Addrs : PodUp(p, a)
      PROVE  /\ UNCHANGED <<chain, jumps, forward, lastState, ctl, failed, doubled, forgot>>
             /\ UNCHANGED <<faults, restarts>>
  BY <1>2 DEF PodStored, PodRemoved, PodUp, nat, ghosts, bounds, Change
<1> QED
  BY <1>1, <1>2 DEF Clients

LEMMA QuietKeeps ==
    ASSUME Quiet
    PROVE  UNCHANGED <<stores, hosts, chain, jumps, forward, lastState, failed, doubled, forgot>>
BY DEF Quiet, Tick, ListPods, ListPodsFails, NextService, ServicesDone, ReadEndpoint,
       EndpointsSame, PortDone, RulesApplied, NextCleanup, Sleep, nat, ghosts

LEMMA StoresStep == ASSUME TypeOK, [Next]_vars PROVE StoresOK'
<1> USE DEF StoresOK
<1>0. /\ ssm \subseteq spent /\ checked \subseteq spent \ ssm /\ spent \subseteq Services
      /\ failed \subseteq Services /\ doubled \subseteq Services /\ forgot \subseteq Services
      /\ changes \in 0..MaxChanges /\ faults \in 0..MaxFaults /\ restarts \in 0..MaxRestarts
      /\ MaxChanges \in Nat /\ MaxFaults \in Nat /\ MaxRestarts \in Nat
  BY ServiceAssumption DEF TypeOK
<1>1. ASSUME Change PROVE changes' \in 0..MaxChanges
  BY <1>0, <1>1 DEF Change
<1>2. ASSUME Fault PROVE faults' \in 0..MaxFaults /\ UNCHANGED <<changes, restarts>>
  BY <1>0, <1>2 DEF Fault
<1>3. CASE Clients
  <2>1. ASSUME NEW s \in Services, CreateService(s) \/ StoreService(s) \/ RemoveService(s)
        PROVE  ssm' \subseteq spent' /\ checked' \subseteq spent' \ ssm' /\ spent' \subseteq Services
    <3>1. CASE CreateService(s)
      BY <1>0, <3>1 DEF CreateService
    <3>2. CASE StoreService(s)
      BY <1>0, <3>2 DEF StoreService
    <3>3. CASE RemoveService(s)
      BY <1>0, <3>3 DEF RemoveService
    <3> QED
      BY <2>1, <3>1, <3>2, <3>3
  <2>2. ASSUME NEW p \in Pods, PodStored(p) \/ PodRemoved(p) \/ \E a \in Addrs : PodUp(p, a)
        PROVE  UNCHANGED <<ssm, checked, spent>>
    BY <2>2 DEF PodStored, PodRemoved, PodUp, stores
  <2>3. Change \/ UNCHANGED changes
    BY <1>3 DEF Clients, CreateService, StoreService, RemoveService, PodStored, PodRemoved,
                PodUp, bounds
  <2> QED
    BY <1>0, <1>1, <1>3, <2>1, <2>2, <2>3, ClientsKeep DEF Clients
<1>4. CASE Quiet
  <2>1. Fault \/ UNCHANGED <<changes, faults, restarts>>
    BY <1>4 DEF Quiet, Tick, ListPods, ListPodsFails, NextService, ServicesDone, ReadEndpoint,
       EndpointsSame, PortDone, RulesApplied, NextCleanup, Sleep, bounds
  <2> QED
    BY <1>0, <1>2, <1>4, <2>1, QuietKeeps DEF stores
<1>5. CASE EndpointsChanged
  BY <1>0, <1>5 DEF EndpointsChanged, stores, bounds
<1>6. CASE Applies \/ Cleans
  <2>1. UNCHANGED <<ssm, checked, spent, forgot>>
    BY <1>6 DEF Applies, Cleans, FlushChain, deleteJumpRule, deleteJumpRuleFails, addJumpRule,
         addEndpointRule, applyRulesFails, CleanPort, CleanPortFails, stores, ghosts
  <2>2. Fault \/ UNCHANGED <<changes, faults, restarts>>
    BY <1>6 DEF Applies, Cleans, FlushChain, deleteJumpRule, deleteJumpRuleFails, addJumpRule,
         addEndpointRule, applyRulesFails, CleanPort, CleanPortFails, bounds
  <2>3. Svc \in Services \cup {None} /\ (At("cleanup") \/ Svc \in Services)
    BY <1>6 DEF TypeOK, Pass, Working, Svc, At, Applies, Cleans, FlushChain, deleteJumpRule,
         deleteJumpRuleFails, addJumpRule, addEndpointRule, applyRulesFails, CleanPort, CleanPortFails
  <2>4. failed' \subseteq Services /\ doubled' \subseteq Services
    <3>1. CASE deleteJumpRuleFails
      BY <1>0, <2>3, <3>1 DEF deleteJumpRuleFails, At
    <3>2. CASE CleanPortFails
      BY <1>0, <2>3, <3>2 DEF CleanPortFails
    <3>3. CASE applyRulesFails
      BY <1>0, <2>3, <3>3 DEF applyRulesFails, At
    <3>4. CASE FlushChain \/ deleteJumpRule \/ addJumpRule \/ addEndpointRule \/ CleanPort
      BY <1>0, <3>4 DEF FlushChain, deleteJumpRule, addJumpRule, addEndpointRule, CleanPort, ghosts
    <3> QED
      BY <1>6, <3>1, <3>2, <3>3, <3>4 DEF Applies, Cleans
  <2> QED
    BY <1>0, <1>2, <2>1, <2>2, <2>4
<1>7. CASE CleanupDone
  BY <1>0, <1>7 DEF CleanupDone, stores, ghosts, bounds
<1>8. CASE Restart
  BY <1>0, <1>8 DEF Restart
<1>9. CASE UNCHANGED vars
  BY <1>0, <1>9 DEF vars, stores, ghosts, bounds
<1> QED
  BY <1>3, <1>4, <1>5, <1>6, <1>7, <1>8, <1>9, NextCases

LEMMA HostsStep == ASSUME TypeOK, [Next]_vars PROVE HostsOK'
<1> USE DEF HostsOK
<1>0. HostsOK
  BY TypeParts
<1>1. CASE Clients
  <2>1. ASSUME NEW s \in Services, CreateService(s) \/ StoreService(s) \/ RemoveService(s)
        PROVE  UNCHANGED <<pods, addr>>
    BY <2>1 DEF CreateService, StoreService, RemoveService, hosts
  <2>2. ASSUME NEW p \in Pods, PodStored(p) \/ PodRemoved(p) PROVE HostsOK'
    BY <1>0, <2>2 DEF PodStored, PodRemoved
  <2>3. ASSUME NEW p \in Pods, NEW a \in Addrs, PodUp(p, a) PROVE HostsOK'
    BY <1>0, <2>3 DEF PodUp
  <2> QED
    BY <1>0, <1>1, <2>1, <2>2, <2>3 DEF Clients
<1>2. ASSUME ~Clients PROVE UNCHANGED <<pods, addr>>
  <2>1. CASE Quiet
    BY <2>1, QuietKeeps DEF hosts
  <2>2. CASE Applies \/ Cleans
    BY <2>2 DEF Applies, Cleans, FlushChain, deleteJumpRule, deleteJumpRuleFails, addJumpRule,
         addEndpointRule, applyRulesFails, CleanPort, CleanPortFails, hosts
  <2>3. CASE EndpointsChanged \/ CleanupDone \/ Restart
    BY <2>3 DEF EndpointsChanged, CleanupDone, Restart, hosts
  <2>4. CASE UNCHANGED vars
    BY <2>4 DEF vars, hosts
  <2> QED
    BY <1>2, <2>1, <2>2, <2>3, <2>4, NextCases
<1> QED
  BY <1>0, <1>1, <1>2

LEMMA MemoryStep == ASSUME TypeOK, [Next]_vars PROVE MemoryOK'
<1> USE DEF MemoryOK
<1>0. MemoryOK
  BY TypeParts
<1>1. CASE EndpointsChanged
  <2>1. StateKey(ctl.ends) \in Seq(Addrs)
    BY StateKeyType DEF TypeOK, Pass
  <2> QED
    BY <1>0, <1>1, <2>1 DEF EndpointsChanged
<1>2. CASE CleanupDone
  BY <1>0, <1>2 DEF CleanupDone
<1>3. CASE Restart
  BY <1>3 DEF Restart
<1>4. CASE Clients \/ Quiet
  BY <1>0, <1>4, ClientsKeep, QuietKeeps
<1>5. CASE Applies \/ Cleans
  BY <1>0, <1>5 DEF Applies, Cleans, FlushChain, deleteJumpRule, deleteJumpRuleFails, addJumpRule,
         addEndpointRule, applyRulesFails, CleanPort, CleanPortFails
<1>6. CASE UNCHANGED vars
  BY <1>0, <1>6 DEF vars
<1> QED
  BY <1>1, <1>2, <1>3, <1>4, <1>5, <1>6, NextCases

\* Deleting and adding jump rules.
LEMMA JumpsChange ==
    ASSUME JumpsOK, NEW js, NEW kept
    PROVE  /\ Deleted(js, kept) \in [JumpIds -> Nat] /\ Added(js) \in [JumpIds -> Nat]
           /\ \A j \in JumpIds :
                 /\ Deleted(js, kept)[j] = IF j \in js \ kept /\ jumps[j] > 0
                                           THEN jumps[j] - 1 ELSE jumps[j]
                 /\ Added(js)[j] = IF j \in js THEN jumps[j] + 1 ELSE jumps[j]
<1>1. DOMAIN jumps = JumpIds /\ \A j \in JumpIds : jumps[j] \in Nat
  BY DEF JumpsOK
<1> HIDE DEF JumpIds
<1>2. \A j \in JumpIds : (IF j \in js \ kept /\ jumps[j] > 0 THEN jumps[j] - 1 ELSE jumps[j]) \in Nat
  BY <1>1
<1>3. \A j \in JumpIds : (IF j \in js THEN jumps[j] + 1 ELSE jumps[j]) \in Nat
  BY <1>1
<1> QED
  BY <1>1, <1>2, <1>3 DEF Deleted, Added

LEMMA JumpsStep == ASSUME TypeOK, [Next]_vars PROVE JumpsOK'
<1>0. JumpsOK
  BY TypeParts
<1>1. CASE Applies \/ Cleans
  <2>1. \/ UNCHANGED jumps
        \/ \E js, kept : jumps' = Deleted(js, kept)
        \/ \E js : jumps' = Added(js)
    BY <1>1 DEF Applies, Cleans, FlushChain, deleteJumpRule, deleteJumpRuleFails, addJumpRule,
         addEndpointRule, applyRulesFails, CleanPort, CleanPortFails, Clean
  <2>2. ASSUME NEW js, NEW kept
        PROVE  Deleted(js, kept) \in [JumpIds -> Nat] /\ Added(js) \in [JumpIds -> Nat]
    BY <1>0, JumpsChange, Zenon
  <2> HIDE DEF JumpIds
  <2>3. JumpsOK' <=> jumps' \in [JumpIds -> Nat]
    BY DEF JumpsOK, JumpIds
  <2> QED
    BY <1>0, <2>1, <2>2, <2>3, Zenon DEF JumpsOK
<1>2. CASE Clients \/ Quiet
  BY <1>0, <1>2, ClientsKeep, QuietKeeps DEF JumpsOK
<1>3. CASE EndpointsChanged \/ CleanupDone \/ Restart
  BY <1>0, <1>3 DEF EndpointsChanged, CleanupDone, Restart, nat, JumpsOK
<1>4. CASE UNCHANGED vars
  BY <1>0, <1>4 DEF vars, nat, JumpsOK
<1> QED
  BY <1>1, <1>2, <1>3, <1>4, NextCases

\* The port that is being applied.
LEMMA CurrentPort ==
    ASSUME TypeOK, ctl.at \in Working \/ (ctl.at = "cleanup" /\ ctl.svc # None),
           ctl.port <= Len(Ports[ctl.svc])
    PROVE  /\ Svc = ctl.svc /\ Svc \in Services /\ ctl.port \in DOMAIN Ports[Svc]
           /\ Port = Ports[ctl.svc][ctl.port]
           /\ Port.port \in Nat /\ Port.target \in Nat /\ Port.proto \in Protos
           /\ Chain = ChainOf(ctl.svc, ctl.port) /\ Chain \in serviceChainName
           /\ Port.port \in PortNumbers
<1>1. ctl.svc \in Services /\ ctl.port \in Nat /\ ctl.port >= 1
  BY DEF TypeOK, Pass
<1>2. ctl.port \in DOMAIN Ports[ctl.svc]
  BY <1>1, PortsAre
<1>3. Svc = ctl.svc /\ Port = Ports[ctl.svc][ctl.port] /\ Chain = ChainOf(ctl.svc, ctl.port)
  BY DEF Svc, Port, Chain, ChainOf
<1> QED
  BY <1>1, <1>2, <1>3, PortsAre, Zenon

LEMMA RuleType ==
    ASSUME NEW ends \in Seq(Addrs), NEW i \in 1..Len(ends), NEW port,
           port.target \in Nat, port.proto \in Protos
    PROVE  EndpointRule(ends, i, port) \in Rule
<1>1. ends[i] \in Addrs /\ Len(ends) \in Nat
  OBVIOUS
<1> QED
  BY <1>1 DEF EndpointRule, Rule

\* The step of addEndpointRule.
LEMMA EndpointStep ==
    ASSUME TypeOK, addEndpointRule
    PROVE  /\ ctl.end \in 1..Len(ctl.ends) /\ Chain \in serviceChainName
           /\ EndpointRule(ctl.ends, ctl.end, Port) \in Rule
           /\ ForwardRule(ctl.ends[ctl.end], Port) \in Addrs \X Nat \X Protos
           /\ chain[Chain] \in Seq(Rule)
<1>1. ctl.at = "rules" /\ ctl.end <= Len(ctl.ends)
  BY DEF addEndpointRule, At
<1>2. ctl.ends \in Seq(Addrs) /\ ctl.end \in Nat \ {0} /\ ctl.port <= Len(Ports[ctl.svc])
      /\ chain[<<ctl.svc, Ports[ctl.svc][ctl.port].port>>] \in Seq(Rule)
  BY <1>1 DEF TypeOK, Pass, Working
<1>3. ctl.end \in 1..Len(ctl.ends) /\ ctl.ends[ctl.end] \in Addrs
  BY <1>1, <1>2
<1>4. Port.target \in Nat /\ Port.proto \in Protos /\ Chain \in serviceChainName
  <2>1. ctl.at \in Working
    BY <1>1 DEF Working
  <2> QED
    BY <1>2, <2>1, CurrentPort, Zenon
<1> QED
  BY <1>2, <1>3, <1>4, RuleType DEF ForwardRule, Chain, Svc, Port

\* What a step of clean-up does to the chain of its port, and to the jumps.
ChainEmptied ==
    \/ UNCHANGED chain
    \/ \E rules \in {<<>>, None} : (chain[Chain] = None => rules = None)
                                    /\ chain' = [chain EXCEPT ![Chain] = rules]

LEMMA CleanChain == ASSUME TypeOK, Cleans PROVE ChainEmptied
<1>1. chain \in [serviceChainName -> Seq(Rule) \cup {None}]
  BY DEF TypeOK
<1>2. \/ \E kept : Clean(Svc, Port.port, kept)
      \/ /\ chain[Chain] # None
         /\ \E rules \in {chain[Chain], <<>>} : chain' = [chain EXCEPT ![Chain] = rules]
  BY DEF Cleans, CleanPort, CleanPortFails
<1>3. ASSUME NEW kept, Clean(Svc, Port.port, kept) PROVE ChainEmptied
  <2> DEFINE stays == chain[Chain] # None
                      /\ JumpedTo(Deleted(PortJumps(Svc, Port.port), kept), Svc, Port.port)
  <2>1. chain' = [chain EXCEPT ![Chain] = IF stays THEN <<>> ELSE None]
    BY <1>3 DEF Clean, Chain
  <2>2. CASE stays
    BY <2>1, <2>2 DEF ChainEmptied
  <2>3. CASE ~stays
    BY <2>1, <2>3 DEF ChainEmptied
  <2> QED
    BY <2>2, <2>3
<1>4. ASSUME chain' = [chain EXCEPT ![Chain] = chain[Chain]] PROVE ChainEmptied
  BY <1>1, <1>4 DEF ChainEmptied
<1>5. ASSUME chain[Chain] # None, chain' = [chain EXCEPT ![Chain] = <<>>] PROVE ChainEmptied
  BY <1>5 DEF ChainEmptied
<1> QED
  BY <1>2, <1>3, <1>4, <1>5

LEMMA ChainsStep == ASSUME TypeOK, [Next]_vars PROVE ChainsOK' /\ ForwardOK'
<1>0. ChainsOK /\ ForwardOK
  BY TypeParts
<1>1. CASE addEndpointRule
  <2>1. /\ chain[Chain] \in Seq(Rule) /\ EndpointRule(ctl.ends, ctl.end, Port) \in Rule
        /\ ForwardRule(ctl.ends[ctl.end], Port) \in Addrs \X Nat \X Protos
    BY <1>1, EndpointStep
  <2>2. Append(chain[Chain], EndpointRule(ctl.ends, ctl.end, Port)) \in Seq(Rule)
    BY <2>1
  <2>3. ForwardOK'
    BY <1>0, <1>1, <2>1 DEF addEndpointRule, ForwardOK
  <2>4. ChainsOK'
    BY <1>0, <1>1, <2>2 DEF addEndpointRule, ChainsOK
  <2> QED
    BY <2>3, <2>4
<1>2. CASE FlushChain
  BY <1>0, <1>2, NoEnds DEF FlushChain, ChainsOK, ForwardOK
<1>3. CASE Cleans
  <2>1. UNCHANGED forward
    BY <1>3 DEF Cleans, CleanPort, CleanPortFails
  <2>2. ChainEmptied
    BY <1>3, CleanChain
  <2>3. ChainsOK'
    BY <1>0, <2>2, NoEnds DEF ChainEmptied, ChainsOK
  <2> QED
    BY <1>0, <2>1, <2>3 DEF ForwardOK
<1>4. CASE deleteJumpRule \/ deleteJumpRuleFails \/ addJumpRule \/ applyRulesFails
  BY <1>0, <1>4 DEF deleteJumpRule, deleteJumpRuleFails, addJumpRule, applyRulesFails, ChainsOK,
                    ForwardOK
<1>5. CASE Clients \/ Quiet
  BY <1>0, <1>5, ClientsKeep, QuietKeeps DEF ChainsOK, ForwardOK
<1>6. CASE EndpointsChanged \/ CleanupDone \/ Restart
  BY <1>0, <1>6 DEF EndpointsChanged, CleanupDone, Restart, nat, ChainsOK, ForwardOK
<1>7. CASE UNCHANGED vars
  BY <1>0, <1>7 DEF vars, nat, ChainsOK, ForwardOK
<1> QED
  BY <1>1, <1>2, <1>3, <1>4, <1>5, <1>6, <1>7, NextCases DEF Applies

LEMMA PassStep == ASSUME TypeOK, [Next]_vars PROVE PassOK'
<1> USE DEF Goes
<1>0. ctl \in Pass /\ PassOK /\ ssm \subseteq Services /\ pods \subseteq Pods
      /\ addr \in [Pods -> Addrs \cup {None}]
  BY DEF TypeOK, PassOK
<1>a. ASSUME NEW at, at \notin Working, NEW svc, at = "endpoints" => svc \in Services,
             NEW port, NEW end, NEW ends, Goes(at, svc, port, end, ends)
      PROVE  PassOK'
  BY <1>a DEF PassOK, Working
<1>b. UNCHANGED ctl /\ UNCHANGED <<chain, lastState>> => PassOK'
  BY <1>0 DEF PassOK
<1>1. CASE Clients \/ UNCHANGED vars
  BY <1>b, <1>1, ClientsKeep DEF vars, nat
<1>2. CASE Tick \/ ListPods \/ ListPodsFails \/ Sleep \/ Restart
  <2>1. CASE Tick
    <3>1. ctl'.at \in {"cleanup", "pods"} /\ Goes(ctl'.at, None, 1, 1, <<>>)
      BY <1>0, <2>1, WakeEffects
    <3> QED
      BY <1>a, <3>1 DEF Working
  <2>2. CASE ListPods
    BY <1>0, <1>a, <2>2, WakeEffects DEF Working
  <2>3. CASE ListPodsFails \/ Sleep \/ Restart
    BY <2>3, AsleepIs DEF ListPodsFails, Sleep, Restart, PassOK, Working
  <2> QED
    BY <1>2, <2>1, <2>2, <2>3
<1>3. CASE NextService \/ ServicesDone \/ ReadEndpoint \/ EndpointsSame
  <2>1. CASE NextService
    <3>1. ctl'.svc \in Services /\ Goes("endpoints", ctl'.svc, ctl.port, ctl.end, ctl.ends)
      BY <1>0, <2>1, PassEffects
    <3> QED
      BY <1>a, <3>1 DEF Working
  <2>2. CASE ReadEndpoint
    <3>1. Goes("endpoints", ctl.svc, ctl.port, ctl.end, ctl'.ends) /\ ctl.svc \in Services
      BY <1>0, <2>2, PassEffects DEF ReadEndpoint, At, PassOK
    <3> QED
      BY <1>a, <3>1 DEF Working
  <2>3. CASE ServicesDone
    <3>1. Goes("cleanup", ctl.svc, ctl.port, ctl.end, ctl.ends)
      BY <1>0, <2>3, PassEffects
    <3> QED
      BY <1>a, <3>1 DEF Working
  <2>4. CASE EndpointsSame
    <3>1. Goes("services", None, 1, 1, <<>>)
      BY <1>0, <2>4, PassEffects
    <3> QED
      BY <1>a, <3>1 DEF Working
  <2> QED
    BY <1>3, <2>1, <2>2, <2>3, <2>4
<1>4. CASE EndpointsChanged
  <2>1. Goes("port", ctl.svc, ctl.port, ctl.end, StateKey(ctl.ends)) /\ ctl.svc \in Services
    BY <1>0, <1>4, PassEffects DEF EndpointsChanged, At, PassOK
  <2>2. lastState'[ctl.svc] = StateKey(ctl.ends)
    BY <1>4, <2>1 DEF EndpointsChanged, TypeOK, Svc
  <2> QED
    BY <2>1, <2>2 DEF PassOK, Working
<1>5. CASE PortDone
  <2>1. /\ ctl'.at = "port" /\ ctl'.svc = ctl.svc /\ ctl'.ends = ctl.ends /\ ctl' \in Pass
        /\ UNCHANGED lastState
    BY <1>0, <1>5, ApplyEffects, QuietKeeps DEF Quiet
  <2>2. ctl.at \in Working
    BY <1>5 DEF PortDone, At, Working
  <2> QED
    BY <1>0, <2>1, <2>2 DEF PassOK, Working
<1>6. CASE FlushChain
  <2>1. /\ ctl.at = "port" /\ ctl.port <= Len(Ports[ctl.svc])
        /\ UNCHANGED lastState /\ chain' = [chain EXCEPT ![Chain] = <<>>]
    BY <1>6 DEF FlushChain, At, Svc
  <2>2. Goes("unjump", ctl.svc, ctl.port, ctl.end, ctl.ends)
    BY <1>0, <1>6, ApplyEffects
  <2>3. chain'[<<ctl.svc, Ports[ctl.svc][ctl.port].port>>] = <<>>
    <3>1. Chain \in serviceChainName /\ Chain = <<ctl.svc, Ports[ctl.svc][ctl.port].port>>
      <4>1. ctl.at \in Working
        BY <2>1 DEF Working
      <4> QED
        BY <2>1, <4>1, CurrentPort, Zenon DEF ChainOf
    <3>2. chain \in [serviceChainName -> Seq(Rule) \cup {None}]
      BY DEF TypeOK
    <3> QED
      BY <2>1, <3>1, <3>2
  <2> QED
    BY <1>0, <2>1, <2>2, <2>3, NoEnds DEF PassOK, Working
<1>7. CASE deleteJumpRule \/ deleteJumpRuleFails \/ addJumpRule
  <2>1. /\ ctl'.svc = ctl.svc /\ ctl'.ends = ctl.ends /\ ctl' \in Pass /\ ctl'.port = ctl.port
        /\ ctl'.at \in Working \ {"port"}
    BY <1>0, <1>7, ApplyEffects DEF Working
  <2>2. ctl.at \in Working \ {"port"} /\ UNCHANGED <<lastState, chain>>
    BY <1>7 DEF deleteJumpRule, deleteJumpRuleFails, addJumpRule, At, Working
  <2> QED
    BY <1>0, <2>1, <2>2 DEF PassOK, Working
<1>8. CASE addEndpointRule
  <2>1. Goes("rules", ctl.svc, ctl.port, ctl.end + 1, ctl.ends)
    BY <1>0, <1>8, ApplyEffects
  <2>2. ctl.at = "rules" /\ UNCHANGED lastState
    BY <1>8 DEF addEndpointRule, At
  <2>3. chain'[<<ctl.svc, Ports[ctl.svc][ctl.port].port>>] \in Seq(Rule)
    <3>1. /\ Chain \in serviceChainName /\ chain[Chain] \in Seq(Rule)
          /\ EndpointRule(ctl.ends, ctl.end, Port) \in Rule
      BY <1>8, EndpointStep
    <3>2. Append(chain[Chain], EndpointRule(ctl.ends, ctl.end, Port)) \in Seq(Rule)
      BY <3>1
    <3>3. chain'[Chain] = Append(chain[Chain], EndpointRule(ctl.ends, ctl.end, Port))
      BY <1>8, <3>1 DEF addEndpointRule, TypeOK
    <3> QED
      BY <3>2, <3>3 DEF Chain, Svc, Port
  <2> QED
    BY <1>0, <2>1, <2>2, <2>3 DEF PassOK, Working
<1>9. CASE RulesApplied \/ applyRulesFails
  <2>1. Goes("services", None, 1, 1, <<>>)
    BY <1>0, <1>9, ApplyEffects
  <2> QED
    BY <1>a, <2>1 DEF Working
<1>10. CASE NextCleanup \/ Cleans \/ CleanupDone
  <2>1. ctl'.at = "cleanup" /\ ctl' \in Pass
    BY <1>0, <1>10, CleanEffects DEF Cleans
  <2> QED
    BY <2>1 DEF PassOK, Working
<1> QED
  BY <1>1, <1>2, <1>3, <1>4, <1>5, <1>6, <1>7, <1>8, <1>9, <1>10, NextCases DEF Quiet, Applies

LEMMA InitTypes == Init => TypeOK
<1> SUFFICES ASSUME Init PROVE TypeOK
  OBVIOUS
<1>1. StoresOK /\ HostsOK /\ ForwardOK /\ MemoryOK
  BY ServiceAssumption DEF Init, StoresOK, HostsOK, ForwardOK, MemoryOK
<1>2. ChainsOK /\ JumpsOK
  BY DEF Init, ChainsOK, JumpsOK, JumpIds
<1>3. PassOK
  BY AsleepIs DEF Init, PassOK, Working
<1> QED
  BY <1>1, <1>2, <1>3, TypeParts

LEMMA NextTypes == TypeOK /\ [Next]_vars => TypeOK'
<1> SUFFICES ASSUME TypeOK, [Next]_vars PROVE TypeOK'
  OBVIOUS
<1>1. StoresOK' /\ HostsOK' /\ ChainsOK' /\ JumpsOK' /\ ForwardOK' /\ MemoryOK' /\ PassOK'
  BY StoresStep, HostsStep, ChainsStep, JumpsStep, MemoryStep, PassStep
<1> QED
  BY <1>1 DEF TypeOK, StoresOK, HostsOK, ChainsOK, JumpsOK, ForwardOK, MemoryOK, PassOK, JumpIds

\* The store, the kernel's rules and the controller are well formed: a pass that
\* applies rules has a service, a live port of it with a chain, and the
\* endpoints that it remembers.
THEOREM ServiceTypeCorrect == Spec => []TypeOK
BY InitTypes, NextTypes, PTL DEF Spec

-----------------------------------------------------------------------------
\* Filling chains and setting jumps, entry by entry.

LEMMA FilledFrame ==
    ASSUME NEW ch, NEW ch2, NEW ends, NEW s, NEW k, NEW C, NEW D, C \subseteq D,
           \A i \in DOMAIN Ports[s] : ChainOf(s, i) \notin D => ch2[ChainOf(s, i)] = ch[ChainOf(s, i)],
           Filled(ch, ends, s, k, C)
    PROVE  Filled(ch2, ends, s, k, D)
BY DEF Filled

LEMMA FilledStart ==
    ASSUME NEW ch, NEW ends, NEW s \in Services
    PROVE  Filled(ch, ends, s, 1, {})
<1>1. \A i \in DOMAIN Ports[s] : ~(i < 1)
  BY PortsAre
<1> QED
  BY <1>1 DEF Filled, LastBefore

LEMMA FilledNext ==
    ASSUME NEW ch, NEW ends, NEW s \in Services, NEW k \in DOMAIN Ports[s],
           Filled(ch, ends, s, k, {ChainOf(s, k)}), ch[ChainOf(s, k)] = RulesOf(s, k, ends)
    PROVE  Filled(ch, ends, s, k + 1, {})
<1>0. k \in Nat /\ \A i \in DOMAIN Ports[s] : i \in Nat
  BY PortsAre
<1> SUFFICES ASSUME NEW i \in DOMAIN Ports[s], LastBefore(s, i, k + 1)
             PROVE  ch[ChainOf(s, i)] = RulesOf(s, i, ends)
  BY DEF Filled
<1>1. CASE i = k
  BY <1>1
<1>2. CASE i # k
  <2>1. i < k
    BY <1>0, <1>2 DEF LastBefore
  <2>2. Ports[s][i].port # Ports[s][k].port
    BY <1>0, <2>1 DEF LastBefore
  <2>3. LastBefore(s, i, k)
    <3>1. \A j \in DOMAIN Ports[s] : j < k => j < k + 1
      BY <1>0
    <3> QED
      BY <2>1, <3>1 DEF LastBefore
  <2>4. ChainOf(s, i) # ChainOf(s, k)
    BY <2>2 DEF ChainOf
  <2> QED
    BY <2>3, <2>4 DEF Filled
<1> QED
  BY <1>1, <1>2

LEMMA FilledEnd ==
    ASSUME NEW ch, NEW ends, NEW s \in Services, NEW k \in Nat, k > Len(Ports[s]),
           Filled(ch, ends, s, k, {})
    PROVE  Filled(ch, ends, s, Len(Ports[s]) + 1, {})
<1>1. \A i \in DOMAIN Ports[s] : i < k /\ i < Len(Ports[s]) + 1
  BY PortsAre
<1>2. \A i \in DOMAIN Ports[s] : LastBefore(s, i, Len(Ports[s]) + 1) => LastBefore(s, i, k)
  BY <1>1 DEF LastBefore
<1> QED
  BY <1>2 DEF Filled

LEMMA JumpedFrame ==
    ASSUME NEW js, NEW js2, NEW s, NEW k, NEW J, NEW K, J \subseteq K,
           \A i \in DOMAIN Ports[s], h \in Hooks :
              JumpOf(h, s, i) \notin K => js2[JumpOf(h, s, i)] = js[JumpOf(h, s, i)],
           Jumped(js, s, k, J)
    PROVE  Jumped(js2, s, k, K)
BY DEF Jumped

LEMMA JumpedSteps ==
    ASSUME NEW js, NEW s \in Services
    PROVE  /\ Jumped(js, s, 1, {})
           /\ \A k \in DOMAIN Ports[s] :
                 Jumped(js, s, k, JumpsOf(s, k)) /\ (\A j \in JumpsOf(s, k) : js[j] = 1)
                    => Jumped(js, s, k + 1, {})
           /\ \A k \in Nat : k > Len(Ports[s]) /\ Jumped(js, s, k, {})
                    => Jumped(js, s, Len(Ports[s]) + 1, {})
<1>0. Len(Ports[s]) \in Nat /\ DOMAIN Ports[s] = 1..Len(Ports[s])
  BY PortsAre
<1>1. Jumped(js, s, 1, {})
  BY <1>0 DEF Jumped
<1>3. ASSUME NEW k \in DOMAIN Ports[s], Jumped(js, s, k, JumpsOf(s, k)),
             \A j \in JumpsOf(s, k) : js[j] = 1
      PROVE  Jumped(js, s, k + 1, {})
  <2> SUFFICES ASSUME NEW i \in DOMAIN Ports[s], NEW h \in Hooks, i < k + 1
               PROVE  js[JumpOf(h, s, i)] = 1
    BY DEF Jumped
  <2>1. CASE JumpOf(h, s, i) \in JumpsOf(s, k)
    BY <1>3, <2>1
  <2>2. CASE JumpOf(h, s, i) \notin JumpsOf(s, k)
    <3>1. i # k
      BY <2>2 DEF JumpsOf
    <3>2. i < k
      BY <1>0, <3>1
    <3> QED
      BY <1>3, <2>2, <3>2 DEF Jumped
  <2> QED
    BY <2>1, <2>2
<1>4. ASSUME NEW k \in Nat, k > Len(Ports[s]), Jumped(js, s, k, {})
      PROVE  Jumped(js, s, Len(Ports[s]) + 1, {})
  <2>1. \A i \in DOMAIN Ports[s] : i < k
    BY <1>0, <1>4
  <2> QED
    BY <1>4, <2>1 DEF Jumped
<1> QED
  BY <1>1, <1>3, <1>4

\* One more rule of a chain.
LEMMA PrefixNext ==
    ASSUME NEW ends \in Seq(Addrs), NEW n \in 1..Len(ends), NEW port,
           port.target \in Nat, port.proto \in Protos
    PROVE  /\ Prefix(ends, n - 1, port) \in Seq(Rule)
           /\ Append(Prefix(ends, n - 1, port), EndpointRule(ends, n, port)) = Prefix(ends, n, port)
<1>1. n \in Nat /\ n >= 1 /\ Len(ends) \in Nat /\ n - 1 \in Nat /\ 1..(n - 1) \subseteq 1..Len(ends)
  OBVIOUS
<1> DEFINE r(i) == EndpointRule(ends, i, port)
<1>2. \A i \in 1..Len(ends) : r(i) \in Rule
  BY RuleType
<1> HIDE DEF r
<1> DEFINE p == [i \in 1..(n - 1) |-> r(i)]
<1>3. p \in [1..(n - 1) -> Rule]
  BY <1>1, <1>2
<1>4. p \in Seq(Rule) /\ Len(p) = n - 1
  BY <1>1, <1>3
<1>5. Append(p, r(n)) = [i \in 1..n |-> r(i)]
  <2>1. Append(p, r(n)) = [i \in 1..(Len(p) + 1) |-> IF i = Len(p) + 1 THEN r(n) ELSE p[i]]
    BY <1>2, <1>4
  <2>2. Len(p) + 1 = n
    BY <1>1, <1>4
  <2>3. \A i \in 1..n : (IF i = n THEN r(n) ELSE p[i]) = r(i)
    BY <1>1
  <2> QED
    BY <2>1, <2>2, <2>3
<1> QED
  BY <1>4, <1>5 DEF Prefix, r

LEMMA PrefixEmpty ==
    ASSUME NEW ends, NEW port
    PROVE  Prefix(ends, 0, port) = <<>>
BY DEF Prefix

-----------------------------------------------------------------------------
\* The steps of the controller.

LEMMA AtStartStep == ASSUME TypeOK, AtStart, [Next]_vars PROVE AtStart'
<1> USE DEF Goes
<1>0. ctl \in Pass /\ ssm \subseteq Services /\ pods \subseteq Pods
      /\ addr \in [Pods -> Addrs \cup {None}]
  BY DEF TypeOK
<1>1. CASE Clients \/ UNCHANGED vars
  BY <1>1, ClientsKeep DEF vars, AtStart
<1>2. CASE Tick
  <2>1. ctl'.at \in {"cleanup", "pods"} /\ Goes(ctl'.at, None, 1, 1, <<>>)
    BY <1>0, <1>2, WakeEffects
  <2> QED
    BY <2>1 DEF AtStart
<1>3. CASE ListPods
  <2>1. Goes("services", ctl.svc, ctl.port, ctl.end, ctl.ends) /\ ctl.at = "pods"
    BY <1>0, <1>3, WakeEffects DEF ListPods, At
  <2> QED
    BY <2>1 DEF AtStart, Working
<1>4. CASE ListPodsFails \/ Sleep \/ Restart
  BY <1>4, AsleepIs DEF ListPodsFails, Sleep, Restart, AtStart
<1>5. CASE NextService
  <2>1. Goes("endpoints", ctl'.svc, ctl.port, ctl.end, ctl.ends) /\ ctl.at = "services"
    BY <1>0, <1>5, PassEffects DEF NextService, At
  <2> QED
    BY <2>1 DEF AtStart, Working
<1>6. CASE ServicesDone
  <2>1. Goes("cleanup", ctl.svc, ctl.port, ctl.end, ctl.ends) /\ ctl.at = "services"
    BY <1>0, <1>6, PassEffects DEF ServicesDone, At
  <2> QED
    BY <2>1 DEF AtStart, Working
<1>7. CASE ReadEndpoint
  <2>1. Goes("endpoints", ctl.svc, ctl.port, ctl.end, ctl'.ends) /\ ctl.at = "endpoints"
    BY <1>0, <1>7, PassEffects DEF ReadEndpoint, At
  <2> QED
    BY <2>1 DEF AtStart, Working
<1>8. CASE EndpointsSame \/ RulesApplied \/ applyRulesFails
  <2>1. Goes("services", None, 1, 1, <<>>)
    BY <1>0, <1>8, PassEffects, ApplyEffects
  <2> QED
    BY <2>1 DEF AtStart
<1>9. CASE EndpointsChanged \/ PortDone \/ FlushChain \/ deleteJumpRule
           \/ deleteJumpRuleFails \/ addJumpRule \/ addEndpointRule
  <2>1. ctl'.at \in Working
    BY <1>0, <1>9, PassEffects, ApplyEffects DEF Working
  <2> QED
    BY <2>1 DEF AtStart, Working
<1>10. CASE NextCleanup
  <2>1. /\ Goes("cleanup", ctl'.svc, ctl.port, ctl.end, ctl.ends)
        /\ ctl.at = "cleanup" /\ ctl.svc = None
    BY <1>0, <1>10, CleanEffects DEF NextCleanup, At
  <2> QED
    BY <2>1 DEF AtStart, Working
<1>11. CASE Cleans
  <2>1. /\ Goes("cleanup", ctl.svc, ctl.port + 1, ctl.end, ctl.ends)
        /\ ctl.at = "cleanup" /\ ctl.svc # None
    BY <1>0, <1>11, CleanEffects DEF Cleans, CleanPort, CleanPortFails, At, Svc
  <2> QED
    BY <2>1 DEF AtStart, Working
<1>12. CASE CleanupDone
  <2>1. Goes("cleanup", None, 1, ctl.end, ctl.ends) /\ ctl.at = "cleanup"
    BY <1>0, <1>12, CleanEffects DEF CleanupDone, At
  <2> QED
    BY <2>1 DEF AtStart, Working
<1> QED
  BY <1>1, <1>2, <1>3, <1>4, <1>5, <1>6, <1>7, <1>8, <1>9, <1>10, <1>11, <1>12, NextCases
     DEF Quiet, Applies

\* The jumps of a port entry.
LEMMA JumpsAre ==
    ASSUME NEW s \in Services, NEW i \in DOMAIN Ports[s]
    PROVE  /\ JumpsOf(s, i) \subseteq JumpIds /\ \A j \in JumpsOf(s, i) : j[2] = s
           /\ \A h \in Hooks : JumpOf(h, s, i) \in JumpsOf(s, i)
           /\ \A t \in Services : \A k \in DOMAIN Ports[t], h \in Hooks :
                 JumpOf(h, t, k) \in JumpsOf(s, i) => t = s
<1>1. \A h \in Hooks : JumpOf(h, s, i) \in JumpIds
  BY PortsAre DEF JumpIds
<1>2. \A t \in Services : \A k \in DOMAIN Ports[t], h \in Hooks : JumpOf(h, t, k)[2] = t
  BY DEF JumpOf, JumpId
<1> QED
  BY <1>1, <1>2 DEF JumpsOf

LEMMA PortJumpsAre ==
    ASSUME NEW s \in Services, NEW n \in PortNumbers
    PROVE  /\ PortJumps(s, n) \subseteq JumpIds
           /\ \A j \in PortJumps(s, n) : j[2] = s /\ j[3] = n
           /\ \A j \in JumpIds :
                 j[2] = s /\ j[3] = n /\ j[4] \in CleanedProtos => j \in PortJumps(s, n)
<1>1. PortJumps(s, n) \subseteq JumpIds /\ \A j \in PortJumps(s, n) : j[2] = s /\ j[3] = n
  BY ServiceAssumption DEF PortJumps, JumpId, JumpIds
<1>2. ASSUME NEW j \in JumpIds, j[2] = s, j[3] = n, j[4] \in CleanedProtos
      PROVE  j \in PortJumps(s, n)
  <2>1. j = <<j[1], j[2], j[3], j[4]>> /\ j[1] \in Hooks /\ j[4] \in Protos
    BY DEF JumpIds
  <2>2. j = JumpId(j[1], s, n, j[4])
    BY <1>2, <2>1 DEF JumpId
  <2> QED
    BY <1>2, <2>1, <2>2 DEF PortJumps
<1> QED
  BY <1>1, <1>2

\* The service that is worked on has a port, and only its rules change.
LEMMA WorkedOn ==
    ASSUME TypeOK, Applies \/ Cleans
    PROVE  /\ ctl.svc \in Services /\ Svc = ctl.svc /\ ctl.port \in DOMAIN Ports[ctl.svc]
           /\ Port = Ports[ctl.svc][ctl.port] /\ Port.port \in PortNumbers
           /\ Chain = ChainOf(ctl.svc, ctl.port) /\ Chain \in serviceChainName
           /\ \A hooks \in SUBSET Hooks :
                 CurrentJump(hooks) = {JumpOf(h, ctl.svc, ctl.port) : h \in hooks}
           /\ CurrentJump(Hooks) = JumpsOf(ctl.svc, ctl.port)
<1>1. \/ ctl.at \in Working /\ ctl.port <= Len(Ports[ctl.svc])
      \/ ctl.at = "cleanup" /\ ctl.svc # None /\ ctl.port <= Len(Ports[ctl.svc])
  <2>1. CASE Cleans
    BY <2>1 DEF Cleans, CleanPort, CleanPortFails, At, Svc
  <2>2. CASE FlushChain
    BY <2>2 DEF FlushChain, At, Working, Svc
  <2>3. CASE deleteJumpRule \/ deleteJumpRuleFails \/ addJumpRule \/ addEndpointRule
    BY <2>3 DEF deleteJumpRule, deleteJumpRuleFails, addJumpRule, addEndpointRule, At, Working, TypeOK
  <2>4. CASE applyRulesFails
    BY <2>4 DEF applyRulesFails, At, Working, TypeOK, Svc
  <2> QED
    BY <2>1, <2>2, <2>3, <2>4 DEF Applies
<1>2. /\ Svc = ctl.svc /\ Svc \in Services /\ ctl.port \in DOMAIN Ports[Svc]
      /\ Port = Ports[ctl.svc][ctl.port]
      /\ Chain = ChainOf(ctl.svc, ctl.port) /\ Chain \in serviceChainName
      /\ Port.port \in PortNumbers
  BY <1>1, CurrentPort, Zenon
<1>3. \A hooks \in SUBSET Hooks :
         CurrentJump(hooks) = {JumpOf(h, ctl.svc, ctl.port) : h \in hooks}
  BY <1>2 DEF CurrentJump, JumpOf
<1> QED
  BY <1>2, <1>3 DEF JumpsOf

LEMMA WorkIsLocal ==
    ASSUME TypeOK, Applies \/ Cleans
    PROVE  /\ \A c \in serviceChainName : c[1] # ctl.svc => chain'[c] = chain[c]
           /\ \A j \in JumpIds : j[2] # ctl.svc => jumps'[j] = jumps[j]
<1>0. /\ ctl.svc \in Services /\ Svc = ctl.svc /\ ctl.port \in DOMAIN Ports[ctl.svc]
      /\ Port = Ports[ctl.svc][ctl.port] /\ Port.port \in PortNumbers
      /\ Chain = ChainOf(ctl.svc, ctl.port) /\ Chain \in serviceChainName
      /\ \A hooks \in SUBSET Hooks :
            CurrentJump(hooks) = {JumpOf(h, ctl.svc, ctl.port) : h \in hooks}
  BY WorkedOn, Zenon
<1>1. JumpsOK /\ chain \in [serviceChainName -> Seq(Rule) \cup {None}]
  BY TypeParts DEF TypeOK
<1>2. \A hooks \in SUBSET Hooks : \A j \in CurrentJump(hooks) : j[2] = ctl.svc
  BY <1>0 DEF JumpOf, JumpId
<1>3. Chain[1] = ctl.svc
  BY DEF Chain, Svc
<1>4. ASSUME NEW js, NEW kept, \A j \in js : j[2] = ctl.svc,
             jumps' = Deleted(js, kept) \/ jumps' = Added(js)
      PROVE  \A j \in JumpIds : j[2] # ctl.svc => jumps'[j] = jumps[j]
  <2> SUFFICES ASSUME NEW j \in JumpIds, j[2] # ctl.svc PROVE jumps'[j] = jumps[j]
    OBVIOUS
  <2>1. j \notin js
    BY <1>4
  <2> QED
    BY <1>1, <1>4, <2>1, JumpsChange
<1>5. CASE FlushChain \/ addEndpointRule
  BY <1>1, <1>3, <1>5 DEF FlushChain, addEndpointRule
<1>6. CASE deleteJumpRule \/ deleteJumpRuleFails \/ addJumpRule \/ applyRulesFails
  <2>1. UNCHANGED chain
    BY <1>6 DEF deleteJumpRule, deleteJumpRuleFails, addJumpRule, applyRulesFails
  <2>2. \/ UNCHANGED jumps
        \/ \E hooks \in SUBSET Hooks : \E kept :
              jumps' = Deleted(CurrentJump(hooks), kept) \/ jumps' = Added(CurrentJump(hooks))
    BY <1>6 DEF deleteJumpRule, deleteJumpRuleFails, addJumpRule, applyRulesFails, Hooks
  <2> QED
    BY <1>2, <1>4, <2>1, <2>2
<1>7. CASE Cleans
  <2>1. \A c \in serviceChainName : c[1] # ctl.svc => chain'[c] = chain[c]
    BY <1>1, <1>3, <1>7, CleanChain DEF ChainEmptied
  <2>2. \E kept : jumps' = Deleted(PortJumps(ctl.svc, Port.port), kept)
    BY <1>0, <1>7 DEF Cleans, CleanPort, CleanPortFails, Clean
  <2>3. \A j \in PortJumps(ctl.svc, Port.port) : j[2] = ctl.svc
    BY <1>0, PortJumpsAre
  <2> QED
    BY <1>4, <2>1, <2>2, <2>3
<1> QED
  BY <1>5, <1>6, <1>7 DEF Applies

-----------------------------------------------------------------------------
\* Jumps: at most one of each, and one for every entry that is applied.

LEMMA DoubledGrows == ASSUME [Next]_vars PROVE doubled \subseteq doubled'
<1>1. CASE Clients \/ Quiet
  BY <1>1, ClientsKeep, QuietKeeps
<1>2. CASE Applies \/ Cleans
  BY <1>2 DEF Applies, Cleans, FlushChain, deleteJumpRule, deleteJumpRuleFails, addJumpRule,
         addEndpointRule, applyRulesFails, CleanPort, CleanPortFails, ghosts
<1>3. CASE EndpointsChanged \/ CleanupDone \/ Restart \/ UNCHANGED vars
  BY <1>3 DEF EndpointsChanged, CleanupDone, Restart, vars, ghosts
<1> QED
  BY <1>1, <1>2, <1>3, NextCases

\* How the jumps change in a step.
JumpsSame == UNCHANGED jumps
JumpsFewer == \A j \in JumpIds : jumps'[j] <= jumps[j]
JumpsMore ==
    /\ ctl.at = "jump"
    /\ \A j \in JumpIds :
          \/ jumps'[j] = jumps[j]
          \/ j \in JumpsOf(ctl.svc, ctl.port) /\ jumps'[j] = jumps[j] + 1

LEMMA JumpsAdded ==
    ASSUME TypeOK, addJumpRule \/ (applyRulesFails /\ jumps' # jumps)
    PROVE  /\ JumpsMore
           /\ addJumpRule => \A j \in JumpIds :
                 jumps'[j] = IF j \in JumpsOf(ctl.svc, ctl.port) THEN jumps[j] + 1 ELSE jumps[j]
<1>1. Applies /\ JumpsOK
  BY TypeParts DEF Applies
<1>2. /\ ctl.svc \in Services /\ ctl.port \in DOMAIN Ports[ctl.svc]
      /\ CurrentJump(Hooks) = JumpsOf(ctl.svc, ctl.port)
      /\ \A hooks \in SUBSET Hooks :
            CurrentJump(hooks) = {JumpOf(h, ctl.svc, ctl.port) : h \in hooks}
  BY <1>1, WorkedOn, Zenon
<1>3. PICK hooks \in SUBSET Hooks : /\ jumps' = Added(CurrentJump(hooks)) /\ ctl.at = "jump"
                                    /\ addJumpRule => hooks = Hooks
  <2>1. CASE addJumpRule
    BY <2>1 DEF addJumpRule, At
  <2>2. CASE ~addJumpRule
    BY <2>2 DEF applyRulesFails, At, Hooks
  <2> QED
    BY <2>1, <2>2
<1>4. CurrentJump(hooks) \subseteq JumpsOf(ctl.svc, ctl.port)
  BY <1>2 DEF JumpsOf
<1>5. \A j \in JumpIds :
         jumps'[j] = IF j \in CurrentJump(hooks) THEN jumps[j] + 1 ELSE jumps[j]
  <2> DEFINE js == CurrentJump(hooks)
  <2> HIDE DEF js
  <2>1. jumps' = Added(js)
    BY <1>3 DEF js
  <2>2. \A j \in JumpIds : Added(js)[j] = IF j \in js THEN jumps[j] + 1 ELSE jumps[j]
    BY <1>1, JumpsChange
  <2> QED
    BY <2>1, <2>2 DEF js
<1>6. JumpsMore
  BY <1>3, <1>4, <1>5 DEF JumpsMore
<1> QED
  BY <1>2, <1>3, <1>5, <1>6

LEMMA JumpsDeleted ==
    ASSUME TypeOK, deleteJumpRule \/ deleteJumpRuleFails \/ Cleans
    PROVE  JumpsFewer
<1>1. JumpsOK /\ \A j \in JumpIds : jumps[j] \in Nat
  BY TypeParts DEF JumpsOK
<1>2. UNCHANGED jumps \/ \E js, kept : jumps' = Deleted(js, kept)
  BY DEF deleteJumpRule, deleteJumpRuleFails, Cleans, CleanPort, CleanPortFails, Clean
<1>3. ASSUME NEW js, NEW kept, jumps' = Deleted(js, kept) PROVE JumpsFewer
  BY <1>1, <1>3, JumpsChange DEF JumpsFewer
<1> QED
  BY <1>1, <1>2, <1>3 DEF JumpsFewer

LEMMA JumpCases ==
    ASSUME TypeOK, [Next]_vars
    PROVE  JumpsSame \/ JumpsFewer \/ JumpsMore
<1>1. CASE Clients \/ Quiet
  BY <1>1, ClientsKeep, QuietKeeps DEF JumpsSame
<1>2. CASE EndpointsChanged \/ CleanupDone \/ Restart \/ UNCHANGED vars
  BY <1>2 DEF EndpointsChanged, CleanupDone, Restart, vars, nat, JumpsSame
<1>3. CASE FlushChain \/ addEndpointRule
  BY <1>3 DEF FlushChain, addEndpointRule, JumpsSame
<1>4. CASE deleteJumpRule \/ deleteJumpRuleFails \/ Cleans
  BY <1>4, JumpsDeleted
<1>5. CASE addJumpRule \/ applyRulesFails
  BY <1>5, JumpsAdded DEF JumpsSame
<1> QED
  BY <1>1, <1>2, <1>3, <1>4, <1>5, NextCases DEF Applies

LEMMA SingleJumpsStep ==
    ASSUME TypeOK, SingleJumps, InJumps, [Next]_vars
    PROVE  SingleJumps'
<1>0. /\ DOMAIN jumps = JumpIds /\ DOMAIN jumps' = JumpIds
      /\ \A j \in JumpIds : jumps[j] \in Nat /\ jumps'[j] \in Nat
  BY TypeParts, JumpsStep DEF JumpsOK
<1> SUFFICES ASSUME NEW j \in JumpIds, j[2] \notin doubled' PROVE jumps'[j] <= 1
  BY <1>0 DEF SingleJumps
<1>1. j[2] \notin doubled /\ jumps[j] <= 1
  <2>1. j[2] \notin doubled
    BY DoubledGrows
  <2> QED
    BY <1>0, <2>1 DEF SingleJumps
<1>2. CASE JumpsSame
  BY <1>1, <1>2 DEF JumpsSame
<1>3. CASE JumpsFewer
  BY <1>0, <1>1, <1>3 DEF JumpsFewer
<1>4. CASE JumpsMore
  <2>1. CASE jumps'[j] = jumps[j]
    BY <1>1, <2>1
  <2>2. CASE j \in JumpsOf(ctl.svc, ctl.port) /\ jumps'[j] = jumps[j] + 1
    <3>1. ctl.at = "jump"
      BY <1>4 DEF JumpsMore
    <3>2. ctl.svc \in Services /\ ctl.port \in DOMAIN Ports[ctl.svc]
      <4>1. ctl.at \in Working /\ ctl.port <= Len(Ports[ctl.svc])
        BY <3>1 DEF TypeOK, Working
      <4> QED
        BY <4>1, CurrentPort DEF Svc
    <3>3. j[2] = ctl.svc
      BY <2>2, <3>2, JumpsAre
    <3>4. jumps[j] = 0
      BY <1>1, <2>2, <3>1, <3>3 DEF InJumps
    <3> QED
      BY <2>2, <3>4
  <2> QED
    BY <1>4, <2>1, <2>2 DEF JumpsMore
<1> QED
  BY <1>2, <1>3, <1>4, JumpCases

\* InJumps and the jumps of BetweenPorts.
InPortJumps == ctl.at = "port" /\ ctl.svc \notin doubled => Jumped(jumps, ctl.svc, ctl.port, {})

LEMMA InJumpsStep ==
    ASSUME TypeOK, AtStart, SingleJumps, InJumps, InPortJumps, [Next]_vars
    PROVE  InJumps' /\ InPortJumps'
<1> USE DEF Goes
<1>0. /\ ctl \in Pass /\ ssm \subseteq Services /\ pods \subseteq Pods
      /\ addr \in [Pods -> Addrs \cup {None}] /\ doubled \subseteq doubled'
  BY DoubledGrows DEF TypeOK
<1>a. /\ DOMAIN jumps = JumpIds /\ \A j \in JumpIds : jumps[j] \in Nat
      /\ JumpsOK
  BY TypeParts DEF JumpsOK
<1>1. CASE ctl'.at \notin Working
  BY <1>1 DEF InJumps, InPortJumps, Working
<1>2. CASE UNCHANGED <<ctl, jumps>>
  BY <1>0, <1>2 DEF InJumps, InPortJumps
<1>3. CASE EndpointsChanged
  <2>1. Goes("port", ctl.svc, ctl.port, ctl.end, StateKey(ctl.ends)) /\ ctl.at = "endpoints"
    BY <1>0, <1>3, PassEffects DEF EndpointsChanged, At
  <2>2. ctl.port = 1 /\ ctl.svc \in Services
    BY <2>1 DEF AtStart, Working, TypeOK
  <2>3. Jumped(jumps', ctl.svc, 1, {})
    BY <2>2, JumpedSteps
  <2> QED
    BY <2>1, <2>2, <2>3 DEF InJumps, InPortJumps
<1>5. CASE PortDone
  <2>1. /\ Goes("port", ctl.svc, ctl.port + 1, 1, ctl.ends) /\ ctl.at = "rules"
        /\ UNCHANGED <<jumps, doubled>>
    BY <1>0, <1>5, ApplyEffects, QuietKeeps DEF PortDone, At, Quiet
  <2> QED
    BY <2>1 DEF InJumps, InPortJumps
<1>6. CASE FlushChain
  <2>1. /\ Goes("unjump", ctl.svc, ctl.port, ctl.end, ctl.ends) /\ ctl.at = "port"
        /\ UNCHANGED <<jumps, doubled>>
    BY <1>0, <1>6, ApplyEffects DEF FlushChain, At, ghosts
  <2> QED
    BY <2>1 DEF InJumps, InPortJumps
<1>7. CASE addEndpointRule
  <2>1. /\ Goes("rules", ctl.svc, ctl.port, ctl.end + 1, ctl.ends) /\ ctl.at = "rules"
        /\ UNCHANGED <<jumps, doubled>>
    BY <1>0, <1>7, ApplyEffects DEF addEndpointRule, At, ghosts
  <2> QED
    BY <2>1 DEF InJumps, InPortJumps
<1>8. CASE deleteJumpRuleFails
  <2>1. Goes("jump", ctl.svc, ctl.port, ctl.end, ctl.ends) /\ ctl.svc \in doubled'
    BY <1>0, <1>8, ApplyEffects DEF deleteJumpRuleFails, Svc
  <2> QED
    BY <2>1 DEF InJumps, InPortJumps
<1>9. CASE deleteJumpRule
  <2>1. /\ Goes("jump", ctl.svc, ctl.port, ctl.end, ctl.ends) /\ ctl.at = "unjump"
        /\ UNCHANGED doubled /\ jumps' = Deleted(CurrentJump(Hooks), {})
    BY <1>0, <1>9, ApplyEffects DEF deleteJumpRule, At, ghosts
  <2>2. /\ ctl.svc \in Services /\ ctl.port \in DOMAIN Ports[ctl.svc]
        /\ CurrentJump(Hooks) = JumpsOf(ctl.svc, ctl.port)
    BY <1>9, WorkedOn, Zenon DEF Applies
  <2>3. \A j \in JumpIds : jumps'[j] = IF j \in JumpsOf(ctl.svc, ctl.port) \ {} /\ jumps[j] > 0
                                       THEN jumps[j] - 1 ELSE jumps[j]
    BY <1>a, <2>1, <2>2, JumpsChange
  <2>4. ASSUME ctl.svc \notin doubled
        PROVE  /\ Jumped(jumps', ctl.svc, ctl.port, JumpsOf(ctl.svc, ctl.port))
               /\ \A j \in JumpsOf(ctl.svc, ctl.port) : jumps'[j] = 0
    <3>1. Jumped(jumps, ctl.svc, ctl.port, {})
      BY <2>1, <2>4 DEF InJumps
    <3>2. \A i \in DOMAIN Ports[ctl.svc], h \in Hooks : JumpOf(h, ctl.svc, i) \in JumpIds
      BY <2>2, PortsAre DEF JumpIds
    <3>3. Jumped(jumps', ctl.svc, ctl.port, JumpsOf(ctl.svc, ctl.port))
      BY <2>3, <3>1, <3>2 DEF Jumped
    <3>4. ASSUME NEW j \in JumpsOf(ctl.svc, ctl.port) PROVE jumps'[j] = 0
      <4>1. j \in JumpIds /\ j[2] = ctl.svc
        BY <2>2, JumpsAre
      <4>2. jumps[j] <= 1 /\ jumps[j] \in Nat
        BY <1>a, <2>4, <4>1 DEF SingleJumps
      <4> QED
        BY <2>3, <4>1, <4>2
    <3> QED
      BY <3>3, <3>4
  <2> QED
    BY <2>1, <2>4 DEF InJumps, InPortJumps
<1>10. CASE addJumpRule
  <2>1. /\ Goes("rules", ctl.svc, ctl.port, ctl.end, ctl.ends) /\ ctl.at = "jump"
        /\ UNCHANGED doubled
    BY <1>0, <1>10, ApplyEffects DEF addJumpRule, At, ghosts
  <2>2. ctl.svc \in Services /\ ctl.port \in DOMAIN Ports[ctl.svc]
    BY <1>10, WorkedOn, Zenon DEF Applies
  <2>3. \A j \in JumpIds :
           jumps'[j] = IF j \in JumpsOf(ctl.svc, ctl.port) THEN jumps[j] + 1 ELSE jumps[j]
    BY <1>10, JumpsAdded
  <2>4. ASSUME ctl.svc \notin doubled PROVE Jumped(jumps', ctl.svc, ctl.port + 1, {})
    <3>1. /\ Jumped(jumps, ctl.svc, ctl.port, JumpsOf(ctl.svc, ctl.port))
          /\ \A j \in JumpsOf(ctl.svc, ctl.port) : jumps[j] = 0
      BY <2>1, <2>4 DEF InJumps
    <3>2. \A i \in DOMAIN Ports[ctl.svc], h \in Hooks : JumpOf(h, ctl.svc, i) \in JumpIds
      BY <2>2, PortsAre DEF JumpIds
    <3>3. Jumped(jumps', ctl.svc, ctl.port, JumpsOf(ctl.svc, ctl.port))
      BY <2>3, <3>1, <3>2 DEF Jumped
    <3>4. \A j \in JumpsOf(ctl.svc, ctl.port) : jumps'[j] = 1
      BY <2>2, <2>3, <3>1, JumpsAre
    <3> QED
      BY <2>2, <3>3, <3>4, JumpedSteps
  <2> QED
    BY <2>1, <2>4 DEF InJumps, InPortJumps
<1>11. ASSUME ctl'.at \in Working, ~(UNCHANGED <<ctl, jumps>>)
       PROVE  EndpointsChanged \/ PortDone \/ Applies
  <2>1. CASE Clients \/ UNCHANGED vars
    BY <1>11, <2>1, ClientsKeep DEF vars, nat
  <2>2. CASE Tick \/ ListPods \/ ListPodsFails \/ NextService \/ ServicesDone \/ ReadEndpoint
             \/ EndpointsSame \/ RulesApplied \/ NextCleanup \/ Sleep \/ Restart
    <3>1. Tick => ctl'.at \in {"cleanup", "pods"}
      BY <1>0, WakeEffects
    <3>2. ctl'.at \notin Working
      BY <1>0, <2>2, <3>1, AsleepIs, WakeEffects, PassEffects, ApplyEffects, CleanEffects
         DEF Sleep, Restart, Working
    <3> QED
      BY <1>11, <3>2
  <2>3. CASE Cleans \/ CleanupDone
    BY <1>0, <1>11, <2>3, CleanEffects DEF Cleans, Working
  <2> QED
    BY <2>1, <2>2, <2>3, NextCases DEF Quiet
<1>12. CASE applyRulesFails
  BY <1>0, <1>1, <1>12, ApplyEffects DEF Working
<1> QED
  BY <1>1, <1>2, <1>3, <1>5, <1>6, <1>7, <1>8, <1>9, <1>10, <1>11, <1>12 DEF Applies

-----------------------------------------------------------------------------
\* Chains: those of the entries before ctl.port are filled, and that of
\* ctl.port as far as ctl.end.
InPortChains ==
    ctl.at = "port" => ctl.end = 1 /\ Filled(chain, ctl.ends, ctl.svc, ctl.port, {})

\* Only these steps lead to a step of applyRules.
LEMMA ToWorking ==
    ASSUME TypeOK, [Next]_vars, ctl'.at \in Working
    PROVE  UNCHANGED <<ctl, chain, lastState, failed>> \/ EndpointsChanged \/ PortDone \/ Applies
<1>0. /\ ctl \in Pass /\ ssm \subseteq Services /\ pods \subseteq Pods
      /\ addr \in [Pods -> Addrs \cup {None}]
  BY DEF TypeOK
<1> USE DEF Goes
<1>1. CASE Clients \/ UNCHANGED vars
  BY <1>1, ClientsKeep DEF vars, nat, ghosts
<1>2. CASE Tick \/ ListPods \/ ListPodsFails \/ NextService \/ ServicesDone \/ ReadEndpoint
           \/ EndpointsSame \/ RulesApplied \/ NextCleanup \/ Sleep \/ Restart
  <2>1. Tick => ctl'.at \in {"cleanup", "pods"}
    BY <1>0, WakeEffects
  <2>2. ctl'.at \notin Working
    BY <1>0, <1>2, <2>1, AsleepIs, WakeEffects, PassEffects, ApplyEffects, CleanEffects
       DEF Sleep, Restart, Working
  <2> QED
    BY <2>2
<1>3. CASE Cleans \/ CleanupDone
  BY <1>0, <1>3, CleanEffects DEF Cleans, Working
<1> QED
  BY <1>1, <1>2, <1>3, NextCases DEF Quiet

LEMMA InChainStep ==
    ASSUME TypeOK, AtStart, InChain, InPortChains, [Next]_vars
    PROVE  InChain' /\ InPortChains'
<1> USE DEF Goes
<1>0. /\ ctl \in Pass /\ ssm \subseteq Services /\ pods \subseteq Pods
      /\ addr \in [Pods -> Addrs \cup {None}]
      /\ chain \in [serviceChainName -> Seq(Rule) \cup {None}]
      /\ ctl.ends \in Seq(Addrs) /\ ctl.port \in Nat /\ ctl.end \in Nat /\ ctl.end >= 1
  BY DEF TypeOK, Pass
<1>1. CASE ctl'.at \notin Working
  BY <1>1 DEF InChain, InPortChains, Working
<1>2. CASE UNCHANGED <<ctl, chain, lastState, failed>>
  BY <1>2 DEF InChain, InPortChains
<1>3. CASE EndpointsChanged
  <2>1. Goes("port", ctl.svc, ctl.port, ctl.end, StateKey(ctl.ends)) /\ ctl.at = "endpoints"
    BY <1>0, <1>3, PassEffects DEF EndpointsChanged, At
  <2>2. ctl.port = 1 /\ ctl.end = 1 /\ ctl.svc \in Services
    BY <2>1 DEF AtStart, Working, TypeOK
  <2>3. Filled(chain', StateKey(ctl.ends), ctl.svc, 1, {})
    BY <2>2, FilledStart
  <2> QED
    BY <2>1, <2>2, <2>3 DEF InChain, InPortChains
<1>5. CASE PortDone
  <2>1. /\ Goes("port", ctl.svc, ctl.port + 1, 1, ctl.ends) /\ ctl.at = "rules"
        /\ ctl.end > Len(ctl.ends) /\ UNCHANGED chain
    BY <1>0, <1>5, ApplyEffects, QuietKeeps DEF PortDone, At, Quiet
  <2>2. /\ Filled(chain, ctl.ends, ctl.svc, ctl.port, {ChainOf(ctl.svc, ctl.port)})
        /\ ctl.end <= Len(ctl.ends) + 1
        /\ chain[ChainOf(ctl.svc, ctl.port)] =
               Prefix(ctl.ends, ctl.end - 1, Ports[ctl.svc][ctl.port])
    BY <2>1 DEF InChain, Working
  <2>3. ctl.end - 1 = Len(ctl.ends)
    BY <1>0, <2>1, <2>2
  <2>4. chain[ChainOf(ctl.svc, ctl.port)] = RulesOf(ctl.svc, ctl.port, ctl.ends)
    BY <2>2, <2>3 DEF RulesOf
  <2>5. /\ ctl.svc \in Services /\ ctl.port \in DOMAIN Ports[ctl.svc]
    <3>1. ctl.svc \in Services /\ ctl.port <= Len(Ports[ctl.svc])
      BY <2>1 DEF TypeOK, Working
    <3>2. ctl.port \in Nat \ {0}
      BY DEF TypeOK, Pass
    <3> QED
      BY <3>1, <3>2, PortsAre
  <2>6. Filled(chain, ctl.ends, ctl.svc, ctl.port + 1, {})
    BY <2>2, <2>4, <2>5, FilledNext
  <2> QED
    BY <2>1, <2>6 DEF InChain, InPortChains
<1>6. CASE FlushChain
  <2>1. /\ Goes("unjump", ctl.svc, ctl.port, ctl.end, ctl.ends) /\ ctl.at = "port"
        /\ chain' = [chain EXCEPT ![Chain] = <<>>]
    BY <1>0, <1>6, ApplyEffects DEF FlushChain, At
  <2>2. /\ ctl.svc \in Services /\ Chain = ChainOf(ctl.svc, ctl.port)
        /\ Chain \in serviceChainName
    BY <1>6, WorkedOn, Zenon DEF Applies
  <2>3. ctl.end = 1 /\ Filled(chain, ctl.ends, ctl.svc, ctl.port, {})
    BY <2>1 DEF InPortChains
  <2>4. \A c \in serviceChainName : c # ChainOf(ctl.svc, ctl.port) => chain'[c] = chain[c]
    BY <1>0, <2>1, <2>2
  <2>5. Filled(chain', ctl.ends, ctl.svc, ctl.port, {ChainOf(ctl.svc, ctl.port)})
    <3>1. \A i \in DOMAIN Ports[ctl.svc] : ChainOf(ctl.svc, i) \in serviceChainName
      BY <2>2, PortsAre
    <3> QED
      BY <2>3, <2>4, <3>1, FilledFrame
  <2>6. chain'[ChainOf(ctl.svc, ctl.port)] = Prefix(ctl.ends, 0, Ports[ctl.svc][ctl.port])
    BY <1>0, <2>1, <2>2, PrefixEmpty
  <2>7. ctl.end <= Len(ctl.ends) + 1 /\ ctl.end - 1 = 0
    BY <1>0, <2>3
  <2> QED
    BY <2>1, <2>3, <2>5, <2>6, <2>7 DEF InChain, InPortChains
<1>7. CASE deleteJumpRule \/ deleteJumpRuleFails \/ addJumpRule
  <2>1. /\ ctl'.svc = ctl.svc /\ ctl'.port = ctl.port /\ ctl'.end = ctl.end /\ ctl'.ends = ctl.ends
        /\ ctl'.at # "port"
    BY <1>0, <1>7, ApplyEffects
  <2>2. ctl.at \in Working \ {"port", "rules"} /\ UNCHANGED chain
    BY <1>7 DEF deleteJumpRule, deleteJumpRuleFails, addJumpRule, At, Working
  <2> QED
    BY <2>1, <2>2 DEF InChain, InPortChains
<1>8. CASE addEndpointRule
  <2>1. /\ Goes("rules", ctl.svc, ctl.port, ctl.end + 1, ctl.ends) /\ ctl.at = "rules"
        /\ chain' = [chain EXCEPT ![Chain] = Append(@, EndpointRule(ctl.ends, ctl.end, Port))]
    BY <1>0, <1>8, ApplyEffects DEF addEndpointRule, At
  <2>2. /\ ctl.svc \in Services /\ Chain = ChainOf(ctl.svc, ctl.port)
        /\ Chain \in serviceChainName /\ Port = Ports[ctl.svc][ctl.port]
        /\ ctl.port \in DOMAIN Ports[ctl.svc]
    BY <1>8, WorkedOn, Zenon DEF Applies
  <2>3. /\ Filled(chain, ctl.ends, ctl.svc, ctl.port, {ChainOf(ctl.svc, ctl.port)})
        /\ chain[Chain] = Prefix(ctl.ends, ctl.end - 1, Port)
    BY <2>1, <2>2 DEF InChain, Working
  <2>4. \A c \in serviceChainName : c # ChainOf(ctl.svc, ctl.port) => chain'[c] = chain[c]
    BY <1>0, <2>1, <2>2
  <2>5. Filled(chain', ctl.ends, ctl.svc, ctl.port, {ChainOf(ctl.svc, ctl.port)})
    <3>1. \A i \in DOMAIN Ports[ctl.svc] : ChainOf(ctl.svc, i) \in serviceChainName
      BY <2>2, PortsAre
    <3> QED
      BY <2>3, <2>4, <3>1, FilledFrame
  <2>6. ctl.end \in 1..Len(ctl.ends) /\ Port.target \in Nat /\ Port.proto \in Protos
    BY <1>8, <2>2, EndpointStep, PortsAre
  <2>7. Append(chain[Chain], EndpointRule(ctl.ends, ctl.end, Port)) = Prefix(ctl.ends, ctl.end, Port)
    BY <1>0, <2>3, <2>6, PrefixNext
  <2>8. chain'[Chain] = Prefix(ctl.ends, ctl.end, Port)
    BY <1>0, <2>1, <2>2, <2>7
  <2>9. (ctl.end + 1) - 1 = ctl.end /\ ctl.end + 1 <= Len(ctl.ends) + 1
    BY <1>0, <2>6
  <2> QED
    BY <2>1, <2>2, <2>5, <2>8, <2>9 DEF InChain, InPortChains
<1>9. CASE applyRulesFails
  BY <1>0, <1>1, <1>9, ApplyEffects DEF Working
<1> QED
  BY <1>1, <1>2, <1>3, <1>5, <1>6, <1>7, <1>8, <1>9, ToWorking DEF Applies

-----------------------------------------------------------------------------
\* The services that are remembered.

LEMMA SettledFrame ==
    ASSUME NEW s \in Services, Settled(s), lastState'[s] = lastState[s], doubled \subseteq doubled',
           \A c \in serviceChainName : c[1] = s => chain'[c] = chain[c],
           \A j \in JumpIds : j[2] = s => jumps'[j] = jumps[j]
    PROVE  Settled(s)'
<1>1. ASSUME NEW i \in DOMAIN Ports[s]
      PROVE  /\ chain'[ChainOf(s, i)] = chain[ChainOf(s, i)]
             /\ \A h \in Hooks : jumps'[JumpOf(h, s, i)] = jumps[JumpOf(h, s, i)]
  <2>1. ChainOf(s, i) \in serviceChainName /\ ChainOf(s, i)[1] = s
    BY PortsAre DEF ChainOf
  <2>2. \A h \in Hooks : JumpOf(h, s, i) \in JumpIds /\ JumpOf(h, s, i)[2] = s
    BY PortsAre, JumpsAre DEF JumpOf, JumpId, JumpIds
  <2> QED
    BY <2>1, <2>2
<1>2. Filled(chain', lastState[s], s, Len(Ports[s]) + 1, {})
  BY <1>1, FilledFrame DEF Settled
<1>3. s \notin doubled' => Jumped(jumps', s, Len(Ports[s]) + 1, {})
  BY <1>1, JumpedFrame DEF Settled
<1> QED
  BY <1>2, <1>3 DEF Settled

LEMMA MatchedStep ==
    ASSUME TypeOK, AtStart, Matched, BetweenPorts, [Next]_vars
    PROVE  Matched'
<1> USE DEF Goes
<1>0. /\ ctl \in Pass /\ ssm \subseteq Services /\ pods \subseteq Pods
      /\ addr \in [Pods -> Addrs \cup {None}] /\ doubled \subseteq doubled'
      /\ lastState \in [Services -> Seq(Addrs) \cup {None}]
  BY DoubledGrows DEF TypeOK
<1>n. None \notin Services
  BY ServiceAssumption
<1> SUFFICES ASSUME NEW s \in Services, lastState'[s] # None, s \notin failed',
                    ~(ctl'.svc = s /\ ctl'.at \in Working \cup {"cleanup"})
             PROVE  Settled(s)'
  BY DEF Matched
<1>a. ASSUME UNCHANGED <<chain, jumps>>, lastState'[s] = lastState[s], Settled(s) PROVE Settled(s)'
  BY <1>0, <1>a, SettledFrame
<1>b. ASSUME lastState[s] # None, s \notin failed, ~(ctl.svc = s /\ ctl.at \in Working \cup {"cleanup"})
      PROVE  Settled(s)
  BY <1>b DEF Matched
<1>1. CASE Clients \/ UNCHANGED vars
  <2>1. UNCHANGED <<chain, jumps, lastState, failed, ctl>>
    BY <1>1, ClientsKeep DEF vars, nat, ghosts
  <2> QED
    BY <1>a, <1>b, <2>1
<1>2. CASE Quiet /\ ~RulesApplied
  <2>1. UNCHANGED <<chain, jumps, lastState, failed>>
    BY <1>2, QuietKeeps
  <2>2. CASE PortDone
    <3>1. ctl'.svc = ctl.svc /\ ctl'.at \in Working
      BY <1>0, <2>2, ApplyEffects DEF Working
    <3> QED
      BY <1>a, <1>b, <2>1, <3>1
  <2>3. CASE ~PortDone
    <3>1. ctl.at \in {"asleep", "pods", "services", "endpoints"} \/ (ctl.at = "cleanup" /\ ctl.svc = None)
      BY <1>2, <2>3 DEF Quiet, Tick, ListPods, ListPodsFails, NextService, ServicesDone, ReadEndpoint,
       EndpointsSame, NextCleanup, Sleep, At, Svc
    <3>2. ~(ctl.svc = s /\ ctl.at \in Working \cup {"cleanup"})
      BY <1>n, <3>1 DEF Working
    <3> QED
      BY <1>a, <1>b, <2>1, <3>2
  <2> QED
    BY <2>2, <2>3
<1>3. CASE RulesApplied
  <2>1. /\ UNCHANGED <<chain, jumps, lastState, failed>> /\ ctl.at = "port"
        /\ ctl.port > Len(Ports[ctl.svc])
    BY <1>3, QuietKeeps DEF Quiet, RulesApplied, At, Svc
  <2>2. CASE s # ctl.svc
    BY <1>a, <1>b, <2>1, <2>2
  <2>3. CASE s = ctl.svc
    <3>1. /\ Filled(chain, ctl.ends, s, ctl.port, {}) /\ ctl.ends = lastState[s]
          /\ s \notin doubled => Jumped(jumps, s, ctl.port, {})
      BY <2>1, <2>3 DEF BetweenPorts, TypeOK, Working
    <3>2. ctl.port \in Nat
      BY <1>0 DEF Pass
    <3>3. Settled(s)
      BY <2>1, <2>3, <3>1, <3>2, FilledEnd, JumpedSteps DEF Settled
    <3> QED
      BY <1>a, <2>1, <3>3
  <2> QED
    BY <2>2, <2>3
<1>4. CASE EndpointsChanged
  <2>1. /\ UNCHANGED <<chain, jumps>> /\ ctl.at = "endpoints" /\ failed' = failed \ {ctl.svc}
        /\ lastState' = [lastState EXCEPT ![ctl.svc] = StateKey(ctl.ends)]
    BY <1>4 DEF EndpointsChanged, At, nat, Svc
  <2>2. ctl'.svc = ctl.svc /\ ctl'.at \in Working
    BY <1>0, <1>4, PassEffects DEF Working
  <2>3. s # ctl.svc /\ s \notin failed /\ lastState'[s] = lastState[s]
    BY <1>0, <2>1, <2>2
  <2> QED
    BY <1>a, <1>b, <2>1, <2>3
<1>5. CASE Applies \/ Cleans
  <2>1. UNCHANGED lastState /\ failed \subseteq failed'
    BY <1>5 DEF Applies, Cleans, FlushChain, deleteJumpRule, deleteJumpRuleFails, addJumpRule,
         addEndpointRule, applyRulesFails, CleanPort, CleanPortFails, ghosts
  <2>2. s # ctl.svc
    <3>1. CASE applyRulesFails
      BY <3>1 DEF applyRulesFails, Svc
    <3>2. CASE ~applyRulesFails
      <4>1. ctl'.svc = ctl.svc /\ ctl'.at \in Working \cup {"cleanup"}
        BY <1>0, <1>5, <3>2, ApplyEffects, CleanEffects DEF Applies, Cleans, Working
      <4> QED
        BY <4>1
    <3> QED
      BY <3>1, <3>2
  <2>3. Settled(s)
    BY <1>b, <2>1, <2>2
  <2>4. /\ \A c \in serviceChainName : c[1] = s => chain'[c] = chain[c]
        /\ \A j \in JumpIds : j[2] = s => jumps'[j] = jumps[j]
    BY <1>5, <2>2, WorkIsLocal
  <2> QED
    BY <1>0, <2>1, <2>3, <2>4, SettledFrame
<1>6. CASE CleanupDone
  <2>1. /\ UNCHANGED <<chain, jumps, failed>> /\ lastState' = [lastState EXCEPT ![ctl.svc] = None]
    BY <1>6 DEF CleanupDone, nat, ghosts, Svc
  <2>2. s # ctl.svc /\ lastState'[s] = lastState[s]
    BY <1>0, <2>1
  <2> QED
    BY <1>a, <1>b, <2>1, <2>2
<1>7. CASE Restart
  BY <1>7 DEF Restart
<1> QED
  BY <1>1, <1>2, <1>3, <1>4, <1>5, <1>6, <1>7, NextCases

-----------------------------------------------------------------------------
\* Leftovers: rules are added for an entry of the service that is worked on,
\* and clean-up takes away what it finds.

NoNewChain == \A c \in serviceChainName : chain[c] = None => chain'[c] = None
FillsCurrent ==
    /\ ctl.at \in Working /\ ctl.svc \in Services /\ ctl.port \in DOMAIN Ports[ctl.svc]
    /\ \A c \in serviceChainName : c # ChainOf(ctl.svc, ctl.port) => chain'[c] = chain[c]

LEMMA CleanKeepsNone ==
    ASSUME TypeOK, Cleans
    PROVE  NoNewChain
<1>1. chain \in [serviceChainName -> Seq(Rule) \cup {None}]
  BY DEF TypeOK
<1> QED
  BY <1>1, CleanChain DEF ChainEmptied, NoNewChain

LEMMA ChainCases ==
    ASSUME TypeOK, [Next]_vars
    PROVE  NoNewChain \/ FillsCurrent
<1>1. CASE Clients \/ Quiet
  BY <1>1, ClientsKeep, QuietKeeps DEF NoNewChain
<1>2. CASE EndpointsChanged \/ CleanupDone \/ Restart \/ UNCHANGED vars
  BY <1>2 DEF EndpointsChanged, CleanupDone, Restart, vars, nat, NoNewChain
<1>3. CASE deleteJumpRule \/ deleteJumpRuleFails \/ addJumpRule \/ applyRulesFails
  BY <1>3 DEF deleteJumpRule, deleteJumpRuleFails, addJumpRule, applyRulesFails, NoNewChain
<1>4. CASE Cleans
  BY <1>4, CleanKeepsNone
<1>5. CASE FlushChain \/ addEndpointRule
  <2>1. /\ ctl.svc \in Services /\ ctl.port \in DOMAIN Ports[ctl.svc]
        /\ Chain = ChainOf(ctl.svc, ctl.port)
    BY <1>5, WorkedOn, Zenon DEF Applies
  <2>2. ctl.at \in Working
    BY <1>5 DEF FlushChain, addEndpointRule, At, Working
  <2>3. \A c \in serviceChainName : c # Chain => chain'[c] = chain[c]
    BY <1>5 DEF FlushChain, addEndpointRule, TypeOK
  <2> QED
    BY <2>1, <2>2, <2>3 DEF FillsCurrent
<1> QED
  BY <1>1, <1>2, <1>3, <1>4, <1>5, NextCases DEF Applies

LEMMA OwnRulesStep ==
    ASSUME TypeOK, OwnRules, [Next]_vars
    PROVE  OwnRules'
<1>0. /\ DOMAIN jumps = JumpIds /\ DOMAIN jumps' = JumpIds
      /\ \A j \in JumpIds : jumps[j] \in Nat /\ jumps'[j] \in Nat
  BY TypeParts, JumpsStep DEF JumpsOK
<1>1. ASSUME NEW c \in serviceChainName, chain'[c] # None
      PROVE  \E i \in DOMAIN Ports[c[1]] : Ports[c[1]][i].port = c[2]
  <2>1. CASE chain[c] # None
    BY <2>1 DEF OwnRules
  <2>2. CASE chain[c] = None
    <3>1. FillsCurrent
      BY <1>1, <2>2, ChainCases DEF NoNewChain
    <3>2. c = ChainOf(ctl.svc, ctl.port)
      BY <1>1, <2>2, <3>1 DEF FillsCurrent
    <3>3. c[1] = ctl.svc /\ c[2] = Ports[ctl.svc][ctl.port].port
      BY <3>2 DEF ChainOf
    <3> QED
      BY <3>1, <3>3 DEF FillsCurrent
  <2> QED
    BY <2>1, <2>2
<1>2. ASSUME NEW j \in JumpIds, jumps'[j] > 0
      PROVE  \E i \in DOMAIN Ports[j[2]] :
                Ports[j[2]][i].port = j[3] /\ Ports[j[2]][i].proto = j[4]
  <2>1. CASE jumps[j] > 0
    BY <1>0, <2>1 DEF OwnRules
  <2>2. CASE ~(jumps[j] > 0)
    <3>1. jumps'[j] > jumps[j]
      BY <1>0, <1>2, <2>2
    <3>2. ctl.at = "jump" /\ j \in JumpsOf(ctl.svc, ctl.port)
      <4>1. CASE JumpsSame
        BY <1>0, <3>1, <4>1 DEF JumpsSame
      <4>2. CASE JumpsFewer
        BY <1>0, <3>1, <4>2 DEF JumpsFewer
      <4>3. CASE JumpsMore
        BY <1>0, <3>1, <4>3 DEF JumpsMore
      <4> QED
        BY <4>1, <4>2, <4>3, JumpCases
    <3>3. /\ ctl.at \in Working /\ ctl.port <= Len(Ports[ctl.svc])
         
      BY <3>2 DEF TypeOK, Working
    <3>4. ctl.port \in DOMAIN Ports[ctl.svc]
      BY <3>3, CurrentPort DEF Svc
    <3>5. /\ j[2] = ctl.svc /\ j[3] = Ports[ctl.svc][ctl.port].port
          /\ j[4] = Ports[ctl.svc][ctl.port].proto
      BY <3>2 DEF JumpsOf, JumpOf, JumpId
    <3> QED
      BY <3>4, <3>5
  <2> QED
    BY <2>1, <2>2
<1> QED
  BY <1>0, <1>1, <1>2 DEF OwnRules

LEMMA BareKept ==
    ASSUME TypeOK, [Next]_vars, NEW s \in Services, Bare(s),
           \A c \in serviceChainName : c[1] = s /\ chain[c] = None => chain'[c] = None,
           \A j \in JumpIds : j[2] = s => jumps'[j] <= jumps[j]
    PROVE  Bare(s)'
<1>0. /\ DOMAIN jumps = JumpIds /\ DOMAIN jumps' = JumpIds
      /\ \A j \in JumpIds : jumps[j] \in Nat /\ jumps'[j] \in Nat
  BY TypeParts, JumpsStep DEF JumpsOK
<1>1. ASSUME NEW n \in PortNumbers, Cleanable(s, n) PROVE chain'[<<s, n>>] = None
  <2>1. <<s, n>> \in serviceChainName /\ <<s, n>>[1] = s
    BY DEF serviceChainName
  <2> QED
    BY <1>1, <2>1 DEF Bare
<1>2. ASSUME NEW j \in JumpIds, j[2] = s, j[4] \in CleanedProtos PROVE jumps'[j] = 0
  <2>1. jumps[j] = 0 /\ jumps'[j] <= jumps[j] /\ jumps'[j] \in Nat
    BY <1>0, <1>2 DEF Bare
  <2> QED
    BY <2>1
<1> QED
  BY <1>0, <1>1, <1>2 DEF Bare, Cleanable

LEMMA UnrememberedStep ==
    ASSUME TypeOK, OwnRules, Unremembered, Cleaned, [Next]_vars
    PROVE  Unremembered'
<1> USE DEF Goes
<1>0. /\ ctl \in Pass /\ doubled \subseteq doubled'
      /\ lastState \in [Services -> Seq(Addrs) \cup {None}]
      /\ DOMAIN jumps = JumpIds /\ \A j \in JumpIds : jumps[j] \in Nat
  BY DoubledGrows, TypeParts DEF TypeOK, JumpsOK
<1> SUFFICES ASSUME NEW s \in Services, lastState'[s] = None, s \notin doubled' \cup forgot'
             PROVE  Bare(s)'
  BY DEF Unremembered
<1>a. ASSUME lastState[s] = None, s \notin forgot PROVE Bare(s)
  BY <1>0, <1>a DEF Unremembered
<1>b. ASSUME UNCHANGED <<chain, jumps>>, Bare(s) PROVE Bare(s)'
  BY <1>b DEF Bare
<1>1. CASE Clients \/ Quiet \/ UNCHANGED vars
  <2>1. UNCHANGED <<chain, jumps, lastState, forgot>>
    BY <1>1, ClientsKeep, QuietKeeps DEF vars, nat, ghosts
  <2> QED
    BY <1>a, <1>b, <2>1
<1>2. CASE EndpointsChanged
  <2>1. /\ UNCHANGED <<chain, jumps>> /\ forgot' = forgot \ {ctl.svc}
        /\ lastState' = [lastState EXCEPT ![ctl.svc] = StateKey(ctl.ends)]
    BY <1>2 DEF EndpointsChanged, nat, Svc
  <2>2. StateKey(ctl.ends) # None
    BY <1>0, StateKeyType DEF Pass
  <2>3. s # ctl.svc /\ lastState[s] = None /\ s \notin forgot
    BY <1>0, <2>1, <2>2
  <2> QED
    BY <1>a, <1>b, <2>1, <2>3
<1>3. CASE Applies
  <2>1. UNCHANGED <<lastState, forgot>>
    BY <1>3 DEF Applies, FlushChain, deleteJumpRule, deleteJumpRuleFails, addJumpRule,
         addEndpointRule, applyRulesFails, ghosts
  <2>2. ctl.at \in Working
    BY <1>3 DEF Applies, FlushChain, deleteJumpRule, deleteJumpRuleFails, addJumpRule,
         addEndpointRule, applyRulesFails, At, Working
  <2>3. lastState[ctl.svc] # None
    <3>1. lastState[ctl.svc] \in Seq(Addrs)
      BY <2>2 DEF TypeOK, Pass
    <3> QED
      BY <3>1, ServiceAssumption
  <2>4. s # ctl.svc /\ Bare(s)
    BY <1>a, <2>1, <2>3
  <2>5. /\ \A c \in serviceChainName : c[1] = s => chain'[c] = chain[c]
        /\ \A j \in JumpIds : j[2] = s => jumps'[j] = jumps[j]
    BY <1>3, <2>4, WorkIsLocal
  <2>6. \A j \in JumpIds : j[2] = s => jumps'[j] <= jumps[j]
    BY <1>0, <2>5
  <2> QED
    BY <2>4, <2>5, <2>6, BareKept
<1>4. CASE Cleans
  <2>1. UNCHANGED <<lastState, forgot>>
    BY <1>4 DEF Cleans, CleanPort, CleanPortFails, ghosts
  <2>2. Bare(s)
    BY <1>a, <2>1
  <2>3. NoNewChain /\ JumpsFewer
    BY <1>4, CleanKeepsNone, JumpsDeleted
  <2> QED
    BY <2>2, <2>3, BareKept DEF NoNewChain, JumpsFewer
<1>5. CASE CleanupDone
  <2>1. /\ UNCHANGED <<chain, jumps, doubled, forgot>> /\ ctl.at = "cleanup" /\ ctl.svc # None
        /\ lastState' = [lastState EXCEPT ![ctl.svc] = None] /\ ctl.port > Len(Ports[ctl.svc])
    BY <1>5 DEF CleanupDone, nat, ghosts, At, Svc
  <2>2. CASE s # ctl.svc
    BY <1>0, <1>a, <1>b, <2>1, <2>2
  <2>3. CASE s = ctl.svc
    <3>1. ASSUME NEW i \in DOMAIN Ports[s]
          PROVE  /\ Cleanable(s, Ports[s][i].port) => chain[ChainOf(s, i)] = None
                 /\ \A j \in PortJumps(s, Ports[s][i].port) : jumps[j] = 0
      <4>1. i < ctl.port
        <5>1. i \in Nat /\ i <= Len(Ports[s]) /\ Len(Ports[s]) \in Nat /\ ctl.port \in Nat
          BY <1>0, PortsAre DEF Pass
        <5> QED
          BY <2>1, <2>3, <5>1
      <4> QED
        BY <2>1, <2>3, <4>1 DEF Cleaned
    <3>2. ASSUME NEW n \in PortNumbers, Cleanable(s, n) PROVE chain[<<s, n>>] = None
      <4>1. <<s, n>> \in serviceChainName /\ <<s, n>>[1] = s /\ <<s, n>>[2] = n
        BY DEF serviceChainName
      <4>2. chain[<<s, n>>] # None => \E i \in DOMAIN Ports[s] : Ports[s][i].port = n
        BY <4>1 DEF OwnRules
      <4> QED
        BY <3>1, <3>2, <4>2 DEF ChainOf
    <3>3. ASSUME NEW j \in JumpIds, j[2] = s, j[4] \in CleanedProtos PROVE jumps[j] = 0
      <4>1. j[3] \in PortNumbers
        BY DEF JumpIds
      <4>2. j \in PortJumps(s, j[3])
        BY <3>3, <4>1, PortJumpsAre
      <4>3. jumps[j] > 0 => \E i \in DOMAIN Ports[s] : Ports[s][i].port = j[3]
        BY <1>0, <3>3 DEF OwnRules
      <4>4. jumps[j] \in Nat
        BY <1>0
      <4> QED
        BY <3>1, <4>2, <4>3, <4>4
    <3>4. Bare(s)
      BY <1>0, <3>2, <3>3 DEF Bare
    <3> QED
      BY <1>b, <2>1, <3>4
  <2> QED
    BY <2>2, <2>3
<1>6. CASE Restart
  <2>1. /\ UNCHANGED <<chain, jumps>>
        /\ forgot' = forgot \cup {t \in Services : lastState[t] # None}
    BY <1>6 DEF Restart, nat
  <2> QED
    BY <1>a, <1>b, <2>1
<1> QED
  BY <1>1, <1>2, <1>3, <1>4, <1>5, <1>6, NextCases

\* A port of a service whose jumps were never doubled is clean when it is cleaned,
\* unless another protocol jumps to its chain.
LEMMA PortIsClean ==
    ASSUME TypeOK, SingleJumps, OwnRules, CleanPort, ctl.svc \notin doubled
    PROVE  /\ Cleanable(ctl.svc, Ports[ctl.svc][ctl.port].port) =>
                 chain'[ChainOf(ctl.svc, ctl.port)] = None
           /\ \A j \in PortJumps(ctl.svc, Ports[ctl.svc][ctl.port].port) : jumps'[j] = 0
<1>0. /\ ctl.svc \in Services /\ Svc = ctl.svc /\ ctl.port \in DOMAIN Ports[ctl.svc]
      /\ Port = Ports[ctl.svc][ctl.port] /\ Port.port \in PortNumbers
      /\ Chain = ChainOf(ctl.svc, ctl.port) /\ Chain \in serviceChainName
  BY WorkedOn, Zenon DEF Cleans
<1>1. /\ JumpsOK /\ chain \in [serviceChainName -> Seq(Rule) \cup {None}]
      /\ DOMAIN jumps = JumpIds /\ \A j \in JumpIds : jumps[j] \in Nat
  BY TypeParts DEF TypeOK, JumpsOK
<1> DEFINE n == Port.port
           left == Deleted(PortJumps(Svc, n), {})
<1>2. /\ jumps' = left
      /\ chain' = [chain EXCEPT ![<<Svc, n>>] =
                    IF @ # None /\ JumpedTo(left, Svc, n) THEN <<>> ELSE None]
  BY DEF CleanPort, Clean
<1>3. /\ PortJumps(Svc, n) \subseteq JumpIds /\ \A j \in PortJumps(Svc, n) : j[2] = Svc
  BY <1>0, PortJumpsAre
<1>4. \A j \in JumpIds : left[j] = IF j \in PortJumps(Svc, n) \ {} /\ jumps[j] > 0
                                   THEN jumps[j] - 1 ELSE jumps[j]
  BY <1>1, JumpsChange
<1> HIDE DEF left, n
<1>5. ASSUME NEW j \in PortJumps(Svc, n) PROVE left[j] = 0
  <2>1. j \in JumpIds /\ jumps[j] \in Nat /\ j[2] = ctl.svc
    BY <1>0, <1>1, <1>3
  <2>2. jumps[j] <= 1
    BY <1>1, <2>1 DEF SingleJumps
  <2> QED
    BY <1>4, <2>1, <2>2
<1>6. ASSUME Cleanable(Svc, n), NEW h \in Hooks, NEW proto \in Protos
      PROVE  ~(left[JumpId(h, Svc, n, proto)] > 0)
  <2> DEFINE j == JumpId(h, Svc, n, proto)
  <2>1. j \in JumpIds /\ j[2] = Svc /\ j[3] = n /\ j[4] = proto
    BY <1>0 DEF JumpId, JumpIds, n
  <2> HIDE DEF j
  <2>2. CASE proto \in CleanedProtos
    <3>1. j \in PortJumps(Svc, n)
      BY <1>0, <2>1, <2>2, PortJumpsAre DEF n
    <3>2. left[j] = 0
      BY <1>5, <3>1
    <3> QED
      BY <3>2 DEF j
  <2>3. CASE proto \notin CleanedProtos
    <3>1. ~(jumps[j] > 0)
      BY <1>1, <1>6, <2>1, <2>3 DEF OwnRules, Cleanable
    <3>2. left[j] = jumps[j]
      BY <1>4, <2>1, <3>1
    <3> QED
      BY <3>1, <3>2 DEF j
  <2> QED
    BY <2>2, <2>3
<1>7. <<Svc, n>> \in serviceChainName
  BY <1>0 DEF serviceChainName, n
<1>8. ASSUME Cleanable(Svc, n) PROVE chain'[<<Svc, n>>] = None
  <2>1. ~JumpedTo(left, Svc, n)
    BY <1>6, <1>8 DEF JumpedTo
  <2> QED
    BY <1>1, <1>2, <1>7, <2>1
<1> QED
  BY <1>0, <1>2, <1>5, <1>8 DEF ChainOf, n

LEMMA CleanedStep ==
    ASSUME TypeOK, AtStart, SingleJumps, OwnRules, Cleaned, [Next]_vars
    PROVE  Cleaned'
<1> USE DEF Goes
<1>0. /\ ctl \in Pass /\ ssm \subseteq Services /\ pods \subseteq Pods
      /\ addr \in [Pods -> Addrs \cup {None}] /\ doubled \subseteq doubled'
  BY DoubledGrows DEF TypeOK
<1>a. ASSUME ctl'.at # "cleanup" \/ ctl'.svc = None PROVE Cleaned'
  BY <1>a DEF Cleaned
<1>1. CASE Clients \/ UNCHANGED vars
  <2>1. UNCHANGED <<ctl, chain, jumps, doubled>>
    BY <1>1, ClientsKeep DEF vars, nat, ghosts
  <2> QED
    BY <2>1 DEF Cleaned
<1>2. CASE Tick \/ ListPods \/ ListPodsFails \/ NextService \/ ReadEndpoint \/ EndpointsSame
           \/ PortDone \/ RulesApplied \/ Sleep \/ EndpointsChanged \/ Applies
           \/ CleanupDone \/ Restart
  <2>1. Tick \/ CleanupDone => ctl'.svc = None
    BY <1>0, WakeEffects, CleanEffects
  <2>2. ListPodsFails \/ Sleep \/ Restart => ctl'.at = "asleep"
    BY AsleepIs DEF ListPodsFails, Sleep, Restart
  <2>3. ListPods \/ NextService \/ ReadEndpoint \/ EndpointsSame \/ EndpointsChanged
        => ctl'.at # "cleanup"
    BY <1>0, WakeEffects, PassEffects
  <2>4. PortDone \/ RulesApplied \/ Applies => ctl'.at # "cleanup"
    BY <1>0, ApplyEffects DEF Applies
  <2> QED
    BY <1>2, <1>a, <2>1, <2>2, <2>3, <2>4
<1>3. CASE ServicesDone
  <2>1. ctl'.svc = ctl.svc /\ ctl.at = "services"
    BY <1>0, <1>3, PassEffects DEF ServicesDone, At
  <2> QED
    BY <1>a, <2>1 DEF AtStart
<1>4. CASE NextCleanup
  <2>1. ctl'.port = ctl.port /\ ctl'.svc \in Removed /\ ctl.at = "cleanup" /\ ctl.svc = None
    BY <1>0, <1>4, CleanEffects DEF NextCleanup, At
  <2>2. ctl'.port = 1 /\ ctl'.svc \in Services
    BY <2>1 DEF AtStart, Removed
  <2>3. \A i \in DOMAIN Ports[ctl'.svc] : ~(i < 1)
    BY <2>2, PortsAre
  <2> QED
    BY <2>2, <2>3 DEF Cleaned
<1>5. CASE CleanPortFails
  <2>1. ctl'.svc = ctl.svc /\ ctl.svc \in doubled'
    BY <1>0, <1>5, CleanEffects DEF CleanPortFails, Svc
  <2> QED
    BY <2>1 DEF Cleaned
<1>6. CASE CleanPort
  <2>1. /\ Goes("cleanup", ctl.svc, ctl.port + 1, ctl.end, ctl.ends) /\ UNCHANGED doubled
        /\ ctl.at = "cleanup" /\ ctl.svc # None
    BY <1>0, <1>6, CleanEffects DEF CleanPort, ghosts, At, Svc
  <2>2. ctl.svc \in Services /\ ctl.port \in Nat
    BY <1>0, <2>1 DEF Pass
  <2>3. Port = Ports[ctl.svc][ctl.port]
    BY <1>6, WorkedOn, Zenon DEF Cleans
  <2>4. NoNewChain /\ JumpsFewer
    BY <1>6, CleanKeepsNone, JumpsDeleted DEF Cleans
  <2> SUFFICES ASSUME ctl.svc \notin doubled, NEW i \in DOMAIN Ports[ctl.svc], i < ctl.port + 1
               PROVE  /\ Cleanable(ctl.svc, Ports[ctl.svc][i].port) =>
                            chain'[ChainOf(ctl.svc, i)] = None
                      /\ \A j \in PortJumps(ctl.svc, Ports[ctl.svc][i].port) : jumps'[j] = 0
    BY <2>1 DEF Cleaned, Cleanable
  <2>5. CASE i = ctl.port
    BY <1>6, <2>3, <2>5, PortIsClean
  <2>6. CASE i # ctl.port
    <3>1. i < ctl.port
      BY <2>2, <2>6, PortsAre
    <3>2. /\ Cleanable(ctl.svc, Ports[ctl.svc][i].port) => chain[ChainOf(ctl.svc, i)] = None
          /\ \A j \in PortJumps(ctl.svc, Ports[ctl.svc][i].port) : jumps[j] = 0
      BY <2>1, <3>1 DEF Cleaned
    <3>3. ChainOf(ctl.svc, i) \in serviceChainName /\ Ports[ctl.svc][i].port \in PortNumbers
      BY <2>2, PortsAre
    <3>4. Cleanable(ctl.svc, Ports[ctl.svc][i].port) => chain'[ChainOf(ctl.svc, i)] = None
      BY <2>4, <3>2, <3>3 DEF NoNewChain
    <3>5. ASSUME NEW j \in PortJumps(ctl.svc, Ports[ctl.svc][i].port) PROVE jumps'[j] = 0
      <4>1. j \in JumpIds
        BY <2>2, <3>3, PortJumpsAre
      <4>2. jumps[j] = 0 /\ jumps'[j] <= jumps[j]
        BY <2>4, <3>2, <4>1 DEF JumpsFewer
      <4>3. jumps'[j] \in Nat
        BY <4>1, JumpsStep DEF JumpsOK
      <4> QED
        BY <4>2, <4>3
    <3> QED
      BY <3>4, <3>5
  <2> QED
    BY <2>5, <2>6
<1> QED
  BY <1>1, <1>2, <1>3, <1>4, <1>5, <1>6, NextCases DEF Quiet, Cleans

-----------------------------------------------------------------------------
\* The invariant.

LEMMA BetweenPortsParts == BetweenPorts <=> InPortChains /\ InPortJumps
BY DEF BetweenPorts, InPortChains, InPortJumps

LEMMA InitServiceInv == Init => ServiceInv
<1> SUFFICES ASSUME Init PROVE ServiceInv
  OBVIOUS
<1>1. TypeOK
  BY InitTypes
<1>2. ctl.at = "asleep" /\ ctl.svc = None /\ ctl.port = 1 /\ ctl.end = 1
  BY AsleepIs DEF Init
<1>3. AtStart /\ BetweenPorts /\ InChain /\ InJumps /\ Cleaned
  BY <1>2 DEF AtStart, BetweenPorts, InChain, InJumps, Cleaned, Working
<1>4. \A j \in DOMAIN jumps : jumps[j] = 0
  BY DEF Init
<1>5. SingleJumps
  BY <1>4 DEF SingleJumps
<1>6. \A c \in serviceChainName : chain[c] = None
  BY DEF Init
<1>7. OwnRules
  BY <1>4, <1>6 DEF OwnRules
<1>8. \A s \in Services : Bare(s)
  BY <1>4, <1>6 DEF Bare, serviceChainName
<1>9. Matched /\ Unremembered
  BY <1>8 DEF Matched, Unremembered, Init
<1> QED
  BY <1>1, <1>3, <1>5, <1>7, <1>9 DEF ServiceInv, RulesInv, LeftInv

LEMMA NextServiceInv == ServiceInv /\ [Next]_vars => ServiceInv'
<1> SUFFICES ASSUME ServiceInv, [Next]_vars PROVE ServiceInv'
  OBVIOUS
<1>0. /\ TypeOK /\ AtStart /\ SingleJumps /\ BetweenPorts /\ InChain /\ InJumps /\ Matched
      /\ OwnRules /\ Unremembered /\ Cleaned
  BY DEF ServiceInv, RulesInv, LeftInv
<1>1. InPortChains /\ InPortJumps
  BY <1>0, BetweenPortsParts
<1>2. TypeOK' /\ AtStart' /\ SingleJumps'
  BY <1>0, NextTypes, AtStartStep, SingleJumpsStep
<1>3. InChain' /\ InPortChains' /\ InJumps' /\ InPortJumps'
  BY <1>0, <1>1, InChainStep, InJumpsStep
<1>4. BetweenPorts'
  BY <1>3 DEF BetweenPorts, InPortChains, InPortJumps
<1>5. Matched' /\ OwnRules' /\ Unremembered' /\ Cleaned'
  BY <1>0, MatchedStep, OwnRulesStep, UnrememberedStep, CleanedStep
<1> QED
  BY <1>2, <1>3, <1>4, <1>5 DEF ServiceInv, RulesInv, LeftInv

\* reconcileOnce, applyRules and cleanupService keep the inductive invariant: at
\* every point of a pass the chains and jumps of the entries before the current
\* one are those of the remembered endpoints, no jump is doubled unless one could
\* not be deleted, and the ports that clean-up has passed are empty.
THEOREM ServiceInvariant == Spec => []ServiceInv
BY InitServiceInv, NextServiceInv, PTL DEF Spec

\* The entry that Expected chooses is the last one that fills the chain, and its
\* rules are those that applyRules put there.
LEMMA ExpectedIs ==
    ASSUME TypeOK, NEW s \in Services, lastState[s] # None,
           NEW i \in DOMAIN Ports[s]
    PROVE  \E k \in DOMAIN Ports[s] :
              /\ LastBefore(s, k, Len(Ports[s]) + 1) /\ ChainOf(s, k) = ChainOf(s, i)
              /\ Expected(s, Ports[s][i].port) = RulesOf(s, k, lastState[s])
<1> DEFINE n == Ports[s][i].port
           L(k) == /\ Ports[s][k].port = n
                   /\ \A j \in DOMAIN Ports[s] : Ports[s][j].port = n => j <= k
           last == CHOOSE k \in DOMAIN Ports[s] : L(k)
           ends == lastState[s]
<1>1. Len(Ports[s]) \in Nat /\ DOMAIN Ports[s] = 1..Len(Ports[s])
  BY PortsAre
<1>2. ends \in Seq(Addrs) /\ Len(ends) \in Nat
  <2>1. ends \in Seq(Addrs)
    BY DEF TypeOK
  <2> HIDE DEF ends
  <2> QED
    BY <2>1
<1>3. \E k \in DOMAIN Ports[s] : L(k)
  <2> DEFINE T == {k \in DOMAIN Ports[s] : Ports[s][k].port = n}
  <2>1. T \subseteq 0..Len(Ports[s]) /\ i \in T
    BY <1>1
  <2>2. T # {}
    BY <2>1
  <2>3. \E x \in T : \A y \in T : y <= x
    <3> HIDE DEF T
    <3> QED
      BY <1>1, <2>1, <2>2, GreatestNumber
  <2> QED
    BY <2>3
<1>4. last \in DOMAIN Ports[s] /\ L(last)
  <2> HIDE DEF L
  <2> QED
    BY <1>3, Zenon
<1>5. Expected(s, n) =
         [k \in 1..Len(ends) |->
            [addr |-> ends[k], target |-> Ports[s][last].target,
             proto |-> Ports[s][last].proto, share |-> IF k = Len(ends) THEN 0 ELSE Len(ends)]]
  BY Zenon DEF Expected
<1> HIDE DEF last, ends, n
<1>6. LastBefore(s, last, Len(Ports[s]) + 1) /\ ChainOf(s, last) = ChainOf(s, i)
  <2>1. last < Len(Ports[s]) + 1
    BY <1>1, <1>4
  <2> QED
    BY <1>4, <2>1 DEF LastBefore, ChainOf, n
<1>7. \A k \in 1..Len(ends) : (k < Len(ends)) <=> ~(k = Len(ends))
  BY <1>2
<1>8. RulesOf(s, last, ends) =
         [k \in 1..Len(ends) |->
            [addr |-> ends[k], target |-> Ports[s][last].target,
             proto |-> Ports[s][last].proto, share |-> IF k = Len(ends) THEN 0 ELSE Len(ends)]]
  <2>1. ASSUME NEW k \in 1..Len(ends)
        PROVE  EndpointRule(ends, k, Ports[s][last]) =
                 [addr |-> ends[k], target |-> Ports[s][last].target,
                  proto |-> Ports[s][last].proto, share |-> IF k = Len(ends) THEN 0 ELSE Len(ends)]
    <3>1. (IF k < Len(ends) THEN Len(ends) ELSE 0) = (IF k = Len(ends) THEN 0 ELSE Len(ends))
      BY <1>7
    <3> QED
      BY <3>1 DEF EndpointRule
  <2> QED
    BY <2>1 DEF RulesOf, Prefix
<1> QED
  BY <1>4, <1>5, <1>6, <1>8 DEF n, ends

LEMMA InvMatches == ServiceInv => RulesMatchState
<1> SUFFICES ASSUME ServiceInv, ctl.at = "asleep", NEW s \in Services, lastState[s] # None,
                    s \notin failed, NEW i \in DOMAIN Ports[s]
             PROVE  /\ chain[<<s, Ports[s][i].port>>] = Expected(s, Ports[s][i].port)
                    /\ s \notin doubled => \A h \in Hooks :
                          jumps[JumpId(h, s, Ports[s][i].port, Ports[s][i].proto)] = 1
  BY DEF RulesMatchState, At
<1>1. TypeOK /\ Matched
  BY DEF ServiceInv, RulesInv
<1>2. Settled(s)
  BY <1>1 DEF Matched, Working
<1>3. PICK k \in DOMAIN Ports[s] :
              /\ LastBefore(s, k, Len(Ports[s]) + 1) /\ ChainOf(s, k) = ChainOf(s, i)
              /\ Expected(s, Ports[s][i].port) = RulesOf(s, k, lastState[s])
  BY <1>1, ExpectedIs
<1>4. chain[ChainOf(s, i)] = Expected(s, Ports[s][i].port)
  BY <1>2, <1>3 DEF Settled, Filled
<1>5. i < Len(Ports[s]) + 1
  BY PortsAre
<1>6. ASSUME s \notin doubled, NEW h \in Hooks PROVE jumps[JumpOf(h, s, i)] = 1
  BY <1>2, <1>5, <1>6 DEF Settled, Jumped
<1> QED
  BY <1>4, <1>6 DEF ChainOf, JumpOf

\* applyRules: between two passes the kernel has, for every service that is
\* remembered and whose rules were applied without an error, exactly the rules of
\* the endpoints in lastState and one jump per hook and port.
THEOREM RulesFollowMemory == Spec => []RulesMatchState
<1>1. ServiceInv => RulesMatchState
  BY InvMatches
<1> QED
  BY <1>1, ServiceInvariant, PTL

\* cleanupService: between two passes no rule belongs to a service that the
\* controller does not remember, unless a restart came between its removal and
\* its clean-up, a rule or chain of it could not be deleted, or the rule is of
\* another protocol than the two that are cleaned up.
THEOREM RulesAreTakenAway == Spec => []NoLeftovers
<1>1. ServiceInv => NoLeftovers
  BY DEF ServiceInv, LeftInv, Unremembered, Bare, NoLeftovers
<1> QED
  BY <1>1, ServiceInvariant, PTL
=============================================================================
