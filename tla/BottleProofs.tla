----------------------------- MODULE BottleProofs -----------------------------
(***************************************************************************)
(* Proofs about Bottle, for every set of services, policies and requests.  *)
(*                                                                         *)
(* There is one registration.  While it is creating, no deletion has a     *)
(* record that lists every container: it ends at the last service of the   *)
(* order, the first one that it looks at, before it has changed anything.  *)
(* This is what makes the steps of the registration safe against the other *)
(* requests, although no lock is held between them.                        *)
(***************************************************************************)
EXTENDS Bottle, FiniteSetTheorems, TLAPS

Distinct(s) == \A i, j \in DOMAIN s : s[i] = s[j] => i = j

Complete(b) == b.containers = Services

\* The registration, until the last container is recorded.
Creating(r) == proc[r].kind = "register" /\ ~(proc[r].step = "containers" /\ proc[r].todo = <<>>)

-----------------------------------------------------------------------------
\* Which steps a request of each kind may be at.
NetSteps == {"net check", "net interface", "net pool", "net refresh"}

PreSteps == {"order", "invalid", "policies", "store"}

OpenSteps == {"network", "interface", "refresh", "record network"}

RegisterSteps == PreSteps \cup OpenSteps \cup NetSteps
    \cup {"containers", "record", "undo containers", "undo network", "undo bottle", "undo policies", "clear network"}

DeleteSteps == {"stop one", "delete one", "remove policies", "drop policy", "remove bottle"} \cup NetSteps

KindOK(p) ==
    \/ p = Idle
    \/ /\ p.kind = "register" /\ p.step \in RegisterSteps
       /\ p.info \in Bottles \/ p.step \in PreSteps \cup {"undo policies"}
       /\ p.step = "record" => p.todo # <<>>
    \/ p.kind = "start" /\ p.step = "starting" /\ p.info \in Bottles
    \/ p.kind = "stop" /\ p.step = "stopping" /\ p.info \in Bottles
    \/ /\ p.kind = "delete" /\ p.step \in DeleteSteps /\ p.info \in Bottles
       /\ p.step \in {"delete one", "drop policy"} => p.todo # <<>>

\* There is one registration, and it is the first request.
OneRegistration ==
    /\ \A r, q \in Procs : proc[r].kind = "register" /\ proc[q].kind = "register" => r = q
    /\ requests = 0 => bsm = None /\ \A r \in Procs : proc[r] = Idle

Shape == TypeOK /\ (\A r \in Procs : KindOK(proc[r])) /\ OneRegistration

-----------------------------------------------------------------------------
\* BuildStartOrder (Kahn's algorithm): what is in the order or in the queue is
\* what depends on nothing outside of the order.
InOrder(order, deps) ==
    \A i \in DOMAIN order : deps[order[i]] \subseteq ToSet(SubSeq(order, 1, i - 1))

Queued(p) ==
    /\ \A s \in Services : Unknown \notin p.deps[s]
    /\ Distinct(p.order) /\ Distinct(p.todo)
    /\ ToSet(p.order) \cap ToSet(p.todo) = {}
    /\ ToSet(p.order) \cup ToSet(p.todo) = {s \in Services : p.deps[s] \subseteq ToSet(p.order)}
    /\ InOrder(p.order, p.deps)

Sorted(order, deps) == Topological(order, deps) /\ Distinct(order) /\ order # <<>>

\* The services that the registration has still to do end the order.
Suffix(todo, order) ==
    /\ Len(todo) <= Len(order)
    /\ \A i \in DOMAIN todo : todo[i] = order[i + (Len(order) - Len(todo))]

\* The steps of the registration at which it still has the services to do.
CreateSteps == OpenSteps \cup {"containers", "record"}

Ordered(p) ==
    /\ p.step = "order" => Queued(p)
    /\ p.step = "invalid" => Cyclic(p.deps) \/ \E s \in Services : Unknown \in p.deps[s]
    /\ p.step \in {"policies", "store"} => Sorted(p.order, p.deps)
    /\ p.step \in CreateSteps =>
          p.info.deps = p.deps /\ Sorted(p.info.order, p.deps) /\ Suffix(p.todo, p.info.order)
    /\ p.step \in OpenSteps => p.todo = p.info.order

OrderInv ==
    /\ bsm # None => Sorted(bsm.order, bsm.deps)
    /\ \A r \in Procs : proc[r].kind = "register" => Ordered(proc[r])
    /\ \A r \in Procs : proc[r].kind = "delete" => Sorted(proc[r].info.order, proc[r].info.deps)

-----------------------------------------------------------------------------
\* The record of a bottle lists its containers in the order of their creation,
\* so that the last one is in it only when all are.
LastLast(b) == Last(b.order) \in b.containers => Complete(b)

\* A deletion that has done more than look at its first service has a complete
\* record.
Partial(p) == ~Complete(p.info) => p.step = "stop one" /\ p.todo # <<>> /\ Head(p.todo) \notin p.info.containers

Recorded(p) ==
    /\ p.step \in PreSteps \cup {"undo policies"} => bsm = None
    /\ p.step \in CreateSteps => bsm # None /\ bsm.order = p.info.order /\ bsm.network = p.info.network
    /\ p.step \in OpenSteps => bsm.containers = {} /\ ~bsm.network
    /\ p.step \in {"containers", "record"} => bsm.containers = Services \ ToSet(p.todo)
    /\ p.step \notin PreSteps \cup {"undo policies"} => bsm # None /\ ~Complete(bsm)

RecordInv ==
    /\ bsm # None => LastLast(bsm)
    /\ \A r \in Procs : proc[r].kind = "delete" => Partial(proc[r])
    /\ \A r \in Procs : Creating(r) =>
          /\ Recorded(proc[r])
          /\ \A q \in Procs : proc[q].kind = "delete" => ~Complete(proc[q].info)

-----------------------------------------------------------------------------
\* Which containers there are.
AllGone == \A s \in Services : csm[s] = "none"

MadeSoFar(p) ==
    /\ p.step \in PreSteps \cup OpenSteps => AllGone /\ p.made = <<>>
    /\ p.step \in {"containers", "record"} =>
          \A s \in Services : (s \notin ToSet(p.todo) => csm[s] # "none") /\ (csm[s] # "none" => s \in ToSet(p.made))
    /\ p.step = "record" => csm[Head(p.todo)] # "none"
    /\ p.step = "undo containers" /\ ~halted => \A s \in Services : csm[s] # "none" => s \in ToSet(p.made)
    /\ p.step \in NetSteps \cup {"clear network", "undo network", "undo bottle", "undo policies"} /\ ~halted => AllGone

GoneSoFar(p) ==
    /\ p.step \in {"stop one", "delete one"} => \A s \in Services : s \notin ToSet(p.todo) => csm[s] = "none"
    /\ p.step \notin {"stop one", "delete one"} => AllGone

ContainerInv ==
    /\ \A r \in Procs : Creating(r) => MadeSoFar(proc[r])
    /\ \A r \in Procs : proc[r].kind = "delete" /\ Complete(proc[r].info) => GoneSoFar(proc[r])
    /\ bsm = None /\ ~halted /\ (\A r \in Procs : ~Creating(r)) => AllGone
    /\ requests = 0 => ~halted

-----------------------------------------------------------------------------
\* What there is of the network.
NoNetwork == ~pool /\ ~bridge

NetMade(p) ==
    /\ p.step \in PreSteps \cup {"network"} => NoNetwork
    /\ p.step = "interface" => ~bridge
    /\ p.step \in {"containers", "record", "undo containers"} /\ ~p.info.network => NoNetwork
    /\ p.step = "net pool" => ~bridge
    /\ p.step = "net refresh" => NoNetwork
    /\ p.step \in {"clear network", "undo network", "undo bottle", "undo policies"} /\ ~halted => NoNetwork

NetRemoved(p) ==
    /\ ~p.info.network /\ ~halted => NoNetwork
    /\ p.step \in NetSteps => p.info.network
    /\ p.step = "net pool" => ~bridge
    /\ p.step = "net refresh" => NoNetwork
    /\ p.step = "remove bottle" /\ ~halted => NoNetwork

NetworkInv ==
    /\ \A r \in Procs : Creating(r) => NetMade(proc[r])
    /\ \A r \in Procs : proc[r].kind = "delete" /\ Complete(proc[r].info) => NetRemoved(proc[r])
    /\ bsm # None /\ Complete(bsm) /\ ~bsm.network /\ ~halted => NoNetwork
    /\ bsm = None /\ ~halted /\ (\A r \in Procs : ~Creating(r)) => NoNetwork

-----------------------------------------------------------------------------
\* What there is of the policies, but for those that a commit wrote or passed
\* over while they were flagged.
Clear(p) == npm[p] = "none" \/ p \in stale
Flag(p) == npm[p] # "stored" \/ p \in stale

NoPolicy == \A p \in ToSet(Policies) : Clear(p)

\* The commit of the request takes the policy out: it has listed the flag, or
\* has not listed yet.
Doomed(r, p) == Flag(p) /\ (listed[r] # None => listed[r][p] = "remove_next_commit" \/ Clear(p))

PolicyUndone(r) ==
    proc[r].step = "undo policies" => \A p \in ToSet(Policies) : p \notin ToSet(proc[r].todo) => Doomed(r, p)

PolicyGone(r) ==
    /\ proc[r].step \in {"remove policies", "drop policy"} =>
          \A p \in ToSet(Policies) : p \notin ToSet(proc[r].todo) => Clear(p)
    /\ proc[r].step = "drop policy" => Doomed(r, Head(proc[r].todo))
    /\ proc[r].step \in NetSteps \cup {"remove bottle"} => NoPolicy

PolicyInv ==
    /\ \A r \in Procs : proc[r].kind = "register" =>
          PolicyUndone(r) /\ (proc[r].step \in {"order", "invalid"} => NoPolicy)
    /\ \A r \in Procs : proc[r].kind = "delete" => PolicyGone(r)
    /\ bsm = None /\ ~halted /\ (\A r \in Procs : ~Creating(r)) => NoPolicy

-----------------------------------------------------------------------------
\* Nobody is on a network that is being made or removed, but a guest that came
\* late.
GuestInv ==
    /\ \A r \in Procs : proc[r].step \in {"interface", "refresh", "net interface", "net pool"} =>
          csm[Guest] = "none" \/ late
    /\ NetworkKept

BottleInv == Shape /\ OrderInv /\ RecordInv /\ ContainerInv /\ NetworkInv /\ PolicyInv /\ GuestInv

-----------------------------------------------------------------------------
\* Facts about sequences.
LEMMA SeqHeadTail ==
    ASSUME NEW S, NEW s \in Seq(S), s # <<>>
    PROVE  /\ Head(s) \in S /\ Tail(s) \in Seq(S) /\ Len(s) \in Nat \ {0} /\ Len(Tail(s)) = Len(s) - 1
           /\ Head(s) = s[1] /\ \A i \in 1..(Len(s) - 1) : Tail(s)[i] = s[i + 1]
  OBVIOUS

LEMMA InToSet ==
    ASSUME NEW S, NEW s \in Seq(S)
    PROVE  /\ Len(s) \in Nat /\ DOMAIN s = 1..Len(s) /\ \A i \in 1..Len(s) : s[i] \in S /\ s[i] \in ToSet(s)
           /\ \A x : x \in ToSet(s) <=> \E i \in 1..Len(s) : s[i] = x
           /\ ToSet(s) \subseteq S
  BY DEF ToSet

LEMMA ToSetEmpty == ToSet(<<>>) = {}
  BY DEF ToSet

LEMMA SeqFrontLast ==
    ASSUME NEW S, NEW s \in Seq(S), s # <<>>
    PROVE  /\ Last(s) \in S /\ Front(s) \in Seq(S) /\ ToSet(s) = ToSet(Front(s)) \cup {Last(s)}
  <1>1. Len(s) \in Nat /\ Len(s) > 0 /\ s = [i \in 1..Len(s) |-> s[i]]
    OBVIOUS
  <1>2. Front(s) = [i \in 1..(Len(s) - 1) |-> s[i]] /\ Front(s) \in Seq(S)
    BY <1>1 DEF Front
  <1>3. Last(s) = s[Len(s)] /\ Last(s) \in S
    BY <1>1 DEF Last
  <1> QED
    BY <1>1, <1>2, <1>3 DEF ToSet

LEMMA SeqTypes ==
    ASSUME NEW S, NEW s \in Seq(S)
    PROVE  /\ s # <<>> => ToSet(s) = ToSet(Tail(s)) \cup {Head(s)} /\ Head(s) \in ToSet(s)
           /\ s = <<>> <=> ToSet(s) = {}
  <1>1. ASSUME s # <<>> PROVE ToSet(s) = ToSet(Tail(s)) \cup {Head(s)} /\ Head(s) \in ToSet(s)
    <2>1. /\ Tail(s) \in Seq(S) /\ Len(s) \in Nat \ {0} /\ Len(Tail(s)) = Len(s) - 1
          /\ Head(s) = s[1] /\ \A i \in 1..(Len(s) - 1) : Tail(s)[i] = s[i + 1]
      BY <1>1, SeqHeadTail
    <2>2. ASSUME NEW x \in ToSet(s) PROVE x \in ToSet(Tail(s)) \cup {Head(s)}
      <3>1. PICK i \in 1..Len(s) : s[i] = x
        BY <2>2, InToSet
      <3>2. CASE i = 1
        BY <2>1, <3>1, <3>2
      <3>3. CASE i # 1
        <4>1. i - 1 \in 1..(Len(s) - 1) /\ (i - 1) + 1 = i
          BY <2>1, <3>3
        <4>2. Tail(s)[i - 1] = x
          BY <2>1, <3>1, <4>1
        <4> QED
          BY <2>1, <4>1, <4>2, InToSet
      <3> QED
        BY <3>2, <3>3
    <2>3. ASSUME NEW x \in ToSet(Tail(s)) PROVE x \in ToSet(s)
      <3>0. \A t \in Seq(S) : \A y \in ToSet(t) : \E i \in 1..Len(t) : t[i] = y
        BY InToSet
      <3>1. PICK i \in 1..Len(Tail(s)) : Tail(s)[i] = x
        BY <2>1, <3>0, Zenon
      <3>2. i + 1 \in 1..Len(s)
        BY <2>1
      <3>3. s[i + 1] = x
        BY <2>1, <3>1
      <3> QED
        BY <3>2, <3>3, InToSet
    <2>4. Head(s) \in ToSet(s)
      BY <2>1, InToSet
    <2> QED
      BY <2>2, <2>3, <2>4
  <1>2. s = <<>> => ToSet(s) = {}
    BY DEF ToSet
  <1> QED
    BY <1>1, <1>2

LEMMA SeqReverse ==
    ASSUME NEW S, NEW s \in Seq(S)
    PROVE  /\ Reverse(s) \in Seq(S) /\ ToSet(Reverse(s)) = ToSet(s)
           /\ s # <<>> => Reverse(s) # <<>> /\ Head(Reverse(s)) = Last(s)
  <1>1. Len(s) \in Nat /\ s = [i \in 1..Len(s) |-> s[i]] /\ \A i \in 1..Len(s) : s[i] \in S
    OBVIOUS
  <1>2. Reverse(s) = [i \in 1..Len(s) |-> s[(Len(s) - i) + 1]]
    BY DEF Reverse
  <1>3. Reverse(s) \in Seq(S) /\ Len(Reverse(s)) = Len(s)
    BY <1>1, <1>2
  <1>4. \A i \in 1..Len(s) : (Len(s) - i) + 1 \in 1..Len(s) /\ (Len(s) - ((Len(s) - i) + 1)) + 1 = i
    BY <1>1
  <1>5. ToSet(Reverse(s)) = ToSet(s)
    <2>1. ASSUME NEW x \in ToSet(s) PROVE x \in ToSet(Reverse(s))
      <3>1. PICK i \in 1..Len(s) : s[i] = x
        BY <2>1, InToSet
      <3>2. Reverse(s)[(Len(s) - i) + 1] = x
        BY <1>2, <1>4, <3>1
      <3> QED
        BY <1>3, <1>4, <3>2, InToSet
    <2>2. ASSUME NEW x \in ToSet(Reverse(s)) PROVE x \in ToSet(s)
      <3>1. PICK i \in 1..Len(s) : Reverse(s)[i] = x
        BY <1>3, <2>2, InToSet
      <3>2. s[(Len(s) - i) + 1] = x
        BY <1>2, <3>1
      <3> QED
        BY <1>4, <3>2, InToSet
    <2> QED
      BY <2>1, <2>2
  <1>6. s # <<>> => Reverse(s) # <<>> /\ Head(Reverse(s)) = Last(s)
    BY <1>1, <1>2, <1>3 DEF Last
  <1> QED
    BY <1>3, <1>5, <1>6

LEMMA DistinctLen ==
    ASSUME NEW S, IsFiniteSet(S), NEW s \in Seq(S), Distinct(s)
    PROVE  Len(s) = Cardinality(S) <=> ToSet(s) = S
  <1>1. Len(s) \in Nat /\ DOMAIN s = 1..Len(s) /\ s \in [1..Len(s) -> S]
    OBVIOUS
  <1>2. s \in Injection(1..Len(s), S)
    BY <1>1 DEF Injection, IsInjective, Distinct
  <1>3. Cardinality(1..Len(s)) = Len(s)
    BY <1>1, FS_Interval
  <1>4. Len(s) = Cardinality(S) <=> s \in Surjection(1..Len(s), S)
    BY <1>2, <1>3, FS_Injection
  <1>5. s \in Surjection(1..Len(s), S) <=> ToSet(s) = S
    BY <1>1, InToSet DEF Surjection
  <1> QED
    BY <1>4, <1>5

LEMMA SetToSeqsIs ==
    ASSUME NEW S, IsFiniteSet(S), NEW s \in SetToSeqs(S)
    PROVE  s \in Seq(S) /\ Distinct(s) /\ ToSet(s) = S
  <1> DEFINE n == Cardinality(S)
  <1>1. n \in Nat
    BY FS_CardinalityType
  <1>2. s \in [1..n -> S] /\ \A i, j \in 1..n : i # j => s[i] # s[j]
    BY DEF SetToSeqs
  <1> HIDE DEF n
  <1>3. s \in Seq(S) /\ Len(s) = n
    BY <1>1, <1>2
  <1>4. Distinct(s)
    BY <1>2 DEF Distinct
  <1> QED
    BY <1>3, <1>4, DistinctLen DEF n

LEMMA ToSetAppend ==
    ASSUME NEW S, NEW s \in Seq(S), NEW n \in S
    PROVE  /\ Append(s, n) \in Seq(S) /\ ToSet(Append(s, n)) = ToSet(s) \cup {n}
           /\ Len(Append(s, n)) = Len(s) + 1 /\ Append(s, n)[Len(s) + 1] = n
           /\ \A i \in 1..Len(s) : Append(s, n)[i] = s[i]
           /\ Distinct(s) /\ n \notin ToSet(s) => Distinct(Append(s, n))
  <1> DEFINE a == Append(s, n)
  <1>1. /\ a \in Seq(S) /\ Len(a) = Len(s) + 1 /\ a[Len(s) + 1] = n /\ \A i \in 1..Len(s) : a[i] = s[i]
        /\ Len(s) \in Nat /\ DOMAIN a = 1..(Len(s) + 1) /\ DOMAIN s = 1..Len(s)
    OBVIOUS
  <1> HIDE DEF a
  <1>2. \A x : x \in ToSet(s) <=> \E i \in 1..Len(s) : s[i] = x
    BY InToSet
  <1>3. \A x : x \in ToSet(a) <=> \E i \in 1..(Len(s) + 1) : a[i] = x
    BY <1>1, InToSet
  <1>4. \A i \in 1..(Len(s) + 1) : i \in 1..Len(s) \/ i = Len(s) + 1
    BY <1>1
  <1>5. \A i \in 1..Len(s) : i \in 1..(Len(s) + 1)
    BY <1>1
  <1>6. ToSet(a) = ToSet(s) \cup {n}
    <2>1. ASSUME NEW x \in ToSet(a) PROVE x \in ToSet(s) \cup {n}
      BY <1>1, <1>2, <1>3, <1>4
    <2>2. ASSUME NEW x \in ToSet(s) PROVE x \in ToSet(a)
      BY <1>1, <1>2, <1>3, <1>5
    <2>3. n \in ToSet(a)
      BY <1>1, <1>3
    <2> QED
      BY <2>1, <2>2, <2>3
  <1>7. ASSUME Distinct(s), n \notin ToSet(s) PROVE Distinct(a)
    <2> SUFFICES ASSUME NEW i \in 1..(Len(s) + 1), NEW j \in 1..(Len(s) + 1), a[i] = a[j]
                 PROVE  i = j
      BY <1>1 DEF Distinct
    <2>1. \A k \in 1..Len(s) : a[k] # n
      BY <1>1, <1>2, <1>7
    <2> QED
      BY <1>1, <1>4, <1>7, <2>1 DEF Distinct
  <1> QED
    BY <1>1, <1>6, <1>7 DEF a

LEMMA ToSetConcat ==
    ASSUME NEW S, NEW s \in Seq(S), NEW t \in Seq(S)
    PROVE  /\ s \o t \in Seq(S) /\ ToSet(s \o t) = ToSet(s) \cup ToSet(t)
           /\ Distinct(s) /\ Distinct(t) /\ ToSet(s) \cap ToSet(t) = {} => Distinct(s \o t)
  <1> DEFINE a == s \o t
             m == Len(s)
             n == Len(t)
  <1>1. /\ a \in Seq(S) /\ m \in Nat /\ n \in Nat /\ Len(a) = m + n /\ DOMAIN a = 1..(m + n)
        /\ DOMAIN s = 1..m /\ DOMAIN t = 1..n
    OBVIOUS
  <1>2. \A i \in 1..(m + n) : a[i] = IF i <= m THEN s[i] ELSE t[i - m]
    OBVIOUS
  <1>3. /\ \A x : x \in ToSet(s) <=> \E i \in 1..m : s[i] = x
        /\ \A x : x \in ToSet(t) <=> \E i \in 1..n : t[i] = x
        /\ \A x : x \in ToSet(a) <=> \E i \in 1..(m + n) : a[i] = x
    <2>1. \A x : x \in ToSet(s) <=> \E i \in 1..m : s[i] = x
      BY InToSet
    <2>2. \A x : x \in ToSet(t) <=> \E i \in 1..n : t[i] = x
      BY InToSet
    <2> HIDE DEF a, m, n
    <2>3. \A x : x \in ToSet(a) <=> \E i \in 1..(m + n) : a[i] = x
      BY <1>1, InToSet
    <2> QED
      BY <2>1, <2>2, <2>3
  <1> HIDE DEF a, m, n
  <1>4. \A i \in 1..(m + n) : (i <= m => i \in 1..m) /\ (~(i <= m) => i - m \in 1..n)
    BY <1>1
  <1>5. /\ \A i \in 1..m : i \in 1..(m + n) /\ a[i] = s[i]
        /\ \A i \in 1..n : m + i \in 1..(m + n) /\ a[m + i] = t[i]
    <2>1. \A i \in 1..m : i \in 1..(m + n) /\ i <= m
      BY <1>1
    <2>2. \A i \in 1..n : m + i \in 1..(m + n) /\ ~(m + i <= m) /\ (m + i) - m = i
      BY <1>1
    <2> QED
      BY <1>2, <2>1, <2>2
  <1>6. ToSet(a) = ToSet(s) \cup ToSet(t)
    <2>1. ASSUME NEW x \in ToSet(a) PROVE x \in ToSet(s) \cup ToSet(t)
      <3>1. PICK i \in 1..(m + n) : a[i] = x
        BY <1>3
      <3> QED
        BY <1>2, <1>3, <1>4, <3>1
    <2>2. ASSUME NEW x \in ToSet(s) PROVE x \in ToSet(a)
      BY <1>3, <1>5
    <2>3. ASSUME NEW x \in ToSet(t) PROVE x \in ToSet(a)
      <3>1. PICK i \in 1..n : t[i] = x
        BY <1>3
      <3>2. m + i \in 1..(m + n) /\ a[m + i] = x
        BY <1>5, <3>1
      <3> QED
        BY <1>3, <3>2
    <2> QED
      BY <2>1, <2>2, <2>3
  <1>7. ASSUME Distinct(s), Distinct(t), ToSet(s) \cap ToSet(t) = {} PROVE Distinct(a)
    <2> SUFFICES ASSUME NEW i \in 1..(m + n), NEW j \in 1..(m + n), a[i] = a[j]
                 PROVE  i = j
      BY <1>1 DEF Distinct
    <2>1. CASE i <= m /\ j <= m
      BY <1>1, <1>2, <1>4, <1>7, <2>1 DEF Distinct
    <2>2. CASE ~(i <= m) /\ ~(j <= m)
      <3>1. i - m = j - m
        BY <1>1, <1>2, <1>4, <1>7, <2>2 DEF Distinct
      <3> QED
        BY <1>1, <3>1
    <2>3. CASE (i <= m /\ ~(j <= m)) \/ (~(i <= m) /\ j <= m)
      <3>1. \E x : x \in ToSet(s) /\ x \in ToSet(t)
        BY <1>2, <1>3, <1>4, <2>3
      <3> QED
        BY <1>7, <3>1
    <2> QED
      BY <2>1, <2>2, <2>3
  <1> QED
    BY <1>1, <1>6, <1>7 DEF a

LEMMA DistinctTail ==
    ASSUME NEW S, NEW s \in Seq(S), s # <<>>, Distinct(s)
    PROVE  Distinct(Tail(s)) /\ Head(s) \notin ToSet(Tail(s)) /\ ToSet(Tail(s)) = ToSet(s) \ {Head(s)}
  <1>1. /\ Tail(s) \in Seq(S) /\ Len(s) \in Nat \ {0} /\ Len(Tail(s)) = Len(s) - 1 /\ Head(s) = s[1]
        /\ \A i \in 1..(Len(s) - 1) : Tail(s)[i] = s[i + 1]
    BY SeqHeadTail
  <1> DEFINE t == Tail(s)
             n == Len(s)
  <1>2. t \in Seq(S) /\ n \in Nat \ {0} /\ Len(t) = n - 1 /\ \A i \in 1..(n - 1) : t[i] = s[i + 1]
    BY <1>1
  <1>3. ToSet(s) = ToSet(t) \cup {Head(s)}
    BY SeqTypes
  <1>4. DOMAIN s = 1..n
    OBVIOUS
  <1> HIDE DEF t, n
  <1>5. DOMAIN t = 1..(n - 1) /\ \A x : x \in ToSet(t) <=> \E i \in 1..(n - 1) : t[i] = x
    BY <1>2, InToSet
  <1>6. \A i \in 1..(n - 1) : i + 1 \in 1..n /\ i + 1 # 1
    BY <1>2
  <1>7. Distinct(t)
    <2> SUFFICES ASSUME NEW i \in 1..(n - 1), NEW j \in 1..(n - 1), t[i] = t[j]
                 PROVE  i = j
      BY <1>5 DEF Distinct
    <2>1. i + 1 = j + 1
      BY <1>2, <1>4, <1>6 DEF Distinct
    <2> QED
      BY <1>2, <2>1
  <1>8. Head(s) \notin ToSet(t)
    <2>1. 1 \in 1..n
      BY <1>2
    <2>2. ASSUME NEW i \in 1..(n - 1), t[i] = Head(s) PROVE FALSE
      <3>1. s[i + 1] = s[1]
        BY <1>1, <1>2, <2>2
      <3> QED
        BY <1>4, <1>6, <2>1, <3>1 DEF Distinct
    <2> QED
      BY <1>5, <2>2
  <1> QED
    BY <1>3, <1>7, <1>8 DEF t

\* Every element of a prefix comes before its end.
LEMMA InOrderIs ==
    ASSUME NEW S, NEW s \in Seq(S), NEW deps
    PROVE  InOrder(s, deps) <=> \A i \in 1..Len(s) : \A d \in deps[s[i]] : \E j \in 1..(i - 1) : s[j] = d
  <1>1. Len(s) \in Nat /\ DOMAIN s = 1..Len(s)
    OBVIOUS
  <1>2. ASSUME NEW i \in 1..Len(s)
        PROVE  \A x : x \in ToSet(SubSeq(s, 1, i - 1)) <=> \E j \in 1..(i - 1) : s[j] = x
    <2>1. i - 1 \in 0..Len(s)
      BY <1>1
    <2>2. SubSeq(s, 1, i - 1) \in Seq(S) /\ Len(SubSeq(s, 1, i - 1)) = i - 1
      BY <1>1, <2>1
    <2>3. \A j \in 1..(i - 1) : SubSeq(s, 1, i - 1)[j] = s[j]
      BY <1>1, <2>1
    <2> DEFINE t == SubSeq(s, 1, i - 1)
    <2> HIDE DEF t
    <2>4. t \in Seq(S) /\ Len(t) = i - 1 /\ \A j \in 1..(i - 1) : t[j] = s[j]
      BY <2>2, <2>3 DEF t
    <2>5. \A x : x \in ToSet(t) <=> \E j \in 1..(i - 1) : t[j] = x
      BY <2>4, InToSet
    <2> QED
      BY <2>4, <2>5 DEF t
  <1> QED
    BY <1>1, <1>2 DEF InOrder

\* One round of BuildStartOrder.
LEMMA KahnRound ==
    ASSUME NEW order \in Seq(Services), NEW todo \in Seq(Services), NEW deps \in Deps, todo # <<>>,
           NEW next \in Seq(Services), Distinct(next),
           ToSet(next) = {s \in Services : /\ Head(todo) \in deps[s]
                                           /\ deps[s] \subseteq ToSet(order) \cup {Head(todo)}},
           Distinct(order), Distinct(todo), ToSet(order) \cap ToSet(todo) = {},
           ToSet(order) \cup ToSet(todo) = {s \in Services : deps[s] \subseteq ToSet(order)},
           InOrder(order, deps)
    PROVE  LET o == Append(order, Head(todo))
               t == Tail(todo) \o next
           IN  /\ Distinct(o) /\ Distinct(t) /\ ToSet(o) \cap ToSet(t) = {}
               /\ ToSet(o) \cup ToSet(t) = {s \in Services : deps[s] \subseteq ToSet(o)}
               /\ InOrder(o, deps)
  <1> DEFINE n == Head(todo)
             o == Append(order, n)
             t == Tail(todo) \o next
  <1>1. n \in Services /\ Tail(todo) \in Seq(Services) /\ n \in ToSet(todo)
    BY SeqHeadTail, SeqTypes
  <1>2. Distinct(Tail(todo)) /\ ToSet(Tail(todo)) = ToSet(todo) \ {n}
    BY DistinctTail
  <1> HIDE DEF n
  <1>3. n \notin ToSet(order) /\ deps[n] \subseteq ToSet(order)
    BY <1>1
  <1>4. /\ o \in Seq(Services) /\ ToSet(o) = ToSet(order) \cup {n} /\ Distinct(o) /\ Len(o) = Len(order) + 1
        /\ o[Len(order) + 1] = n /\ \A i \in 1..Len(order) : o[i] = order[i]
    BY <1>1, <1>3, ToSetAppend
  <1>5. \A s \in Services : s \in ToSet(next) <=> n \in deps[s] /\ deps[s] \subseteq ToSet(o)
    BY <1>4 DEF n
  <1>6. ToSet(next) \subseteq Services /\ ToSet(todo) \subseteq Services /\ ToSet(order) \subseteq Services
    BY InToSet
  <1>7. \A s \in Services : s \in ToSet(order) \/ s \in ToSet(todo) <=> deps[s] \subseteq ToSet(order)
    OBVIOUS
  <1>8. ToSet(next) \cap (ToSet(order) \cup ToSet(todo)) = {}
    BY <1>3, <1>5, <1>6, <1>7
  <1>9. ToSet(Tail(todo)) \cap ToSet(next) = {}
    BY <1>2, <1>8
  <1>10. ToSet(t) = ToSet(Tail(todo)) \cup ToSet(next) /\ Distinct(t)
    <2> DEFINE u == Tail(todo)
    <2>1. u \in Seq(Services) /\ Distinct(u) /\ ToSet(u) \cap ToSet(next) = {}
      BY <1>1, <1>2, <1>9
    <2> HIDE DEF u
    <2>2. ToSet(u \o next) = ToSet(u) \cup ToSet(next)
      BY <2>1, ToSetConcat
    <2>3. Distinct(u \o next)
      BY <2>1, ToSetConcat
    <2> QED
      BY <2>2, <2>3, Zenon DEF u
  <1> HIDE DEF o, t
  <1>11. ToSet(o) \cap ToSet(t) = {}
    BY <1>1, <1>2, <1>4, <1>8, <1>10
  <1>12. ToSet(o) \cup ToSet(t) = {s \in Services : deps[s] \subseteq ToSet(o)}
    <2>1. ASSUME NEW s \in Services, deps[s] \subseteq ToSet(o) PROVE s \in ToSet(o) \cup ToSet(t)
      <3>1. CASE n \in deps[s]
        BY <1>5, <1>10, <2>1, <3>1
      <3>2. CASE n \notin deps[s]
        BY <1>2, <1>4, <1>7, <1>10, <2>1, <3>2
      <3> QED
        BY <3>1, <3>2
    <2>2. ASSUME NEW s \in ToSet(o) \cup ToSet(t) PROVE s \in Services /\ deps[s] \subseteq ToSet(o)
      <3>1. s \in ToSet(order) \/ s \in ToSet(todo) \/ s \in ToSet(next)
        BY <1>1, <1>2, <1>4, <1>10, <2>2
      <3> QED
        BY <1>4, <1>5, <1>6, <1>7, <3>1
    <2> QED
      BY <2>1, <2>2
  <1>13. InOrder(o, deps)
    <2>1. Len(order) \in Nat
      OBVIOUS
    <2>2. \A i \in 1..Len(order) : \A d \in deps[order[i]] : \E j \in 1..(i - 1) : order[j] = d
      BY InOrderIs
    <2>3. ASSUME NEW i \in 1..Len(o), NEW d \in deps[o[i]] PROVE \E j \in 1..(i - 1) : o[j] = d
      <3>1. CASE i \in 1..Len(order)
        <4>1. PICK j \in 1..(i - 1) : order[j] = d
          BY <1>4, <2>2, <2>3, <3>1
        <4>2. j \in 1..Len(order)
          BY <2>1, <3>1
        <4> QED
          BY <1>4, <4>1, <4>2
      <3>2. CASE i = Len(order) + 1
        <4>1. d \in ToSet(order)
          BY <1>3, <1>4, <2>3, <3>2
        <4>2. PICK j \in 1..Len(order) : order[j] = d
          BY <4>1, InToSet
        <4>3. j \in 1..(i - 1) /\ o[j] = d
          BY <1>4, <2>1, <3>2, <4>2
        <4> QED
          BY <4>3
      <3> QED
        BY <1>4, <2>1, <3>1, <3>2
    <2> QED
      BY <1>4, <2>3, InOrderIs
  <1> QED
    BY <1>4, <1>10, <1>11, <1>12, <1>13 DEF o, t, n

\* The end of BuildStartOrder: an order of all services, or a cycle.
LEMMA KahnEnd ==
    ASSUME NEW order \in Seq(Services), NEW deps \in Deps, Distinct(order), InOrder(order, deps),
           ToSet(order) = {s \in Services : deps[s] \subseteq ToSet(order)},
           \A s \in Services : Unknown \notin deps[s]
    PROVE  IF Len(order) = Cardinality(Services) THEN Sorted(order, deps) ELSE Cyclic(deps)
  <1>0. IsFiniteSet(Services) /\ Services # {}
    BY BottleAssumption
  <1>1. Len(order) = Cardinality(Services) <=> ToSet(order) = Services
    BY <1>0, DistinctLen
  <1>2. ASSUME ToSet(order) = Services PROVE Sorted(order, deps)
    <2>1. order # <<>>
      BY <1>0, <1>2, SeqTypes
    <2> QED
      BY <1>1, <1>2, <2>1 DEF Sorted, Topological, InOrder
  <1>3. ASSUME ToSet(order) # Services PROVE Cyclic(deps)
    <2> DEFINE S == Services \ ToSet(order)
    <2>1. S # {}
      BY <1>3
    <2>2. ASSUME NEW s \in S PROVE deps[s] \cap S # {}
      <3>1. PICK d \in deps[s] : d \notin ToSet(order)
        OBVIOUS
      <3>2. d \in Services
        BY DEF Deps
      <3> QED
        BY <3>1, <3>2
    <2>3. S \in SUBSET Services
      OBVIOUS
    <2> HIDE DEF S
    <2> QED
      BY <2>1, <2>2, <2>3 DEF Cyclic
  <1> QED
    BY <1>1, <1>2, <1>3

LEMMA SuffixTail ==
    ASSUME NEW order \in Seq(Services), NEW todo \in Seq(Services), todo # <<>>, Suffix(todo, order)
    PROVE  Suffix(Tail(todo), order)
  <1>1. /\ Tail(todo) \in Seq(Services) /\ Len(todo) \in Nat \ {0} /\ Len(Tail(todo)) = Len(todo) - 1
        /\ \A i \in 1..(Len(todo) - 1) : Tail(todo)[i] = todo[i + 1]
    BY SeqHeadTail
  <1> DEFINE t == Tail(todo)
             m == Len(todo)
             n == Len(order)
  <1>2. t \in Seq(Services) /\ m \in Nat \ {0} /\ Len(t) = m - 1 /\ \A i \in 1..(m - 1) : t[i] = todo[i + 1]
    BY <1>1
  <1>3. n \in Nat /\ DOMAIN todo = 1..m
    OBVIOUS
  <1>4. m <= n /\ \A i \in 1..m : todo[i] = order[i + (n - m)]
    BY <1>3 DEF Suffix
  <1> HIDE DEF t, m
  <1>5. DOMAIN t = 1..(m - 1)
    BY <1>2, InToSet
  <1>6. ASSUME NEW i \in 1..(m - 1) PROVE t[i] = order[i + (n - (m - 1))]
    <2>1. i + 1 \in 1..m /\ (i + 1) + (n - m) = i + (n - (m - 1))
      BY <1>2, <1>3
    <2> QED
      BY <1>2, <1>4, <2>1
  <1>7. m - 1 <= n
    BY <1>2, <1>3, <1>4
  <1> QED
    BY <1>2, <1>5, <1>6, <1>7 DEF Suffix, t

LEMMA SuffixFacts ==
    ASSUME NEW order \in Seq(Services), NEW todo \in Seq(Services), Suffix(todo, order), Distinct(order)
    PROVE  /\ Distinct(todo)
           /\ todo # <<>> => Last(todo) = Last(order) /\ Last(todo) \in ToSet(todo)
  <1> DEFINE m == Len(todo)
             n == Len(order)
  <1>1. m \in Nat /\ n \in Nat /\ DOMAIN todo = 1..m /\ DOMAIN order = 1..n
    OBVIOUS
  <1>2. m <= n /\ \A i \in 1..m : todo[i] = order[i + (n - m)]
    BY <1>1 DEF Suffix
  <1>3. todo # <<>> => m # 0
    OBVIOUS
  <1>4. Last(todo) = todo[m] /\ Last(order) = order[n]
    BY DEF Last
  <1>5. \A i \in 1..m : todo[i] \in ToSet(todo)
    BY InToSet
  <1> HIDE DEF m, n
  <1>6. \A i \in 1..m : i + (n - m) \in 1..n
    BY <1>1, <1>2
  <1>7. Distinct(todo)
    <2> SUFFICES ASSUME NEW i \in 1..m, NEW j \in 1..m, todo[i] = todo[j]
                 PROVE  i = j
      BY <1>1 DEF Distinct
    <2>1. i + (n - m) = j + (n - m)
      BY <1>1, <1>2, <1>6 DEF Distinct
    <2> QED
      BY <1>1, <2>1
  <1>8. m # 0 => m \in 1..m /\ m + (n - m) = n
    BY <1>1
  <1> QED
    BY <1>2, <1>3, <1>4, <1>5, <1>7, <1>8

-----------------------------------------------------------------------------
\* Steps of a request, field by field.
Only(r) == proc' \in [Procs -> Handler] /\ \A q \in Procs : q # r => proc'[q] = proc[q]

Same(p, q) == p.kind = q.kind /\ p.deps = q.deps

Ends(r) == Only(r) /\ proc'[r] = Idle

Goes(r, step, todo) ==
    /\ Only(r) /\ Same(proc'[r], proc[r]) /\ proc'[r].info = proc[r].info
    /\ proc'[r].made = proc[r].made /\ proc'[r].order = proc[r].order
    /\ proc'[r].step = step /\ proc'[r].todo = todo

Makes(r, step, made) ==
    /\ Only(r) /\ Same(proc'[r], proc[r]) /\ proc'[r].info = proc[r].info
    /\ proc'[r].todo = proc[r].todo /\ proc'[r].order = proc[r].order
    /\ proc'[r].step = step /\ proc'[r].made = made

Enters(r, kind, step, todo) ==
    /\ Only(r) /\ proc[r].step = "idle"
    /\ proc'[r].kind = kind /\ proc'[r].step = step /\ proc'[r].todo = todo
    /\ proc'[r].made = <<>> /\ proc'[r].order = <<>>

Todos == Seq(Services) \cup Seq(ToSet(Policies))

LEMMA IdleHandler == Idle \in Handler /\ KindOK(Idle) /\ Idle.kind = "none" /\ Idle.step = "idle" /\ Idle.todo = <<>>
  BY DEF Idle, Handler, Deps, KindOK, Steps

LEMMA Becomes ==
    ASSUME TypeOK, NEW r \in Procs, NEW q \in Handler, proc' = [proc EXCEPT ![r] = q]
    PROVE  Only(r) /\ proc'[r] = q
  BY DEF TypeOK, Only

LEMMA EndEffect ==
    ASSUME TypeOK, NEW r \in Procs, End(r)
    PROVE  Ends(r)
  BY IdleHandler, Becomes DEF End, Ends

LEMMA TodoEffect ==
    ASSUME TypeOK, NEW r \in Procs, NEW step \in Steps, NEW todo \in Todos,
           proc' = [proc EXCEPT ![r] = [proc[r] EXCEPT !.step = step, !.todo = todo]]
    PROVE  Goes(r, step, todo)
  <1> DEFINE q == [proc[r] EXCEPT !.step = step, !.todo = todo]
  <1>1. proc[r] \in Handler
    BY DEF TypeOK
  <1>2. q \in Handler
    BY <1>1 DEF Handler, Todos
  <1>3. /\ Same(q, proc[r]) /\ q.info = proc[r].info /\ q.made = proc[r].made /\ q.order = proc[r].order
        /\ q.step = step /\ q.todo = todo
    BY <1>1 DEF Handler, Same
  <1> HIDE DEF q
  <1>4. proc' = [proc EXCEPT ![r] = q]
    BY DEF q
  <1> QED
    BY <1>2, <1>3, <1>4, Becomes DEF Goes

LEMMA GotoEffect ==
    ASSUME TypeOK, NEW r \in Procs, NEW step \in Steps, Goto(r, step)
    PROVE  Goes(r, step, proc[r].todo)
  <1> DEFINE q == [proc[r] EXCEPT !.step = step]
  <1>1. proc[r] \in Handler
    BY DEF TypeOK
  <1>2. q \in Handler
    BY <1>1 DEF Handler
  <1>3. /\ Same(q, proc[r]) /\ q.info = proc[r].info /\ q.made = proc[r].made /\ q.order = proc[r].order
        /\ q.step = step /\ q.todo = proc[r].todo
    BY <1>1 DEF Handler, Same
  <1>4. proc' = [proc EXCEPT ![r] = q]
    BY DEF Goto
  <1> HIDE DEF q
  <1> QED
    BY <1>2, <1>3, <1>4, Becomes DEF Goes

LEMMA MadeEffect ==
    ASSUME TypeOK, NEW r \in Procs, NEW step \in Steps, NEW made \in Seq(Services),
           proc' = [proc EXCEPT ![r] = [proc[r] EXCEPT !.step = step, !.made = made]]
    PROVE  Makes(r, step, made)
  <1> DEFINE q == [proc[r] EXCEPT !.step = step, !.made = made]
  <1>1. proc[r] \in Handler
    BY DEF TypeOK
  <1>2. q \in Handler
    BY <1>1 DEF Handler
  <1>3. /\ Same(q, proc[r]) /\ q.info = proc[r].info /\ q.todo = proc[r].todo /\ q.order = proc[r].order
        /\ q.step = step /\ q.made = made
    BY <1>1 DEF Handler, Same
  <1> HIDE DEF q
  <1>4. proc' = [proc EXCEPT ![r] = q]
    BY DEF q
  <1> QED
    BY <1>2, <1>3, <1>4, Becomes DEF Makes

LEMMA BeginEffect ==
    ASSUME TypeOK, NEW r \in Procs, NEW kind \in {"start", "stop", "delete"}, NEW step \in Steps,
           NEW info \in Bottles, NEW todo \in Seq(Services), Begin(r, kind, step, info, todo)
    PROVE  Enters(r, kind, step, todo) /\ proc'[r].info = info
  <1> DEFINE q == [Idle EXCEPT !.kind = kind, !.step = step, !.info = info, !.todo = todo]
  <1>1. q \in Handler
    BY IdleHandler DEF Handler
  <1>2. q.kind = kind /\ q.step = step /\ q.info = info /\ q.todo = todo /\ q.made = <<>> /\ q.order = <<>>
    BY DEF Idle
  <1>3. proc' = [proc EXCEPT ![r] = q]
    BY DEF Begin
  <1> HIDE DEF q
  <1> QED
    BY <1>1, <1>2, <1>3, Becomes DEF Enters, Begin, At

-----------------------------------------------------------------------------
\* The effect of every action on its request.
EndSteps(r) ==
    \/ Refuse(r) \/ CommitPoliciesFails(r) \/ Registered(r) \/ rollbackPolicies(r) \/ rollbackPoliciesFails(r)
    \/ AllDone(r) \/ ContainerFails(r) \/ CommitRemovalFails(r) \/ RemoveBottle(r)

LEMMA EndStepsEffect ==
    ASSUME TypeOK, NEW r \in Procs, EndSteps(r)
    PROVE  Ends(r)
  BY EndEffect DEF EndSteps, Refuse, CommitPoliciesFails, Registered, FlagPolicy, rollbackPolicies, rollbackPoliciesFails,
       AllDone, ContainerFails, CommitRemoval, CommitRemovalFails, RemoveBottle

LEMMA RegisterEffects ==
    ASSUME TypeOK, NEW r \in Procs
    PROVE  /\ AddUserPolicy(r) => Goes(r, "policies", Tail(proc[r].todo))
           /\ AddUserPolicyFails(r) \/ StoreBottleFails(r) \/ RemoveFailedBottle(r)
                 => Goes(r, "undo policies", Policies)
           /\ OrderBuilt(r) => Goes(r, "policies", Policies) \/ Goes(r, "invalid", proc[r].todo)
           /\ CommitPolicies(r) => Goes(r, "store", proc[r].todo)
           /\ FlagPolicy(r) => Goes(r, "undo policies", Tail(proc[r].todo))
  <1>0. proc \in [Procs -> Handler] /\ Policies \in Todos /\ proc[r] \in Handler
    BY BottleAssumption DEF TypeOK, Todos
  <1>1. ASSUME AddUserPolicy(r) PROVE Goes(r, "policies", Tail(proc[r].todo))
    <2>1. Tail(proc[r].todo) \in Todos
      BY <1>0, <1>1, SeqHeadTail DEF AddUserPolicy, TypeOK, At, PolicySteps, Todos
    <2>2. proc' = [proc EXCEPT ![r] = [proc[r] EXCEPT !.step = "policies", !.todo = Tail(proc[r].todo)]]
      BY <1>0, <1>1 DEF AddUserPolicy, At, Handler
    <2> QED
      BY <2>1, <2>2, TodoEffect DEF Steps, PolicySteps
  <1>2. ASSUME AddUserPolicyFails(r) \/ StoreBottleFails(r) \/ RemoveFailedBottle(r)
        PROVE  Goes(r, "undo policies", Policies)
    <2>1. proc' = [proc EXCEPT ![r] = [proc[r] EXCEPT !.step = "undo policies", !.todo = Policies]]
      BY <1>2 DEF AddUserPolicyFails, StoreBottleFails, RemoveFailedBottle
    <2> QED
      BY <1>0, <2>1, TodoEffect DEF Steps, PolicySteps
  <1>3. ASSUME OrderBuilt(r) PROVE Goes(r, "policies", Policies) \/ Goes(r, "invalid", proc[r].todo)
    <2>1. CASE proc' = [proc EXCEPT ![r] = [proc[r] EXCEPT !.step = "policies", !.todo = Policies]]
      BY <1>0, <2>1, TodoEffect DEF Steps, PolicySteps
    <2>2. CASE Goto(r, "invalid")
      BY <2>2, GotoEffect DEF Steps
    <2> QED
      BY <1>3, <2>1, <2>2 DEF OrderBuilt
  <1>4. ASSUME CommitPolicies(r) PROVE Goes(r, "store", proc[r].todo)
    BY <1>4, GotoEffect DEF CommitPolicies, Steps
  <1>5. ASSUME FlagPolicy(r) PROVE Goes(r, "undo policies", Tail(proc[r].todo))
    <2>1. Tail(proc[r].todo) \in Todos
      BY <1>0, <1>5, SeqHeadTail DEF FlagPolicy, TypeOK, At, PolicySteps, Todos
    <2>2. proc' = [proc EXCEPT ![r] = [proc[r] EXCEPT !.step = "undo policies", !.todo = Tail(proc[r].todo)]]
      BY <1>0, <1>5 DEF FlagPolicy, At, Handler
    <2> QED
      BY <2>1, <2>2, TodoEffect DEF Steps, PolicySteps
  <1> QED
    BY <1>1, <1>2, <1>3, <1>4, <1>5

LEMMA StoreBottleEffect ==
    ASSUME TypeOK, NEW r \in Procs, StoreBottle(r)
    PROVE  /\ Only(r) /\ Same(proc'[r], proc[r]) /\ proc'[r].step = "network"
           /\ proc'[r].info = bsm' /\ proc'[r].todo = proc[r].order /\ proc'[r].made = proc[r].made
           /\ bsm' \in Bottles /\ bsm'.order = proc[r].order /\ bsm'.deps = proc[r].deps
           /\ bsm'.containers = {} /\ bsm'.network = FALSE
  <1> DEFINE b == [order |-> proc[r].order, deps |-> proc[r].deps, containers |-> {}, network |-> FALSE]
             q == [proc[r] EXCEPT !.info = b, !.todo = proc[r].order, !.order = <<>>, !.step = "network"]
  <1>1. proc[r] \in Handler
    BY DEF TypeOK
  <1>2. b \in Bottles /\ b.order = proc[r].order /\ b.deps = proc[r].deps /\ b.containers = {} /\ b.network = FALSE
    BY <1>1 DEF Handler, Bottles
  <1>3. bsm' = b
    BY DEF StoreBottle
  <1>4. proc' = [proc EXCEPT ![r] = q]
    BY <1>3 DEF StoreBottle
  <1> HIDE DEF b
  <1>a. proc[r].order \in Seq(Services)
    BY <1>1 DEF Handler
  <1>b. <<>> \in Seq(Services)
    OBVIOUS
  <1>c. "network" \in Steps
    BY DEF Steps
  <1>5. q \in Handler
    BY <1>1, <1>2, <1>a, <1>b, <1>c DEF Handler
  <1>6. /\ Same(q, proc[r]) /\ q.step = "network" /\ q.info = b /\ q.todo = proc[r].order /\ q.made = proc[r].made
    BY <1>1 DEF Handler, Same
  <1> HIDE DEF q
  <1> QED
    BY <1>2, <1>3, <1>4, <1>5, <1>6, Becomes

LEMMA UpdateBottleNetworkEffect ==
    ASSUME TypeOK, NEW r \in Procs, proc[r].info \in Bottles, UpdateBottleNetwork(r)
    PROVE  /\ Only(r) /\ Same(proc'[r], proc[r]) /\ proc'[r].step = "containers"
           /\ proc'[r].todo = proc[r].todo /\ proc'[r].made = proc[r].made
           /\ proc'[r].info \in Bottles /\ proc'[r].info.order = proc[r].info.order
           /\ proc'[r].info.deps = proc[r].info.deps /\ proc'[r].info.network = TRUE
           /\ bsm \in Bottles /\ bsm' \in Bottles /\ bsm'.order = bsm.order /\ bsm'.deps = bsm.deps
           /\ bsm'.containers = bsm.containers /\ bsm'.network = TRUE
  <1> DEFINE b == [bsm EXCEPT !.network = TRUE]
             i == [proc[r].info EXCEPT !.network = TRUE]
             q == [proc[r] EXCEPT !.step = "containers", !.info = i]
  <1>1. proc[r] \in Handler /\ bsm \in Bottles
    BY DEF TypeOK, UpdateBottleNetwork
  <1>2. /\ b \in Bottles /\ b.order = bsm.order /\ b.deps = bsm.deps /\ b.containers = bsm.containers
        /\ b.network = TRUE
    BY <1>1 DEF Bottles
  <1>3. i \in Bottles /\ i.order = proc[r].info.order /\ i.deps = proc[r].info.deps /\ i.network = TRUE
    BY DEF Bottles
  <1>4. proc' = [proc EXCEPT ![r] = q]
    BY DEF UpdateBottleNetwork
  <1>5. bsm' = b
    BY DEF UpdateBottleNetwork
  <1> HIDE DEF b, i
  <1>6. q \in Handler
    BY <1>1, <1>3 DEF Handler, Steps
  <1>7. Same(q, proc[r]) /\ q.step = "containers" /\ q.info = i /\ q.todo = proc[r].todo /\ q.made = proc[r].made
    BY <1>1 DEF Handler, Same
  <1> HIDE DEF q
  <1> QED
    BY <1>1, <1>2, <1>3, <1>4, <1>5, <1>6, <1>7, Becomes

LEMMA CreateEffects ==
    ASSUME TypeOK, NEW r \in Procs
    PROVE  /\ OwnNetworks(r) => Goes(r, "containers", proc[r].todo)
           /\ StoreBridge(r) => Goes(r, "interface", proc[r].todo)
           /\ CreateBridgeInterface(r) => Goes(r, "refresh", proc[r].todo)
           /\ RefreshPolicy(r) => Goes(r, "record network", proc[r].todo)
           /\ CreateBridgeInterfaceFails(r) \/ CreateNewNetworkFails(r) \/ RefreshPolicyFails(r)
                 => Goes(r, "undo network", proc[r].todo)
           /\ CommitNetworkUndone(r) \/ ClearBottleNetwork(r) => Goes(r, "undo bottle", proc[r].todo)
           /\ UpdateBottleNetworkFails(r) => Goes(r, "net check", proc[r].todo)
           /\ CreateContainerFails(r) \/ UpdateBottleContainerFails(r) => Goes(r, "undo containers", proc[r].todo)
           /\ CreateContainer(r) => Makes(r, "record", Append(proc[r].made, Head(proc[r].todo)))
           /\ UpdateBottleContainer(r) /\ proc[r].todo # <<>> => Goes(r, "containers", Tail(proc[r].todo))
           /\ UndoContainer(r) => Makes(r, "undo containers", Front(proc[r].made))
           /\ UpdateBottleContainers(r)
                 => Goes(r, IF proc[r].info.network THEN "net check" ELSE "undo bottle", proc[r].todo)
  <1>0. proc \in [Procs -> Handler] /\ proc[r] \in Handler
    BY DEF TypeOK
  <1>1. /\ OwnNetworks(r) => Goes(r, "containers", proc[r].todo)
        /\ StoreBridge(r) => Goes(r, "interface", proc[r].todo)
        /\ CreateBridgeInterface(r) => Goes(r, "refresh", proc[r].todo)
        /\ RefreshPolicy(r) => Goes(r, "record network", proc[r].todo)
    BY GotoEffect DEF OwnNetworks, StoreBridge, CreateBridgeInterface, RefreshPolicy, RefreshPolicyFails, CommitNetworkUndone, Steps
  <1>2. /\ CreateBridgeInterfaceFails(r) \/ CreateNewNetworkFails(r) \/ RefreshPolicyFails(r)
              => Goes(r, "undo network", proc[r].todo)
        /\ CommitNetworkUndone(r) \/ ClearBottleNetwork(r) => Goes(r, "undo bottle", proc[r].todo)
        /\ UpdateBottleNetworkFails(r) => Goes(r, "net check", proc[r].todo)
        /\ CreateContainerFails(r) \/ UpdateBottleContainerFails(r) => Goes(r, "undo containers", proc[r].todo)
    BY GotoEffect DEF CreateBridgeInterfaceFails, CreateNewNetworkFails, RefreshPolicyFails, CommitNetworkUndone,
         ClearBottleNetwork,
         UpdateBottleNetworkFails, CreateContainerFails, UpdateBottleContainerFails, Steps
  <1>3. UpdateBottleContainers(r)
           => Goes(r, IF proc[r].info.network THEN "net check" ELSE "undo bottle", proc[r].todo)
    <2> DEFINE step == IF proc[r].info.network THEN "net check" ELSE "undo bottle"
    <2>1. step \in Steps
      BY DEF Steps
    <2>2. UpdateBottleContainers(r) => Goto(r, step)
      BY DEF UpdateBottleContainers
    <2> HIDE DEF step
    <2>3. UpdateBottleContainers(r) => Goes(r, step, proc[r].todo)
      BY <2>1, <2>2, GotoEffect
    <2> QED
      BY <2>3 DEF step
  <1>4. ASSUME CreateContainer(r) PROVE Makes(r, "record", Append(proc[r].made, Head(proc[r].todo)))
    <2>1. Head(proc[r].todo) \in Services
      BY <1>0, <1>4, SeqHeadTail DEF CreateContainer, TypeOK, At, PolicySteps
    <2>2. Append(proc[r].made, Head(proc[r].todo)) \in Seq(Services)
      BY <1>0, <2>1 DEF Handler
    <2>3. proc' = [proc EXCEPT ![r] = [proc[r] EXCEPT !.step = "record",
                                                      !.made = Append(proc[r].made, Head(proc[r].todo))]]
      BY <1>4 DEF CreateContainer
    <2> QED
      BY <2>2, <2>3, MadeEffect DEF Steps
  <1>5. ASSUME UpdateBottleContainer(r), proc[r].todo # <<>> PROVE Goes(r, "containers", Tail(proc[r].todo))
    <2>1. Tail(proc[r].todo) \in Todos
      BY <1>0, <1>5, SeqHeadTail DEF UpdateBottleContainer, TypeOK, At, PolicySteps, Todos
    <2>2. proc' = [proc EXCEPT ![r] = [proc[r] EXCEPT !.step = "containers", !.todo = Tail(proc[r].todo)]]
      BY <1>5 DEF UpdateBottleContainer
    <2> QED
      BY <2>1, <2>2, TodoEffect DEF Steps
  <1>6. ASSUME UndoContainer(r) PROVE Makes(r, "undo containers", Front(proc[r].made))
    <2>1. Front(proc[r].made) \in Seq(Services)
      BY <1>0, <1>6, SeqFrontLast DEF UndoContainer, Handler
    <2>2. proc' = [proc EXCEPT ![r] = [proc[r] EXCEPT !.step = "undo containers", !.made = Front(proc[r].made)]]
      BY <1>0, <1>6 DEF UndoContainer, At, Handler
    <2> QED
      BY <2>1, <2>2, MadeEffect DEF Steps
  <1> QED
    BY <1>1, <1>2, <1>3, <1>4, <1>5, <1>6

LEMMA ActionEffects ==
    ASSUME TypeOK, NEW r \in Procs
    PROVE  /\ StartContainer(r) => Goes(r, "starting", Tail(proc[r].todo)) \/ Ends(r)
           /\ StopContainer(r) => Goes(r, "stopping", Tail(proc[r].todo)) \/ Ends(r)
           /\ StopToDelete(r) => Goes(r, "delete one", proc[r].todo) \/ Ends(r)
           /\ DeleteContainer(r) /\ proc[r].todo # <<>> => Goes(r, "stop one", Tail(proc[r].todo)) \/ Ends(r)
           /\ ContainersDeleted(r) => Goes(r, "remove policies", Policies)
           /\ RemoveUserPolicy(r) => Goes(r, "drop policy", proc[r].todo) \/ Ends(r)
           /\ CommitRemoval(r) /\ proc[r].todo # <<>> => Goes(r, "remove policies", Tail(proc[r].todo))
  <1>0. proc \in [Procs -> Handler] /\ proc[r] \in Handler /\ Policies \in Todos
    BY BottleAssumption DEF TypeOK, Todos
  <1>t. proc[r].todo # <<>> => Tail(proc[r].todo) \in Todos
    BY <1>0, SeqHeadTail DEF Handler, Todos
  <1>1. ASSUME StartContainer(r) PROVE Goes(r, "starting", Tail(proc[r].todo)) \/ Ends(r)
    <2>1. \/ proc' = [proc EXCEPT ![r] = [proc[r] EXCEPT !.step = "starting", !.todo = Tail(proc[r].todo)]]
          \/ End(r)
      BY <1>0, <1>1 DEF StartContainer, At, Handler
    <2> QED
      BY <1>t, <1>1, <2>1, TodoEffect, EndEffect DEF Steps, StartContainer
  <1>2. ASSUME StopContainer(r) PROVE Goes(r, "stopping", Tail(proc[r].todo)) \/ Ends(r)
    <2>1. \/ proc' = [proc EXCEPT ![r] = [proc[r] EXCEPT !.step = "stopping", !.todo = Tail(proc[r].todo)]]
          \/ End(r)
      BY <1>0, <1>2 DEF StopContainer, At, Handler
    <2> QED
      BY <1>t, <1>2, <2>1, TodoEffect, EndEffect DEF Steps, StopContainer
  <1>3. ASSUME StopToDelete(r) PROVE Goes(r, "delete one", proc[r].todo) \/ Ends(r)
    BY <1>3, GotoEffect, EndEffect DEF StopToDelete, Steps
  <1>4. ASSUME DeleteContainer(r), proc[r].todo # <<>> PROVE Goes(r, "stop one", Tail(proc[r].todo)) \/ Ends(r)
    <2>1. \/ proc' = [proc EXCEPT ![r] = [proc[r] EXCEPT !.step = "stop one", !.todo = Tail(proc[r].todo)]]
          \/ End(r)
      BY <1>4 DEF DeleteContainer
    <2> QED
      BY <1>t, <1>4, <2>1, TodoEffect, EndEffect DEF Steps
  <1>5. ASSUME ContainersDeleted(r) PROVE Goes(r, "remove policies", Policies)
    <2>1. proc' = [proc EXCEPT ![r] = [proc[r] EXCEPT !.step = "remove policies", !.todo = Policies]]
      BY <1>5 DEF ContainersDeleted
    <2> QED
      BY <1>0, <2>1, TodoEffect DEF Steps, PolicySteps
  <1>6. ASSUME RemoveUserPolicy(r) PROVE Goes(r, "drop policy", proc[r].todo) \/ Ends(r)
    BY <1>6, GotoEffect, EndEffect DEF RemoveUserPolicy, Steps, PolicySteps
  <1>7. ASSUME CommitRemoval(r), proc[r].todo # <<>> PROVE Goes(r, "remove policies", Tail(proc[r].todo))
    <2>1. proc' = [proc EXCEPT ![r] = [proc[r] EXCEPT !.step = "remove policies", !.todo = Tail(proc[r].todo)]]
      BY <1>7 DEF CommitRemoval
    <2> QED
      BY <1>t, <1>7, <2>1, TodoEffect DEF Steps, PolicySteps
  <1> QED
    BY <1>1, <1>2, <1>3, <1>4, <1>5, <1>6, <1>7

Stays(r) ==
    /\ halted' = TRUE
    /\ \/ Ends(r) /\ proc[r].kind = "delete"
       \/ Goes(r, "clear network", proc[r].todo) /\ proc[r].kind # "delete"

LEMMA NetworkEffects ==
    ASSUME TypeOK, NEW r \in Procs
    PROVE  /\ PoliciesRemoved(r)
                 => Goes(r, IF proc[r].info.network THEN "net check" ELSE "remove bottle", proc[r].todo)
           /\ CheckNetworkEmpty(r) =>
                 \/ NumContainers = 0 /\ Goes(r, "net interface", proc[r].todo) /\ halted' = halted
                 \/ Stays(r)
           /\ RemoveBridgeInterface(r) => Goes(r, "net pool", proc[r].todo)
           /\ RemoveBridge(r) => Goes(r, "net refresh", proc[r].todo)
           /\ RefreshAfterRemove(r)
                 => Goes(r, IF proc[r].kind = "delete" THEN "remove bottle" ELSE "clear network", proc[r].todo)
           /\ RemoveNetworkFails(r) \/ RefreshAfterRemoveFails(r) => Stays(r)
  <1>1. ASSUME PoliciesRemoved(r)
        PROVE  Goes(r, IF proc[r].info.network THEN "net check" ELSE "remove bottle", proc[r].todo)
    <2> DEFINE step == IF proc[r].info.network THEN "net check" ELSE "remove bottle"
    <2>1. step \in Steps /\ Goto(r, step)
      BY <1>1 DEF Steps, PoliciesRemoved
    <2> HIDE DEF step
    <2>2. Goes(r, step, proc[r].todo)
      BY <2>1, GotoEffect
    <2> QED
      BY <2>2 DEF step
  <1>2. ASSUME RefreshAfterRemove(r)
        PROVE  Goes(r, IF proc[r].kind = "delete" THEN "remove bottle" ELSE "clear network", proc[r].todo)
    <2> DEFINE step == IF proc[r].kind = "delete" THEN "remove bottle" ELSE "clear network"
    <2>1. step \in Steps /\ Goto(r, step)
      BY <1>2 DEF Steps, RefreshAfterRemove
    <2> HIDE DEF step
    <2>2. Goes(r, step, proc[r].todo)
      BY <2>1, GotoEffect
    <2> QED
      BY <2>2 DEF step
  <1>3. NetworkStays(r) => Stays(r)
    <2>1. "clear network" \in Steps
      BY DEF Steps
    <2>2. CASE proc[r].kind = "delete"
      BY <2>2, EndEffect DEF NetworkStays, Stays
    <2>3. CASE proc[r].kind # "delete"
      BY <2>1, <2>3, GotoEffect DEF NetworkStays, Stays
    <2> QED
      BY <2>2, <2>3
  <1>4. CheckNetworkEmpty(r) =>
                 \/ NumContainers = 0 /\ Goes(r, "net interface", proc[r].todo) /\ halted' = halted
                 \/ Stays(r)
    BY <1>3, GotoEffect DEF CheckNetworkEmpty, Steps
  <1>5. /\ RemoveBridgeInterface(r) => Goes(r, "net pool", proc[r].todo)
        /\ RemoveBridge(r) => Goes(r, "net refresh", proc[r].todo)
    BY GotoEffect DEF RemoveBridgeInterface, RemoveBridge, Steps
  <1>6. RemoveNetworkFails(r) \/ RefreshAfterRemoveFails(r) => Stays(r)
    BY <1>3 DEF RemoveNetworkFails, RefreshAfterRemove, RefreshAfterRemoveFails
  <1> QED
    BY <1>1, <1>2, <1>4, <1>5, <1>6

LEMMA RequestEffects ==
    ASSUME TypeOK, NEW r \in Procs, bsm # None
    PROVE  /\ Start(r) => Enters(r, "start", "starting", bsm.order) /\ proc'[r].info = bsm
           /\ Stop(r) => Enters(r, "stop", "stopping", Reverse(bsm.order)) /\ proc'[r].info = bsm
           /\ Delete(r) => Enters(r, "delete", "stop one", Reverse(bsm.order)) /\ proc'[r].info = bsm
  <1>1. bsm \in Bottles /\ bsm.order \in Seq(Services)
    BY DEF TypeOK, Bottles
  <1>2. Reverse(bsm.order) \in Seq(Services)
    BY <1>1, SeqReverse
  <1>3. {"starting", "stopping", "stop one"} \subseteq Steps
    BY DEF Steps
  <1>4. Start(r) => Enters(r, "start", "starting", bsm.order) /\ proc'[r].info = bsm
    BY <1>1, <1>3, BeginEffect DEF Start
  <1>5. Stop(r) => Enters(r, "stop", "stopping", Reverse(bsm.order)) /\ proc'[r].info = bsm
    BY <1>1, <1>2, <1>3, BeginEffect DEF Stop
  <1>6. Delete(r) => Enters(r, "delete", "stop one", Reverse(bsm.order)) /\ proc'[r].info = bsm
    BY <1>1, <1>2, <1>3, BeginEffect DEF Delete
  <1> QED
    BY <1>4, <1>5, <1>6

NoDeps(deps) == {s \in Services : deps[s] = {}}

LEMMA RegisterEffect ==
    ASSUME TypeOK, NEW r \in Procs, NEW deps \in Deps, RegisterBottle(r, deps)
    PROVE  \E queue \in Seq(Services) :
              /\ Distinct(queue) /\ ToSet(queue) = NoDeps(deps)
              /\ Enters(r, "register", IF \E s \in Services : Unknown \in deps[s] THEN "invalid" ELSE "order", queue)
              /\ proc'[r].deps = deps
  <1> DEFINE step == IF \E s \in Services : Unknown \in deps[s] THEN "invalid" ELSE "order"
  <1>1. PICK queue \in SetToSeqs(NoDeps(deps)) :
           proc' = [proc EXCEPT ![r] = [Idle EXCEPT !.kind = "register", !.todo = queue, !.deps = deps, !.step = step]]
    BY DEF RegisterBottle, NoDeps
  <1>2. step \in Steps
    BY DEF Steps
  <1> HIDE DEF step
  <1> DEFINE q == [Idle EXCEPT !.kind = "register", !.todo = queue, !.deps = deps, !.step = step]
  <1>3. IsFiniteSet(NoDeps(deps)) /\ NoDeps(deps) \subseteq Services
    BY BottleAssumption, FS_Subset DEF NoDeps
  <1>4. queue \in Seq(NoDeps(deps)) /\ Distinct(queue) /\ ToSet(queue) = NoDeps(deps)
    BY <1>3, SetToSeqsIs
  <1>5. queue \in Seq(Services)
    BY <1>3, <1>4
  <1>6. q \in Handler
    BY <1>2, <1>5, IdleHandler DEF Handler
  <1>7. q.kind = "register" /\ q.step = step /\ q.deps = deps /\ q.todo = queue /\ q.made = <<>> /\ q.order = <<>>
    BY DEF Idle
  <1>8. proc' = [proc EXCEPT ![r] = q]
    BY <1>1
  <1> HIDE DEF q
  <1>9. Enters(r, "register", step, queue) /\ proc'[r].deps = deps
    BY <1>6, <1>7, <1>8, Becomes DEF Enters, RegisterBottle, At
  <1> QED
    BY <1>4, <1>5, <1>9 DEF step

LEMMA BuildStartOrderEffect ==
    ASSUME TypeOK, NEW r \in Procs, BuildStartOrder(r)
    PROVE  LET n == Head(proc[r].todo) IN
           \E next \in Seq(Services) :
              /\ Distinct(next) /\ ToSet(next) = Ready(r, n)
              /\ Only(r) /\ Same(proc'[r], proc[r]) /\ proc'[r].info = proc[r].info
              /\ proc'[r].made = proc[r].made /\ proc'[r].step = "order"
              /\ proc'[r].order = Append(proc[r].order, n) /\ proc'[r].todo = Tail(proc[r].todo) \o next
  <1> DEFINE n == Head(proc[r].todo)
  <1>0. proc[r] \in Handler /\ proc[r].step = "order" /\ proc[r].todo \in Seq(Services) /\ proc[r].todo # <<>>
    BY DEF TypeOK, BuildStartOrder, At, PolicySteps
  <1>1. PICK next \in SetToSeqs(Ready(r, n)) :
           proc' = [proc EXCEPT ![r].order = Append(@, n), ![r].todo = Tail(@) \o next]
    BY DEF BuildStartOrder
  <1>2. IsFiniteSet(Ready(r, n)) /\ Ready(r, n) \subseteq Services
    BY BottleAssumption, FS_Subset DEF Ready
  <1>3. next \in Seq(Ready(r, n)) /\ Distinct(next) /\ ToSet(next) = Ready(r, n)
    BY <1>2, SetToSeqsIs
  <1>4. next \in Seq(Services)
    BY <1>2, <1>3
  <1>5. n \in Services /\ Tail(proc[r].todo) \in Seq(Services)
    BY <1>0, SeqHeadTail
  <1>6. Tail(proc[r].todo) \o next \in Seq(Services)
    BY <1>4, <1>5
  <1>7. Append(proc[r].order, n) \in Seq(Services)
    BY <1>0, <1>5 DEF Handler
  <1> DEFINE q == [proc[r] EXCEPT !.order = Append(proc[r].order, n), !.todo = Tail(proc[r].todo) \o next]
  <1>8. proc' = [proc EXCEPT ![r] = q]
    BY <1>0, <1>1 DEF Handler
  <1> HIDE DEF n
  <1>9. q \in Handler
    BY <1>0, <1>6, <1>7 DEF Handler
  <1>10. /\ Same(q, proc[r]) /\ q.info = proc[r].info /\ q.made = proc[r].made /\ q.step = "order"
         /\ q.order = Append(proc[r].order, n) /\ q.todo = Tail(proc[r].todo) \o next
    BY <1>0 DEF Handler, Same
  <1> HIDE DEF q
  <1>11. Only(r) /\ proc'[r] = q
    BY <1>8, <1>9, Becomes
  <1> QED
    BY <1>3, <1>4, <1>10, <1>11 DEF n

-----------------------------------------------------------------------------
\* Which actions change which variable.  The steps of the commits stand with
\* the handlers that they belong to.
RegStep(r) == RegisterStep(r) \/ CommitPolicies(r) \/ CommitPoliciesFails(r)

MakeStep(r) ==
    \/ CreateStep(r) \/ RefreshPolicy(r) \/ RefreshPolicyFails(r) \/ CommitNetworkUndone(r)
    \/ rollbackPolicies(r) \/ rollbackPoliciesFails(r)

ActStep(r) ==
    \/ ActionStep(r) \/ CommitRemoval(r) \/ CommitRemovalFails(r)
    \/ RefreshAfterRemove(r) \/ RefreshAfterRemoveFails(r)

\* Only a commit has policies listed, and only it writes what it has listed.
Kept(r) ==
    \/ ~Committing(r) /\ UNCHANGED commits
    \/ \E W \in SUBSET ToSet(Policies) : Writes(r, W)

Step(r) == (Request(r) \/ RegStep(r) \/ MakeStep(r) \/ ActStep(r)) /\ Kept(r)

\* What the other clients do, and the commits that list the policies.
Others ==
    \/ GuestContainer /\ UNCHANGED commits
    \/ UserRemovesPolicy /\ UNCHANGED commits
    \/ OtherCommit
    \/ \E r \in Procs : ListPolicies(r)

LEMMA NextCases ==
    ASSUME [Next]_vars
    PROVE  \/ UNCHANGED vars
           \/ \E r \in Procs : Step(r)
           \/ Others
  <1>1. ASSUME NEW r \in Procs, Request(r) \/ RegisterStep(r) \/ CreateStep(r) \/ ActionStep(r)
        PROVE  ~Committing(r)
    BY <1>1 DEF Committing, At, Request, RegisterStep, CreateStep, ActionStep, RegisterBottle, Start, Stop, Delete,
       Begin, BuildStartOrder, OrderBuilt, Refuse, AddUserPolicy, AddUserPolicyFails, StoreBottle,
       StoreBottleFails, OwnNetworks, StoreBridge, CreateBridgeInterface,
       CreateBridgeInterfaceFails, CreateNewNetworkFails, UpdateBottleNetwork, UpdateBottleNetworkFails, CreateContainer,
       CreateContainerFails, UpdateBottleContainer, UpdateBottleContainerFails, UpdateBottleContainers, Registered,
       UndoContainer, ClearBottleNetwork, RemoveFailedBottle, FlagPolicy, StartContainer, StopContainer, AllDone,
       StopToDelete, DeleteContainer, ContainerFails, ContainersDeleted, RemoveUserPolicy, PoliciesRemoved,
       CheckNetworkEmpty, RemoveBridgeInterface, RemoveBridge, RemoveNetworkFails, RemoveBottle
  <1>2. ASSUME NEW r \in Procs, Commits(r) \/ CommitFails(r)
        PROVE  \E W \in SUBSET ToSet(Policies) : Writes(r, W)
    BY <1>2 DEF Commits, CommitFails
  <1>3. ASSUME NEW r \in Procs, CommitStep(r)
        PROVE  Step(r)
    <2>1. Commits(r) \/ CommitFails(r)
      BY <1>3 DEF CommitStep, CommitPolicies, CommitPoliciesFails, RefreshPolicy, RefreshPolicyFails,
           CommitNetworkUndone, rollbackPolicies, rollbackPoliciesFails, CommitRemoval, CommitRemovalFails,
           RefreshAfterRemove, RefreshAfterRemoveFails
    <2> QED
      BY <1>2, <1>3, <2>1 DEF CommitStep, Step, Kept, RegStep, MakeStep, ActStep
  <1> QED
    BY <1>1, <1>3 DEF Next, Done, Step, Others, Kept, RegStep, MakeStep, ActStep

LEMMA RecordSteps ==
    ASSUME NEW r \in Procs, Step(r)
    PROVE  \/ bsm' = bsm
           \/ StoreBottle(r) \/ UpdateBottleNetwork(r) \/ UpdateBottleContainer(r) \/ UpdateBottleContainers(r)
           \/ RemoveFailedBottle(r) \/ ClearBottleNetwork(r) \/ RemoveBottle(r)
  BY DEF Step, Request, RegStep, RegisterStep, MakeStep, CreateStep, ActStep, ActionStep, RegisterBottle, Start, Stop, Delete,
       BuildStartOrder, OrderBuilt, Refuse, AddUserPolicy, AddUserPolicyFails, CommitPolicies, CommitPoliciesFails,
       StoreBottleFails, OwnNetworks, StoreBridge, CreateBridgeInterface, RefreshPolicy, RefreshPolicyFails, CommitNetworkUndone,
       CreateBridgeInterfaceFails, CreateNewNetworkFails, UpdateBottleNetworkFails, CreateContainer,
       CreateContainerFails, UpdateBottleContainerFails, Registered, UndoContainer, FlagPolicy, rollbackPolicies,
       rollbackPoliciesFails, StartContainer, StopContainer, AllDone, StopToDelete, DeleteContainer, ContainerFails,
       ContainersDeleted, RemoveUserPolicy, CommitRemoval, CommitRemovalFails, PoliciesRemoved, CheckNetworkEmpty,
       RemoveBridgeInterface, RemoveBridge, RemoveNetworkFails, RefreshAfterRemove, RefreshAfterRemoveFails

LEMMA ContainerSteps ==
    ASSUME NEW r \in Procs, Step(r)
    PROVE  \/ csm' = csm
           \/ CreateContainer(r) \/ UndoContainer(r) \/ StartContainer(r) \/ StopContainer(r)
           \/ StopToDelete(r) \/ DeleteContainer(r)
  BY DEF Step, Request, RegStep, RegisterStep, MakeStep, CreateStep, ActStep, ActionStep, RegisterBottle, Start, Stop, Delete,
       BuildStartOrder, OrderBuilt, Refuse, AddUserPolicy, AddUserPolicyFails, CommitPolicies, CommitPoliciesFails,
       StoreBottle, StoreBottleFails, OwnNetworks, StoreBridge, CreateBridgeInterface, RefreshPolicy, RefreshPolicyFails, CommitNetworkUndone,
       CreateBridgeInterfaceFails, CreateNewNetworkFails, UpdateBottleNetwork, UpdateBottleNetworkFails,
       CreateContainerFails, UpdateBottleContainer, UpdateBottleContainerFails, UpdateBottleContainers, Registered,
       ClearBottleNetwork, RemoveFailedBottle, FlagPolicy, rollbackPolicies, rollbackPoliciesFails, AllDone, ContainerFails,
       ContainersDeleted, RemoveUserPolicy, CommitRemoval, CommitRemovalFails, PoliciesRemoved, CheckNetworkEmpty,
       RemoveBridgeInterface, RemoveBridge, RemoveNetworkFails, RefreshAfterRemove, RefreshAfterRemoveFails, RemoveBottle, world

LEMMA NetworkSteps ==
    ASSUME NEW r \in Procs, Step(r)
    PROVE  \/ pool' = pool /\ bridge' = bridge
           \/ StoreBridge(r) \/ CreateBridgeInterface(r) \/ CreateBridgeInterfaceFails(r) \/ CreateNewNetworkFails(r)
           \/ RemoveBridgeInterface(r) \/ RemoveBridge(r) \/ RefreshPolicyFails(r)
  BY DEF Step, Request, RegStep, RegisterStep, MakeStep, CreateStep, ActStep, ActionStep, RegisterBottle, Start, Stop, Delete,
       BuildStartOrder, OrderBuilt, Refuse, AddUserPolicy, AddUserPolicyFails, CommitPolicies, CommitPoliciesFails,
       StoreBottle, StoreBottleFails, OwnNetworks, RefreshPolicy, CommitNetworkUndone, UpdateBottleNetwork, UpdateBottleNetworkFails,
       CreateContainer, CreateContainerFails, UpdateBottleContainer, UpdateBottleContainerFails,
       UpdateBottleContainers, Registered, UndoContainer, ClearBottleNetwork, RemoveFailedBottle, FlagPolicy, rollbackPolicies,
       rollbackPoliciesFails, StartContainer, StopContainer, AllDone, StopToDelete, DeleteContainer, ContainerFails,
       ContainersDeleted, RemoveUserPolicy, CommitRemoval, CommitRemovalFails, PoliciesRemoved, CheckNetworkEmpty,
       RemoveNetworkFails, RefreshAfterRemove, RefreshAfterRemoveFails, RemoveBottle, world

LEMMA PolicyStoreSteps ==
    ASSUME NEW r \in Procs, Step(r)
    PROVE  \/ npm' = npm \/ AddUserPolicy(r) \/ FlagPolicy(r) \/ RemoveUserPolicy(r)
           \/ \E W \in SUBSET ToSet(Policies) : Writes(r, W)
  BY DEF Step, Request, RegStep, RegisterStep, MakeStep, CreateStep, ActStep, ActionStep, RegisterBottle, Start, Stop, Delete,
       BuildStartOrder, OrderBuilt, Refuse, AddUserPolicyFails, CommitPolicies, CommitPoliciesFails,
       StoreBottle, StoreBottleFails, OwnNetworks, StoreBridge, CreateBridgeInterface, RefreshPolicy, RefreshPolicyFails, CommitNetworkUndone,
       CreateBridgeInterfaceFails, CreateNewNetworkFails, UpdateBottleNetwork, UpdateBottleNetworkFails,
       CreateContainer, CreateContainerFails, UpdateBottleContainer, UpdateBottleContainerFails,
       UpdateBottleContainers, Registered, UndoContainer, ClearBottleNetwork, RemoveFailedBottle,
       StartContainer, StopContainer, AllDone, StopToDelete, DeleteContainer, ContainerFails,
       ContainersDeleted, PoliciesRemoved, CheckNetworkEmpty,
       RemoveBridgeInterface, RemoveBridge, RemoveNetworkFails, RefreshAfterRemove, RefreshAfterRemoveFails, RemoveBottle, rollbackPolicies,
       rollbackPoliciesFails, CommitRemoval, CommitRemovalFails, RefreshAfterRemove, Commits, CommitFails, world

LEMMA CounterSteps ==
    ASSUME TypeOK, NEW r \in Procs, Step(r)
    PROVE  /\ requests' \in 0..MaxRequests /\ faults' \in 0..MaxFaults
           /\ requests' = requests \/ requests' > 0
           /\ halted' = TRUE \/ halted' = halted
           /\ late' = late
  <1>0. requests \in 0..MaxRequests /\ faults \in 0..MaxFaults /\ MaxRequests \in Nat \ {0} /\ MaxFaults \in Nat
    BY BottleAssumption DEF TypeOK
  <1>1. CASE Request(r)
    <2>1. requests' = 1 \/ (requests < MaxRequests /\ requests' = requests + 1)
      BY <1>1 DEF Request, RegisterBottle, Start, Stop, Delete, Begin
    <2>2. faults' = faults /\ halted' = halted /\ late' = late
      BY <1>1 DEF Request, RegisterBottle, Start, Stop, Delete, ghosts
    <2> QED
      BY <1>0, <2>1, <2>2
  <1>2. CASE RegStep(r) \/ MakeStep(r) \/ ActStep(r)
    <2>1. requests' = requests
      BY <1>2 DEF RegStep, RegisterStep, MakeStep, CreateStep, ActStep, ActionStep,
       BuildStartOrder, OrderBuilt, Refuse, AddUserPolicy, AddUserPolicyFails, CommitPolicies, CommitPoliciesFails,
       StoreBottle, StoreBottleFails, OwnNetworks, StoreBridge, CreateBridgeInterface, RefreshPolicy, RefreshPolicyFails, CommitNetworkUndone,
       CreateBridgeInterfaceFails, CreateNewNetworkFails, UpdateBottleNetwork, UpdateBottleNetworkFails,
       CreateContainer, CreateContainerFails, UpdateBottleContainer, UpdateBottleContainerFails,
       UpdateBottleContainers, Registered, UndoContainer, ClearBottleNetwork, RemoveFailedBottle, FlagPolicy, rollbackPolicies,
       rollbackPoliciesFails, StartContainer, StopContainer, AllDone, StopToDelete, DeleteContainer, ContainerFails,
       ContainersDeleted, RemoveUserPolicy, CommitRemoval, CommitRemovalFails, PoliciesRemoved, CheckNetworkEmpty,
       RemoveBridgeInterface, RemoveBridge, RemoveNetworkFails, RefreshAfterRemove, RefreshAfterRemoveFails, RemoveBottle, NetworkStays,
       bounds
    <2>2. faults' = faults \/ Fault
      BY <1>2 DEF RegStep, RegisterStep, MakeStep, CreateStep, ActStep, ActionStep,
       BuildStartOrder, OrderBuilt, Refuse, AddUserPolicy, AddUserPolicyFails, CommitPolicies, CommitPoliciesFails,
       StoreBottle, StoreBottleFails, OwnNetworks, StoreBridge, CreateBridgeInterface, RefreshPolicy, RefreshPolicyFails, CommitNetworkUndone,
       CreateBridgeInterfaceFails, CreateNewNetworkFails, UpdateBottleNetwork, UpdateBottleNetworkFails,
       CreateContainer, CreateContainerFails, UpdateBottleContainer, UpdateBottleContainerFails,
       UpdateBottleContainers, Registered, UndoContainer, ClearBottleNetwork, RemoveFailedBottle, FlagPolicy, rollbackPolicies,
       rollbackPoliciesFails, StartContainer, StopContainer, AllDone, StopToDelete, DeleteContainer, ContainerFails,
       ContainersDeleted, RemoveUserPolicy, CommitRemoval, CommitRemovalFails, PoliciesRemoved, CheckNetworkEmpty,
       RemoveBridgeInterface, RemoveBridge, RemoveNetworkFails, RefreshAfterRemove, RefreshAfterRemoveFails, RemoveBottle, NetworkStays,
       bounds, CommitFails
    <2>3. halted' = TRUE \/ halted' = halted
      BY <1>2 DEF RegStep, RegisterStep, MakeStep, CreateStep, ActStep, ActionStep,
       BuildStartOrder, OrderBuilt, Refuse, AddUserPolicy, AddUserPolicyFails, CommitPolicies, CommitPoliciesFails,
       StoreBottle, StoreBottleFails, OwnNetworks, StoreBridge, CreateBridgeInterface, RefreshPolicy, RefreshPolicyFails, CommitNetworkUndone,
       CreateBridgeInterfaceFails, CreateNewNetworkFails, UpdateBottleNetwork, UpdateBottleNetworkFails,
       CreateContainer, CreateContainerFails, UpdateBottleContainer, UpdateBottleContainerFails,
       UpdateBottleContainers, Registered, UndoContainer, ClearBottleNetwork, RemoveFailedBottle, FlagPolicy, rollbackPolicies,
       rollbackPoliciesFails, StartContainer, StopContainer, AllDone, StopToDelete, DeleteContainer, ContainerFails,
       ContainersDeleted, RemoveUserPolicy, CommitRemoval, CommitRemovalFails, PoliciesRemoved, CheckNetworkEmpty,
       RemoveBridgeInterface, RemoveBridge, RemoveNetworkFails, RefreshAfterRemove, RefreshAfterRemoveFails, RemoveBottle, NetworkStays,
       ghosts
    <2>4. late' = late
      BY <1>2 DEF RegStep, RegisterStep, MakeStep, CreateStep, ActStep, ActionStep,
       BuildStartOrder, OrderBuilt, Refuse, AddUserPolicy, AddUserPolicyFails, CommitPolicies, CommitPoliciesFails,
       StoreBottle, StoreBottleFails, OwnNetworks, StoreBridge, CreateBridgeInterface, RefreshPolicy, RefreshPolicyFails, CommitNetworkUndone,
       CreateBridgeInterfaceFails, CreateNewNetworkFails, UpdateBottleNetwork, UpdateBottleNetworkFails,
       CreateContainer, CreateContainerFails, UpdateBottleContainer, UpdateBottleContainerFails,
       UpdateBottleContainers, Registered, UndoContainer, ClearBottleNetwork, RemoveFailedBottle, FlagPolicy, rollbackPolicies,
       rollbackPoliciesFails, StartContainer, StopContainer, AllDone, StopToDelete, DeleteContainer, ContainerFails,
       ContainersDeleted, RemoveUserPolicy, CommitRemoval, CommitRemovalFails, PoliciesRemoved, CheckNetworkEmpty,
       RemoveBridgeInterface, RemoveBridge, RemoveNetworkFails, RefreshAfterRemove, RefreshAfterRemoveFails, RemoveBottle, NetworkStays,
       ghosts
    <2>5. faults' \in 0..MaxFaults
      BY <1>0, <2>2 DEF Fault
    <2> QED
      BY <1>0, <2>1, <2>3, <2>4, <2>5
  <1> QED
    BY <1>1, <1>2 DEF Step

-----------------------------------------------------------------------------
\* The shape of the state.
Typed(p) == p.todo \in IF p.step \in PolicySteps THEN Seq(ToSet(Policies)) ELSE Seq(Services)

LEMMA ShapeFacts ==
    ASSUME Shape, NEW r \in Procs
    PROVE  TypeOK /\ KindOK(proc[r]) /\ Typed(proc[r]) /\ proc[r] \in Handler
  BY DEF Shape, TypeOK, Typed

LEMMA KindFacts ==
    ASSUME NEW p, KindOK(p)
    PROVE  /\ p.step \in RegisterSteps \ NetSteps => p.kind = "register"
           /\ p.step \in DeleteSteps \ NetSteps => p.kind = "delete"
           /\ p.step \in NetSteps => p.kind \in {"register", "delete"}
           /\ p.step = "starting" => p.kind = "start"
           /\ p.step = "stopping" => p.kind = "stop"
           /\ p.step = "idle" => p = Idle
           /\ p.kind = "none" => p = Idle
           /\ p.kind = "register" => p.step \in RegisterSteps
           /\ p.kind = "delete" => p.step \in DeleteSteps /\ p.info \in Bottles
           /\ p.kind = "register" => p.info \in Bottles \/ p.step \in PreSteps \cup {"undo policies"}
           /\ p.kind \in {"start", "stop"} => p.step \in {"starting", "stopping"} /\ p.info \in Bottles
           /\ p.step \in {"record", "delete one", "drop policy"} => p.todo # <<>>
           /\ p.kind \in {"none", "register", "start", "stop", "delete"}
  <1>1. CASE p = Idle
    BY <1>1 DEF Idle, RegisterSteps, DeleteSteps, PreSteps, NetSteps, OpenSteps
  <1>2. CASE p.kind = "register" /\ p # Idle
    BY <1>2 DEF KindOK, RegisterSteps, DeleteSteps, PreSteps, NetSteps, OpenSteps
  <1>3. CASE p.kind \in {"start", "stop"} /\ p # Idle
    BY <1>3 DEF KindOK, RegisterSteps, DeleteSteps, PreSteps, NetSteps, OpenSteps
  <1>4. CASE p.kind = "delete" /\ p # Idle
    BY <1>4 DEF KindOK, RegisterSteps, DeleteSteps, PreSteps, NetSteps, OpenSteps
  <1> QED
    BY <1>1, <1>2, <1>3, <1>4 DEF KindOK

LEMMA TailTyped ==
    ASSUME Shape, NEW r \in Procs, proc[r].todo # <<>>
    PROVE  /\ proc[r].step \in PolicySteps =>
                 Head(proc[r].todo) \in ToSet(Policies) /\ Tail(proc[r].todo) \in Seq(ToSet(Policies))
           /\ proc[r].step \notin PolicySteps =>
                 Head(proc[r].todo) \in Services /\ Tail(proc[r].todo) \in Seq(Services)
  BY ShapeFacts, SeqHeadTail DEF Typed

Fits(r) == Only(r) /\ KindOK(proc'[r]) /\ Typed(proc'[r])

LEMMA EndFits ==
    ASSUME Shape, NEW r \in Procs, Ends(r)
    PROVE  Fits(r) /\ proc'[r].kind = "none"
  <1>1. Typed(Idle)
    BY DEF Typed, Idle, PolicySteps
  <1> QED
    BY <1>1, IdleHandler DEF Fits, Ends

LEMMA RegisterFits ==
    ASSUME Shape, NEW r \in Procs, RegStep(r)
    PROVE  Fits(r) /\ proc'[r].kind \in {"none", proc[r].kind}
  <1>0. TypeOK /\ KindOK(proc[r]) /\ Typed(proc[r]) /\ proc[r] \in Handler
    BY ShapeFacts
  <1>k. /\ proc[r].step \in RegisterSteps \ NetSteps => proc[r].kind = "register"
        /\ proc[r].kind = "register" => proc[r].info \in Bottles \/ proc[r].step \in PreSteps \cup {"undo policies"}
    BY <1>0, KindFacts
  <1>1. CASE BuildStartOrder(r)
    <2>1. proc[r].step = "order" /\ proc[r].todo # <<>>
      BY <1>1 DEF BuildStartOrder, At
    <2>2. PICK next \in Seq(Services) :
              /\ Only(r) /\ Same(proc'[r], proc[r]) /\ proc'[r].step = "order"
              /\ proc'[r].info = proc[r].info /\ proc'[r].todo = Tail(proc[r].todo) \o next
      BY <1>0, <1>1, BuildStartOrderEffect
    <2>3. Tail(proc[r].todo) \o next \in Seq(Services)
      <3>1. Tail(proc[r].todo) \in Seq(Services)
        BY <2>1, TailTyped DEF PolicySteps
      <3> QED
        BY <3>1
    <2>4. Typed(proc'[r])
      BY <2>2, <2>3 DEF Typed, PolicySteps
    <2>5. KindOK(proc'[r])
      BY <1>k, <2>1, <2>2 DEF KindOK, Same, RegisterSteps, PreSteps, NetSteps, OpenSteps
    <2> QED
      BY <2>2, <2>4, <2>5 DEF Fits, Same
  <1>2. CASE OrderBuilt(r)
    <2>1. proc[r].step = "order" /\ (Goes(r, "policies", Policies) \/ Goes(r, "invalid", proc[r].todo))
      BY <1>0, <1>2, RegisterEffects DEF OrderBuilt, At
    <2>2. Typed(proc'[r])
      BY <1>0, <2>1, BottleAssumption DEF Typed, PolicySteps, Goes
    <2>3. KindOK(proc'[r])
      BY <1>k, <2>1 DEF KindOK, Goes, Same, RegisterSteps, PreSteps, NetSteps, OpenSteps
    <2> QED
      BY <2>1, <2>2, <2>3 DEF Fits, Goes, Same
  <1>3. CASE AddUserPolicy(r)
    <2>1. proc[r].step = "policies" /\ proc[r].todo # <<>> /\ Goes(r, "policies", Tail(proc[r].todo))
      BY <1>0, <1>3, RegisterEffects DEF AddUserPolicy, At
    <2>2. Typed(proc'[r])
      BY <2>1, TailTyped DEF Typed, PolicySteps, Goes
    <2>3. KindOK(proc'[r])
      BY <1>k, <2>1 DEF KindOK, Goes, Same, RegisterSteps, PreSteps, NetSteps, OpenSteps
    <2> QED
      BY <2>1, <2>2, <2>3 DEF Fits, Goes, Same
  <1>4. CASE AddUserPolicyFails(r) \/ StoreBottleFails(r)
    <2>1. proc[r].step \in {"policies", "store"} /\ Goes(r, "undo policies", Policies)
      BY <1>0, <1>4, RegisterEffects DEF AddUserPolicyFails, StoreBottleFails, At
    <2>2. Typed(proc'[r])
      BY <2>1, BottleAssumption DEF Typed, PolicySteps, Goes
    <2>3. KindOK(proc'[r])
      BY <1>k, <2>1 DEF KindOK, Goes, Same, RegisterSteps, PreSteps, NetSteps, OpenSteps
    <2> QED
      BY <2>1, <2>2, <2>3 DEF Fits, Goes, Same
  <1>5. CASE CommitPolicies(r)
    <2>1. proc[r].step = "policies" /\ proc[r].todo = <<>> /\ Goes(r, "store", proc[r].todo)
      BY <1>0, <1>5, RegisterEffects DEF CommitPolicies, At
    <2>2. Typed(proc'[r])
      BY <2>1 DEF Typed, PolicySteps, Goes
    <2>3. KindOK(proc'[r])
      BY <1>k, <2>1 DEF KindOK, Goes, Same, RegisterSteps, PreSteps, NetSteps, OpenSteps
    <2> QED
      BY <2>1, <2>2, <2>3 DEF Fits, Goes, Same
  <1>6. CASE StoreBottle(r)
    <2>1. /\ proc[r].step = "store" /\ Only(r) /\ Same(proc'[r], proc[r]) /\ proc'[r].step = "network"
          /\ proc'[r].info \in Bottles /\ proc'[r].todo = proc[r].order
      BY <1>0, <1>6, StoreBottleEffect DEF StoreBottle, At
    <2>2. Typed(proc'[r])
      BY <1>0, <2>1 DEF Typed, PolicySteps, Handler
    <2>3. KindOK(proc'[r])
      BY <1>k, <2>1 DEF KindOK, Same, RegisterSteps, PreSteps, NetSteps, OpenSteps
    <2> QED
      BY <2>1, <2>2, <2>3 DEF Fits, Same
  <1>7. CASE Refuse(r) \/ CommitPoliciesFails(r)
    BY <1>0, <1>7, EndStepsEffect, EndFits DEF EndSteps
  <1> QED
    BY <1>1, <1>2, <1>3, <1>4, <1>5, <1>6, <1>7 DEF RegStep, RegisterStep

LEMMA GoesFits ==
    ASSUME Shape, NEW r \in Procs, NEW step \in RegisterSteps \ PolicySteps, Goes(r, step, proc[r].todo),
           proc[r].kind = "register", proc[r].step \notin PolicySteps, proc[r].info \in Bottles, step # "record"
    PROVE  Fits(r) /\ proc'[r].kind = proc[r].kind
  <1>1. Typed(proc[r])
    BY ShapeFacts
  <1>2. Typed(proc'[r])
    BY <1>1 DEF Typed, Goes
  <1>3. KindOK(proc'[r])
    BY DEF KindOK, Goes, Same
  <1> QED
    BY <1>2, <1>3 DEF Fits, Goes, Same

LEMMA CreateFits ==
    ASSUME Shape, NEW r \in Procs, MakeStep(r)
    PROVE  Fits(r) /\ proc'[r].kind \in {"none", proc[r].kind}
  <1>0. TypeOK /\ KindOK(proc[r]) /\ Typed(proc[r]) /\ proc[r] \in Handler
    BY ShapeFacts
  <1>k. /\ proc[r].step \in RegisterSteps \ NetSteps => proc[r].kind = "register"
        /\ proc[r].kind = "register" => proc[r].info \in Bottles \/ proc[r].step \in PreSteps \cup {"undo policies"}
        /\ proc[r].step = "record" => proc[r].todo # <<>>
    BY <1>0, KindFacts
  <1>1. CASE \/ OwnNetworks(r) \/ StoreBridge(r) \/ CreateBridgeInterface(r)
             \/ RefreshPolicy(r) \/ RefreshPolicyFails(r) \/ CommitNetworkUndone(r)
             \/ CreateBridgeInterfaceFails(r) \/ CreateNewNetworkFails(r) \/ ClearBottleNetwork(r)
             \/ UpdateBottleNetworkFails(r) \/ CreateContainerFails(r) \/ UpdateBottleContainerFails(r)
             \/ UpdateBottleContainers(r)
    <2>1. proc[r].step \in OpenSteps \cup {"containers", "record", "undo containers", "undo network", "clear network"}
      BY <1>1 DEF OwnNetworks, StoreBridge, CreateBridgeInterface, RefreshPolicy, RefreshPolicyFails, CommitNetworkUndone, CreateBridgeInterfaceFails,
           CreateNewNetworkFails, ClearBottleNetwork, UpdateBottleNetworkFails, CreateContainerFails,
           UpdateBottleContainerFails, UpdateBottleContainers, At, OpenSteps
    <2>2. proc[r].kind = "register" /\ proc[r].info \in Bottles /\ proc[r].step \notin PolicySteps
      BY <1>k, <2>1 DEF RegisterSteps, NetSteps, OpenSteps, PreSteps, PolicySteps
    <2>3. \E step \in {"containers", "interface", "refresh", "record network", "undo network", "undo bottle",
                       "net check", "undo containers"} : Goes(r, step, proc[r].todo)
      BY <1>0, <1>1, CreateEffects
    <2> QED
      BY <2>2, <2>3, GoesFits DEF RegisterSteps, NetSteps, OpenSteps, PolicySteps
  <1>2. CASE UpdateBottleNetwork(r)
    <2>1. proc[r].step = "record network" /\ proc[r].info \in Bottles /\ proc[r].kind = "register"
      BY <1>k, <1>2 DEF UpdateBottleNetwork, At, RegisterSteps, NetSteps, OpenSteps, PreSteps
    <2>2. /\ Only(r) /\ Same(proc'[r], proc[r]) /\ proc'[r].step = "containers"
          /\ proc'[r].todo = proc[r].todo /\ proc'[r].info \in Bottles
      BY <1>0, <1>2, <2>1, UpdateBottleNetworkEffect
    <2>3. Typed(proc'[r])
      BY <1>0, <2>1, <2>2 DEF Typed, PolicySteps
    <2>4. KindOK(proc'[r])
      BY <2>1, <2>2 DEF KindOK, Same, RegisterSteps
    <2> QED
      BY <2>2, <2>3, <2>4 DEF Fits, Same
  <1>3. CASE CreateContainer(r)
    <2>1. /\ proc[r].step = "containers" /\ proc[r].todo # <<>>
          /\ Makes(r, "record", Append(proc[r].made, Head(proc[r].todo)))
      BY <1>0, <1>3, CreateEffects DEF CreateContainer, At
    <2>2. proc[r].kind = "register" /\ proc[r].info \in Bottles
      BY <1>k, <2>1 DEF RegisterSteps, NetSteps, OpenSteps, PreSteps
    <2>3. Typed(proc'[r])
      BY <1>0, <2>1 DEF Typed, PolicySteps, Makes
    <2>4. KindOK(proc'[r])
      BY <2>1, <2>2 DEF KindOK, Same, RegisterSteps, Makes
    <2> QED
      BY <2>1, <2>3, <2>4 DEF Fits, Same, Makes
  <1>4. CASE UpdateBottleContainer(r)
    <2>1. proc[r].step = "record" /\ proc[r].todo # <<>>
      BY <1>k, <1>4 DEF UpdateBottleContainer, At
    <2>2. Goes(r, "containers", Tail(proc[r].todo))
      BY <1>0, <1>4, <2>1, CreateEffects
    <2>3. proc[r].kind = "register" /\ proc[r].info \in Bottles
      BY <1>k, <2>1 DEF RegisterSteps, NetSteps, OpenSteps, PreSteps
    <2>4. Typed(proc'[r])
      BY <2>1, <2>2, TailTyped DEF Typed, PolicySteps, Goes
    <2>5. KindOK(proc'[r])
      BY <2>2, <2>3 DEF KindOK, Same, RegisterSteps, Goes
    <2> QED
      BY <2>2, <2>4, <2>5 DEF Fits, Same, Goes
  <1>5. CASE UndoContainer(r)
    <2>1. proc[r].step = "undo containers" /\ Makes(r, "undo containers", Front(proc[r].made))
      BY <1>0, <1>5, CreateEffects DEF UndoContainer, At
    <2>2. proc[r].kind = "register" /\ proc[r].info \in Bottles
      BY <1>k, <2>1 DEF RegisterSteps, NetSteps, OpenSteps, PreSteps
    <2>3. Typed(proc'[r])
      BY <1>0, <2>1 DEF Typed, PolicySteps, Makes
    <2>4. KindOK(proc'[r])
      BY <2>1, <2>2 DEF KindOK, Same, RegisterSteps, Makes
    <2> QED
      BY <2>1, <2>3, <2>4 DEF Fits, Same, Makes
  <1>6. CASE RemoveFailedBottle(r)
    <2>1. proc[r].step = "undo bottle" /\ Goes(r, "undo policies", Policies)
      BY <1>0, <1>6, RegisterEffects DEF RemoveFailedBottle, At
    <2>2. proc[r].kind = "register"
      BY <1>k, <2>1 DEF RegisterSteps, NetSteps
    <2>3. Typed(proc'[r])
      BY <2>1, BottleAssumption DEF Typed, PolicySteps, Goes
    <2>4. KindOK(proc'[r])
      BY <2>1, <2>2 DEF KindOK, Same, RegisterSteps, Goes
    <2> QED
      BY <2>1, <2>3, <2>4 DEF Fits, Same, Goes
  <1>7. CASE Registered(r) \/ rollbackPolicies(r) \/ rollbackPoliciesFails(r)
    BY <1>0, <1>7, EndStepsEffect, EndFits DEF EndSteps
  <1>8. CASE FlagPolicy(r)
    <2>1. proc[r].step = "undo policies" /\ proc[r].todo # <<>> /\ Goes(r, "undo policies", Tail(proc[r].todo))
      BY <1>0, <1>8, RegisterEffects DEF FlagPolicy, At
    <2>2. proc[r].kind = "register"
      BY <1>k, <2>1 DEF RegisterSteps, NetSteps
    <2>3. Typed(proc'[r])
      BY <2>1, TailTyped DEF Typed, PolicySteps, Goes
    <2>4. KindOK(proc'[r])
      BY <2>1, <2>2 DEF KindOK, Same, RegisterSteps, Goes
    <2> QED
      BY <2>1, <2>3, <2>4 DEF Fits, Same, Goes
  <1> QED
    BY <1>1, <1>2, <1>3, <1>4, <1>5, <1>6, <1>7, <1>8 DEF MakeStep, CreateStep

LEMMA ActionFits ==
    ASSUME Shape, NEW r \in Procs, ActStep(r)
    PROVE  Fits(r) /\ proc'[r].kind \in {"none", proc[r].kind}
  <1>0. TypeOK /\ KindOK(proc[r]) /\ Typed(proc[r]) /\ proc[r] \in Handler
    BY ShapeFacts
  <1>k. /\ proc[r].step \in DeleteSteps \ NetSteps => proc[r].kind = "delete"
        /\ proc[r].step \in NetSteps => proc[r].kind \in {"register", "delete"}
        /\ proc[r].kind \in {"start", "stop", "delete"} => proc[r].info \in Bottles
        /\ proc[r].kind = "register" => proc[r].info \in Bottles \/ proc[r].step \in PreSteps \cup {"undo policies"}
        /\ proc[r].step = "starting" => proc[r].kind = "start"
        /\ proc[r].step = "stopping" => proc[r].kind = "stop"
        /\ proc[r].step \in {"delete one", "drop policy"} => proc[r].todo # <<>>
    BY <1>0, KindFacts
  <1>e. Ends(r) => Fits(r) /\ proc'[r].kind = "none"
    BY EndFits
  <1>1. ASSUME StartContainer(r) \/ StopContainer(r), ~Ends(r)
        PROVE  Fits(r) /\ proc'[r].kind = proc[r].kind
    <2>1. \E step \in {"starting", "stopping"} :
             proc[r].step = step /\ proc[r].todo # <<>> /\ Goes(r, step, Tail(proc[r].todo))
      BY <1>0, <1>1, ActionEffects DEF StartContainer, StopContainer, At
    <2>2. Typed(proc'[r])
      BY <2>1, TailTyped DEF Typed, PolicySteps, Goes
    <2>3. KindOK(proc'[r])
      BY <1>k, <2>1 DEF KindOK, Same, Goes
    <2> QED
      BY <2>1, <2>2, <2>3 DEF Fits, Same, Goes
  <1>2. ASSUME StopToDelete(r) \/ DeleteContainer(r), ~Ends(r)
        PROVE  Fits(r) /\ proc'[r].kind = proc[r].kind
    <2>1. proc[r].step \in {"stop one", "delete one"} /\ proc[r].todo # <<>>
      BY <1>k, <1>2 DEF StopToDelete, DeleteContainer, At
    <2>2. Goes(r, "delete one", proc[r].todo) \/ Goes(r, "stop one", Tail(proc[r].todo))
      BY <1>0, <1>2, <2>1, ActionEffects
    <2>3. Typed(proc'[r])
      BY <1>0, <2>1, <2>2, TailTyped DEF Typed, PolicySteps, Goes
    <2>4. KindOK(proc'[r])
      BY <1>k, <2>1, <2>2 DEF KindOK, Same, Goes, DeleteSteps, NetSteps
    <2> QED
      BY <2>2, <2>3, <2>4 DEF Fits, Same, Goes
  <1>3. ASSUME ContainersDeleted(r) \/ RemoveUserPolicy(r) \/ CommitRemoval(r), ~Ends(r)
        PROVE  Fits(r) /\ proc'[r].kind = proc[r].kind
    <2>1. \/ proc[r].step = "stop one" /\ Goes(r, "remove policies", Policies)
          \/ /\ proc[r].step = "remove policies" /\ proc[r].todo # <<>>
             /\ Goes(r, "drop policy", proc[r].todo)
          \/ /\ proc[r].step = "drop policy" /\ proc[r].todo # <<>>
             /\ Goes(r, "remove policies", Tail(proc[r].todo))
      BY <1>0, <1>k, <1>3, ActionEffects DEF ContainersDeleted, RemoveUserPolicy, CommitRemoval, At
    <2>2. Typed(proc'[r])
      BY <1>0, <2>1, TailTyped, BottleAssumption DEF Typed, PolicySteps, Goes
    <2>3. KindOK(proc'[r])
      BY <1>k, <2>1 DEF KindOK, Same, Goes, DeleteSteps, NetSteps
    <2> QED
      BY <2>1, <2>2, <2>3 DEF Fits, Same, Goes
  <1>4. ASSUME PoliciesRemoved(r) PROVE  Fits(r) /\ proc'[r].kind = proc[r].kind
    <2>1. proc[r].step = "remove policies" /\ proc[r].todo = <<>>
      BY <1>4 DEF PoliciesRemoved, At
    <2>2. Goes(r, "net check", proc[r].todo) \/ Goes(r, "remove bottle", proc[r].todo)
      BY <1>0, <1>4, NetworkEffects
    <2>3. Typed(proc'[r])
      <3>1. <<>> \in Seq(Services)
        OBVIOUS
      <3>2. proc'[r].todo = <<>> /\ proc'[r].step \notin PolicySteps
        BY <2>1, <2>2 DEF PolicySteps, Goes
      <3> QED
        BY <3>1, <3>2 DEF Typed
    <2>4. KindOK(proc'[r])
      BY <1>k, <2>1, <2>2 DEF KindOK, Same, Goes, DeleteSteps, NetSteps
    <2> QED
      BY <2>2, <2>3, <2>4 DEF Fits, Same, Goes
  <1>5. ASSUME \/ CheckNetworkEmpty(r) \/ RemoveBridgeInterface(r) \/ RemoveBridge(r)
               \/ RefreshAfterRemove(r) \/ RemoveNetworkFails(r) \/ RefreshAfterRemoveFails(r),
               ~Ends(r)
        PROVE  Fits(r) /\ proc'[r].kind = proc[r].kind
    <2>1. proc[r].step \in NetSteps /\ proc[r].info \in Bottles
      BY <1>k, <1>5 DEF CheckNetworkEmpty, RemoveBridgeInterface, RemoveBridge, RemoveNetworkFails,
           RefreshAfterRemove, RefreshAfterRemoveFails, At, NetSteps, PreSteps
    <2>2. \/ Goes(r, "net interface", proc[r].todo) \/ Goes(r, "net pool", proc[r].todo)
          \/ Goes(r, "net refresh", proc[r].todo)
          \/ Goes(r, "remove bottle", proc[r].todo) /\ proc[r].kind = "delete"
          \/ Goes(r, "clear network", proc[r].todo) /\ proc[r].kind # "delete"
      BY <1>0, <1>5, NetworkEffects DEF Stays
    <2>3. Typed(proc'[r])
      BY <1>0, <2>1, <2>2 DEF Typed, PolicySteps, Goes, NetSteps
    <2>4. KindOK(proc'[r])
      BY <1>k, <2>1, <2>2 DEF KindOK, Same, Goes, DeleteSteps, NetSteps, RegisterSteps
    <2> QED
      BY <2>2, <2>3, <2>4 DEF Fits, Same, Goes
  <1>6. ASSUME AllDone(r) \/ ContainerFails(r) \/ CommitRemovalFails(r) \/ RemoveBottle(r) PROVE Ends(r)
    BY <1>0, <1>6, EndStepsEffect DEF EndSteps
  <1> QED
    BY <1>e, <1>1, <1>2, <1>3, <1>4, <1>5, <1>6 DEF ActStep, ActionStep

LEMMA RequestFits ==
    ASSUME Shape, NEW r \in Procs, Request(r)
    PROVE  /\ Fits(r) /\ proc[r].step = "idle" /\ requests' > 0
           /\ proc'[r].kind = "register" => requests = 0 /\ bsm = None
  <1>0. TypeOK
    BY ShapeFacts
  <1>1. CASE requests = 0 /\ \E deps \in Deps : RegisterBottle(r, deps)
    <2>1. PICK deps \in Deps : RegisterBottle(r, deps)
      BY <1>1
    <2> DEFINE step == IF \E s \in Services : Unknown \in deps[s] THEN "invalid" ELSE "order"
    <2>2. PICK queue \in Seq(Services) : Enters(r, "register", step, queue)
      BY <1>0, <2>1, RegisterEffect
    <2>3. step \in {"invalid", "order"}
      OBVIOUS
    <2> HIDE DEF step
    <2>4. Typed(proc'[r])
      BY <2>2, <2>3 DEF Typed, Enters, PolicySteps
    <2>5. KindOK(proc'[r])
      BY <2>2, <2>3 DEF KindOK, Enters, RegisterSteps, PreSteps
    <2> QED
      BY <1>1, <2>1, <2>2, <2>4, <2>5 DEF Fits, Enters, RegisterBottle
  <1>2. CASE Start(r) \/ Stop(r) \/ Delete(r)
    <2>a. bsm # None /\ bsm \in Bottles /\ bsm.order \in Seq(Services)
      BY <1>0, <1>2 DEF Start, Stop, Delete, TypeOK, Bottles
    <2>b. requests \in Nat /\ requests' = requests + 1
      BY <1>0, <1>2, BottleAssumption DEF Start, Stop, Delete, Begin, TypeOK
    <2>1. /\ bsm # None /\ bsm \in Bottles /\ bsm.order \in Seq(Services) /\ Reverse(bsm.order) \in Seq(Services)
          /\ requests \in Nat /\ requests' = requests + 1
      BY <2>a, <2>b, SeqReverse
    <2>2. /\ proc'[r].info = bsm
          /\ \/ Enters(r, "start", "starting", bsm.order)
             \/ Enters(r, "stop", "stopping", Reverse(bsm.order))
             \/ Enters(r, "delete", "stop one", Reverse(bsm.order))
      BY <1>0, <1>2, <2>1, RequestEffects
    <2>3. Typed(proc'[r])
      BY <2>1, <2>2 DEF Typed, Enters, PolicySteps
    <2>4. KindOK(proc'[r])
      BY <2>1, <2>2 DEF KindOK, Enters, DeleteSteps
    <2>5. requests' > 0
      BY <2>b
    <2>6. Only(r) /\ proc[r].step = "idle" /\ proc'[r].kind # "register"
      BY <2>2 DEF Enters
    <2> QED
      BY <2>3, <2>4, <2>5, <2>6 DEF Fits
  <1> QED
    BY <1>1, <1>2 DEF Request

LEMMA StepFits ==
    ASSUME Shape, NEW r \in Procs, Step(r)
    PROVE  /\ Fits(r)
           /\ requests' = 0 => requests = 0 /\ ~Request(r)
           /\ proc'[r].kind = "register" /\ proc[r].kind # "register" => requests = 0 /\ bsm = None /\ requests' > 0
           /\ ~Request(r) => proc'[r].kind \in {"none", proc[r].kind} /\ proc[r].step # "idle"
  <1>0. requests \in Nat /\ TypeOK
    BY BottleAssumption, ShapeFacts DEF TypeOK
  <1>1. CASE Request(r)
    BY <1>1, RequestFits
  <1>2. CASE ~Request(r)
    <2>1. Fits(r) /\ proc'[r].kind \in {"none", proc[r].kind}
      BY <1>2, RegisterFits, CreateFits, ActionFits DEF Step
    <2>2. proc[r].step # "idle"
      BY <1>2 DEF Step, RegStep, RegisterStep, MakeStep, CreateStep, ActStep, ActionStep, At,
       BuildStartOrder, OrderBuilt, Refuse, AddUserPolicy, AddUserPolicyFails, CommitPolicies, CommitPoliciesFails,
       StoreBottle, StoreBottleFails, OwnNetworks, StoreBridge, CreateBridgeInterface, RefreshPolicy, RefreshPolicyFails, CommitNetworkUndone,
       CreateBridgeInterfaceFails, CreateNewNetworkFails, UpdateBottleNetwork, UpdateBottleNetworkFails,
       CreateContainer, CreateContainerFails, UpdateBottleContainer, UpdateBottleContainerFails,
       UpdateBottleContainers, Registered, UndoContainer, ClearBottleNetwork, RemoveFailedBottle, FlagPolicy, rollbackPolicies,
       rollbackPoliciesFails, StartContainer, StopContainer, AllDone, StopToDelete, DeleteContainer, ContainerFails,
       ContainersDeleted, RemoveUserPolicy, CommitRemoval, CommitRemovalFails, PoliciesRemoved, CheckNetworkEmpty,
       RemoveBridgeInterface, RemoveBridge, RemoveNetworkFails, RefreshAfterRemove, RefreshAfterRemoveFails, RemoveBottle
    <2>3. requests' = requests \/ requests' > 0
      BY <1>0, CounterSteps
    <2> QED
      BY <1>0, <1>2, <2>1, <2>2, <2>3
  <1> QED
    BY <1>1, <1>2

LEMMA WorldTypes ==
    ASSUME Shape, NEW r \in Procs, Step(r)
    PROVE  /\ bsm' \in Bottles \cup {None}
           /\ csm' \in [Containers -> {"none", "created", "running", "stopped"}]
           /\ pool' \in BOOLEAN /\ bridge' \in BOOLEAN
           /\ npm' \in [ToSet(Policies) -> Status]
           /\ listed' \in [Procs -> [ToSet(Policies) -> Status] \cup {None}]
           /\ listed'[r] = None /\ \A q \in Procs : q # r => listed'[q] = listed[q]
           /\ stale' \subseteq ToSet(Policies) /\ stale \subseteq stale'
  <1>0. /\ TypeOK /\ KindOK(proc[r]) /\ Typed(proc[r]) /\ bsm \in Bottles \cup {None}
        /\ csm \in [Containers -> {"none", "created", "running", "stopped"}]
        /\ pool \in BOOLEAN /\ bridge \in BOOLEAN /\ npm \in [ToSet(Policies) -> Status]
    BY ShapeFacts DEF TypeOK
  <1>1. bsm' \in Bottles \cup {None}
    <2>1. CASE StoreBottle(r)
      BY <1>0, <2>1, StoreBottleEffect
    <2>2. CASE UpdateBottleContainer(r)
      <3>1. Head(proc[r].todo) \in Services
        BY <1>0, <2>2, KindFacts, TailTyped DEF UpdateBottleContainer, At, PolicySteps
      <3> QED
        BY <1>0, <2>2, <3>1 DEF UpdateBottleContainer, Bottles
    <2>3. CASE UpdateBottleNetwork(r) \/ UpdateBottleContainers(r) \/ ClearBottleNetwork(r)
      BY <1>0, <2>3 DEF UpdateBottleNetwork, UpdateBottleContainers, ClearBottleNetwork, Bottles
    <2>4. CASE RemoveFailedBottle(r) \/ RemoveBottle(r)
      BY <2>4 DEF RemoveFailedBottle, RemoveBottle
    <2> QED
      BY <1>0, <2>1, <2>2, <2>3, <2>4, RecordSteps
  <1>2. csm' \in [Containers -> {"none", "created", "running", "stopped"}]
    <2>1. CASE CreateContainer(r) \/ UndoContainer(r) \/ StartContainer(r) \/ DeleteContainer(r)
      BY <1>0, <2>1 DEF CreateContainer, UndoContainer, StartContainer, DeleteContainer, Start_, Delete_
    <2>2. CASE StopContainer(r) \/ StopToDelete(r)
      BY <1>0, <2>2 DEF StopContainer, StopToDelete
    <2> QED
      BY <1>0, <2>1, <2>2, ContainerSteps
  <1>3. pool' \in BOOLEAN /\ bridge' \in BOOLEAN
    BY <1>0, NetworkSteps DEF StoreBridge, CreateBridgeInterface, CreateBridgeInterfaceFails, CreateNewNetworkFails,
         RemoveBridgeInterface, RemoveBridge, RefreshPolicyFails
  <1>4. npm' \in [ToSet(Policies) -> Status]
    <2>1. ASSUME NEW W \in SUBSET ToSet(Policies), Writes(r, W) PROVE npm' \in [ToSet(Policies) -> Status]
      BY <1>0, <2>1 DEF Writes, Outcome, Status
    <2>2. CASE AddUserPolicy(r) \/ RemoveUserPolicy(r) \/ FlagPolicy(r)
      BY <1>0, <2>2 DEF AddUserPolicy, RemoveUserPolicy, FlagPolicy, Status
    <2> QED
      BY <1>0, <2>1, <2>2, PolicyStoreSteps
  <1>5. /\ listed' \in [Procs -> [ToSet(Policies) -> Status] \cup {None}]
        /\ listed'[r] = None /\ \A q \in Procs : q # r => listed'[q] = listed[q]
        /\ stale' \subseteq ToSet(Policies) /\ stale \subseteq stale'
    <2>0. listed \in [Procs -> [ToSet(Policies) -> Status] \cup {None}] /\ stale \subseteq ToSet(Policies)
      BY <1>0 DEF TypeOK
    <2>1. CASE ~Committing(r) /\ UNCHANGED commits
      BY <1>0, <2>0, <2>1 DEF TypeOK, commits
    <2>2. ASSUME NEW W \in SUBSET ToSet(Policies), Writes(r, W)
          PROVE  /\ listed' = [listed EXCEPT ![r] = None]
                 /\ stale' \subseteq ToSet(Policies) /\ stale \subseteq stale'
      BY <2>0, <2>2 DEF Writes, Flagged
    <2> QED
      BY <2>0, <2>1, <2>2 DEF Step, Kept
  <1> QED
    BY <1>1, <1>2, <1>3, <1>4, <1>5

LEMMA ShapeStep ==
    ASSUME Shape, NEW r \in Procs, Step(r)
    PROVE  Shape'
  <1>0. TypeOK /\ OneRegistration /\ \A q \in Procs : KindOK(proc[q]) /\ Typed(proc[q])
    BY DEF Shape, TypeOK, Typed
  <1>1. /\ Fits(r)
        /\ proc'[r].kind = "register" /\ proc[r].kind # "register" => requests = 0 /\ bsm = None /\ requests' > 0
        /\ requests' = 0 => requests = 0 /\ ~Request(r)
        /\ ~Request(r) => proc'[r].kind \in {"none", proc[r].kind} /\ proc[r].step # "idle"
    BY StepFits
  <1>2. \A q \in Procs : KindOK(proc'[q]) /\ Typed(proc'[q])
    BY <1>0, <1>1 DEF Fits, Only
  <1>3. TypeOK'
    <2>1. /\ requests' \in 0..MaxRequests /\ faults' \in 0..MaxFaults /\ halted' \in BOOLEAN /\ late' \in BOOLEAN
      BY <1>0, CounterSteps DEF TypeOK
    <2>2. /\ listed' \in [Procs -> [ToSet(Policies) -> Status] \cup {None}]
          /\ listed'[r] = None /\ \A q \in Procs : q # r => listed'[q] = listed[q]
          /\ stale' \subseteq ToSet(Policies)
      BY WorldTypes
    <2>3. ASSUME NEW q \in Procs, listed'[q] # None PROVE Committing(q)'
      BY <1>0, <1>1, <2>2, <2>3 DEF TypeOK, Fits, Only, Committing
    <2>4. /\ bsm' \in Bottles \cup {None}
          /\ csm' \in [Containers -> {"none", "created", "running", "stopped"}]
          /\ pool' \in BOOLEAN /\ bridge' \in BOOLEAN
          /\ npm' \in [ToSet(Policies) -> Status]
      BY WorldTypes
    <2> QED
      BY <1>1, <1>2, <2>1, <2>2, <2>3, <2>4 DEF TypeOK, Fits, Only, Typed
  <1>4. OneRegistration'
    <2>1. ASSUME NEW q \in Procs, NEW t \in Procs, proc'[q].kind = "register", proc'[t].kind = "register"
          PROVE  q = t
      <3>1. CASE proc'[r].kind = "register" /\ proc[r].kind # "register"
        <4>1. \A u \in Procs : proc[u].kind # "register"
          BY <1>0, <1>1, <3>1, IdleHandler DEF OneRegistration
        <4> QED
          BY <1>1, <2>1, <4>1 DEF Fits, Only
      <3>2. CASE ~(proc'[r].kind = "register" /\ proc[r].kind # "register")
        <4>1. proc[q].kind = "register" /\ proc[t].kind = "register"
          BY <1>1, <2>1, <3>2 DEF Fits, Only
        <4> QED
          BY <1>0, <4>1 DEF OneRegistration
      <3> QED
        BY <3>1, <3>2
    <2>2. requests' # 0
      BY <1>0, <1>1, IdleHandler DEF OneRegistration
    <2> QED
      BY <2>1, <2>2 DEF OneRegistration
  <1> QED
    BY <1>2, <1>3, <1>4 DEF Shape

LEMMA ShapeInit == Init => Shape
  <1> SUFFICES ASSUME Init PROVE Shape
    OBVIOUS
  <1>1. proc \in [Procs -> Handler] /\ \A r \in Procs : proc[r] = Idle
    BY IdleHandler DEF Init
  <1>2. \A r \in Procs : Typed(proc[r])
    <2>1. Typed(Idle)
      BY DEF Typed, Idle, PolicySteps
    <2> QED
      BY <1>1, <2>1
  <1>3. TypeOK
    <2>1. requests \in 0..MaxRequests /\ faults \in 0..MaxFaults
      BY BottleAssumption DEF Init
    <2>2. bsm \in Bottles \cup {None} /\ csm \in [Containers -> {"none", "created", "running", "stopped"}]
      BY DEF Init
    <2>3. npm \in [ToSet(Policies) -> Status]
      BY DEF Init, Status
    <2>4. /\ pool \in BOOLEAN /\ bridge \in BOOLEAN /\ halted \in BOOLEAN /\ late \in BOOLEAN
      BY DEF Init
    <2>5. /\ listed \in [Procs -> [ToSet(Policies) -> Status] \cup {None}] /\ \A r \in Procs : listed[r] = None
          /\ stale \subseteq ToSet(Policies)
      BY DEF Init
    <2> QED
      BY <1>1, <1>2, <2>1, <2>2, <2>3, <2>4, <2>5 DEF TypeOK, Typed
  <1>4. OneRegistration
    BY <1>1, IdleHandler DEF OneRegistration, Init
  <1> QED
    BY <1>1, <1>3, <1>4, IdleHandler DEF Shape

LEMMA OthersEffect ==
    ASSUME TypeOK, Others
    PROVE  /\ proc' = proc /\ bsm' = bsm /\ pool' = pool /\ bridge' = bridge /\ halted' = halted
           /\ faults' = faults /\ requests' \in 0..MaxRequests /\ requests' >= requests /\ late' \in BOOLEAN
           /\ npm' \in [ToSet(Policies) -> Status]
           /\ csm' \in [Containers -> {"none", "created", "running", "stopped"}]
           /\ \A s \in Services : csm'[s] = csm[s]
           /\ \A p \in ToSet(Policies) : npm[p] = "none" => npm'[p] = "none"
           /\ listed' \in [Procs -> [ToSet(Policies) -> Status] \cup {None}]
           /\ \A r \in Procs : listed'[r] # None => Committing(r)
           /\ stale' \subseteq ToSet(Policies) /\ stale \subseteq stale'
  <1>0. requests \in 0..MaxRequests /\ MaxRequests \in Nat /\ late \in BOOLEAN
    BY BottleAssumption DEF TypeOK
  <1>t. /\ listed \in [Procs -> [ToSet(Policies) -> Status] \cup {None}] /\ npm \in [ToSet(Policies) -> Status]
        /\ \A r \in Procs : listed[r] # None => Committing(r)
        /\ stale \subseteq ToSet(Policies)
    BY DEF TypeOK
  <1>1. CASE GuestContainer /\ UNCHANGED commits
    <2>0. requests \in 1..(MaxRequests - 1) /\ requests' = requests + 1
      BY <1>1 DEF GuestContainer
    <2>1. requests' \in 0..MaxRequests /\ requests' >= requests
      BY <1>0, <2>0
    <2>2. late' \in BOOLEAN
      BY <1>0, <1>1 DEF GuestContainer
    <2>3. /\ csm' \in [Containers -> {"none", "created", "running", "stopped"}]
          /\ \A s \in Services : csm'[s] = csm[s]
      BY <1>1, BottleAssumption DEF GuestContainer, TypeOK, Containers
    <2> QED
      BY <1>t, <1>1, <2>1, <2>2, <2>3 DEF GuestContainer, TypeOK, commits
  <1>2. CASE UserRemovesPolicy /\ UNCHANGED commits
    <2>0. requests \in 1..(MaxRequests - 1) /\ requests' = requests + 1
      BY <1>2 DEF UserRemovesPolicy
    <2>1. requests' \in 0..MaxRequests /\ requests' >= requests
      BY <1>0, <2>0
    <2> QED
      BY <1>t, <1>2, <2>1 DEF UserRemovesPolicy, TypeOK, ghosts, commits, Status
  <1>3. CASE OtherCommit
    <2>1. /\ npm' \in [ToSet(Policies) -> Status]
          /\ \A p \in ToSet(Policies) : npm[p] = "none" => npm'[p] = "none"
          /\ stale' \subseteq ToSet(Policies) /\ stale \subseteq stale'
      BY <1>t, <1>3 DEF OtherCommit, Status
    <2> QED
      BY <1>0, <1>t, <1>3, <2>1 DEF OtherCommit, TypeOK, ghosts, bounds
  <1>4. ASSUME NEW q \in Procs, ListPolicies(q)
        PROVE  /\ UNCHANGED <<bsm, csm, pool, bridge, npm, proc, halted, late, stale, requests, faults>>
               /\ listed' \in [Procs -> [ToSet(Policies) -> Status] \cup {None}]
               /\ \A r \in Procs : listed'[r] # None => Committing(r)
    BY <1>t, <1>4 DEF ListPolicies, world, ghosts, bounds
  <1>5. CASE \E q \in Procs : ListPolicies(q)
    BY <1>0, <1>t, <1>4, <1>5 DEF TypeOK
  <1> QED
    BY <1>1, <1>2, <1>3, <1>5 DEF Others

LEMMA ShapeNext == Shape /\ [Next]_vars => Shape'
  <1> SUFFICES ASSUME Shape, [Next]_vars PROVE Shape'
    OBVIOUS
  <1>1. CASE UNCHANGED vars
    BY <1>1 DEF vars, Shape, TypeOK, OneRegistration, Committing
  <1>2. CASE ~UNCHANGED vars
    <2>2. ASSUME NEW r \in Procs, Step(r) PROVE Shape'
      BY <2>2, ShapeStep
    <2>3. CASE Others
      <3>1. TypeOK
        BY DEF Shape
      <3>2. TypeOK'
        BY <2>3, <3>1, OthersEffect, BottleAssumption DEF TypeOK, Committing
      <3> QED
        BY <2>3, <3>1, <3>2, OthersEffect, BottleAssumption DEF Shape, TypeOK, OneRegistration
    <2> QED
      BY <1>2, <2>2, <2>3, NextCases
  <1> QED
    BY <1>1, <1>2

\* Spec => []TypeOK: the record, the stores and the requests keep their types,
\* and a request is at a step of its handler, with what that step needs.
THEOREM BottleTypeCorrect == Spec => [](TypeOK /\ Shape)
  <1>1. Shape => TypeOK
    BY DEF Shape
  <1> QED
    BY <1>1, ShapeInit, ShapeNext, PTL DEF Spec

-----------------------------------------------------------------------------
\* The order of the services.
LEMMA RecordEffects ==
    ASSUME Shape, NEW r \in Procs
    PROVE  /\ UpdateBottleContainer(r) =>
                 /\ bsm \in Bottles /\ bsm' \in Bottles /\ bsm'.order = bsm.order /\ bsm'.deps = bsm.deps
                 /\ bsm'.network = bsm.network /\ bsm'.containers = bsm.containers \cup {Head(proc[r].todo)}
           /\ UpdateBottleContainers(r) /\ bsm # None =>
                 /\ bsm \in Bottles /\ bsm' \in Bottles /\ bsm'.order = bsm.order /\ bsm'.deps = bsm.deps
                 /\ bsm'.network = bsm.network /\ bsm'.containers = {}
           /\ ClearBottleNetwork(r) /\ bsm # None =>
                 /\ bsm \in Bottles /\ bsm' \in Bottles /\ bsm'.order = bsm.order /\ bsm'.deps = bsm.deps
                 /\ bsm'.network = FALSE /\ bsm'.containers = bsm.containers
           /\ (UpdateBottleContainers(r) \/ ClearBottleNetwork(r)) /\ bsm = None => bsm' = None
           /\ RemoveFailedBottle(r) \/ RemoveBottle(r) => bsm' = None
  <1>1. bsm # None => bsm \in Bottles
    BY DEF Shape, TypeOK
  <1>2. ASSUME UpdateBottleContainer(r)
        PROVE  /\ bsm \in Bottles /\ bsm' \in Bottles /\ bsm'.order = bsm.order /\ bsm'.deps = bsm.deps
               /\ bsm'.network = bsm.network /\ bsm'.containers = bsm.containers \cup {Head(proc[r].todo)}
    <2>1. proc[r].step = "record" /\ bsm \in Bottles
      BY <1>1, <1>2 DEF UpdateBottleContainer, At
    <2>2. Head(proc[r].todo) \in Services
      BY <2>1, ShapeFacts, KindFacts, TailTyped DEF PolicySteps
    <2>3. bsm' = [bsm EXCEPT !.containers = bsm.containers \cup {Head(proc[r].todo)}]
      BY <1>2 DEF UpdateBottleContainer
    <2> QED
      BY <2>1, <2>2, <2>3 DEF Bottles
  <1>3. ASSUME UpdateBottleContainers(r), bsm # None
        PROVE  /\ bsm \in Bottles /\ bsm' \in Bottles /\ bsm'.order = bsm.order /\ bsm'.deps = bsm.deps
               /\ bsm'.network = bsm.network /\ bsm'.containers = {}
    BY <1>1, <1>3 DEF UpdateBottleContainers, Bottles
  <1>4. ASSUME ClearBottleNetwork(r), bsm # None
        PROVE  /\ bsm \in Bottles /\ bsm' \in Bottles /\ bsm'.order = bsm.order /\ bsm'.deps = bsm.deps
               /\ bsm'.network = FALSE /\ bsm'.containers = bsm.containers
    BY <1>1, <1>4 DEF ClearBottleNetwork, Bottles
  <1>5. /\ (UpdateBottleContainers(r) \/ ClearBottleNetwork(r)) /\ bsm = None => bsm' = None
        /\ RemoveFailedBottle(r) \/ RemoveBottle(r) => bsm' = None
    BY DEF UpdateBottleContainers, ClearBottleNetwork, RemoveFailedBottle, RemoveBottle
  <1> QED
    BY <1>2, <1>3, <1>4, <1>5

LEMMA RegisterOrdered ==
    ASSUME Shape, OrderInv, NEW r \in Procs, RegStep(r), proc'[r].kind = "register"
    PROVE  Ordered(proc'[r])
  <1>0. TypeOK /\ KindOK(proc[r]) /\ Typed(proc[r]) /\ proc[r] \in Handler
    BY ShapeFacts
  <1>k. proc[r].kind = "register" /\ Ordered(proc[r])
    BY RegisterFits DEF OrderInv
  <1>d. proc[r].order \in Seq(Services) /\ proc[r].deps \in Deps
    BY <1>0 DEF Handler
  <1>1. CASE BuildStartOrder(r)
    <2>1. proc[r].step = "order" /\ proc[r].todo # <<>> /\ proc[r].todo \in Seq(Services)
      BY <1>0, <1>1 DEF BuildStartOrder, At, Typed, PolicySteps
    <2>2. PICK next \in Seq(Services) :
              /\ Distinct(next) /\ ToSet(next) = Ready(r, Head(proc[r].todo))
              /\ proc'[r].deps = proc[r].deps /\ proc'[r].step = "order"
              /\ proc'[r].order = Append(proc[r].order, Head(proc[r].todo))
              /\ proc'[r].todo = Tail(proc[r].todo) \o next
      BY <1>0, <1>1, BuildStartOrderEffect DEF Same
    <2>3. Queued(proc[r])
      BY <1>k, <2>1 DEF Ordered
    <2>4. ToSet(next) = {s \in Services : /\ Head(proc[r].todo) \in proc[r].deps[s]
                                          /\ proc[r].deps[s] \subseteq ToSet(proc[r].order) \cup {Head(proc[r].todo)}}
      BY <2>2 DEF Ready
    <2>5. Queued(proc'[r])
      <3> DEFINE order == proc[r].order
                 todo == proc[r].todo
                 deps == proc[r].deps
      <3>1. /\ order \in Seq(Services) /\ todo \in Seq(Services) /\ deps \in Deps /\ todo # <<>>
            /\ ToSet(next) = {s \in Services : /\ Head(todo) \in deps[s]
                                               /\ deps[s] \subseteq ToSet(order) \cup {Head(todo)}}
        BY <1>d, <2>1, <2>4
      <3>2. /\ Distinct(order) /\ Distinct(todo) /\ ToSet(order) \cap ToSet(todo) = {}
            /\ ToSet(order) \cup ToSet(todo) = {s \in Services : deps[s] \subseteq ToSet(order)}
            /\ InOrder(order, deps) /\ \A s \in Services : Unknown \notin deps[s]
        BY <2>3 DEF Queued
      <3>3. proc'[r].order = Append(order, Head(todo)) /\ proc'[r].todo = Tail(todo) \o next /\ proc'[r].deps = deps
        BY <2>2
      <3> HIDE DEF order, todo, deps
      <3>4. LET o == Append(order, Head(todo))
                t == Tail(todo) \o next
            IN  /\ Distinct(o) /\ Distinct(t) /\ ToSet(o) \cap ToSet(t) = {}
                /\ ToSet(o) \cup ToSet(t) = {s \in Services : deps[s] \subseteq ToSet(o)}
                /\ InOrder(o, deps)
        BY <2>2, <3>1, <3>2, KahnRound
      <3> QED
        BY <3>2, <3>3, <3>4 DEF Queued
    <2> QED
      BY <2>2, <2>5 DEF Ordered, CreateSteps, OpenSteps
  <1>2. CASE OrderBuilt(r)
    <2>1. proc[r].step = "order" /\ proc[r].todo = <<>>
      BY <1>2 DEF OrderBuilt, At
    <2>2. /\ proc'[r].deps = proc[r].deps /\ proc'[r].order = proc[r].order
          /\ \/ Len(proc[r].order) = Cardinality(Services) /\ proc'[r].step = "policies"
             \/ Len(proc[r].order) # Cardinality(Services) /\ proc'[r].step = "invalid"
      <3>1. \/ Len(proc[r].order) = Cardinality(Services) /\
                 proc' = [proc EXCEPT ![r] = [proc[r] EXCEPT !.step = "policies", !.todo = Policies]]
            \/ Len(proc[r].order) # Cardinality(Services) /\ Goto(r, "invalid")
        BY <1>2 DEF OrderBuilt
      <3>2. Policies \in Todos /\ "policies" \in Steps /\ "invalid" \in Steps
        BY BottleAssumption DEF Todos, Steps, PolicySteps
      <3>3. \/ Len(proc[r].order) = Cardinality(Services) /\ Goes(r, "policies", Policies)
            \/ Len(proc[r].order) # Cardinality(Services) /\ Goes(r, "invalid", proc[r].todo)
        BY <1>0, <3>1, <3>2, TodoEffect, GotoEffect
      <3> QED
        BY <3>3 DEF Goes, Same
    <2>3. Queued(proc[r]) /\ ToSet(proc[r].todo) = {}
      BY <1>k, <2>1 DEF Ordered, ToSet
    <2>4. IF Len(proc[r].order) = Cardinality(Services) THEN Sorted(proc[r].order, proc[r].deps)
          ELSE Cyclic(proc[r].deps)
      BY <1>d, <2>3, KahnEnd DEF Queued
    <2> QED
      BY <2>2, <2>4 DEF Ordered, CreateSteps, OpenSteps
  <1>3. CASE AddUserPolicy(r) \/ CommitPolicies(r) \/ AddUserPolicyFails(r) \/ StoreBottleFails(r)
    <2>1. proc[r].step \in {"policies", "store"}
      BY <1>3 DEF AddUserPolicy, CommitPolicies, AddUserPolicyFails, StoreBottleFails, At
    <2>2. \E step \in {"policies", "store", "undo policies"} : \E todo : Goes(r, step, todo)
      BY <1>0, <1>3, RegisterEffects
    <2> QED
      BY <1>k, <2>1, <2>2 DEF Ordered, CreateSteps, OpenSteps, Goes, Same
  <1>4. CASE StoreBottle(r)
    <2>1. Sorted(proc[r].order, proc[r].deps)
      BY <1>k, <1>4 DEF StoreBottle, At, Ordered
    <2>2. /\ proc'[r].deps = proc[r].deps /\ proc'[r].step = "network" /\ proc'[r].todo = proc[r].order
          /\ proc'[r].info.order = proc[r].order /\ proc'[r].info.deps = proc[r].deps
      BY <1>0, <1>4, StoreBottleEffect DEF Same
    <2>3. Suffix(proc[r].order, proc[r].order)
      BY <1>d DEF Suffix
    <2> QED
      BY <2>1, <2>2, <2>3 DEF Ordered, CreateSteps, OpenSteps
  <1>5. CASE Refuse(r) \/ CommitPoliciesFails(r)
    BY <1>0, <1>5, EndStepsEffect, EndFits DEF EndSteps
  <1> QED
    BY <1>1, <1>2, <1>3, <1>4, <1>5 DEF RegStep, RegisterStep

LEMMA CreateOrdered ==
    ASSUME Shape, OrderInv, NEW r \in Procs, MakeStep(r), proc'[r].kind = "register"
    PROVE  Ordered(proc'[r])
  <1>0. TypeOK /\ KindOK(proc[r]) /\ Typed(proc[r]) /\ proc[r] \in Handler
    BY ShapeFacts
  <1>k. proc[r].kind = "register" /\ Ordered(proc[r])
    BY CreateFits DEF OrderInv
  <1>1. CASE OwnNetworks(r) \/ StoreBridge(r) \/ CreateBridgeInterface(r) \/ RefreshPolicy(r)
    <2>1. proc[r].step \in OpenSteps
      BY <1>1 DEF OwnNetworks, StoreBridge, CreateBridgeInterface, RefreshPolicy, At, OpenSteps
    <2>2. \E step \in {"containers", "interface", "refresh", "record network"} : Goes(r, step, proc[r].todo)
      BY <1>0, <1>1, CreateEffects
    <2> QED
      BY <1>k, <2>1, <2>2 DEF Ordered, CreateSteps, OpenSteps, Goes, Same
  <1>2. CASE \/ CreateBridgeInterfaceFails(r) \/ CreateNewNetworkFails(r) \/ ClearBottleNetwork(r)
             \/ UpdateBottleNetworkFails(r) \/ CreateContainerFails(r) \/ UpdateBottleContainerFails(r)
             \/ UpdateBottleContainers(r) \/ RemoveFailedBottle(r) \/ FlagPolicy(r)
             \/ RefreshPolicyFails(r) \/ CommitNetworkUndone(r)
    <2>1. \E step \in {"undo network", "undo bottle", "net check", "undo containers", "undo policies"} :
             \E todo : Goes(r, step, todo)
      BY <1>0, <1>2, CreateEffects, RegisterEffects
    <2> QED
      BY <2>1 DEF Ordered, CreateSteps, OpenSteps, Goes
  <1>3. CASE UndoContainer(r)
    BY <1>0, <1>3, CreateEffects DEF Ordered, CreateSteps, OpenSteps, Makes
  <1>4. CASE UpdateBottleNetwork(r)
    <2>1. proc[r].step = "record network" /\ proc[r].info \in Bottles
      BY <1>0, <1>4, KindFacts DEF UpdateBottleNetwork, At, PreSteps, RegisterSteps, OpenSteps, NetSteps
    <2>2. /\ proc'[r].deps = proc[r].deps /\ proc'[r].step = "containers" /\ proc'[r].todo = proc[r].todo
          /\ proc'[r].info.order = proc[r].info.order /\ proc'[r].info.deps = proc[r].info.deps
      BY <1>0, <1>4, <2>1, UpdateBottleNetworkEffect DEF Same
    <2> QED
      BY <1>k, <2>1, <2>2 DEF Ordered, CreateSteps, OpenSteps
  <1>5. CASE CreateContainer(r)
    <2>1. proc[r].step = "containers"
      BY <1>5 DEF CreateContainer, At
    <2>2. \E made : Makes(r, "record", made)
      BY <1>0, <1>5, CreateEffects
    <2> QED
      BY <1>k, <2>1, <2>2 DEF Ordered, CreateSteps, OpenSteps, Makes, Same
  <1>6. CASE UpdateBottleContainer(r)
    <2>1. proc[r].step = "record" /\ proc[r].todo # <<>> /\ proc[r].todo \in Seq(Services)
      BY <1>0, <1>6, KindFacts DEF UpdateBottleContainer, At, Typed, PolicySteps
    <2>2. Goes(r, "containers", Tail(proc[r].todo))
      BY <1>0, <1>6, <2>1, CreateEffects
    <2>3. proc[r].info.order \in Seq(Services)
      BY <1>0, <1>k, <2>1, KindFacts DEF Bottles, PreSteps
    <2>4. Suffix(Tail(proc[r].todo), proc[r].info.order)
      BY <1>k, <2>1, <2>3, SuffixTail DEF Ordered, CreateSteps
    <2> QED
      BY <1>k, <2>1, <2>2, <2>4 DEF Ordered, CreateSteps, OpenSteps, Goes, Same
  <1>7. CASE Registered(r) \/ rollbackPolicies(r) \/ rollbackPoliciesFails(r)
    BY <1>0, <1>7, EndStepsEffect, EndFits DEF EndSteps
  <1> QED
    BY <1>1, <1>2, <1>3, <1>4, <1>5, <1>6, <1>7 DEF MakeStep, CreateStep

LEMMA OrderStep ==
    ASSUME Shape, OrderInv, NEW r \in Procs, Step(r)
    PROVE  OrderInv'
  <1>0. TypeOK /\ KindOK(proc[r]) /\ Typed(proc[r]) /\ proc[r] \in Handler
    BY ShapeFacts
  <1>o. Only(r)
    BY StepFits DEF Fits
  <1>1. bsm' # None => Sorted(bsm'.order, bsm'.deps)
    <2>1. CASE StoreBottle(r)
      <3>1. proc[r].kind = "register" /\ proc[r].step = "store"
        BY <1>0, <2>1, KindFacts DEF StoreBottle, At, RegisterSteps, PreSteps, NetSteps
      <3>2. Sorted(proc[r].order, proc[r].deps)
        BY <3>1 DEF OrderInv, Ordered
      <3> QED
        BY <1>0, <2>1, <3>2, StoreBottleEffect
    <2>2. CASE UpdateBottleNetwork(r)
      <3>1. proc[r].info \in Bottles /\ bsm # None
        BY <1>0, <2>2, KindFacts DEF UpdateBottleNetwork, At, RegisterSteps, OpenSteps, PreSteps, NetSteps
      <3> QED
        BY <1>0, <2>2, <3>1, UpdateBottleNetworkEffect DEF OrderInv
    <2>3. CASE UpdateBottleContainer(r) \/ UpdateBottleContainers(r) \/ ClearBottleNetwork(r)
      <3>1. bsm' # None => bsm # None
        BY <2>3, RecordEffects, BottleAssumption
      <3> QED
        BY <2>3, <3>1, RecordEffects DEF OrderInv
    <2>4. CASE RemoveFailedBottle(r) \/ RemoveBottle(r)
      BY <2>4, RecordEffects
    <2> QED
      BY <2>1, <2>2, <2>3, <2>4, RecordSteps DEF OrderInv
  <1>2. proc'[r].kind = "register" => Ordered(proc'[r])
    <2>1. CASE Request(r)
      <3>1. CASE requests = 0 /\ \E deps \in Deps : RegisterBottle(r, deps)
        <4>1. PICK deps \in Deps : RegisterBottle(r, deps)
          BY <3>1
        <4>2. PICK queue \in Seq(Services) :
              /\ Distinct(queue) /\ ToSet(queue) = NoDeps(deps)
              /\ Enters(r, "register", IF \E s \in Services : Unknown \in deps[s] THEN "invalid" ELSE "order", queue)
              /\ proc'[r].deps = deps
          BY <1>0, <4>1, RegisterEffect
        <4>3. CASE \E s \in Services : Unknown \in deps[s]
          BY <4>2, <4>3 DEF Enters, Ordered, CreateSteps, OpenSteps
        <4>4. CASE ~\E s \in Services : Unknown \in deps[s]
          <5>1. proc'[r].step = "order" /\ proc'[r].order = <<>> /\ proc'[r].todo = queue
            BY <4>2, <4>4 DEF Enters
          <5>2. ToSet(<<>>) = {} /\ Distinct(<<>>) /\ InOrder(<<>>, deps)
            BY DEF ToSet, Distinct, InOrder
          <5>3. NoDeps(deps) = {s \in Services : deps[s] \subseteq {}}
            BY DEF NoDeps
          <5>4. Queued(proc'[r])
            BY <4>2, <4>4, <5>1, <5>2, <5>3 DEF Queued
          <5> QED
            BY <5>1, <5>4 DEF Ordered, CreateSteps, OpenSteps
        <4> QED
          BY <4>3, <4>4
      <3>2. CASE Start(r) \/ Stop(r) \/ Delete(r)
        <4>1. bsm # None
          BY <3>2 DEF Start, Stop, Delete
        <4> QED
          BY <1>0, <3>2, <4>1, RequestEffects DEF Enters
      <3> QED
        BY <2>1, <3>1, <3>2 DEF Request
    <2>2. CASE RegStep(r)
      BY <2>2, RegisterOrdered
    <2>3. CASE MakeStep(r)
      BY <2>3, CreateOrdered
    <2>4. CASE ActStep(r)
      <3>1. ASSUME proc'[r].kind = "register" PROVE Ordered(proc'[r])
        <4>1. proc[r].kind = "register" /\ ~Ends(r)
          BY <2>4, <3>1, ActionFits, EndFits
        <4>2. proc[r].step \in NetSteps
          <5>1. proc[r].step \in RegisterSteps
            BY <1>0, <4>1, KindFacts
          <5> QED
            BY <2>4, <5>1 DEF ActStep, ActionStep, StartContainer, StopContainer, AllDone, StopToDelete, DeleteContainer,
                 ContainerFails, ContainersDeleted, RemoveUserPolicy, CommitRemoval, CommitRemovalFails, PoliciesRemoved,
                 CheckNetworkEmpty, RemoveBridgeInterface, RemoveBridge, RemoveNetworkFails, RefreshAfterRemove, RefreshAfterRemoveFails,
                 RemoveBottle, At, RegisterSteps, PreSteps, OpenSteps, NetSteps
        <4>3. \/ CheckNetworkEmpty(r) \/ RemoveBridgeInterface(r) \/ RemoveBridge(r)
              \/ RefreshAfterRemove(r) \/ RemoveNetworkFails(r) \/ RefreshAfterRemoveFails(r)
          BY <2>4, <4>2 DEF ActStep, ActionStep, StartContainer, StopContainer, AllDone, StopToDelete, DeleteContainer,
                 ContainerFails, ContainersDeleted, RemoveUserPolicy, CommitRemoval, CommitRemovalFails, PoliciesRemoved,
                 RemoveBottle, At, NetSteps
        <4>4. \E step \in {"net interface", "net pool", "net refresh", "clear network"} : Goes(r, step, proc[r].todo)
          BY <1>0, <4>1, <4>3, NetworkEffects DEF Stays
        <4> QED
          BY <4>4 DEF Goes, Ordered, CreateSteps, OpenSteps
      <3> QED
        BY <3>1
    <2> QED
      BY <2>1, <2>2, <2>3, <2>4 DEF Step
  <1>3. proc'[r].kind = "delete" => Sorted(proc'[r].info.order, proc'[r].info.deps)
    <2> SUFFICES ASSUME proc'[r].kind = "delete" PROVE Sorted(proc'[r].info.order, proc'[r].info.deps)
      OBVIOUS
    <2>1. CASE Request(r)
      <3>1. CASE requests = 0 /\ \E deps \in Deps : RegisterBottle(r, deps)
        <4>1. PICK deps \in Deps : RegisterBottle(r, deps)
          BY <3>1
        <4>2. proc'[r].kind = "register"
          BY <1>0, <4>1, RegisterEffect DEF Enters
        <4> QED
          BY <4>2
      <3>2. CASE Start(r) \/ Stop(r) \/ Delete(r)
        <4>1. bsm # None
          BY <3>2 DEF Start, Stop, Delete
        <4> QED
          BY <1>0, <3>2, <4>1, RequestEffects DEF OrderInv
      <3> QED
        BY <2>1, <3>1, <3>2 DEF Request
    <2>2. CASE ~Request(r)
      <3>1. proc[r].kind = "delete" /\ proc'[r] # Idle
        BY <2>2, StepFits, IdleHandler
      <3>2. ActStep(r)
        <4>1. proc[r].step \in DeleteSteps
          BY <1>0, <3>1, KindFacts
        <4> QED
          BY <2>2, <4>1 DEF Step, RegStep, RegisterStep, MakeStep, CreateStep, At,
       BuildStartOrder, OrderBuilt, Refuse, AddUserPolicy, AddUserPolicyFails, CommitPolicies, CommitPoliciesFails,
       StoreBottle, StoreBottleFails, OwnNetworks, StoreBridge, CreateBridgeInterface, RefreshPolicy, RefreshPolicyFails, CommitNetworkUndone,
       CreateBridgeInterfaceFails, CreateNewNetworkFails, UpdateBottleNetwork, UpdateBottleNetworkFails,
       CreateContainer, CreateContainerFails, UpdateBottleContainer, UpdateBottleContainerFails,
       UpdateBottleContainers, Registered, UndoContainer, ClearBottleNetwork, RemoveFailedBottle, FlagPolicy, rollbackPolicies,
       rollbackPoliciesFails, DeleteSteps, NetSteps
      <3>3. proc'[r].info = proc[r].info
        <4>1. DeleteContainer(r) \/ CommitRemoval(r) => proc[r].todo # <<>>
          BY <1>0, KindFacts DEF DeleteContainer, CommitRemoval, At
        <4>2. ~EndSteps(r)
          BY <1>0, <3>1, EndStepsEffect DEF Ends
        <4> QED
          BY <1>0, <3>1, <3>2, <4>1, <4>2, ActionEffects, NetworkEffects DEF ActStep, ActionStep, EndSteps, Goes, Ends, Stays
      <3> QED
        BY <3>1, <3>3 DEF OrderInv
    <2> QED
      BY <2>1, <2>2
  <1>4. \A q \in Procs : q # r => proc'[q] = proc[q]
    BY <1>o DEF Only
  <1> QED
    BY <1>1, <1>2, <1>3, <1>4 DEF OrderInv

LEMMA OrderInit == Init => OrderInv
  BY IdleHandler DEF Init, OrderInv

LEMMA OrderNext == Shape /\ OrderInv /\ [Next]_vars => OrderInv'
  <1> SUFFICES ASSUME Shape, OrderInv, [Next]_vars PROVE OrderInv'
    OBVIOUS
  <1>1. CASE UNCHANGED vars
    BY <1>1 DEF vars, OrderInv
  <1>2. CASE \E r \in Procs : Step(r)
    BY <1>2, OrderStep
  <1>3. CASE Others
    BY <1>3, OthersEffect DEF OrderInv, Shape
  <1> QED
    BY <1>1, <1>2, <1>3, NextCases

-----------------------------------------------------------------------------
\* What a deletion and a registration do, of all steps.
DeleteActs(r) ==
    \/ StopToDelete(r) \/ DeleteContainer(r) \/ ContainerFails(r) \/ ContainersDeleted(r)
    \/ RemoveUserPolicy(r) \/ CommitRemoval(r) \/ CommitRemovalFails(r) \/ PoliciesRemoved(r)
    \/ CheckNetworkEmpty(r) \/ RemoveBridgeInterface(r) \/ RemoveBridge(r) \/ RefreshAfterRemove(r)
    \/ RemoveNetworkFails(r) \/ RefreshAfterRemoveFails(r) \/ RemoveBottle(r)

NetActs(r) ==
    \/ CheckNetworkEmpty(r) \/ RemoveBridgeInterface(r) \/ RemoveBridge(r) \/ RefreshAfterRemove(r)
    \/ RemoveNetworkFails(r) \/ RefreshAfterRemoveFails(r)

LEMMA KindActs ==
    ASSUME Shape, NEW r \in Procs, Step(r)
    PROVE  /\ proc[r].kind = "delete" => DeleteActs(r)
           /\ proc[r].kind = "register" => RegStep(r) \/ MakeStep(r) \/ NetActs(r)
           /\ proc[r].kind = "start" => StartContainer(r) \/ AllDone(r) \/ ContainerFails(r)
           /\ proc[r].kind = "stop" => StopContainer(r) \/ AllDone(r) \/ ContainerFails(r)
           /\ proc[r].kind = "none" => Request(r)
           /\ Request(r) => proc[r].kind = "none"
  <1>0. KindOK(proc[r])
    BY ShapeFacts
  <1>1. Request(r) => proc[r].kind = "none"
    BY <1>0, RequestFits, KindFacts, IdleHandler
  <1>2. ~Request(r) => proc[r].kind # "none"
    BY <1>0, StepFits, KindFacts, IdleHandler
  <1>3. ASSUME ~Request(r), proc[r].kind \in {"delete", "start", "stop"} PROVE ActStep(r)
    <2>1. proc[r].step \in DeleteSteps \cup {"starting", "stopping"}
      BY <1>0, <1>3, KindFacts
    <2> QED
      BY <1>3, <2>1 DEF Step, RegStep, RegisterStep, MakeStep, CreateStep, At,
       BuildStartOrder, OrderBuilt, Refuse, AddUserPolicy, AddUserPolicyFails, CommitPolicies, CommitPoliciesFails,
       StoreBottle, StoreBottleFails, OwnNetworks, StoreBridge, CreateBridgeInterface, RefreshPolicy, RefreshPolicyFails, CommitNetworkUndone,
       CreateBridgeInterfaceFails, CreateNewNetworkFails, UpdateBottleNetwork, UpdateBottleNetworkFails,
       CreateContainer, CreateContainerFails, UpdateBottleContainer, UpdateBottleContainerFails,
       UpdateBottleContainers, Registered, UndoContainer, ClearBottleNetwork, RemoveFailedBottle, FlagPolicy, rollbackPolicies,
       rollbackPoliciesFails, DeleteSteps, NetSteps
  <1>4. ASSUME proc[r].kind = "delete" PROVE DeleteActs(r)
    <2>1. ActStep(r) /\ proc[r].step \in DeleteSteps
      BY <1>0, <1>1, <1>3, <1>4, KindFacts
    <2> QED
      BY <2>1 DEF ActStep, ActionStep, DeleteActs, StartContainer, StopContainer, AllDone, At, DeleteSteps, NetSteps
  <1>5. ASSUME proc[r].kind \in {"start", "stop"}
        PROVE  StartContainer(r) \/ StopContainer(r) \/ AllDone(r) \/ ContainerFails(r)
    <2>1. ActStep(r) /\ proc[r].step \in {"starting", "stopping"}
      BY <1>0, <1>1, <1>3, <1>5, KindFacts
    <2> QED
      BY <2>1 DEF ActStep, ActionStep, StopToDelete, DeleteContainer, ContainersDeleted, RemoveUserPolicy,
           CommitRemoval, CommitRemovalFails, PoliciesRemoved, CheckNetworkEmpty, RemoveBridgeInterface, RemoveBridge,
           RemoveNetworkFails, RefreshAfterRemove, RefreshAfterRemoveFails, RemoveBottle, At
  <1>6. /\ StartContainer(r) => proc[r].kind = "start"
        /\ StopContainer(r) => proc[r].kind = "stop"
    BY <1>0, KindFacts DEF StartContainer, StopContainer, At
  <1>7. ASSUME proc[r].kind = "register" PROVE RegStep(r) \/ MakeStep(r) \/ NetActs(r)
    <2>1. proc[r].step \in RegisterSteps /\ ~Request(r)
      BY <1>0, <1>1, <1>7, KindFacts
    <2> QED
      BY <2>1 DEF Step, ActStep, ActionStep, NetActs, StartContainer, StopContainer, AllDone, StopToDelete, DeleteContainer,
           ContainerFails, ContainersDeleted, RemoveUserPolicy, CommitRemoval, CommitRemovalFails, PoliciesRemoved,
           RemoveBottle, At, RegisterSteps, PreSteps, OpenSteps, NetSteps
  <1> QED
    BY <1>1, <1>2, <1>4, <1>5, <1>6, <1>7

LEMMA DeleteKeepsInfo ==
    ASSUME Shape, NEW r \in Procs, Step(r), proc[r].kind = "delete"
    PROVE  proc'[r] = Idle \/ (proc'[r].kind = "delete" /\ proc'[r].info = proc[r].info)
  <1>0. TypeOK /\ KindOK(proc[r]) /\ DeleteActs(r)
    BY ShapeFacts, KindActs
  <1>1. DeleteContainer(r) \/ CommitRemoval(r) => proc[r].todo # <<>>
    BY <1>0, KindFacts DEF DeleteContainer, CommitRemoval, At
  <1>2. EndSteps(r) => proc'[r] = Idle
    BY <1>0, EndStepsEffect DEF Ends
  <1>3. ~EndSteps(r) => Ends(r) \/ \E step, todo : Goes(r, step, todo)
    BY <1>0, <1>1, ActionEffects, NetworkEffects DEF DeleteActs, EndSteps, Stays
  <1> QED
    BY <1>2, <1>3 DEF Goes, Same, Ends

\* A request that is no registration changes the record only as its last step of
\* a deletion.
LEMMA OtherRecord ==
    ASSUME Shape, NEW r \in Procs, Step(r), proc[r].kind # "register"
    PROVE  bsm' = bsm \/ (RemoveBottle(r) /\ proc[r].kind = "delete" /\ proc[r].step = "remove bottle")
  <1>0. KindOK(proc[r])
    BY ShapeFacts
  <1>1. proc[r].step \notin RegisterSteps \ NetSteps
    BY <1>0, KindFacts
  <1>2. bsm' = bsm \/ RemoveBottle(r)
    BY <1>1, RecordSteps DEF StoreBottle, UpdateBottleNetwork, UpdateBottleContainer, UpdateBottleContainers,
         RemoveFailedBottle, ClearBottleNetwork, At, RegisterSteps, PreSteps, OpenSteps, NetSteps
  <1>3. RemoveBottle(r) => proc[r].kind = "delete" /\ proc[r].step = "remove bottle"
    BY <1>0, KindFacts DEF RemoveBottle, At, DeleteSteps, NetSteps
  <1> QED
    BY <1>2, <1>3

\* What an action of a registration that is over, or a deletion without a
\* complete record, leaves as it is.
Passive(r) == Ends(r) /\ UNCHANGED <<bsm, csm, pool, bridge, npm, halted>>

LEMMA DeletePassive ==
    ASSUME Shape, NEW r \in Procs, Step(r), proc[r].kind = "delete", Partial(proc[r]), ~Complete(proc[r].info)
    PROVE  Passive(r)
  <1>0. TypeOK /\ DeleteActs(r)
    BY ShapeFacts, KindActs
  <1>1. proc[r].step = "stop one" /\ proc[r].todo # <<>> /\ Head(proc[r].todo) \notin proc[r].info.containers
    BY DEF Partial
  <1>2. StopToDelete(r) \/ ContainerFails(r)
    BY <1>0, <1>1 DEF DeleteActs, DeleteContainer, ContainersDeleted, RemoveUserPolicy, CommitRemoval, CommitRemovalFails,
         PoliciesRemoved, CheckNetworkEmpty, RemoveBridgeInterface, RemoveBridge, RemoveNetworkFails,
         RefreshAfterRemove, RefreshAfterRemoveFails, RemoveBottle, At
  <1>3. End(r) /\ UNCHANGED <<bsm, csm, pool, bridge, npm, halted>>
    BY <1>1, <1>2 DEF StopToDelete, ContainerFails, world, ghosts
  <1> QED
    BY <1>0, <1>3, EndEffect DEF Passive

LEMMA RegisteredPassive ==
    ASSUME Shape, NEW r \in Procs, Step(r), proc[r].kind = "register", ~Creating(r)
    PROVE  Passive(r)
  <1>0. TypeOK /\ (RegStep(r) \/ MakeStep(r) \/ NetActs(r))
    BY ShapeFacts, KindActs
  <1>1. proc[r].step = "containers" /\ proc[r].todo = <<>>
    BY DEF Creating
  <1>2. Registered(r)
    BY <1>0, <1>1 DEF RegStep, RegisterStep, MakeStep, CreateStep, NetActs, At,
       BuildStartOrder, OrderBuilt, Refuse, AddUserPolicy, AddUserPolicyFails, CommitPolicies, CommitPoliciesFails,
       StoreBottle, StoreBottleFails, OwnNetworks, StoreBridge, CreateBridgeInterface, RefreshPolicy, RefreshPolicyFails, CommitNetworkUndone,
       CreateBridgeInterfaceFails, CreateNewNetworkFails, UpdateBottleNetwork, UpdateBottleNetworkFails,
       CreateContainer, CreateContainerFails, UpdateBottleContainer, UpdateBottleContainerFails,
       UpdateBottleContainers, UndoContainer, ClearBottleNetwork, RemoveFailedBottle, FlagPolicy, rollbackPolicies,
       rollbackPoliciesFails, CheckNetworkEmpty,
       RemoveBridgeInterface, RemoveBridge, RemoveNetworkFails, RefreshAfterRemove, RefreshAfterRemoveFails
  <1> QED
    BY <1>0, <1>2, EndStepsEffect DEF Passive, EndSteps, Registered, world, ghosts

LEMMA RequestFrame ==
    ASSUME NEW r \in Procs, Request(r)
    PROVE  UNCHANGED <<bsm, csm, pool, bridge, npm, halted>>
  BY DEF Request, RegisterBottle, Start, Stop, Delete, world, ghosts

LEMMA StartStopFrame ==
    ASSUME Shape, NEW r \in Procs, StartContainer(r) \/ StopContainer(r) \/ AllDone(r) \/ ContainerFails(r)
    PROVE  /\ UNCHANGED <<bsm, pool, bridge, npm, halted>> /\ csm'[Guest] = csm[Guest]
           /\ \A s \in Services : csm'[s] = "none" <=> csm[s] = "none"
  <1>1. UNCHANGED <<bsm, pool, bridge, npm, halted>>
    BY DEF StartContainer, StopContainer, AllDone, ContainerFails, world, ghosts
  <1>2. CASE AllDone(r) \/ ContainerFails(r)
    BY <1>1, <1>2 DEF AllDone, ContainerFails, world
  <1>3. CASE StartContainer(r) \/ StopContainer(r)
    <2>1. Head(proc[r].todo) \in Services /\ csm \in [Containers -> {"none", "created", "running", "stopped"}]
      <3>1. proc[r].todo # <<>> /\ proc[r].step \in {"starting", "stopping"}
        BY <1>3 DEF StartContainer, StopContainer, At
      <3> QED
        BY <3>1, TailTyped DEF PolicySteps, Shape, TypeOK
    <2>2. \/ csm' = csm
          \/ /\ csm[Head(proc[r].todo)] # "none"
             /\ \E v \in {"created", "running", "stopped"} : csm' = [csm EXCEPT ![Head(proc[r].todo)] = v]
      <3>1. csm[Head(proc[r].todo)] \in {"none", "created", "running", "stopped"}
        BY <2>1 DEF Containers
      <3> QED
        BY <1>3, <3>1 DEF StartContainer, StopContainer, Start_
    <2> QED
      BY <1>1, <2>1, <2>2, BottleAssumption DEF Containers
  <1> QED
    BY <1>2, <1>3

\* Nothing of the bottle changes under a registration that is creating.
Calm == /\ UNCHANGED <<bsm, pool, bridge, npm, halted>> /\ csm'[Guest] = csm[Guest]
        /\ \A s \in Services : csm'[s] = "none" <=> csm[s] = "none"

LEMMA Bystander ==
    ASSUME Shape, RecordInv, NEW r \in Procs, NEW q \in Procs, q # r, Creating(q), Step(r)
    PROVE  Calm /\ ~Creating(r) /\ proc'[r].kind # "register"
  <1>0. KindOK(proc[r]) /\ proc[r].kind # "register" /\ requests # 0
    BY ShapeFacts, IdleHandler DEF Creating, Shape, OneRegistration
  <1>1. CASE proc[r].kind = "delete"
    <2>1. Partial(proc[r]) /\ ~Complete(proc[r].info)
      BY <1>1 DEF RecordInv
    <2> QED
      BY <1>0, <1>1, <2>1, DeletePassive, IdleHandler DEF Passive, Ends, Calm, Creating
  <1>2. CASE proc[r].kind \in {"start", "stop"}
    BY <1>0, <1>2, KindActs, StartStopFrame, StepFits DEF Calm, Creating
  <1>3. CASE proc[r].kind = "none"
    BY <1>0, <1>3, KindActs, RequestFrame, StepFits DEF Calm, Creating
  <1> QED
    BY <1>0, <1>1, <1>2, <1>3, KindFacts

-----------------------------------------------------------------------------
\* The record of the bottle.
LEMMA DeletePartial ==
    ASSUME Shape, OrderInv, RecordInv, NEW r \in Procs, Step(r), proc'[r].kind = "delete"
    PROVE  /\ Partial(proc'[r])
           /\ \/ proc[r].kind = "delete" /\ proc'[r].info = proc[r].info
              \/ Delete(r) /\ proc'[r].info = bsm /\ proc'[r].step = "stop one" /\ proc'[r].todo = Reverse(bsm.order)
  <1>0. TypeOK
    BY ShapeFacts
  <1>1. CASE Request(r)
    <2>1. Delete(r) /\ bsm # None
      <3>1. CASE \E deps \in Deps : RegisterBottle(r, deps)
        BY <1>0, <3>1, RegisterEffect DEF Enters
      <3>2. CASE Start(r) \/ Stop(r)
        <4>1. bsm # None
          BY <3>2 DEF Start, Stop
        <4> QED
          BY <1>0, <3>2, <4>1, RequestEffects DEF Enters
      <3> QED
        BY <1>1, <3>1, <3>2 DEF Request, Delete
    <2>2. proc'[r].info = bsm /\ proc'[r].step = "stop one" /\ proc'[r].todo = Reverse(bsm.order)
      BY <1>0, <2>1, RequestEffects DEF Enters
    <2>3. bsm.order \in Seq(Services) /\ bsm.order # <<>> /\ LastLast(bsm)
      BY <1>0, <2>1 DEF TypeOK, Bottles, OrderInv, Sorted, RecordInv
    <2>4. Reverse(bsm.order) # <<>> /\ Head(Reverse(bsm.order)) = Last(bsm.order)
      BY <2>3, SeqReverse
    <2> QED
      BY <2>1, <2>2, <2>3, <2>4 DEF Partial, LastLast
  <1>2. CASE ~Request(r)
    <2>1. proc[r].kind = "delete" /\ proc'[r] # Idle
      BY <1>2, StepFits, IdleHandler
    <2>2. proc'[r].info = proc[r].info
      BY <2>1, DeleteKeepsInfo
    <2>3. Partial(proc[r])
      BY <2>1 DEF RecordInv
    <2>4. Complete(proc[r].info)
      BY <2>1, <2>3, DeletePassive DEF Passive, Ends
    <2> QED
      BY <2>1, <2>2, <2>4 DEF Partial
  <1> QED
    BY <1>1, <1>2

LEMMA CreateRecorded ==
    ASSUME Shape, OrderInv, RecordInv, NEW r \in Procs, MakeStep(r), Creating(r), proc'[r].kind = "register"
    PROVE  (Creating(r) => Recorded(proc[r]))'
  <1>0. TypeOK /\ KindOK(proc[r]) /\ Typed(proc[r]) /\ proc[r].kind = "register"
    BY ShapeFacts DEF Creating
  <1>r. Recorded(proc[r]) /\ Ordered(proc[r])
    BY <1>0 DEF RecordInv, OrderInv
  <1>n. Services # {} /\ None \notin Bottles /\ \A b \in Bottles : b # None
    BY BottleAssumption
  <1>b. bsm # None => bsm \in Bottles
    BY <1>0 DEF TypeOK
  <1>1. CASE OwnNetworks(r) \/ StoreBridge(r) \/ CreateBridgeInterface(r) \/ RefreshPolicy(r)
    <2>1. proc[r].step \in OpenSteps /\ bsm' = bsm
      BY <1>1 DEF OwnNetworks, StoreBridge, CreateBridgeInterface, RefreshPolicy, At, OpenSteps
    <2>2. \E step \in {"containers", "interface", "refresh", "record network"} : Goes(r, step, proc[r].todo)
      BY <1>0, <1>1, CreateEffects
    <2>3. /\ bsm # None /\ bsm.order = proc[r].info.order /\ bsm.network = proc[r].info.network
          /\ bsm.containers = {} /\ ~bsm.network /\ ToSet(proc[r].todo) = Services
      BY <1>r, <2>1 DEF Recorded, Ordered, Sorted, Topological, CreateSteps
    <2> QED
      BY <1>n, <2>1, <2>2, <2>3 DEF Recorded, Complete, PreSteps, CreateSteps, OpenSteps, Goes
  <1>2. CASE \/ CreateBridgeInterfaceFails(r) \/ CreateNewNetworkFails(r) \/ ClearBottleNetwork(r)
             \/ UpdateBottleNetworkFails(r) \/ CreateContainerFails(r) \/ UpdateBottleContainerFails(r)
             \/ UpdateBottleContainers(r) \/ RefreshPolicyFails(r) \/ CommitNetworkUndone(r)
    <2>1. proc[r].step \notin PreSteps \cup {"undo policies"}
      BY <1>2 DEF RefreshPolicyFails, CommitNetworkUndone, CreateBridgeInterfaceFails, CreateNewNetworkFails, ClearBottleNetwork, UpdateBottleNetworkFails,
           CreateContainerFails, UpdateBottleContainerFails, UpdateBottleContainers, At, PreSteps
    <2>2. bsm # None /\ ~Complete(bsm)
      BY <1>r, <2>1 DEF Recorded
    <2>3. bsm' # None /\ ~Complete(bsm')
      <3>1. CASE ClearBottleNetwork(r) \/ UpdateBottleContainers(r)
        BY <1>n, <2>2, <3>1, RecordEffects DEF Complete
      <3>2. CASE ~(ClearBottleNetwork(r) \/ UpdateBottleContainers(r))
        <4>1. bsm' = bsm
          BY <1>2, <3>2 DEF CreateBridgeInterfaceFails, CreateNewNetworkFails, UpdateBottleNetworkFails,
               CreateContainerFails, UpdateBottleContainerFails, RefreshPolicyFails, CommitNetworkUndone
        <4> QED
          BY <2>2, <4>1
      <3> QED
        BY <3>1, <3>2
    <2>4. \E step \in {"undo network", "undo bottle", "net check", "undo containers"} : Goes(r, step, proc[r].todo)
      BY <1>0, <1>2, CreateEffects
    <2> QED
      BY <2>3, <2>4 DEF Recorded, PreSteps, CreateSteps, OpenSteps, Goes
  <1>3. CASE UndoContainer(r)
    <2>1. proc[r].step = "undo containers" /\ bsm' = bsm
      BY <1>3 DEF UndoContainer, At
    <2>2. \E made : Makes(r, "undo containers", made)
      BY <1>0, <1>3, CreateEffects
    <2> QED
      BY <1>r, <2>1, <2>2 DEF Recorded, Complete, PreSteps, CreateSteps, OpenSteps, Makes
  <1>4. CASE UpdateBottleNetwork(r)
    <2>1. proc[r].step = "record network" /\ proc[r].info \in Bottles
      BY <1>0, <1>4, KindFacts DEF UpdateBottleNetwork, At, PreSteps, RegisterSteps, OpenSteps, NetSteps
    <2>2. /\ proc'[r].step = "containers" /\ proc'[r].todo = proc[r].todo
          /\ proc'[r].info.order = proc[r].info.order /\ proc'[r].info.network = TRUE
          /\ bsm' \in Bottles /\ bsm'.order = bsm.order /\ bsm'.containers = bsm.containers /\ bsm'.network = TRUE
      BY <1>0, <1>4, <2>1, UpdateBottleNetworkEffect
    <2>3. bsm.order = proc[r].info.order /\ bsm.containers = {} /\ ToSet(proc[r].todo) = Services
      BY <1>r, <2>1 DEF Recorded, Ordered, Sorted, Topological, CreateSteps, OpenSteps
    <2> QED
      BY <1>n, <2>2, <2>3 DEF Recorded, Complete, PreSteps, CreateSteps, OpenSteps
  <1>5. CASE CreateContainer(r)
    <2>1. proc[r].step = "containers" /\ bsm' = bsm
      BY <1>5 DEF CreateContainer, At
    <2>2. \E made : Makes(r, "record", made)
      BY <1>0, <1>5, CreateEffects
    <2> QED
      BY <1>r, <2>1, <2>2 DEF Recorded, Complete, PreSteps, CreateSteps, OpenSteps, Makes
  <1>6. CASE UpdateBottleContainer(r)
    <2>1. proc[r].step = "record" /\ proc[r].todo # <<>> /\ proc[r].todo \in Seq(Services)
      BY <1>0, <1>6, KindFacts DEF UpdateBottleContainer, At, Typed, PolicySteps
    <2>2. Goes(r, "containers", Tail(proc[r].todo))
      BY <1>0, <1>6, <2>1, CreateEffects
    <2>3. /\ bsm.order = proc[r].info.order /\ bsm.network = proc[r].info.network
          /\ bsm.containers = Services \ ToSet(proc[r].todo)
      BY <1>r, <2>1 DEF Recorded, CreateSteps
    <2>4. proc[r].info.order \in Seq(Services) /\ Suffix(proc[r].todo, proc[r].info.order) /\ Distinct(proc[r].info.order)
      BY <1>0, <1>r, <2>1, KindFacts DEF Bottles, PreSteps, Ordered, Sorted, CreateSteps
    <2>5. Distinct(proc[r].todo)
      BY <2>1, <2>4, SuffixFacts
    <2>6. /\ ToSet(Tail(proc[r].todo)) = ToSet(proc[r].todo) \ {Head(proc[r].todo)}
          /\ Tail(proc[r].todo) \in Seq(Services) /\ Head(proc[r].todo) \in Services
      BY <2>1, <2>5, DistinctTail, SeqHeadTail
    <2>7. /\ bsm' \in Bottles /\ bsm'.order = bsm.order
          /\ bsm'.network = bsm.network /\ bsm'.containers = bsm.containers \cup {Head(proc[r].todo)}
      BY <1>6, RecordEffects
    <2>8. bsm'.containers = Services \ ToSet(Tail(proc[r].todo))
      BY <2>3, <2>6, <2>7
    <2>9. Tail(proc[r].todo) # <<>> => ToSet(Tail(proc[r].todo)) # {} /\ ToSet(Tail(proc[r].todo)) \subseteq Services
      <3> DEFINE t == Tail(proc[r].todo)
      <3>1. t \in Seq(Services)
        BY <2>6
      <3> HIDE DEF t
      <3>2. (t = <<>> <=> ToSet(t) = {}) /\ ToSet(t) \subseteq Services
        BY <3>1, SeqTypes, InToSet
      <3> QED
        BY <3>2 DEF t
    <2>10. Creating(r)' => Tail(proc[r].todo) # <<>>
      BY <2>2 DEF Creating, Goes
    <2> QED
      BY <1>n, <2>2, <2>3, <2>7, <2>8, <2>9, <2>10 DEF Recorded, Complete, PreSteps, CreateSteps, OpenSteps, Goes
  <1>7. CASE RemoveFailedBottle(r)
    <2>1. Goes(r, "undo policies", Policies) /\ bsm' = None
      BY <1>0, <1>7, RegisterEffects, RecordEffects
    <2> QED
      BY <2>1 DEF Recorded, PreSteps, CreateSteps, OpenSteps, Goes
  <1>8. CASE Registered(r) \/ rollbackPolicies(r) \/ rollbackPoliciesFails(r)
    BY <1>0, <1>8, EndStepsEffect, EndFits DEF EndSteps
  <1>9. CASE FlagPolicy(r)
    <2>1. proc[r].step = "undo policies" /\ bsm' = bsm /\ \E todo : Goes(r, "undo policies", todo)
      BY <1>0, <1>9, RegisterEffects DEF FlagPolicy, At
    <2> QED
      BY <1>r, <2>1 DEF Recorded, PreSteps, CreateSteps, OpenSteps, Goes
  <1> QED
    BY <1>1, <1>2, <1>3, <1>4, <1>5, <1>6, <1>7, <1>8, <1>9 DEF MakeStep, CreateStep

LEMMA RegisterRecorded ==
    ASSUME Shape, OrderInv, RecordInv, NEW r \in Procs, Step(r), proc'[r].kind = "register"
    PROVE  (Creating(r) => Recorded(proc[r]))'
  <1>0. TypeOK /\ KindOK(proc[r]) /\ Typed(proc[r])
    BY ShapeFacts
  <1>1. CASE proc[r].kind # "register"
    <2>1. requests = 0 /\ bsm = None /\ Request(r)
      BY <1>1, StepFits
    <2>2. bsm' = None
      BY <2>1, RequestFrame
    <2>3. \E deps \in Deps : RegisterBottle(r, deps)
      BY <2>1 DEF Request, Start, Stop, Delete
    <2>4. proc'[r].step \in {"invalid", "order"}
      BY <1>0, <2>3, RegisterEffect DEF Enters
    <2> QED
      BY <2>2, <2>4 DEF Recorded, PreSteps, CreateSteps, OpenSteps
  <1>2. CASE proc[r].kind = "register"
    <2>0. Creating(r) /\ Recorded(proc[r])
      BY <1>2, RegisteredPassive, IdleHandler DEF RecordInv, Passive, Ends
    <2>1. CASE MakeStep(r)
      BY <2>0, <2>1, CreateRecorded
    <2>2. CASE StoreBottle(r)
      <3>1. /\ proc'[r].step = "network" /\ proc'[r].info = bsm' /\ bsm' \in Bottles
            /\ bsm'.containers = {} /\ bsm'.network = FALSE
        BY <1>0, <2>2, StoreBottleEffect
      <3> QED
        BY <3>1, BottleAssumption DEF Recorded, Complete, PreSteps, CreateSteps, OpenSteps
    <2>3. CASE RegStep(r) /\ ~StoreBottle(r)
      <3>1. proc[r].step \in PreSteps
        BY <2>3 DEF RegStep, RegisterStep, At, BuildStartOrder, OrderBuilt, Refuse, AddUserPolicy, AddUserPolicyFails,
             CommitPolicies, CommitPoliciesFails, StoreBottleFails, PreSteps
      <3>2. bsm' = None
        <4>1. bsm' = bsm
          BY <2>3 DEF RegStep, RegisterStep, At, BuildStartOrder, OrderBuilt, Refuse, AddUserPolicy, AddUserPolicyFails,
             CommitPolicies, CommitPoliciesFails, StoreBottleFails
        <4> QED
          BY <2>0, <3>1, <4>1 DEF Recorded
      <3>3. proc'[r].step \in PreSteps \cup {"undo policies"}
        <4>1. CASE BuildStartOrder(r)
          BY <1>0, <4>1, BuildStartOrderEffect DEF PreSteps
        <4>2. CASE Refuse(r) \/ CommitPoliciesFails(r)
          BY <1>0, <4>2, EndStepsEffect, IdleHandler DEF EndSteps, Ends
        <4> QED
          BY <1>0, <2>3, <4>1, <4>2, RegisterEffects DEF RegStep, RegisterStep, Goes, PreSteps
      <3> QED
        BY <3>2, <3>3 DEF Recorded, PreSteps, CreateSteps, OpenSteps
    <2>4. CASE NetActs(r)
      <3>1. proc[r].step \in NetSteps /\ bsm' = bsm
        BY <2>4 DEF NetActs, CheckNetworkEmpty, RemoveBridgeInterface, RemoveBridge, RemoveNetworkFails,
             RefreshAfterRemove, RefreshAfterRemoveFails, At, NetSteps
      <3>2. \E step \in {"net interface", "net pool", "net refresh", "clear network"} : Goes(r, step, proc[r].todo)
        BY <1>0, <1>2, <2>4, NetworkEffects DEF Stays, NetActs
      <3> QED
        BY <2>0, <3>1, <3>2 DEF Recorded, Complete, PreSteps, CreateSteps, OpenSteps, NetSteps, Goes
    <2> QED
      BY <1>2, <2>1, <2>2, <2>3, <2>4, KindActs
  <1> QED
    BY <1>1, <1>2

\* Only a registration that is creating, or a deletion whose record is complete,
\* changes the record.
LEMMA RecordChanges ==
    ASSUME Shape, RecordInv, NEW r \in Procs, Step(r), bsm' # bsm
    PROVE  Creating(r) \/ (RemoveBottle(r) /\ proc[r].kind = "delete" /\ Complete(proc[r].info))
  <1>1. CASE proc[r].kind = "register"
    BY <1>1, RegisteredPassive DEF Passive
  <1>2. CASE proc[r].kind # "register"
    <2>1. RemoveBottle(r) /\ proc[r].kind = "delete"
      BY <1>2, OtherRecord
    <2>2. Partial(proc[r])
      BY <2>1 DEF RecordInv
    <2> QED
      BY <2>1, <2>2, DeletePassive DEF Passive
  <1> QED
    BY <1>1, <1>2

LEMMA RecordLast ==
    ASSUME Shape, OrderInv, RecordInv, NEW r \in Procs, Step(r), bsm' # None
    PROVE  LastLast(bsm')
  <1>0. TypeOK /\ KindOK(proc[r]) /\ Typed(proc[r])
    BY ShapeFacts
  <1>1. CASE StoreBottle(r)
    BY <1>0, <1>1, StoreBottleEffect DEF LastLast
  <1>2. CASE UpdateBottleNetwork(r)
    <2>1. proc[r].info \in Bottles /\ bsm # None
      BY <1>0, <1>2, KindFacts DEF UpdateBottleNetwork, At, RegisterSteps, OpenSteps, PreSteps, NetSteps
    <2> QED
      BY <1>0, <1>2, <2>1, UpdateBottleNetworkEffect DEF RecordInv, LastLast, Complete
  <1>3. CASE UpdateBottleContainers(r) \/ ClearBottleNetwork(r)
    <2>1. bsm # None
      BY <1>3, RecordEffects
    <2> QED
      BY <1>3, <2>1, RecordEffects DEF RecordInv, LastLast, Complete
  <1>4. CASE UpdateBottleContainer(r)
    <2>1. /\ proc[r].step = "record" /\ proc[r].todo # <<>> /\ proc[r].todo \in Seq(Services)
          /\ proc[r].kind = "register" /\ Creating(r)
      BY <1>0, <1>4, KindFacts DEF UpdateBottleContainer, At, Typed, PolicySteps, RegisterSteps, NetSteps, Creating
    <2>2. Recorded(proc[r]) /\ Ordered(proc[r])
      BY <2>1 DEF RecordInv, OrderInv
    <2>3. bsm.order = proc[r].info.order /\ bsm.containers = Services \ ToSet(proc[r].todo)
      BY <2>1, <2>2 DEF Recorded, CreateSteps
    <2>4. proc[r].info.order \in Seq(Services) /\ Suffix(proc[r].todo, proc[r].info.order) /\ Distinct(proc[r].info.order)
      BY <1>0, <2>1, <2>2, KindFacts DEF Bottles, PreSteps, Ordered, Sorted, CreateSteps
    <2>5. bsm'.order = bsm.order /\ bsm'.containers = bsm.containers \cup {Head(proc[r].todo)}
      BY <1>4, RecordEffects
    <2> DEFINE t == proc[r].todo
               o == proc[r].info.order
    <2>6. t \in Seq(Services) /\ t # <<>> /\ o \in Seq(Services) /\ Suffix(t, o) /\ Distinct(o)
      BY <2>1, <2>4
    <2>7. bsm'.order = o /\ bsm'.containers = (Services \ ToSet(t)) \cup {Head(t)}
      BY <2>3, <2>5
    <2> HIDE DEF t, o
    <2>8. Tail(t) \in Seq(Services) /\ Head(t) \in Services /\ Suffix(Tail(t), o)
      BY <2>6, SeqHeadTail, SuffixTail
    <2>9. Distinct(t)
      BY <2>6, SuffixFacts
    <2>10. ToSet(Tail(t)) = ToSet(t) \ {Head(t)}
      BY <2>6, <2>9, DistinctTail
    <2>11. Tail(t) # <<>> => Last(o) \in ToSet(Tail(t))
      BY <2>6, <2>8, SuffixFacts
    <2>12. Tail(t) = <<>> => ToSet(Tail(t)) = {}
      BY <2>8, SeqTypes
    <2>13. bsm'.containers = Services \ ToSet(Tail(t))
      BY <2>7, <2>8, <2>10
    <2> QED
      BY <2>7, <2>11, <2>12, <2>13 DEF LastLast, Complete
  <1>5. CASE RemoveFailedBottle(r) \/ RemoveBottle(r)
    BY <1>5, RecordEffects
  <1> QED
    BY <1>1, <1>2, <1>3, <1>4, <1>5, RecordSteps DEF RecordInv

LEMMA RecordStep ==
    ASSUME Shape, OrderInv, RecordInv, NEW r \in Procs, Step(r)
    PROVE  RecordInv'
  <1>o. \A q \in Procs : q # r => proc'[q] = proc[q]
    BY StepFits DEF Fits, Only
  <1>1. (bsm # None => LastLast(bsm))'
    BY RecordLast
  <1>2. ASSUME NEW q \in Procs, proc'[q].kind = "delete" PROVE Partial(proc'[q])
    BY <1>2, <1>o, DeletePartial DEF RecordInv
  <1>3. ASSUME NEW q \in Procs, Creating(q)' PROVE Recorded(proc[q])'
    <2>1. CASE q = r
      BY <1>3, <2>1, RegisterRecorded DEF Creating
    <2>2. CASE q # r
      <3>1. Creating(q) /\ Recorded(proc[q]) /\ proc'[q] = proc[q]
        BY <1>o, <1>3, <2>2 DEF Creating, RecordInv
      <3>2. bsm' = bsm
        BY <2>2, <3>1, Bystander DEF Calm
      <3> QED
        BY <3>1, <3>2 DEF Recorded
    <2> QED
      BY <2>1, <2>2
  <1>4. ASSUME NEW q \in Procs, Creating(q)', NEW t \in Procs, proc'[t].kind = "delete"
        PROVE  ~Complete(proc'[t].info)
    <2>1. CASE Creating(q)
      <3>1. CASE t = r
        <4>1. CASE proc[r].kind = "delete" /\ proc'[r].info = proc[r].info
          BY <2>1, <3>1, <4>1 DEF RecordInv
        <4>2. CASE Delete(r) /\ proc'[r].info = bsm
          <5>1. Recorded(proc[q]) /\ bsm # None
            BY <2>1, <4>2 DEF RecordInv, Delete
          <5>2. ~Complete(bsm)
            BY <5>1 DEF Recorded
          <5> QED
            BY <3>1, <4>2, <5>2
        <4> QED
          BY <1>4, <3>1, <4>1, <4>2, DeletePartial
      <3>2. CASE t # r
        BY <1>4, <1>o, <2>1, <3>2 DEF RecordInv
      <3> QED
        BY <3>1, <3>2
    <2>2. CASE ~Creating(q)
      <3>1. q = r /\ proc'[r].kind = "register"
        BY <1>o, <1>4, <2>2 DEF Creating
      <3>2. proc[r].kind # "register"
        BY <2>2, <3>1, RegisteredPassive, IdleHandler DEF Passive, Ends
      <3>3. \A u \in Procs : proc[u] = Idle
        BY <3>1, <3>2, StepFits DEF Shape, OneRegistration
      <3> QED
        BY <1>o, <1>4, <3>1, <3>3, IdleHandler
    <2> QED
      BY <2>1, <2>2
  <1> QED
    BY <1>1, <1>2, <1>3, <1>4 DEF RecordInv

LEMMA RecordInit == Init => RecordInv
  BY IdleHandler DEF Init, RecordInv, Creating

LEMMA RecordNext == Shape /\ OrderInv /\ RecordInv /\ [Next]_vars => RecordInv'
  <1> SUFFICES ASSUME Shape, OrderInv, RecordInv, [Next]_vars PROVE RecordInv'
    OBVIOUS
  <1>1. CASE UNCHANGED vars
    BY <1>1 DEF vars, RecordInv, Creating, Recorded
  <1>2. CASE \E r \in Procs : Step(r)
    BY <1>2, RecordStep
  <1>3. CASE Others
    <2>1. proc' = proc /\ bsm' = bsm
      BY <1>3, OthersEffect DEF Shape
    <2> QED
      BY <2>1 DEF RecordInv, Creating, Recorded
  <1> QED
    BY <1>1, <1>2, <1>3, NextCases

-----------------------------------------------------------------------------
\* Steps of a request that is not creating take things away only.
LEMMA NoneStays ==
    ASSUME Shape, NEW r \in Procs, Step(r), ~Creating(r)
    PROVE  \A s \in Services : csm[s] = "none" => csm'[s] = "none"
  <1>0. KindOK(proc[r]) /\ csm \in [Containers -> {"none", "created", "running", "stopped"}]
    BY ShapeFacts DEF TypeOK
  <1>1. CASE proc[r].kind = "register"
    BY <1>1, RegisteredPassive DEF Passive
  <1>2. CASE proc[r].kind \in {"start", "stop"}
    BY <1>2, KindActs, StartStopFrame
  <1>3. CASE proc[r].kind = "none"
    BY <1>3, KindActs, RequestFrame
  <1>4. CASE proc[r].kind = "delete"
    <2>1. DeleteActs(r)
      BY <1>4, KindActs
    <2>2. csm' = csm \/ StopToDelete(r) \/ DeleteContainer(r)
      BY <2>1, ContainerSteps DEF DeleteActs, ContainerFails, ContainersDeleted, RemoveUserPolicy,
           CommitRemoval, CommitRemovalFails, PoliciesRemoved, CheckNetworkEmpty, RemoveBridgeInterface, RemoveBridge,
           RemoveNetworkFails, RefreshAfterRemove, RefreshAfterRemoveFails, RemoveBottle, world
    <2>3. CASE StopToDelete(r)
      BY <1>0, <2>3 DEF StopToDelete, Containers
    <2>4. CASE DeleteContainer(r)
      BY <1>0, <2>4 DEF DeleteContainer, Delete_, Containers
    <2> QED
      BY <2>2, <2>3, <2>4
  <1> QED
    BY <1>0, <1>1, <1>2, <1>3, <1>4, KindFacts

LEMMA NetworkShrinks ==
    ASSUME Shape, NEW r \in Procs, Step(r), ~Creating(r)
    PROVE  (pool' => pool) /\ (bridge' => bridge)
  <1>0. KindOK(proc[r])
    BY ShapeFacts
  <1>1. proc[r].step \notin OpenSteps
    BY <1>0, KindFacts DEF Creating, OpenSteps, RegisterSteps, NetSteps
  <1> QED
    BY <1>1, NetworkSteps DEF StoreBridge, CreateBridgeInterface, CreateBridgeInterfaceFails, CreateNewNetworkFails,
         RemoveBridgeInterface, RemoveBridge, RefreshPolicyFails, At, OpenSteps

LEMMA HaltedStays ==
    ASSUME Shape, NEW r \in Procs, Step(r), ~halted'
    PROVE  ~halted
  BY CounterSteps, ShapeFacts

\* A complete deletion and a registration that is creating exclude each other.
LEMMA Exclusive ==
    ASSUME RecordInv, NEW r \in Procs, NEW q \in Procs, proc[q].kind = "delete", Complete(proc[q].info)
    PROVE  ~Creating(r)
  BY DEF RecordInv

\* How the record can be gone with nobody creating.
LEMMA LastStep ==
    ASSUME Shape, OrderInv, RecordInv, NEW r \in Procs, Step(r), bsm' = None, \A q \in Procs : ~Creating(q)'
    PROVE  \/ bsm = None /\ \A q \in Procs : ~Creating(q)
           \/ /\ Creating(r) /\ proc[r].step \in PreSteps \cup {"undo policies"}
              /\ UNCHANGED <<csm, pool, bridge>>
              /\ Refuse(r) \/ CommitPoliciesFails(r) \/ rollbackPolicies(r) \/ rollbackPoliciesFails(r)
           \/ /\ RemoveBottle(r) /\ proc[r].kind = "delete" /\ Complete(proc[r].info)
  <1>0. TypeOK /\ KindOK(proc[r])
    BY ShapeFacts
  <1>o. \A q \in Procs : q # r => ~Creating(q)
    <2>1. \A q \in Procs : q # r => proc'[q] = proc[q]
      BY StepFits DEF Fits, Only
    <2> QED
      BY <2>1 DEF Creating
  <1>1. CASE ~Creating(r)
    BY <1>o, <1>1, RecordChanges
  <1>2. CASE Creating(r)
    <2>0. proc[r].kind = "register" /\ Recorded(proc[r])
      BY <1>2 DEF Creating, RecordInv
    <2>1. proc[r].step \in PreSteps \cup {"undo policies"}
      <3>1. CASE bsm = None
        BY <2>0, <3>1 DEF Recorded
      <3>2. CASE bsm # None
        <4>1. RemoveFailedBottle(r) \/ RemoveBottle(r)
          <5>1. StoreBottle(r) => bsm' \in Bottles
            BY <1>0, StoreBottleEffect
          <5>2. UpdateBottleNetwork(r) => bsm' \in Bottles
            <6>1. UpdateBottleNetwork(r) => proc[r].info \in Bottles
              BY <1>0, KindFacts DEF UpdateBottleNetwork, At, RegisterSteps, OpenSteps, PreSteps, NetSteps
            <6> QED
              BY <1>0, <6>1, UpdateBottleNetworkEffect
          <5>3. UpdateBottleContainer(r) \/ UpdateBottleContainers(r) \/ ClearBottleNetwork(r) => bsm' \in Bottles
            BY <3>2, RecordEffects
          <5> QED
            BY <3>2, <5>1, <5>2, <5>3, RecordSteps, BottleAssumption
        <4>2. ~RemoveBottle(r)
          BY <1>0, <2>0, KindFacts DEF RemoveBottle, At, DeleteSteps, NetSteps
        <4>3. Goes(r, "undo policies", Policies)
          BY <1>0, <4>1, <4>2, RegisterEffects
        <4> QED
          BY <2>0, <4>3 DEF Creating, Goes, Same
      <3> QED
        BY <3>1, <3>2
    <2>2. ~(proc'[r].kind = "register" /\ proc'[r].step \in PreSteps \cup OpenSteps \cup {"undo policies"})
      BY DEF Creating, PreSteps, OpenSteps
    <2>3. RegStep(r) \/ FlagPolicy(r) \/ rollbackPolicies(r) \/ rollbackPoliciesFails(r)
      BY <2>0, <2>1, KindActs DEF MakeStep, CreateStep, NetActs, At, PreSteps,
       OwnNetworks, StoreBridge, CreateBridgeInterface, RefreshPolicy, RefreshPolicyFails, CommitNetworkUndone,
       CreateBridgeInterfaceFails, CreateNewNetworkFails, UpdateBottleNetwork, UpdateBottleNetworkFails,
       CreateContainer, CreateContainerFails, UpdateBottleContainer, UpdateBottleContainerFails,
       UpdateBottleContainers, Registered, UndoContainer, ClearBottleNetwork, RemoveFailedBottle, CheckNetworkEmpty,
       RemoveBridgeInterface, RemoveBridge, RemoveNetworkFails, RefreshAfterRemove, RefreshAfterRemoveFails
    <2>4. Refuse(r) \/ CommitPoliciesFails(r) \/ rollbackPolicies(r) \/ rollbackPoliciesFails(r)
      <3>1. ~BuildStartOrder(r)
        BY <1>0, <2>0, <2>2, BuildStartOrderEffect DEF Same, PreSteps
      <3>2. ~StoreBottle(r)
        BY <1>0, <2>0, <2>2, StoreBottleEffect DEF Same, OpenSteps
      <3> QED
        BY <1>0, <2>0, <2>2, <2>3, <3>1, <3>2, RegisterEffects DEF RegStep, RegisterStep, Goes, Same, PreSteps
    <2>5. UNCHANGED <<csm, pool, bridge>>
      BY <2>4 DEF Refuse, CommitPoliciesFails, rollbackPolicies, rollbackPoliciesFails, world
    <2> QED
      BY <1>2, <2>1, <2>4, <2>5
  <1> QED
    BY <1>1, <1>2

-----------------------------------------------------------------------------
\* The containers.
LEMMA RegisterMade ==
    ASSUME Shape, OrderInv, RecordInv, ContainerInv, NEW r \in Procs, Step(r), Creating(r)'
    PROVE  MadeSoFar(proc[r])'
  <1>0. TypeOK /\ KindOK(proc[r]) /\ Typed(proc[r]) /\ proc[r] \in Handler
    BY ShapeFacts
  <1>c. csm \in [Containers -> {"none", "created", "running", "stopped"}] /\ Services \subseteq Containers
    BY <1>0 DEF TypeOK, Containers
  <1>h. ~halted' => ~halted
    BY HaltedStays
  <1>1. CASE proc[r].kind # "register"
    <2>1. requests = 0 /\ bsm = None /\ Request(r) /\ proc'[r].kind = "register"
      BY <1>1, StepFits DEF Creating
    <2>2. csm' = csm
      BY <2>1, RequestFrame
    <2>3. \E deps \in Deps : RegisterBottle(r, deps)
      BY <2>1 DEF Request, Start, Stop, Delete
    <2>4. proc'[r].step \in {"invalid", "order"} /\ proc'[r].made = <<>>
      BY <1>0, <2>3, RegisterEffect DEF Enters
    <2>5. \A q \in Procs : ~Creating(q)
      BY <2>1, IdleHandler DEF Shape, OneRegistration, Creating
    <2>6. AllGone
      BY <2>1, <2>5 DEF ContainerInv
    <2> QED
      BY <2>2, <2>4, <2>6 DEF MadeSoFar, AllGone, PreSteps, OpenSteps, NetSteps
  <1>2. CASE proc[r].kind = "register"
    <2>0. Creating(r) /\ MadeSoFar(proc[r]) /\ Ordered(proc[r])
      BY <1>2, RegisteredPassive, IdleHandler DEF Creating, ContainerInv, OrderInv, Passive, Ends
    <2>1. CASE RegStep(r)
      <3>1. csm' = csm
        BY <2>1 DEF RegStep, RegisterStep, BuildStartOrder, OrderBuilt, Refuse, AddUserPolicy, AddUserPolicyFails,
             CommitPolicies, CommitPoliciesFails, StoreBottle, StoreBottleFails, world
      <3>2. proc[r].step \in PreSteps
        BY <2>1 DEF RegStep, RegisterStep, BuildStartOrder, OrderBuilt, Refuse, AddUserPolicy, AddUserPolicyFails,
             CommitPolicies, CommitPoliciesFails, StoreBottle, StoreBottleFails, At, PreSteps
      <3>3. AllGone /\ proc[r].made = <<>>
        BY <2>0, <3>2 DEF MadeSoFar
      <3>4. proc'[r].step \in PreSteps \cup {"undo policies", "network"} /\ proc'[r].made = proc[r].made
        <4>1. CASE BuildStartOrder(r)
          BY <1>0, <4>1, BuildStartOrderEffect DEF PreSteps
        <4>2. CASE Refuse(r) \/ CommitPoliciesFails(r)
          BY <1>0, <4>2, EndStepsEffect, IdleHandler DEF EndSteps, Ends, Creating
        <4>3. CASE StoreBottle(r)
          BY <1>0, <4>3, StoreBottleEffect
        <4> QED
          BY <1>0, <2>1, <4>1, <4>2, <4>3, RegisterEffects DEF RegStep, RegisterStep, Goes, PreSteps
      <3> QED
        BY <3>1, <3>3, <3>4 DEF MadeSoFar, AllGone, PreSteps, OpenSteps, NetSteps
    <2>2. CASE \/ OwnNetworks(r) \/ StoreBridge(r) \/ CreateBridgeInterface(r) \/ RefreshPolicy(r)
               \/ CreateBridgeInterfaceFails(r) \/ CreateNewNetworkFails(r) \/ UpdateBottleNetworkFails(r)
               \/ UpdateBottleNetwork(r) \/ RefreshPolicyFails(r)
      <3>1. csm' = csm /\ proc[r].step \in OpenSteps
        BY <2>2 DEF OwnNetworks, StoreBridge, CreateBridgeInterface, RefreshPolicy, RefreshPolicyFails, CreateBridgeInterfaceFails,
             CreateNewNetworkFails, UpdateBottleNetworkFails, UpdateBottleNetwork, world, At, OpenSteps
      <3>2. AllGone /\ proc[r].made = <<>> /\ ToSet(proc[r].todo) = Services
        BY <2>0, <3>1 DEF MadeSoFar, Ordered, Sorted, Topological, CreateSteps
      <3>3. /\ proc'[r].step \in {"interface", "refresh", "record network", "containers", "undo network", "net check"}
            /\ proc'[r].todo = proc[r].todo /\ proc'[r].made = proc[r].made
        <4>1. CASE UpdateBottleNetwork(r)
          <5>1. proc[r].info \in Bottles
            BY <1>0, <1>2, <3>1, KindFacts DEF OpenSteps, PreSteps
          <5> QED
            BY <1>0, <4>1, <5>1, UpdateBottleNetworkEffect
        <4> QED
          BY <1>0, <2>2, <4>1, CreateEffects DEF Goes
      <3> QED
        BY <3>1, <3>2, <3>3 DEF MadeSoFar, AllGone, PreSteps, OpenSteps, NetSteps
    <2>3. CASE CreateContainer(r)
      <3>1. proc[r].step = "containers" /\ proc[r].todo # <<>> /\ csm' = [csm EXCEPT ![Head(proc[r].todo)] = "created"]
        BY <2>3 DEF CreateContainer, At
      <3>2. Makes(r, "record", Append(proc[r].made, Head(proc[r].todo)))
        BY <1>0, <2>3, CreateEffects
      <3>3. Head(proc[r].todo) \in Services
        BY <3>1, TailTyped DEF PolicySteps
      <3>4. ToSet(Append(proc[r].made, Head(proc[r].todo))) = ToSet(proc[r].made) \cup {Head(proc[r].todo)}
        BY <1>0, <3>3, ToSetAppend DEF Handler
      <3>5. \A s \in Services : csm'[s] = IF s = Head(proc[r].todo) THEN "created" ELSE csm[s]
        BY <1>c, <3>1
      <3>6. proc'[r].step = "record" /\ proc'[r].todo = proc[r].todo
            /\ proc'[r].made = Append(proc[r].made, Head(proc[r].todo))
        BY <3>2 DEF Makes
      <3>7. \A s \in Services : (s \notin ToSet(proc[r].todo) => csm[s] # "none") /\ (csm[s] # "none" => s \in ToSet(proc[r].made))
        BY <2>0, <3>1 DEF MadeSoFar
      <3> QED
        BY <3>3, <3>4, <3>5, <3>6, <3>7 DEF MadeSoFar, PreSteps, OpenSteps, NetSteps
    <2>4. CASE CreateContainerFails(r) \/ UpdateBottleContainerFails(r)
      <3>1. csm' = csm /\ proc[r].step \in {"containers", "record"}
        BY <2>4 DEF CreateContainerFails, UpdateBottleContainerFails, world, At
      <3>2. Goes(r, "undo containers", proc[r].todo)
        BY <1>0, <2>4, CreateEffects
      <3> QED
        BY <2>0, <3>1, <3>2 DEF MadeSoFar, Goes, PreSteps, OpenSteps, NetSteps
    <2>5. CASE UpdateBottleContainer(r)
      <3>1. proc[r].step = "record" /\ proc[r].todo # <<>> /\ proc[r].todo \in Seq(Services) /\ csm' = csm
        BY <1>0, <2>5, KindFacts DEF UpdateBottleContainer, At, Typed, PolicySteps, world
      <3>2. Goes(r, "containers", Tail(proc[r].todo))
        BY <1>0, <2>5, <3>1, CreateEffects
      <3>3. ToSet(proc[r].todo) = ToSet(Tail(proc[r].todo)) \cup {Head(proc[r].todo)}
        BY <3>1, SeqTypes
      <3>4. proc'[r].step = "containers" /\ proc'[r].todo = Tail(proc[r].todo) /\ proc'[r].made = proc[r].made
        BY <3>2 DEF Goes
      <3>5. /\ csm[Head(proc[r].todo)] # "none"
            /\ \A s \in Services : (s \notin ToSet(proc[r].todo) => csm[s] # "none")
                                   /\ (csm[s] # "none" => s \in ToSet(proc[r].made))
        BY <2>0, <3>1 DEF MadeSoFar
      <3> QED
        BY <3>1, <3>3, <3>4, <3>5 DEF MadeSoFar, PreSteps, OpenSteps, NetSteps
    <2>6. CASE UndoContainer(r)
      <3>1. proc[r].step = "undo containers" /\ proc[r].made # <<>>
        BY <2>6 DEF UndoContainer, At
      <3>2. Makes(r, "undo containers", Front(proc[r].made))
        BY <1>0, <2>6, CreateEffects
      <3>3. Last(proc[r].made) \in Services /\ ToSet(proc[r].made) = ToSet(Front(proc[r].made)) \cup {Last(proc[r].made)}
        BY <1>0, <3>1, SeqFrontLast DEF Handler
      <3>4. halted' = TRUE \/ csm' = [csm EXCEPT ![Last(proc[r].made)] = "none"]
        BY <2>6 DEF UndoContainer, Delete_
      <3>5. ~halted' => \A s \in Services : csm'[s] # "none" => csm[s] # "none" /\ s # Last(proc[r].made)
        BY <1>c, <3>3, <3>4
      <3>6. ~halted => \A s \in Services : csm[s] # "none" => s \in ToSet(proc[r].made)
        BY <2>0, <3>1 DEF MadeSoFar
      <3>7. proc'[r].step = "undo containers" /\ proc'[r].made = Front(proc[r].made)
        BY <3>2 DEF Makes
      <3> QED
        BY <1>h, <3>3, <3>5, <3>6, <3>7 DEF MadeSoFar, PreSteps, OpenSteps, NetSteps
    <2>7. CASE UpdateBottleContainers(r)
      <3>1. proc[r].step = "undo containers" /\ proc[r].made = <<>> /\ csm' = csm
        BY <2>7 DEF UpdateBottleContainers, At, world
      <3>2. proc'[r].step \in {"net check", "undo bottle"}
        BY <1>0, <2>7, CreateEffects DEF Goes
      <3>3. ~halted => AllGone
        BY <2>0, <3>1, ToSetEmpty DEF MadeSoFar, AllGone
      <3> QED
        BY <1>h, <3>1, <3>2, <3>3 DEF MadeSoFar, AllGone, PreSteps, OpenSteps, NetSteps
    <2>8. CASE ClearBottleNetwork(r) \/ RemoveFailedBottle(r) \/ NetActs(r) \/ CommitNetworkUndone(r) \/ FlagPolicy(r)
      <3>1. csm' = csm /\ proc[r].step \in NetSteps \cup {"clear network", "undo network", "undo bottle", "undo policies"}
        BY <2>8 DEF NetActs, ClearBottleNetwork, RemoveFailedBottle, CommitNetworkUndone, FlagPolicy, CheckNetworkEmpty, RemoveBridgeInterface,
             RemoveBridge, RemoveNetworkFails, RefreshAfterRemove, RefreshAfterRemoveFails, At, NetSteps, world
      <3>2. proc'[r].step \in {"net interface", "net pool", "net refresh", "clear network", "undo bottle", "undo policies"}
        BY <1>0, <1>2, <2>8, CreateEffects, RegisterEffects, NetworkEffects DEF Stays, NetActs, Goes
      <3>3. ~halted => AllGone
        BY <2>0, <3>1 DEF MadeSoFar
      <3> QED
        BY <1>h, <3>1, <3>2, <3>3 DEF MadeSoFar, AllGone, PreSteps, OpenSteps, NetSteps
    <2>9. CASE Registered(r) \/ rollbackPolicies(r) \/ rollbackPoliciesFails(r)
      BY <1>0, <2>9, EndStepsEffect, IdleHandler DEF EndSteps, Ends, Creating
    <2> QED
      BY <1>2, <2>1, <2>2, <2>3, <2>4, <2>5, <2>6, <2>7, <2>8, <2>9, KindActs DEF MakeStep, CreateStep
  <1> QED
    BY <1>1, <1>2

LEMMA DeleteGone ==
    ASSUME Shape, OrderInv, RecordInv, ContainerInv, NEW r \in Procs, Step(r),
           proc'[r].kind = "delete", Complete(proc'[r].info)
    PROVE  GoneSoFar(proc[r])'
  <1>0. TypeOK /\ KindOK(proc[r]) /\ Typed(proc[r])
    BY ShapeFacts
  <1>1. CASE Delete(r) /\ proc'[r].step = "stop one" /\ proc'[r].todo = Reverse(bsm.order)
    <2>1. bsm.order \in Seq(Services) /\ ToSet(bsm.order) = Services
      BY <1>0, <1>1 DEF Delete, TypeOK, Bottles, OrderInv, Sorted, Topological
    <2>2. ToSet(Reverse(bsm.order)) = Services
      BY <2>1, SeqReverse
    <2> QED
      BY <1>1, <2>2 DEF GoneSoFar
  <1>2. CASE proc[r].kind = "delete" /\ proc'[r].info = proc[r].info
    <2>1. GoneSoFar(proc[r]) /\ ~Creating(r) /\ DeleteActs(r) /\ ~Ends(r)
      BY <1>2, KindActs, IdleHandler DEF ContainerInv, Creating, Ends
    <2>2. \A s \in Services : csm[s] = "none" => csm'[s] = "none"
      BY <2>1, NoneStays
    <2>3. CASE StopToDelete(r)
      <3>1. Goes(r, "delete one", proc[r].todo) /\ proc[r].step = "stop one"
        BY <1>0, <2>1, <2>3, ActionEffects DEF StopToDelete, At
      <3> QED
        BY <2>1, <2>2, <3>1 DEF GoneSoFar, Goes
    <2>4. CASE DeleteContainer(r)
      <3>1. proc[r].step = "delete one" /\ proc[r].todo # <<>> /\ proc[r].todo \in Seq(Services)
        BY <1>0, <2>4, KindFacts DEF DeleteContainer, At, Typed, PolicySteps
      <3>2. Goes(r, "stop one", Tail(proc[r].todo))
        BY <1>0, <2>1, <2>4, <3>1, ActionEffects
      <3>3. csm' = [csm EXCEPT ![Head(proc[r].todo)] = "none"]
        BY <1>0, <2>1, <2>4, EndEffect DEF DeleteContainer, Delete_
      <3>4. ToSet(proc[r].todo) = ToSet(Tail(proc[r].todo)) \cup {Head(proc[r].todo)} /\ Head(proc[r].todo) \in Services
        BY <3>1, SeqTypes, SeqHeadTail
      <3>5. csm'[Head(proc[r].todo)] = "none"
        BY <1>0, <3>3, <3>4 DEF TypeOK, Containers
      <3>6. \A s \in Services : s \notin ToSet(proc[r].todo) => csm[s] = "none"
        BY <2>1, <3>1 DEF GoneSoFar
      <3>7. proc'[r].step = "stop one" /\ proc'[r].todo = Tail(proc[r].todo)
        BY <3>2 DEF Goes
      <3> QED
        BY <2>2, <3>4, <3>5, <3>6, <3>7 DEF GoneSoFar
    <2>5. CASE ContainersDeleted(r)
      <3>1. proc[r].step = "stop one" /\ proc[r].todo = <<>> /\ Goes(r, "remove policies", Policies)
        BY <1>0, <2>5, ActionEffects DEF ContainersDeleted, At
      <3>2. AllGone
        BY <2>1, <3>1, ToSetEmpty DEF GoneSoFar, AllGone
      <3> QED
        BY <2>2, <3>1, <3>2 DEF GoneSoFar, AllGone, Goes
    <2>6. CASE RemoveUserPolicy(r) \/ CommitRemoval(r) \/ PoliciesRemoved(r) \/ NetActs(r)
      <3>0. CommitRemoval(r) => proc[r].todo # <<>>
        BY <1>0, KindFacts DEF CommitRemoval, At
      <3>1. proc[r].step \notin {"stop one", "delete one"}
        BY <2>6 DEF RemoveUserPolicy, CommitRemoval, PoliciesRemoved, NetActs, CheckNetworkEmpty, RemoveBridgeInterface,
             RemoveBridge, RemoveNetworkFails, RefreshAfterRemove, RefreshAfterRemoveFails, At
      <3>2. proc'[r].step \notin {"stop one", "delete one"}
        BY <1>0, <1>2, <2>1, <2>6, <3>0, ActionEffects, NetworkEffects DEF NetActs, Stays, Goes
      <3> QED
        BY <2>1, <2>2, <3>1, <3>2 DEF GoneSoFar, AllGone
    <2>7. ~EndSteps(r)
      BY <1>0, <2>1, EndStepsEffect
    <2> QED
      BY <2>1, <2>3, <2>4, <2>5, <2>6, <2>7 DEF DeleteActs, NetActs, EndSteps
  <1> QED
    BY <1>1, <1>2, DeletePartial

LEMMA ContainerStep ==
    ASSUME Shape, OrderInv, RecordInv, ContainerInv, NEW r \in Procs, Step(r)
    PROVE  ContainerInv'
  <1>0. TypeOK /\ KindOK(proc[r])
    BY ShapeFacts
  <1>o. \A q \in Procs : q # r => proc'[q] = proc[q]
    BY StepFits DEF Fits, Only
  <1>1. ASSUME NEW q \in Procs, Creating(q)' PROVE MadeSoFar(proc[q])'
    <2>1. CASE q = r
      BY <1>1, <2>1, RegisterMade
    <2>2. CASE q # r
      <3>1. Creating(q) /\ MadeSoFar(proc[q]) /\ proc'[q] = proc[q]
        BY <1>o, <1>1, <2>2 DEF Creating, ContainerInv
      <3>2. halted' = halted /\ \A s \in Services : csm'[s] = "none" <=> csm[s] = "none"
        BY <2>2, <3>1, Bystander DEF Calm
      <3>3. proc[q].step = "record" => Head(proc[q].todo) \in Services
        BY <3>1, ShapeFacts, KindFacts, TailTyped DEF PolicySteps
      <3> QED
        BY <3>1, <3>2, <3>3 DEF MadeSoFar, AllGone
    <2> QED
      BY <2>1, <2>2
  <1>2. ASSUME NEW q \in Procs, proc'[q].kind = "delete", Complete(proc'[q].info) PROVE GoneSoFar(proc[q])'
    <2>1. CASE q = r
      BY <1>2, <2>1, DeleteGone
    <2>2. CASE q # r
      <3>1. GoneSoFar(proc[q]) /\ proc'[q] = proc[q] /\ ~Creating(r)
        BY <1>o, <1>2, <2>2, Exclusive DEF ContainerInv
      <3>2. \A s \in Services : csm[s] = "none" => csm'[s] = "none"
        BY <3>1, NoneStays
      <3> QED
        BY <3>1, <3>2 DEF GoneSoFar, AllGone
    <2> QED
      BY <2>1, <2>2
  <1>3. ASSUME bsm' = None, ~halted', \A q \in Procs : ~Creating(q)' PROVE AllGone'
    <2>h. ~halted
      BY <1>3, HaltedStays
    <2>1. CASE bsm = None /\ \A q \in Procs : ~Creating(q)
      BY <2>h, <2>1, NoneStays DEF ContainerInv, AllGone
    <2>2. CASE Creating(r) /\ proc[r].step \in PreSteps \cup {"undo policies"} /\ csm' = csm
      BY <2>h, <2>2 DEF ContainerInv, MadeSoFar, AllGone
    <2>3. CASE RemoveBottle(r) /\ proc[r].kind = "delete" /\ Complete(proc[r].info)
      BY <2>3 DEF ContainerInv, GoneSoFar, AllGone, RemoveBottle, At, world
    <2> QED
      BY <1>3, <2>1, <2>2, <2>3, LastStep
  <1>4. requests' # 0
    BY StepFits, IdleHandler DEF Shape, OneRegistration
  <1> QED
    BY <1>1, <1>2, <1>3, <1>4 DEF ContainerInv

LEMMA ContainerInit == Init => ContainerInv
  BY IdleHandler DEF Init, ContainerInv, Creating, AllGone, Containers

LEMMA ContainerNext == Shape /\ OrderInv /\ RecordInv /\ ContainerInv /\ [Next]_vars => ContainerInv'
  <1> SUFFICES ASSUME Shape, OrderInv, RecordInv, ContainerInv, [Next]_vars PROVE ContainerInv'
    OBVIOUS
  <1>1. CASE UNCHANGED vars
    BY <1>1 DEF vars, ContainerInv, Creating, MadeSoFar, GoneSoFar, AllGone
  <1>2. CASE \E r \in Procs : Step(r)
    BY <1>2, ContainerStep
  <1>3. CASE Others
    <2>1. proc' = proc /\ bsm' = bsm /\ halted' = halted /\ \A s \in Services : csm'[s] = csm[s]
      BY <1>3, OthersEffect DEF Shape
    <2>2. requests' = 0 => requests = 0
      <3>1. requests \in Nat /\ requests' \in Nat /\ requests' >= requests
        BY <1>3, OthersEffect, BottleAssumption DEF Shape, TypeOK
      <3> QED
        BY <3>1
    <2>3. \A r \in Procs : proc[r].step = "record" => Head(proc[r].todo) \in Services
      BY ShapeFacts, KindFacts, TailTyped DEF PolicySteps
    <2>4. \A r \in Procs : proc[r].kind = "register" => (MadeSoFar(proc[r]) => MadeSoFar(proc[r])')
      BY <2>1, <2>3 DEF MadeSoFar, AllGone
    <2>5. \A r \in Procs : GoneSoFar(proc[r]) => GoneSoFar(proc[r])'
      BY <2>1 DEF GoneSoFar, AllGone
    <2> QED
      BY <2>1, <2>2, <2>4, <2>5 DEF ContainerInv, Creating, AllGone
  <1> QED
    BY <1>1, <1>2, <1>3, NextCases

-----------------------------------------------------------------------------
\* The network.
LEMMA RegisterNetMade ==
    ASSUME Shape, OrderInv, RecordInv, ContainerInv, NetworkInv, NEW r \in Procs, Step(r), Creating(r)'
    PROVE  NetMade(proc[r])'
  <1>0. TypeOK /\ KindOK(proc[r])
    BY ShapeFacts
  <1>h. ~halted' => ~halted
    BY HaltedStays
  <1>1. CASE proc[r].kind # "register"
    <2>1. requests = 0 /\ bsm = None /\ Request(r) /\ proc'[r].kind = "register"
      BY <1>1, StepFits DEF Creating
    <2>2. pool' = pool /\ bridge' = bridge
      BY <2>1, RequestFrame
    <2>3. \E deps \in Deps : RegisterBottle(r, deps)
      BY <2>1 DEF Request, Start, Stop, Delete
    <2>4. proc'[r].step \in {"invalid", "order"}
      BY <1>0, <2>3, RegisterEffect DEF Enters
    <2>5. \A q \in Procs : ~Creating(q)
      BY <2>1, IdleHandler DEF Shape, OneRegistration, Creating
    <2>6. NoNetwork
      BY <2>1, <2>5 DEF NetworkInv, ContainerInv
    <2> QED
      BY <2>2, <2>4, <2>6 DEF NetMade, NoNetwork
  <1>2. CASE proc[r].kind = "register"
    <2>0. NetMade(proc[r])
      BY <1>2, RegisteredPassive, IdleHandler DEF Creating, NetworkInv, Passive, Ends
    <2>1. CASE RegStep(r) \/ OwnNetworks(r)
      <3>1. pool' = pool /\ bridge' = bridge
        BY <2>1 DEF RegStep, RegisterStep, BuildStartOrder, OrderBuilt, Refuse, AddUserPolicy, AddUserPolicyFails,
             CommitPolicies, CommitPoliciesFails, StoreBottle, StoreBottleFails, OwnNetworks, world
      <3>2. proc[r].step \in PreSteps \cup {"network"}
        BY <2>1 DEF RegStep, RegisterStep, BuildStartOrder, OrderBuilt, Refuse, AddUserPolicy, AddUserPolicyFails,
             CommitPolicies, CommitPoliciesFails, StoreBottle, StoreBottleFails, OwnNetworks, At, PreSteps
      <3>3. NoNetwork
        BY <2>0, <3>2 DEF NetMade
      <3>4. proc'[r].step \in PreSteps \cup {"undo policies", "network", "containers"}
        <4>1. CASE BuildStartOrder(r)
          BY <1>0, <4>1, BuildStartOrderEffect DEF PreSteps
        <4>2. CASE Refuse(r) \/ CommitPoliciesFails(r)
          BY <1>0, <4>2, EndStepsEffect, IdleHandler DEF EndSteps, Ends, Creating
        <4>3. CASE StoreBottle(r)
          BY <1>0, <4>3, StoreBottleEffect
        <4>4. CASE OwnNetworks(r)
          BY <1>0, <4>4, CreateEffects DEF Goes
        <4> QED
          BY <1>0, <2>1, <4>1, <4>2, <4>3, <4>4, RegisterEffects DEF RegStep, RegisterStep, Goes, PreSteps
      <3> QED
        BY <3>1, <3>3, <3>4 DEF NetMade, NoNetwork, PreSteps
    <2>2. CASE \/ StoreBridge(r) \/ CreateBridgeInterface(r) \/ RefreshPolicy(r)
               \/ CreateBridgeInterfaceFails(r) \/ CreateNewNetworkFails(r) \/ RefreshPolicyFails(r)
               \/ UpdateBottleNetworkFails(r)
      <3>1. CASE CreateBridgeInterfaceFails(r) \/ CreateNewNetworkFails(r) \/ RefreshPolicyFails(r)
        <4>0. proc[r].step = "interface" => ~bridge
          BY <2>0 DEF NetMade
        <4>1. halted' \/ (~pool' /\ ~bridge')
          BY <3>1, <4>0 DEF CreateBridgeInterfaceFails, CreateNewNetworkFails, RefreshPolicyFails, At
        <4>2. proc'[r].step = "undo network"
          BY <1>0, <3>1, CreateEffects DEF Goes
        <4> QED
          BY <4>1, <4>2 DEF NetMade, NoNetwork, PreSteps
      <3>2. CASE ~(CreateBridgeInterfaceFails(r) \/ CreateNewNetworkFails(r) \/ RefreshPolicyFails(r))
        <4>1. proc'[r].step \in {"interface", "refresh", "record network", "net check"}
          BY <1>0, <2>2, <3>2, CreateEffects DEF Goes
        <4>2. proc'[r].step = "interface" => StoreBridge(r)
          BY <1>0, <2>2, <3>2, CreateEffects DEF Goes
        <4>3. StoreBridge(r) => ~bridge'
          BY <2>0 DEF NetMade, NoNetwork, StoreBridge, At
        <4> QED
          BY <4>1, <4>2, <4>3 DEF NetMade, PreSteps
      <3> QED
        BY <3>1, <3>2
    <2>3. CASE UpdateBottleNetwork(r)
      <3>1. proc[r].info \in Bottles
        BY <1>0, <2>3, KindFacts DEF UpdateBottleNetwork, At, RegisterSteps, OpenSteps, PreSteps, NetSteps
      <3>2. proc'[r].step = "containers" /\ proc'[r].info.network = TRUE
        BY <1>0, <2>3, <3>1, UpdateBottleNetworkEffect
      <3> QED
        BY <3>2 DEF NetMade, PreSteps
    <2>4. CASE \/ CreateContainer(r) \/ CreateContainerFails(r) \/ UpdateBottleContainer(r)
               \/ UpdateBottleContainerFails(r) \/ UndoContainer(r)
      <3>1. pool' = pool /\ bridge' = bridge /\ proc[r].step \in {"containers", "record", "undo containers"}
        BY <2>4 DEF CreateContainer, CreateContainerFails, UpdateBottleContainer, UpdateBottleContainerFails,
             UndoContainer, world, At
      <3>2. proc'[r].step \in {"containers", "record", "undo containers"} /\ proc'[r].info = proc[r].info
        <4>1. UpdateBottleContainer(r) => proc[r].todo # <<>>
          BY <1>0, KindFacts DEF UpdateBottleContainer, At
        <4> QED
          BY <1>0, <2>4, <4>1, CreateEffects DEF Goes, Makes
      <3> QED
        BY <2>0, <3>1, <3>2 DEF NetMade, NoNetwork, PreSteps
    <2>5. CASE UpdateBottleContainers(r)
      <3>1. pool' = pool /\ bridge' = bridge /\ proc[r].step = "undo containers"
        BY <2>5 DEF UpdateBottleContainers, world, At
      <3>2. proc'[r].step = IF proc[r].info.network THEN "net check" ELSE "undo bottle"
        BY <1>0, <2>5, CreateEffects DEF Goes
      <3> QED
        BY <2>0, <3>1, <3>2 DEF NetMade, NoNetwork, PreSteps
    <2>6. CASE ClearBottleNetwork(r) \/ RemoveFailedBottle(r) \/ CommitNetworkUndone(r) \/ FlagPolicy(r)
      <3>1. /\ pool' = pool /\ bridge' = bridge
            /\ proc[r].step \in {"clear network", "undo network", "undo bottle", "undo policies"}
        BY <2>6 DEF ClearBottleNetwork, RemoveFailedBottle, CommitNetworkUndone, FlagPolicy, world, At
      <3>2. proc'[r].step \in {"undo bottle", "undo policies"}
        BY <1>0, <2>6, CreateEffects, RegisterEffects DEF Goes
      <3> QED
        BY <1>h, <2>0, <3>1, <3>2 DEF NetMade, NoNetwork, PreSteps
    <2>7. CASE NetActs(r)
      <3>1. CASE RemoveBridgeInterface(r)
        <4>1. ~bridge' /\ proc'[r].step = "net pool"
          BY <1>0, <3>1, NetworkEffects DEF RemoveBridgeInterface, Goes
        <4> QED
          BY <4>1 DEF NetMade, PreSteps
      <3>2. CASE RemoveBridge(r)
        <4>1. ~pool' /\ bridge' = bridge /\ proc[r].step = "net pool" /\ proc'[r].step = "net refresh"
          BY <1>0, <1>2, <3>2, NetworkEffects DEF RemoveBridge, Goes, At
        <4> QED
          BY <2>0, <4>1 DEF NetMade, NoNetwork, PreSteps
      <3>3. CASE CheckNetworkEmpty(r) \/ RemoveNetworkFails(r) \/ RefreshAfterRemoveFails(r)
        <4>1. proc'[r].step = "net interface" \/ (halted' /\ proc'[r].step = "clear network")
          BY <1>0, <1>2, <3>3, NetworkEffects DEF Stays, Goes
        <4> QED
          BY <4>1 DEF NetMade, PreSteps
      <3>4. CASE RefreshAfterRemove(r)
        <4>1. /\ pool' = pool /\ bridge' = bridge
              /\ proc[r].step = "net refresh" /\ proc'[r].step = "clear network"
          BY <1>0, <1>2, <3>4, NetworkEffects DEF RefreshAfterRemove, Goes, At
        <4> QED
          BY <2>0, <4>1 DEF NetMade, NoNetwork, PreSteps
      <3> QED
        BY <2>7, <3>1, <3>2, <3>3, <3>4 DEF NetActs
    <2>8. CASE Registered(r) \/ rollbackPolicies(r) \/ rollbackPoliciesFails(r)
      BY <1>0, <2>8, EndStepsEffect, IdleHandler DEF EndSteps, Ends, Creating
    <2> QED
      BY <1>2, <2>1, <2>2, <2>3, <2>4, <2>5, <2>6, <2>7, <2>8, KindActs DEF MakeStep, CreateStep
  <1> QED
    BY <1>1, <1>2

LEMMA DeleteNet ==
    ASSUME Shape, OrderInv, RecordInv, NetworkInv, NEW r \in Procs, Step(r),
           proc'[r].kind = "delete", Complete(proc'[r].info)
    PROVE  NetRemoved(proc[r])'
  <1>0. TypeOK /\ KindOK(proc[r])
    BY ShapeFacts
  <1>h. ~halted' => ~halted
    BY HaltedStays
  <1>1. CASE Delete(r) /\ proc'[r].step = "stop one" /\ proc'[r].info = bsm
    <2>1. bsm # None /\ pool' = pool /\ bridge' = bridge
      BY <1>1 DEF Delete, world
    <2> QED
      BY <1>h, <1>1, <2>1 DEF NetRemoved, NetworkInv, NoNetwork, NetSteps
  <1>2. CASE proc[r].kind = "delete" /\ proc'[r].info = proc[r].info
    <2>1. NetRemoved(proc[r]) /\ ~Creating(r) /\ DeleteActs(r) /\ ~Ends(r)
      BY <1>2, KindActs, IdleHandler DEF NetworkInv, Creating, Ends
    <2>2. (pool' => pool) /\ (bridge' => bridge)
      BY <2>1, NetworkShrinks
    <2>3. CASE StopToDelete(r) \/ DeleteContainer(r) \/ ContainersDeleted(r) \/ RemoveUserPolicy(r) \/ CommitRemoval(r)
      <3>1. DeleteContainer(r) \/ CommitRemoval(r) => proc[r].todo # <<>>
        BY <1>0, KindFacts DEF DeleteContainer, CommitRemoval, At
      <3>2. proc'[r].step \in {"delete one", "stop one", "remove policies", "drop policy"}
        BY <1>0, <2>1, <2>3, <3>1, ActionEffects DEF Goes
      <3> QED
        BY <1>h, <1>2, <2>1, <2>2, <3>2 DEF NetRemoved, NoNetwork, NetSteps
    <2>4. CASE PoliciesRemoved(r)
      <3>1. proc'[r].step = IF proc[r].info.network THEN "net check" ELSE "remove bottle"
        BY <1>0, <2>4, NetworkEffects DEF Goes
      <3> QED
        BY <1>h, <1>2, <2>1, <2>2, <3>1 DEF NetRemoved, NoNetwork, NetSteps
    <2>5. CASE CheckNetworkEmpty(r) \/ RemoveNetworkFails(r) \/ RefreshAfterRemoveFails(r)
      <3>1. proc'[r].step = "net interface" /\ proc[r].step = "net check"
        BY <1>0, <1>2, <2>1, <2>5, NetworkEffects DEF Stays, Goes, CheckNetworkEmpty, At
      <3> QED
        BY <1>h, <1>2, <2>1, <2>2, <3>1 DEF NetRemoved, NoNetwork, NetSteps
    <2>6. CASE RemoveBridgeInterface(r)
      <3>1. ~bridge' /\ proc'[r].step = "net pool" /\ proc[r].step = "net interface"
        BY <1>0, <2>6, NetworkEffects DEF RemoveBridgeInterface, Goes, At
      <3> QED
        BY <1>h, <1>2, <2>1, <2>2, <3>1 DEF NetRemoved, NoNetwork, NetSteps
    <2>7. CASE RemoveBridge(r)
      <3>1. ~pool' /\ proc'[r].step = "net refresh" /\ proc[r].step = "net pool"
        BY <1>0, <1>2, <2>7, NetworkEffects DEF RemoveBridge, Goes, At
      <3> QED
        BY <1>h, <1>2, <2>1, <2>2, <3>1 DEF NetRemoved, NoNetwork, NetSteps
    <2>8. ~EndSteps(r)
      BY <1>0, <2>1, EndStepsEffect
    <2>9. CASE RefreshAfterRemove(r)
      <3>1. proc'[r].step = "remove bottle" /\ proc[r].step = "net refresh"
        BY <1>0, <1>2, <2>9, NetworkEffects DEF RefreshAfterRemove, Goes, At
      <3> QED
        BY <1>h, <1>2, <2>1, <2>2, <3>1 DEF NetRemoved, NoNetwork, NetSteps
    <2> QED
      BY <2>1, <2>3, <2>4, <2>5, <2>6, <2>7, <2>8, <2>9 DEF DeleteActs, EndSteps
  <1> QED
    BY <1>1, <1>2, DeletePartial

LEMMA CompleteNet ==
    ASSUME Shape, OrderInv, RecordInv, NetworkInv, NEW r \in Procs, Step(r),
           bsm' # None, Complete(bsm'), ~bsm'.network, ~halted'
    PROVE  NoNetwork'
  <1>0. TypeOK /\ KindOK(proc[r])
    BY ShapeFacts
  <1>h. ~halted
    BY HaltedStays
  <1>n. Services # {}
    BY BottleAssumption
  <1>1. CASE bsm' = bsm
    <2>1. ~Creating(r)
      BY <1>1 DEF RecordInv, Recorded
    <2> QED
      BY <1>h, <1>1, <2>1, NetworkShrinks DEF NetworkInv, NoNetwork
  <1>2. CASE bsm' # bsm
    <2>1. Creating(r)
      BY <1>2, RecordChanges, RecordEffects
    <2>2. UpdateBottleContainer(r)
      <3>1. ~StoreBottle(r)
        BY <1>0, <1>n, StoreBottleEffect DEF Complete
      <3>2. ~UpdateBottleNetwork(r)
        <4>1. UpdateBottleNetwork(r) => proc[r].info \in Bottles
          BY <1>0, KindFacts DEF UpdateBottleNetwork, At, RegisterSteps, OpenSteps, PreSteps, NetSteps
        <4> QED
          BY <1>0, <4>1, UpdateBottleNetworkEffect
      <3>3. ~UpdateBottleContainers(r)
        BY <1>n, RecordEffects DEF Complete
      <3>4. ~ClearBottleNetwork(r)
        <4>1. ClearBottleNetwork(r) => ~Complete(bsm) /\ bsm # None
          BY <2>1 DEF RecordInv, Recorded, ClearBottleNetwork, At, PreSteps
        <4> QED
          BY <4>1, RecordEffects DEF Complete
      <3>5. ~RemoveFailedBottle(r) /\ ~RemoveBottle(r)
        BY RecordEffects
      <3> QED
        BY <1>2, <3>1, <3>2, <3>3, <3>4, <3>5, RecordSteps
    <2>3. proc[r].step = "record" /\ pool' = pool /\ bridge' = bridge
      BY <2>2 DEF UpdateBottleContainer, At, world
    <2>4. bsm'.network = bsm.network
      BY <2>2, RecordEffects
    <2>5. bsm.network = proc[r].info.network
      BY <2>1, <2>3 DEF RecordInv, Recorded, CreateSteps
    <2> QED
      BY <2>1, <2>3, <2>4, <2>5 DEF NetworkInv, NetMade, NoNetwork
  <1> QED
    BY <1>1, <1>2

LEMMA NetworkStep ==
    ASSUME Shape, OrderInv, RecordInv, ContainerInv, NetworkInv, NEW r \in Procs, Step(r)
    PROVE  NetworkInv'
  <1>o. \A q \in Procs : q # r => proc'[q] = proc[q]
    BY StepFits DEF Fits, Only
  <1>h. ~halted' => ~halted
    BY HaltedStays
  <1>1. ASSUME NEW q \in Procs, Creating(q)' PROVE NetMade(proc[q])'
    <2>1. CASE q = r
      BY <1>1, <2>1, RegisterNetMade
    <2>2. CASE q # r
      <3>1. Creating(q) /\ NetMade(proc[q]) /\ proc'[q] = proc[q]
        BY <1>o, <1>1, <2>2 DEF Creating, NetworkInv
      <3>2. halted' = halted /\ pool' = pool /\ bridge' = bridge
        BY <2>2, <3>1, Bystander DEF Calm
      <3> QED
        BY <3>1, <3>2 DEF NetMade, NoNetwork
    <2> QED
      BY <2>1, <2>2
  <1>2. ASSUME NEW q \in Procs, proc'[q].kind = "delete", Complete(proc'[q].info) PROVE NetRemoved(proc[q])'
    <2>1. CASE q = r
      BY <1>2, <2>1, DeleteNet
    <2>2. CASE q # r
      <3>1. NetRemoved(proc[q]) /\ proc'[q] = proc[q] /\ ~Creating(r)
        BY <1>o, <1>2, <2>2, Exclusive DEF NetworkInv
      <3>2. (pool' => pool) /\ (bridge' => bridge)
        BY <3>1, NetworkShrinks
      <3> QED
        BY <1>h, <3>1, <3>2 DEF NetRemoved, NoNetwork
    <2> QED
      BY <2>1, <2>2
  <1>3. ASSUME bsm' = None, ~halted', \A q \in Procs : ~Creating(q)' PROVE NoNetwork'
    <2>1. CASE bsm = None /\ \A q \in Procs : ~Creating(q)
      BY <1>h, <1>3, <2>1, NetworkShrinks DEF NetworkInv, NoNetwork
    <2>2. CASE Creating(r) /\ proc[r].step \in PreSteps \cup {"undo policies"} /\ pool' = pool /\ bridge' = bridge
      BY <1>h, <1>3, <2>2 DEF NetworkInv, NetMade, NoNetwork
    <2>3. CASE RemoveBottle(r) /\ proc[r].kind = "delete" /\ Complete(proc[r].info)
      BY <1>h, <1>3, <2>3 DEF NetworkInv, NetRemoved, NoNetwork, RemoveBottle, At, world
    <2> QED
      BY <1>3, <2>1, <2>2, <2>3, LastStep
  <1> QED
    BY <1>1, <1>2, <1>3, CompleteNet DEF NetworkInv

LEMMA NetworkInit == Init => NetworkInv
  BY IdleHandler DEF Init, NetworkInv, Creating, NoNetwork

LEMMA NetworkNext == Shape /\ OrderInv /\ RecordInv /\ ContainerInv /\ NetworkInv /\ [Next]_vars => NetworkInv'
  <1> SUFFICES ASSUME Shape, OrderInv, RecordInv, ContainerInv, NetworkInv, [Next]_vars PROVE NetworkInv'
    OBVIOUS
  <1>1. CASE UNCHANGED vars
    BY <1>1 DEF vars, NetworkInv, Creating, NetMade, NetRemoved, NoNetwork
  <1>2. CASE \E r \in Procs : Step(r)
    BY <1>2, NetworkStep
  <1>3. CASE Others
    <2>1. proc' = proc /\ bsm' = bsm /\ halted' = halted /\ pool' = pool /\ bridge' = bridge
      BY <1>3, OthersEffect DEF Shape
    <2> QED
      BY <2>1 DEF NetworkInv, Creating, NetMade, NetRemoved, NoNetwork
  <1> QED
    BY <1>1, <1>2, <1>3, NextCases

-----------------------------------------------------------------------------
\* The policies.
LEMMA WritesKeep ==
    ASSUME TypeOK, NEW r \in Procs, NEW W \in SUBSET ToSet(Policies), Writes(r, W), NEW p \in ToSet(Policies)
    PROVE  (Clear(p) => Clear(p)') /\ (Flag(p) => Flag(p)')
  <1>0. npm \in [ToSet(Policies) -> Status]
    BY DEF TypeOK
  <1>1. npm'[p] = IF p \in W /\ listed[r][p] # "none" /\ npm[p] # "none" THEN Outcome(r, p) ELSE npm[p]
    BY <1>0 DEF Writes
  <1>2. stale \subseteq stale'
    BY DEF Writes
  <1>3. ASSUME npm[p] = "remove_next_commit", npm'[p] = "stored" PROVE p \in stale'
    <2>1. listed[r][p] # "remove_next_commit"
      BY <1>1, <1>3 DEF Outcome
    <2>2. p \in Flagged(npm) /\ p \notin Flagged(listed[r])
      BY <1>3, <2>1 DEF Flagged
    <2> QED
      BY <2>2 DEF Writes
  <1>4. npm[p] \in Status
    BY <1>0
  <1>5. Clear(p) => Clear(p)'
    BY <1>1, <1>2 DEF Clear
  <1>6. Flag(p) => Flag(p)'
    <2>1. CASE npm'[p] = "stored" /\ npm[p] = "none"
      BY <1>1, <2>1
    <2> QED
      BY <1>2, <1>3, <1>4, <2>1 DEF Flag, Status
  <1> QED
    BY <1>5, <1>6

\* A commit that has listed the flag, in the store still, takes the policy out.
LEMMA CommitsClear ==
    ASSUME TypeOK, NEW r \in Procs, Commits(r), NEW p \in ToSet(Policies), Doomed(r, p)
    PROVE  Clear(p)'
  <1>0. npm \in [ToSet(Policies) -> Status] /\ npm[p] \in Status
    BY DEF TypeOK
  <1>1. PICK W \in SUBSET ToSet(Policies) : Writes(r, W) /\ (~Gone(r) => W = ToSet(Policies))
    BY DEF Commits
  <1>2. CASE Clear(p)
    BY <1>1, <1>2, WritesKeep
  <1>3. CASE ~Clear(p)
    <2>1. npm[p] = "remove_next_commit" /\ listed[r][p] = "remove_next_commit"
      BY <1>0, <1>3 DEF Doomed, Flag, Clear, Commits, Status
    <2>2. CASE Gone(r)
      BY <1>1, <2>1, <2>2 DEF Writes, Flagged, Clear
    <2>3. CASE ~Gone(r)
      <3>1. npm'[p] = Outcome(r, p)
        BY <1>0, <1>1, <2>1, <2>3 DEF Writes
      <3> QED
        BY <2>1, <3>1 DEF Outcome, Clear
    <2> QED
      BY <2>2, <2>3
  <1> QED
    BY <1>2, <1>3

LEMMA PolicyStays ==
    ASSUME Shape, NEW r \in Procs, Step(r), ~AddUserPolicy(r)
    PROVE  \A p \in ToSet(Policies) : (Clear(p) => Clear(p)') /\ (Flag(p) => Flag(p)')
  <1>0. TypeOK /\ npm \in [ToSet(Policies) -> Status] /\ stale \subseteq stale'
    BY WorldTypes DEF Shape, TypeOK
  <1>1. CASE npm' = npm
    BY <1>0, <1>1 DEF Clear, Flag
  <1>2. CASE RemoveUserPolicy(r)
    BY <1>0, <1>2 DEF RemoveUserPolicy, Clear, Flag
  <1>3. CASE FlagPolicy(r)
    BY <1>0, <1>3 DEF FlagPolicy, Clear, Flag
  <1>4. CASE \E W \in SUBSET ToSet(Policies) : Writes(r, W)
    BY <1>0, <1>4, WritesKeep
  <1> QED
    BY <1>1, <1>2, <1>3, <1>4, PolicyStoreSteps

LEMMA PolicyOthers ==
    ASSUME Shape, Others
    PROVE  /\ \A p \in ToSet(Policies) : (Clear(p) => Clear(p)') /\ (Flag(p) => Flag(p)')
           /\ \A r \in Procs : \A p \in ToSet(Policies) : Doomed(r, p) => Doomed(r, p)'
  <1>0. TypeOK /\ npm \in [ToSet(Policies) -> Status] /\ stale \subseteq stale'
    BY OthersEffect DEF Shape, TypeOK
  <1>1. \A p \in ToSet(Policies) : (Clear(p) => Clear(p)') /\ (Flag(p) => Flag(p)')
    <2>1. CASE GuestContainer \/ \E r \in Procs : ListPolicies(r)
      BY <1>0, <2>1 DEF GuestContainer, ListPolicies, world, Clear, Flag
    <2>2. CASE UserRemovesPolicy
      BY <1>0, <2>2 DEF UserRemovesPolicy, Clear, Flag
    <2>3. CASE OtherCommit
      BY <1>0, <2>3 DEF OtherCommit, Clear, Flag
    <2> QED
      BY <2>1, <2>2, <2>3 DEF Others
  <1>2. ASSUME NEW r \in Procs, NEW p \in ToSet(Policies), Doomed(r, p) PROVE Doomed(r, p)'
    <2>1. CASE listed'[r] = listed[r]
      BY <1>1, <1>2, <2>1 DEF Doomed
    <2>2. CASE listed'[r] # listed[r]
      <3>1. listed'[r] = npm /\ npm' = npm /\ stale' = stale
        BY <1>0, <2>2 DEF Others, GuestContainer, UserRemovesPolicy, OtherCommit, ListPolicies, commits, world, TypeOK
      <3> QED
        BY <1>0, <1>2, <3>1 DEF Doomed, Flag, Clear, Status
    <2> QED
      BY <2>1, <2>2
  <1> QED
    BY <1>1, <1>2

\* The steps of the other requests.
LEMMA DoomedStays ==
    ASSUME Shape, NEW r \in Procs, NEW q \in Procs, q # r, Step(r), NEW p \in ToSet(Policies), Doomed(q, p),
           Clear(p) => Clear(p)', Flag(p) => Flag(p)'
    PROVE  Doomed(q, p)'
  <1>1. listed'[q] = listed[q]
    BY WorldTypes
  <1> QED
    BY <1>1 DEF Doomed

LEMMA AddingCreates ==
    ASSUME Shape, NEW r \in Procs, AddUserPolicy(r)
    PROVE  Creating(r)
  BY ShapeFacts, KindFacts DEF AddUserPolicy, At, Creating, RegisterSteps, PreSteps, NetSteps

LEMMA DeletePolicies ==
    ASSUME Shape, OrderInv, RecordInv, PolicyInv, NEW r \in Procs, Step(r), proc'[r].kind = "delete"
    PROVE  PolicyGone(r)'
  <1>0. TypeOK /\ KindOK(proc[r]) /\ Typed(proc[r])
    BY ShapeFacts
  <1>1. CASE proc'[r].step = "stop one"
    BY <1>1 DEF PolicyGone, NetSteps
  <1>2. CASE proc[r].kind = "delete" /\ proc'[r].step # "stop one"
    <2>1. PolicyGone(r) /\ DeleteActs(r) /\ ~Ends(r) /\ ~AddUserPolicy(r)
      BY <1>2, KindActs, IdleHandler, AddingCreates DEF PolicyInv, Ends, Creating
    <2>2. \A p \in ToSet(Policies) : Clear(p) => Clear(p)'
      BY <2>1, PolicyStays
    <2>3. CASE StopToDelete(r) \/ DeleteContainer(r)
      <3>1. DeleteContainer(r) => proc[r].todo # <<>>
        BY <1>0, KindFacts DEF DeleteContainer, At
      <3>2. proc'[r].step \in {"delete one", "stop one"}
        BY <1>0, <2>1, <2>3, <3>1, ActionEffects DEF Goes
      <3> QED
        BY <3>2 DEF PolicyGone, NetSteps
    <2>4. CASE ContainersDeleted(r)
      <3>1. proc'[r].step = "remove policies" /\ proc'[r].todo = Policies
        BY <1>0, <2>4, ActionEffects DEF Goes
      <3> QED
        BY <3>1 DEF PolicyGone, NetSteps
    <2>5. CASE RemoveUserPolicy(r)
      <3>1. proc[r].step = "remove policies" /\ proc[r].todo # <<>> /\ proc[r].todo \in Seq(ToSet(Policies))
        BY <1>0, <2>5 DEF RemoveUserPolicy, At, Typed, PolicySteps
      <3>2. proc'[r].step = "drop policy" /\ proc'[r].todo = proc[r].todo
        BY <1>0, <2>1, <2>5, ActionEffects DEF Goes
      <3>3. npm' = [npm EXCEPT ![Head(proc[r].todo)] = "remove_next_commit"]
        BY <1>0, <2>1, <2>5, EndEffect DEF RemoveUserPolicy
      <3>4. Head(proc[r].todo) \in ToSet(Policies)
        BY <3>1, SeqHeadTail
      <3>5. npm'[Head(proc[r].todo)] = "remove_next_commit"
        BY <1>0, <3>3, <3>4 DEF TypeOK
      <3>6. listed'[r] = None
        BY WorldTypes
      <3>7. Doomed(r, Head(proc[r].todo))'
        BY <3>2, <3>5, <3>6 DEF Doomed, Flag
      <3> QED
        BY <2>1, <2>2, <3>1, <3>2, <3>7 DEF PolicyGone, NetSteps
    <2>c. CASE CommitRemoval(r)
      <3>1. /\ proc[r].step = "drop policy" /\ Commits(r) /\ proc[r].todo # <<>>
            /\ proc[r].todo \in Seq(ToSet(Policies))
        BY <1>0, <2>c, KindFacts DEF CommitRemoval, At, Typed, PolicySteps
      <3>2. proc'[r].step = "remove policies" /\ proc'[r].todo = Tail(proc[r].todo)
        BY <1>0, <2>c, <3>1, ActionEffects DEF Goes
      <3>4. /\ ToSet(proc[r].todo) = ToSet(Tail(proc[r].todo)) \cup {Head(proc[r].todo)}
            /\ Head(proc[r].todo) \in ToSet(Policies)
        BY <3>1, SeqTypes, SeqHeadTail
      <3>5. Doomed(r, Head(proc[r].todo)) /\ \A x \in ToSet(Policies) : x \notin ToSet(proc[r].todo) => Clear(x)
        BY <2>1, <3>1 DEF PolicyGone
      <3>6. \A x \in ToSet(Policies) : Doomed(r, x) => Clear(x)'
        BY <1>0, <3>1, CommitsClear
      <3>7. \A x \in ToSet(Policies) : x \notin ToSet(Tail(proc[r].todo)) => Clear(x)'
        BY <2>2, <3>4, <3>5, <3>6
      <3> QED
        BY <3>2, <3>7 DEF PolicyGone, NetSteps
    <2>6. CASE PoliciesRemoved(r)
      <3>1. proc[r].step = "remove policies" /\ proc[r].todo = <<>>
        BY <2>6 DEF PoliciesRemoved, At
      <3>2. NoPolicy
        BY <2>1, <3>1, ToSetEmpty DEF PolicyGone, NoPolicy
      <3>3. proc'[r].step \in {"net check", "remove bottle"}
        BY <1>0, <2>6, NetworkEffects DEF Goes
      <3> QED
        BY <2>2, <3>2, <3>3 DEF PolicyGone, NoPolicy, NetSteps
    <2>7. CASE NetActs(r)
      <3>1. proc[r].step \in NetSteps
        BY <2>7 DEF NetActs, CheckNetworkEmpty, RemoveBridgeInterface, RemoveBridge, RemoveNetworkFails,
             RefreshAfterRemove, RefreshAfterRemoveFails, At, NetSteps
      <3>2. proc'[r].step \in NetSteps \cup {"remove bottle"}
        BY <1>0, <1>2, <2>1, <2>7, NetworkEffects DEF NetActs, Stays, Goes, NetSteps
      <3> QED
        BY <2>1, <2>2, <3>1, <3>2 DEF PolicyGone, NoPolicy, NetSteps
    <2>8. ~EndSteps(r)
      BY <1>0, <2>1, EndStepsEffect
    <2> QED
      BY <2>1, <2>3, <2>4, <2>5, <2>c, <2>6, <2>7, <2>8 DEF DeleteActs, NetActs, EndSteps
  <1> QED
    BY <1>1, <1>2, DeletePartial

LEMMA RegisterPolicies ==
    ASSUME Shape, ContainerInv, PolicyInv, NEW r \in Procs, Step(r),
           proc'[r].kind = "register", proc'[r].step \in {"order", "invalid"}
    PROVE  NoPolicy'
  <1>0. TypeOK /\ KindOK(proc[r])
    BY ShapeFacts
  <1>1. CASE proc[r].kind # "register"
    <2>1. requests = 0 /\ bsm = None /\ Request(r)
      BY <1>1, StepFits
    <2>2. npm' = npm /\ stale \subseteq stale'
      BY <2>1, RequestFrame, WorldTypes
    <2>3. \A q \in Procs : ~Creating(q)
      BY <2>1, IdleHandler DEF Shape, OneRegistration, Creating
    <2> QED
      BY <2>1, <2>2, <2>3 DEF PolicyInv, ContainerInv, NoPolicy, Clear
  <1>2. CASE proc[r].kind = "register"
    <2>1. RegStep(r)
      <3>1. ~NetActs(r)
        BY <1>0, <1>2, NetworkEffects DEF NetActs, Stays, Goes
      <3>2. ~MakeStep(r)
        <4>1. UpdateBottleNetwork(r) => proc[r].info \in Bottles
          BY <1>0, KindFacts DEF UpdateBottleNetwork, At, RegisterSteps, OpenSteps, PreSteps, NetSteps
        <4>2. ~UpdateBottleNetwork(r)
          BY <1>0, <4>1, UpdateBottleNetworkEffect
        <4>3. UpdateBottleContainer(r) => proc[r].todo # <<>>
          BY <1>0, KindFacts DEF UpdateBottleContainer, At
        <4>4. ~EndSteps(r)
          BY <1>0, EndStepsEffect, IdleHandler DEF Ends
        <4>5. ~RemoveFailedBottle(r) /\ ~FlagPolicy(r)
          BY <1>0, RegisterEffects DEF Goes
        <4> QED
          BY <1>0, <4>2, <4>3, <4>4, <4>5, CreateEffects DEF MakeStep, CreateStep, EndSteps, Goes, Makes
      <3> QED
        BY <1>2, <3>1, <3>2, KindActs
    <2>2. BuildStartOrder(r) \/ OrderBuilt(r)
      <3>1. ~StoreBottle(r)
        BY <1>0, StoreBottleEffect
      <3>2. ~EndSteps(r)
        BY <1>0, EndStepsEffect, IdleHandler DEF Ends
      <3> QED
        BY <1>0, <2>1, <3>1, <3>2, RegisterEffects DEF RegStep, RegisterStep, EndSteps, Goes
    <2>3. npm' = npm /\ stale \subseteq stale' /\ proc[r].step = "order"
      BY <2>2, WorldTypes DEF BuildStartOrder, OrderBuilt, At, world
    <2> QED
      BY <1>2, <2>3 DEF PolicyInv, NoPolicy, Clear
  <1> QED
    BY <1>1, <1>2

\* rollbackPolicies flags the policies from the first to the last.
LEMMA RegisterUndone ==
    ASSUME Shape, PolicyInv, NEW r \in Procs, Step(r), proc'[r].kind = "register"
    PROVE  PolicyUndone(r)'
  <1>0. TypeOK /\ KindOK(proc[r]) /\ Typed(proc[r]) /\ npm \in [ToSet(Policies) -> Status] /\ listed'[r] = None
    BY ShapeFacts, WorldTypes DEF TypeOK
  <1> SUFFICES ASSUME proc'[r].step = "undo policies"
               PROVE  \A p \in ToSet(Policies) : p \notin ToSet(proc'[r].todo) => Flag(p)'
    BY <1>0 DEF PolicyUndone, Doomed
  <1>1. CASE proc'[r].todo = Policies
    BY <1>1
  <1>2. CASE FlagPolicy(r)
    <2>1. /\ proc[r].step = "undo policies" /\ proc[r].todo # <<>> /\ proc[r].todo \in Seq(ToSet(Policies))
          /\ proc[r].kind = "register" /\ ~AddUserPolicy(r)
      BY <1>0, <1>2, StepFits, KindFacts, IdleHandler DEF FlagPolicy, AddUserPolicy, At, Typed, PolicySteps, Request, RegisterBottle,
           Start, Stop, Delete, Begin
    <2>2. proc'[r].todo = Tail(proc[r].todo)
      BY <1>0, <1>2, RegisterEffects DEF Goes
    <2>3. ToSet(proc[r].todo) = ToSet(Tail(proc[r].todo)) \cup {Head(proc[r].todo)} /\ Head(proc[r].todo) \in ToSet(Policies)
      BY <2>1, SeqTypes, SeqHeadTail
    <2>4. npm'[Head(proc[r].todo)] # "stored"
      BY <1>0, <1>2, <2>3 DEF FlagPolicy
    <2>5. \A p \in ToSet(Policies) : p \notin ToSet(proc[r].todo) => Flag(p)
      BY <2>1 DEF PolicyInv, PolicyUndone, Doomed
    <2>6. \A p \in ToSet(Policies) : Flag(p) => Flag(p)'
      BY <2>1, PolicyStays
    <2>7. \A p \in ToSet(Policies) : p = Head(proc[r].todo) => Flag(p)'
      BY <2>4 DEF Flag
    <2> QED
      BY <2>2, <2>3, <2>5, <2>6, <2>7
  <1>3. CASE ~FlagPolicy(r)
    <2>1. proc[r].kind = "register"
      <3>1. CASE Request(r)
        <4>1. CASE \E deps \in Deps : RegisterBottle(r, deps)
          BY <1>0, <4>1, RegisterEffect DEF Enters
        <4>2. CASE Start(r) \/ Stop(r) \/ Delete(r)
          <5>1. bsm # None
            BY <4>2 DEF Start, Stop, Delete
          <5> QED
            BY <1>0, <4>2, <5>1, RequestEffects DEF Enters
        <4> QED
          BY <3>1, <4>1, <4>2 DEF Request
      <3> QED
        BY <3>1, StepFits
    <2>2. ~EndSteps(r)
      BY <1>0, EndStepsEffect, IdleHandler DEF Ends
    <2>3. ~NetActs(r)
      BY <1>0, <2>1, NetworkEffects DEF NetActs, Stays, Goes
    <2>4. CASE RegStep(r)
      <3>1. ~BuildStartOrder(r)
        BY <1>0, BuildStartOrderEffect
      <3>2. ~StoreBottle(r)
        BY <1>0, StoreBottleEffect
      <3> QED
        BY <1>0, <1>1, <2>2, <2>4, <3>1, <3>2, RegisterEffects DEF RegStep, RegisterStep, EndSteps, Goes
    <2>5. CASE MakeStep(r)
      <3>1. UpdateBottleNetwork(r) => proc[r].info \in Bottles
        BY <1>0, KindFacts DEF UpdateBottleNetwork, At, RegisterSteps, OpenSteps, PreSteps, NetSteps
      <3>2. ~UpdateBottleNetwork(r)
        BY <1>0, <3>1, UpdateBottleNetworkEffect
      <3>3. UpdateBottleContainer(r) => proc[r].todo # <<>>
        BY <1>0, KindFacts DEF UpdateBottleContainer, At
      <3>4. RemoveFailedBottle(r)
        BY <1>0, <1>3, <2>2, <2>5, <3>2, <3>3, CreateEffects DEF MakeStep, CreateStep, EndSteps, Goes, Makes
      <3> QED
        BY <1>0, <1>1, <3>4, RegisterEffects DEF Goes
    <2> QED
      BY <2>1, <2>3, <2>4, <2>5, KindActs
  <1> QED
    BY <1>2, <1>3

LEMMA PolicyStep ==
    ASSUME Shape, OrderInv, RecordInv, ContainerInv, PolicyInv, NEW r \in Procs, Step(r)
    PROVE  PolicyInv'
  <1>0. TypeOK
    BY ShapeFacts
  <1>o. \A q \in Procs : q # r => proc'[q] = proc[q]
    BY StepFits DEF Fits, Only
  <1>1. ASSUME NEW q \in Procs, proc'[q].kind = "register", proc'[q].step \in {"order", "invalid"} PROVE NoPolicy'
    <2>1. CASE q = r
      BY <1>1, <2>1, RegisterPolicies
    <2>2. CASE q # r
      <3>1. Creating(q) /\ NoPolicy
        BY <1>o, <1>1, <2>2 DEF PolicyInv, Creating
      <3>2. npm' = npm /\ stale \subseteq stale'
        BY <2>2, <3>1, Bystander, WorldTypes DEF Calm
      <3> QED
        BY <3>1, <3>2 DEF NoPolicy, Clear
    <2> QED
      BY <2>1, <2>2
  <1>u. ASSUME NEW q \in Procs, proc'[q].kind = "register" PROVE PolicyUndone(q)'
    <2>1. CASE q = r
      BY <1>u, <2>1, RegisterUndone
    <2>2. CASE q # r /\ proc'[q].step = "undo policies"
      <3>1. Creating(q) /\ PolicyUndone(q) /\ proc'[q] = proc[q] /\ proc[q].step = "undo policies"
        BY <1>o, <1>u, <2>2 DEF PolicyInv, Creating
      <3>2. npm' = npm /\ stale \subseteq stale' /\ listed'[q] = listed[q]
        BY <2>2, <3>1, Bystander, WorldTypes DEF Calm
      <3>3. \A p \in ToSet(Policies) : Doomed(q, p) => Doomed(q, p)'
        BY <3>2 DEF Doomed, Flag, Clear
      <3> QED
        BY <3>1, <3>3 DEF PolicyUndone
    <2> QED
      BY <2>1, <2>2 DEF PolicyUndone
  <1>2. ASSUME NEW q \in Procs, proc'[q].kind = "delete" PROVE PolicyGone(q)'
    <2>1. CASE q = r
      BY <1>2, <2>1, DeletePolicies
    <2>2. CASE q # r
      <3>1. PolicyGone(q) /\ proc'[q] = proc[q] /\ proc[q].kind = "delete"
        BY <1>o, <1>2, <2>2 DEF PolicyInv
      <3>2. CASE AddUserPolicy(r)
        <4>1. ~Complete(proc[q].info) /\ Partial(proc[q])
          BY <3>1, <3>2, AddingCreates DEF RecordInv
        <4>2. proc[q].step = "stop one"
          BY <4>1 DEF Partial
        <4> QED
          BY <3>1, <4>2 DEF PolicyGone, NetSteps
      <3>3. CASE ~AddUserPolicy(r)
        <4>1. \A p \in ToSet(Policies) : (Clear(p) => Clear(p)') /\ (Flag(p) => Flag(p)')
          BY <3>3, PolicyStays
        <4>2. \A p \in ToSet(Policies) : Doomed(q, p) => Doomed(q, p)'
          BY <2>2, <4>1, DoomedStays
        <4>3. proc[q].step = "drop policy" => Head(proc[q].todo) \in ToSet(Policies)
          <5>1. proc[q].step = "drop policy" => proc[q].todo # <<>>
            BY <3>1, ShapeFacts, KindFacts
          <5> QED
            BY <5>1, TailTyped DEF PolicySteps
        <4> QED
          BY <3>1, <4>1, <4>2, <4>3 DEF PolicyGone, NoPolicy
      <3> QED
        BY <3>2, <3>3
    <2> QED
      BY <2>1, <2>2
  <1>3. ASSUME bsm' = None, ~halted', \A q \in Procs : ~Creating(q)' PROVE NoPolicy'
    <2>h. ~halted
      BY <1>3, HaltedStays
    <2>1. CASE bsm = None /\ \A q \in Procs : ~Creating(q)
      <3>1. ~AddUserPolicy(r) /\ NoPolicy
        BY <2>h, <2>1, AddingCreates DEF PolicyInv
      <3> QED
        BY <3>1, PolicyStays DEF NoPolicy
    <2>2. CASE Creating(r) /\ Refuse(r)
      <3>1. NoPolicy /\ npm' = npm /\ stale \subseteq stale'
        BY <2>2, WorldTypes DEF PolicyInv, Refuse, At, Creating, world
      <3> QED
        BY <3>1 DEF NoPolicy, Clear
    <2>3. CASE CommitPoliciesFails(r) \/ rollbackPoliciesFails(r)
      BY <1>3, <2>3 DEF CommitPoliciesFails, rollbackPoliciesFails
    <2>4. CASE rollbackPolicies(r)
      <3>1. /\ Commits(r) /\ proc[r].step = "undo policies" /\ proc[r].todo = <<>>
            /\ proc[r].kind = "register"
        BY <2>4, ShapeFacts, KindFacts, IdleHandler DEF rollbackPolicies, At, DeleteSteps, NetSteps
      <3>2. \A p \in ToSet(Policies) : Doomed(r, p)
        BY <3>1, ToSetEmpty DEF PolicyInv, PolicyUndone
      <3> QED
        BY <1>0, <3>1, <3>2, CommitsClear DEF NoPolicy
    <2>5. CASE RemoveBottle(r) /\ proc[r].kind = "delete"
      <3>1. NoPolicy /\ npm' = npm /\ stale \subseteq stale'
        BY <2>5, WorldTypes DEF PolicyInv, PolicyGone, RemoveBottle, At, world
      <3> QED
        BY <3>1 DEF NoPolicy, Clear
    <2> QED
      BY <1>3, <2>1, <2>2, <2>3, <2>4, <2>5, LastStep
  <1> QED
    BY <1>1, <1>u, <1>2, <1>3 DEF PolicyInv

LEMMA PolicyInit == Init => PolicyInv
  BY IdleHandler DEF Init, PolicyInv, NoPolicy, Clear

LEMMA PolicyNext == Shape /\ OrderInv /\ RecordInv /\ ContainerInv /\ PolicyInv /\ [Next]_vars => PolicyInv'
  <1> SUFFICES ASSUME Shape, OrderInv, RecordInv, ContainerInv, PolicyInv, [Next]_vars PROVE PolicyInv'
    OBVIOUS
  <1>1. CASE UNCHANGED vars
    BY <1>1 DEF vars, PolicyInv, PolicyUndone, PolicyGone, Doomed, Flag, Clear, Creating, NoPolicy
  <1>2. CASE \E r \in Procs : Step(r)
    BY <1>2, PolicyStep
  <1>3. CASE Others
    <2>1. proc' = proc /\ bsm' = bsm /\ halted' = halted
      BY <1>3, OthersEffect DEF Shape
    <2>2. /\ \A p \in ToSet(Policies) : Clear(p) => Clear(p)'
          /\ \A r \in Procs : \A p \in ToSet(Policies) : Doomed(r, p) => Doomed(r, p)'
      BY <1>3, PolicyOthers
    <2>3. NoPolicy => NoPolicy'
      BY <2>2 DEF NoPolicy
    <2>4. \A r \in Procs : PolicyUndone(r) => PolicyUndone(r)'
      BY <2>1, <2>2 DEF PolicyUndone
    <2>5. \A r \in Procs : proc[r].kind = "delete" /\ PolicyGone(r) => PolicyGone(r)'
      <3>1. \A r \in Procs : proc[r].kind = "delete" /\ proc[r].step = "drop policy" => proc[r].todo # <<>>
        BY ShapeFacts, KindFacts
      <3>2. \A r \in Procs : proc[r].kind = "delete" /\ proc[r].step = "drop policy" => Head(proc[r].todo) \in ToSet(Policies)
        BY <3>1, TailTyped DEF PolicySteps
      <3> QED
        BY <2>1, <2>2, <2>3, <3>2 DEF PolicyGone
    <2> QED
      BY <2>1, <2>3, <2>4, <2>5 DEF PolicyInv, Creating
  <1> QED
    BY <1>1, <1>2, <1>3, NextCases

-----------------------------------------------------------------------------
\* The guest.
LEMMA GuestUntouched ==
    ASSUME Shape, NEW r \in Procs, Step(r)
    PROVE  csm'[Guest] = csm[Guest]
  <1>0. /\ TypeOK /\ KindOK(proc[r]) /\ Typed(proc[r]) /\ proc[r] \in Handler /\ Guest \notin Services
        /\ csm \in [Containers -> {"none", "created", "running", "stopped"}]
    BY ShapeFacts, BottleAssumption DEF TypeOK
  <1>1. CASE UndoContainer(r)
    <2>1. Last(proc[r].made) \in Services
      BY <1>0, <1>1, SeqFrontLast DEF UndoContainer, Handler
    <2> QED
      BY <1>0, <1>1, <2>1 DEF UndoContainer, Delete_, Containers
  <1>2. CASE \/ CreateContainer(r) \/ StartContainer(r) \/ StopContainer(r) \/ StopToDelete(r) \/ DeleteContainer(r)
    <2>1. proc[r].todo # <<>> /\ proc[r].step \notin PolicySteps
      BY <1>0, <1>2, KindFacts DEF CreateContainer, StartContainer, StopContainer, StopToDelete, DeleteContainer, At,
           PolicySteps
    <2>2. Head(proc[r].todo) \in Services
      BY <2>1, TailTyped
    <2> QED
      BY <1>0, <1>2, <2>2 DEF CreateContainer, StartContainer, StopContainer, StopToDelete, DeleteContainer, Start_, Delete_,
           Containers
  <1> QED
    BY <1>1, <1>2, ContainerSteps

\* RemoveNetwork counts the guest.
LEMMA CountsGuest ==
    ASSUME Shape, NumContainers = 0
    PROVE  csm[Guest] = "none"
  <1> DEFINE there == {c \in Containers : csm[c] # "none"}
  <1>1. IsFiniteSet(Containers)
    <2>1. IsFiniteSet({Guest})
      BY FS_Singleton
    <2> QED
      BY <2>1, BottleAssumption, FS_Union DEF Containers
  <1>2. IsFiniteSet(there)
    BY <1>1, FS_Subset
  <1>3. there = {}
    BY <1>2, FS_EmptySet DEF NumContainers
  <1> QED
    BY <1>3 DEF Containers

GuestSteps == {"interface", "refresh", "net interface", "net pool"}

LEMMA GuestStep ==
    ASSUME Shape, OrderInv, RecordInv, ContainerInv, NetworkInv, GuestInv, NEW r \in Procs, Step(r)
    PROVE  GuestInv'
  <1>0. TypeOK /\ KindOK(proc[r])
    BY ShapeFacts
  <1>o. \A q \in Procs : q # r => proc'[q] = proc[q]
    BY StepFits DEF Fits, Only
  <1>g. csm'[Guest] = csm[Guest] /\ late' = late
    BY <1>0, GuestUntouched, CounterSteps
  <1>1. ASSUME proc'[r].step \in GuestSteps PROVE csm[Guest] = "none" \/ late
    <2>1. CASE proc[r].step \in GuestSteps
      BY <2>1 DEF GuestInv, GuestSteps
    <2>2. CASE proc[r].step \notin GuestSteps
      <3>1. CASE proc[r].kind = "register"
        <4>1. StoreBridge(r) \/ CheckNetworkEmpty(r)
          <5>1. ~EndSteps(r)
            BY <1>0, <1>1, EndStepsEffect, IdleHandler DEF Ends, GuestSteps
          <5>2. CASE RegStep(r)
            <6>1. ~BuildStartOrder(r)
              BY <1>0, <1>1, BuildStartOrderEffect DEF GuestSteps
            <6>2. ~StoreBottle(r)
              BY <1>0, <1>1, StoreBottleEffect DEF GuestSteps
            <6> QED
              BY <1>0, <1>1, <5>1, <5>2, <6>1, <6>2, RegisterEffects DEF RegStep, RegisterStep, EndSteps, Goes, GuestSteps
          <5>3. CASE MakeStep(r)
            <6>1. UpdateBottleNetwork(r) => proc[r].info \in Bottles
              BY <1>0, KindFacts DEF UpdateBottleNetwork, At, RegisterSteps, OpenSteps, PreSteps, NetSteps
            <6>2. ~UpdateBottleNetwork(r)
              BY <1>0, <1>1, <6>1, UpdateBottleNetworkEffect DEF GuestSteps
            <6>3. UpdateBottleContainer(r) => proc[r].todo # <<>>
              BY <1>0, KindFacts DEF UpdateBottleContainer, At
            <6>4. ~RemoveFailedBottle(r) /\ ~FlagPolicy(r)
              BY <1>0, <1>1, RegisterEffects DEF Goes, GuestSteps
            <6>5. ~CreateBridgeInterface(r) /\ ~RefreshPolicy(r) /\ ~RefreshPolicyFails(r)
              BY <2>2 DEF CreateBridgeInterface, RefreshPolicy, RefreshPolicyFails, At, GuestSteps
            <6> QED
              BY <1>0, <1>1, <5>1, <5>3, <6>2, <6>3, <6>4, <6>5, CreateEffects
                 DEF MakeStep, CreateStep, EndSteps, Goes, Makes, GuestSteps
          <5>4. CASE NetActs(r)
            <6>1. ~RefreshAfterRemove(r) /\ ~RefreshAfterRemoveFails(r)
              BY <1>0, <1>1, NetworkEffects, IdleHandler DEF Stays, Goes, Ends, GuestSteps
            <6> QED
              BY <2>2, <5>4, <6>1 DEF NetActs, RemoveBridgeInterface, RemoveBridge, RemoveNetworkFails, At, GuestSteps
          <5> QED
            BY <3>1, <5>2, <5>3, <5>4, KindActs
        <4>2. CASE StoreBridge(r)
          <5>1. proc[r].step = "network" /\ Creating(r)
            BY <3>1, <4>2 DEF StoreBridge, At, Creating
          <5>2. ~pool
            BY <5>1 DEF NetworkInv, NetMade, NoNetwork
          <5> QED
            BY <5>2 DEF GuestInv, NetworkKept
        <4>3. CASE CheckNetworkEmpty(r)
          BY <1>0, <1>1, <3>1, <4>3, NetworkEffects, CountsGuest DEF Stays, Goes, GuestSteps
        <4> QED
          BY <4>1, <4>2, <4>3
      <3>2. CASE proc[r].kind = "delete"
        <4>1. CheckNetworkEmpty(r)
          <5>1. ~EndSteps(r)
            BY <1>0, <1>1, EndStepsEffect, IdleHandler DEF Ends, GuestSteps
          <5>2. DeleteContainer(r) => proc[r].todo # <<>>
            BY <1>0, KindFacts DEF DeleteContainer, At
          <5>c. CommitRemoval(r) => proc[r].todo # <<>>
            BY <1>0, KindFacts DEF CommitRemoval, At
          <5>3. /\ ~StopToDelete(r) /\ ~DeleteContainer(r) /\ ~ContainersDeleted(r) /\ ~RemoveUserPolicy(r)
                /\ ~CommitRemoval(r)
            BY <1>0, <1>1, <5>2, <5>c, ActionEffects, IdleHandler DEF Goes, Ends, GuestSteps
          <5>4. ~PoliciesRemoved(r)
            BY <1>0, <1>1, NetworkEffects DEF Goes, GuestSteps
          <5>5. ~RemoveBridgeInterface(r) /\ ~RemoveBridge(r) /\ ~RemoveNetworkFails(r)
            BY <2>2 DEF RemoveBridgeInterface, RemoveBridge, RemoveNetworkFails, At, GuestSteps
          <5>6. ~RefreshAfterRemove(r) /\ ~RefreshAfterRemoveFails(r)
            BY <1>0, <1>1, NetworkEffects, IdleHandler DEF Stays, Goes, Ends, GuestSteps
          <5> QED
            BY <3>2, <5>1, <5>3, <5>4, <5>5, <5>6, KindActs DEF DeleteActs, EndSteps
        <4> QED
          BY <1>0, <1>1, <3>2, <4>1, NetworkEffects, CountsGuest, IdleHandler DEF Stays, Goes, Ends, GuestSteps
      <3>3. CASE proc[r].kind \in {"start", "stop"}
        <4>1. StartContainer(r) \/ StopContainer(r) \/ EndSteps(r)
          BY <3>3, KindActs DEF EndSteps
        <4>2. proc'[r].step \in {"starting", "stopping", "idle"}
          BY <1>0, <4>1, ActionEffects, EndStepsEffect, IdleHandler DEF Goes, Ends
        <4> QED
          BY <1>1, <4>2 DEF GuestSteps
      <3>4. CASE proc[r].kind = "none"
        <4>1. Request(r)
          BY <3>4, KindActs
        <4>2. CASE \E deps \in Deps : RegisterBottle(r, deps)
          BY <1>0, <1>1, <4>2, RegisterEffect DEF Enters, GuestSteps
        <4>3. CASE Start(r) \/ Stop(r) \/ Delete(r)
          <5>1. bsm # None
            BY <4>3 DEF Start, Stop, Delete
          <5> QED
            BY <1>0, <1>1, <4>3, <5>1, RequestEffects DEF Enters, GuestSteps
        <4> QED
          BY <4>1, <4>2, <4>3 DEF Request
      <3> QED
        BY <1>0, <3>1, <3>2, <3>3, <3>4, KindFacts
    <2> QED
      BY <2>1, <2>2
  <1>2. \A q \in Procs : proc'[q].step \in GuestSteps => csm[Guest] = "none" \/ late
    BY <1>o, <1>1 DEF GuestInv, GuestSteps
  <1>3. NetworkKept'
    <2>1. CASE pool' = pool \/ pool'
      BY <1>g, <2>1 DEF GuestInv, NetworkKept
    <2>2. CASE \/ CreateBridgeInterfaceFails(r) \/ CreateNewNetworkFails(r) \/ RemoveBridge(r)
               \/ RefreshPolicyFails(r)
      <3>1. proc[r].step \in GuestSteps
        BY <2>2 DEF CreateBridgeInterfaceFails, CreateNewNetworkFails, RemoveBridge, RefreshPolicyFails, At, GuestSteps
      <3> QED
        BY <1>g, <3>1 DEF GuestInv, NetworkKept, GuestSteps
    <2> QED
      BY <2>1, <2>2, NetworkSteps DEF StoreBridge, CreateBridgeInterface, RemoveBridgeInterface
  <1> QED
    BY <1>2, <1>3, <1>g DEF GuestInv, GuestSteps

LEMMA GuestInit == Init => GuestInv
  BY IdleHandler DEF Init, GuestInv, NetworkKept, Containers

LEMMA GuestNext ==
    Shape /\ OrderInv /\ RecordInv /\ ContainerInv /\ NetworkInv /\ GuestInv /\ [Next]_vars => GuestInv'
  <1> SUFFICES ASSUME Shape, OrderInv, RecordInv, ContainerInv, NetworkInv, GuestInv, [Next]_vars PROVE GuestInv'
    OBVIOUS
  <1>1. CASE UNCHANGED vars
    BY <1>1 DEF vars, GuestInv, NetworkKept
  <1>2. CASE \E r \in Procs : Step(r)
    BY <1>2, GuestStep
  <1>3. CASE GuestContainer
    <2>1. /\ proc' = proc /\ pool' = pool
          /\ late' = (late \/ \E r \in Procs : proc[r].step \in {"interface", "refresh", "net interface", "net pool"})
      BY <1>3 DEF GuestContainer
    <2>2. csm'[Guest] = "none" \/ pool
      BY <1>3 DEF GuestContainer, Shape, TypeOK, Containers
    <2> QED
      BY <2>1, <2>2 DEF GuestInv, NetworkKept
  <1>4. CASE UserRemovesPolicy \/ OtherCommit \/ \E r \in Procs : ListPolicies(r)
    <2>1. proc' = proc /\ pool' = pool /\ csm' = csm /\ late' = late
      BY <1>4 DEF UserRemovesPolicy, OtherCommit, ListPolicies, world, ghosts
    <2> QED
      BY <2>1 DEF GuestInv, NetworkKept
  <1> QED
    BY <1>1, <1>2, <1>3, <1>4, NextCases DEF Others

-----------------------------------------------------------------------------
\* Spec => []BottleInv: the order, the record, the containers, the network, the
\* policies and the guest, as every request sees them at its step.
THEOREM BottleInvariant == Spec => []BottleInv
  <1>1. Init => BottleInv
    BY ShapeInit, OrderInit, RecordInit, ContainerInit, NetworkInit, PolicyInit, GuestInit DEF BottleInv
  <1>2. BottleInv /\ [Next]_vars => BottleInv'
    BY ShapeNext, OrderNext, RecordNext, ContainerNext, NetworkNext, PolicyNext, GuestNext DEF BottleInv
  <1> QED
    BY <1>1, <1>2, PTL DEF Spec

LEMMA SuffixDeps ==
    ASSUME NEW order \in Seq(Services), NEW todo \in Seq(Services), NEW deps \in Deps,
           Sorted(order, deps), Suffix(todo, order), todo # <<>>, NEW d \in deps[Head(todo)]
    PROVE  d \in Services /\ d \notin ToSet(todo)
  <1> DEFINE m == Len(todo)
             n == Len(order)
             k == 1 + (n - m)
  <1>1. m \in Nat \ {0} /\ n \in Nat /\ DOMAIN todo = 1..m /\ DOMAIN order = 1..n /\ Head(todo) = todo[1]
    BY SeqHeadTail
  <1>2. m <= n /\ \A i \in 1..m : todo[i] = order[i + (n - m)]
    BY <1>1 DEF Suffix
  <1>3. k \in 1..n /\ 1 \in 1..m
    BY <1>1, <1>2
  <1>4. Head(todo) = order[k] /\ k - 1 \in 0..n
    BY <1>1, <1>2, <1>3
  <1>5. \A i \in 1..m : i + (n - m) \in 1..n /\ i + (n - m) >= k
    BY <1>1, <1>2
  <1>6. d \in ToSet(SubSeq(order, 1, k - 1))
    BY <1>1, <1>3, <1>4 DEF Sorted, Topological
  <1>t. \A x \in ToSet(todo) : \E i \in 1..m : todo[i] = x
    BY InToSet
  <1> HIDE DEF m, n
  <1>7. PICK j \in 1..(k - 1) : d = order[j]
    <2>1. SubSeq(order, 1, k - 1) = [i \in 1..(k - 1) |-> order[i]]
      BY <1>1, <1>3, <1>4
    <2>2. DOMAIN SubSeq(order, 1, k - 1) = 1..(k - 1) /\ \A i \in 1..(k - 1) : SubSeq(order, 1, k - 1)[i] = order[i]
      BY <2>1
    <2> QED
      BY <1>6, <2>2 DEF ToSet
  <1>8. j \in 1..n /\ j < k
    BY <1>1, <1>3
  <1>9. d \in Services
    BY <1>1, <1>7, <1>8
  <1>10. ASSUME d \in ToSet(todo) PROVE FALSE
    <2>1. PICK i \in 1..m : todo[i] = d
      BY <1>t, <1>10
    <2>2. order[i + (n - m)] = order[j] /\ i + (n - m) \in 1..n
      BY <1>2, <1>5, <1>7, <2>1
    <2>3. i + (n - m) = j
      BY <1>1, <1>8, <2>2 DEF Sorted, Distinct
    <2> QED
      BY <1>1, <1>5, <1>8, <2>3
  <1> QED
    BY <1>9, <1>10

\* Spec => []StartOrderSound: BuildStartOrder (Kahn's algorithm) accepts only an
\* order with every service once and after its dependencies, refuses only what
\* has an unknown name or a cycle, and Create meets the containers of all
\* dependencies when it makes the next one.
THEOREM StartOrderIsSound == Spec => []StartOrderSound
  <1>1. BottleInv => StartOrderSound
    <2> SUFFICES ASSUME BottleInv PROVE StartOrderSound
      OBVIOUS
    <2>0. Shape /\ OrderInv /\ RecordInv /\ ContainerInv
      BY DEF BottleInv
    <2>1. bsm # None => Topological(bsm.order, bsm.deps)
      BY <2>0 DEF OrderInv, Sorted
    <2>2. ASSUME NEW r \in Procs, At(r, "invalid")
          PROVE  Cyclic(proc[r].deps) \/ \E s \in Services : Unknown \in proc[r].deps[s]
      <3>1. proc[r].kind = "register" /\ proc[r].step = "invalid"
        BY <2>0, <2>2, ShapeFacts, KindFacts DEF At, RegisterSteps, PreSteps, NetSteps
      <3> QED
        BY <2>0, <3>1 DEF OrderInv, Ordered
    <2>3. ASSUME NEW r \in Procs, At(r, "containers"), proc[r].todo # <<>>, NEW d \in proc[r].deps[Head(proc[r].todo)]
          PROVE  csm[d] # "none"
      <3>1. proc[r].kind = "register" /\ proc[r].step = "containers" /\ Creating(r)
        BY <2>0, <2>3, ShapeFacts, KindFacts DEF At, RegisterSteps, NetSteps, Creating
      <3>2. /\ proc[r].info \in Bottles /\ proc[r].todo \in Seq(Services) /\ proc[r].deps \in Deps
            /\ proc[r].info.order \in Seq(Services)
        BY <2>0, <3>1, ShapeFacts, KindFacts DEF PreSteps, Typed, PolicySteps, Handler, Bottles
      <3>3. Sorted(proc[r].info.order, proc[r].deps) /\ Suffix(proc[r].todo, proc[r].info.order)
        BY <2>0, <3>1 DEF OrderInv, Ordered, CreateSteps
      <3>4. d \in Services /\ d \notin ToSet(proc[r].todo)
        BY <2>3, <3>2, <3>3, SuffixDeps
      <3> QED
        BY <2>0, <3>1, <3>4 DEF ContainerInv, MadeSoFar
    <2> QED
      BY <2>1, <2>2, <2>3 DEF StartOrderSound
  <1> QED
    BY <1>1, BottleInvariant, PTL

\* Spec => []NothingLeftBehind: when the record is gone and no request is under
\* way, a failed registration or a deletion has left no container, no network
\* and no policy, unless a clean-up step failed or none covers the failure, or
\* a commit wrote over the flag of the policy, or passed it over.
THEOREM NothingIsLeftBehind == Spec => []NothingLeftBehind
  <1>1. BottleInv => NothingLeftBehind
    <2> SUFFICES ASSUME BottleInv, bsm = None, Busy = {}, ~halted
                 PROVE  /\ \A s \in Services : csm[s] = "none"
                        /\ ~bridge /\ ~pool
                        /\ \A p \in DOMAIN npm : npm[p] = "none" \/ p \in stale
      BY DEF NothingLeftBehind
    <2>1. \A r \in Procs : ~Creating(r)
      <3>1. \A r \in Procs : proc[r].step = "idle"
        BY DEF Busy
      <3> QED
        BY <3>1, ShapeFacts, KindFacts, IdleHandler DEF BottleInv, Creating
    <2>2. DOMAIN npm = ToSet(Policies)
      BY DEF BottleInv, Shape, TypeOK
    <2> QED
      BY <2>1, <2>2 DEF BottleInv, ContainerInv, NetworkInv, PolicyInv, AllGone, NoNetwork, NoPolicy, Clear
  <1> QED
    BY <1>1, BottleInvariant, PTL

\* Spec => []NetworkKept: RemoveNetwork and the rollback of CreateNewNetwork
\* leave the network of a container of another client, but for one that came
\* after the count or while the network was made.
THEOREM NetworkIsKept == Spec => []NetworkKept
  <1>1. BottleInv => NetworkKept
    BY DEF BottleInv, GuestInv
  <1> QED
    BY <1>1, BottleInvariant, PTL

=============================================================================
