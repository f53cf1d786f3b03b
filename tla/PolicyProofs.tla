----------------------------- MODULE PolicyProofs -----------------------------
(***************************************************************************)
(* Network policies: what holds of the policy file, of the iptables chains *)
(* and of a rebuild of the chains that no other request overlaps, for any  *)
(* number of requests, containers, networks, policies, failures and        *)
(* restarts.                                                               *)
(***************************************************************************)
EXTENDS Policy, WellFoundedInduction, TLAPS

-----------------------------------------------------------------------------
\* Sequences.
LEMMA SeqHeadTail ==
    ASSUME NEW S, NEW s \in Seq(S), s # <<>>
    PROVE  /\ Head(s) \in S /\ Tail(s) \in Seq(S) /\ Len(s) \in Nat \ {0} /\ Len(Tail(s)) = Len(s) - 1
           /\ Head(s) = s[1] /\ \A i \in 1..(Len(s) - 1) : Tail(s)[i] = s[i + 1]
  OBVIOUS

LEMMA InToSet ==
    ASSUME NEW S, NEW s \in Seq(S)
    PROVE  /\ Len(s) \in Nat /\ DOMAIN s = 1..Len(s) /\ \A i \in 1..Len(s) : s[i] \in S /\ s[i] \in ToSet(s)
           /\ \A x : x \in ToSet(s) <=> \E i \in 1..Len(s) : s[i] = x
           /\ ToSet(s) \subseteq S
  BY DEF ToSet

LEMMA EmptySequence == \A S : <<>> \in Seq(S)
  OBVIOUS

LEMMA AppendType ==
    ASSUME NEW S, NEW s \in Seq(S), NEW x \in S
    PROVE  /\ Append(s, x) \in Seq(S) /\ Len(Append(s, x)) = Len(s) + 1 /\ Append(s, x)[Len(s) + 1] = x
           /\ \A i \in 1..Len(s) : Append(s, x)[i] = s[i]
  OBVIOUS

LEMMA ConcatType ==
    ASSUME NEW S, NEW s \in Seq(S), NEW t \in Seq(S)
    PROVE  /\ s \o t \in Seq(S) /\ Len(s \o t) = Len(s) + Len(t)
           /\ \A i \in 1..Len(s) : (s \o t)[i] = s[i]
           /\ \A i \in 1..Len(t) : (s \o t)[Len(s) + i] = t[i]
  OBVIOUS

\* The same, for lengths that are known, and a concatenation that has a name.
LEMMA ConcatLengths ==
    ASSUME NEW S, NEW s \in Seq(S), NEW t \in Seq(S), NEW a, NEW b, Len(s) = a, Len(t) = b
    PROVE  /\ s \o t \in Seq(S) /\ Len(s \o t) = a + b
           /\ \A i \in 1..a : (s \o t)[i] = s[i]
           /\ \A i \in 1..b : (s \o t)[a + i] = t[i]
  <1>1. a \in Nat /\ b \in Nat /\ s \o t \in Seq(S) /\ Len(s \o t) = a + b
    OBVIOUS
  <1>2. \A i \in 1..a : (s \o t)[i] = s[i]
    OBVIOUS
  <1>3. \A i \in 1..b : (s \o t)[a + i] = t[i]
    OBVIOUS
  <1> QED
    BY <1>1, <1>2, <1>3

LEMMA ConcatIs ==
    ASSUME NEW S, NEW s \in Seq(S), NEW t \in Seq(S), NEW x, x = s \o t,
           NEW a, NEW b, Len(s) = a, Len(t) = b
    PROVE  /\ x \in Seq(S) /\ Len(x) = a + b
           /\ \A i \in 1..a : x[i] = s[i]
           /\ \A i \in 1..b : x[a + i] = t[i]
  BY ConcatLengths

\* The removal of an element leaves a sequence.
LEMMA RemoveAtType ==
    ASSUME NEW S, NEW s \in Seq(S), NEW i \in 1..Len(s)
    PROVE  RemoveAt(s, i) \in Seq(S)
  <1>1. Len(s) \in Nat /\ i \in Nat /\ i - 1 \in 0..Len(s) /\ i + 1 \in 2..(Len(s) + 1)
    OBVIOUS
  <1>2. SubSeq(s, 1, i - 1) \in Seq(S) /\ SubSeq(s, i + 1, Len(s)) \in Seq(S)
    BY <1>1
  <1> QED
    BY <1>2, ConcatType DEF RemoveAt

\* A set of numbers has a least element.
LEMMA LeastNumber ==
    ASSUME NEW T, T \subseteq Nat, T # {}
    PROVE  Min(T) \in T /\ \A y \in T : Min(T) <= y
  <1> DEFINE R == {ss \in Nat \X Nat : ss[1] < ss[2]}
  <1>1. IsWellFoundedOn(R, Nat)
    BY NatLessThanWellFounded, Zenon DEF OpToRel
  <1>2. \A x, y \in Nat : <<y, x>> \in R <=> y < x
    OBVIOUS
  <1> HIDE DEF R
  <1>3. PICK x \in T : \A y \in T : ~(<<y, x>> \in R)
    BY <1>1, WFMin
  <1>4. \A y \in T : ~(y < x)
    BY <1>2, <1>3
  <1>5. \A y \in T : x <= y
    BY <1>4
  <1> QED
    BY <1>5 DEF Min

LEMMA RemoveFirstType ==
    ASSUME NEW S, NEW s \in Seq(S), NEW x
    PROVE  RemoveFirst(s, x) \in Seq(S)
  <1>1. CASE \E i \in 1..Len(s) : s[i] = x
    <2> DEFINE I == {i \in 1..Len(s) : s[i] = x}
    <2>1. I \subseteq Nat /\ I # {}
      BY <1>1
    <2>2. RemoveFirst(s, x) = RemoveAt(s, Min(I))
      BY <1>1, <2>1, Zenon DEF RemoveFirst, SelectInSeq
    <2>3. Min(I) \in 1..Len(s)
      <3> HIDE DEF I
      <3>1. Min(I) \in I
        BY <2>1, LeastNumber
      <3> QED
        BY <3>1 DEF I
    <2> HIDE DEF I
    <2> QED
      BY <2>2, <2>3, RemoveAtType
  <1>2. CASE ~\E i \in 1..Len(s) : s[i] = x
    BY <1>2, Zenon DEF RemoveFirst
  <1> QED
    BY <1>1, <1>2

-----------------------------------------------------------------------------
\* The constants of the model.
LEMMA ChainNames ==
    /\ UserChain = {"RAIND-EW", "RAIND-NS-OBS", "RAIND-NS-ENF"}
    /\ Chain = {"RAIND-EW", "RAIND-NS-OBS", "RAIND-NS-ENF", "RAIND-ROOT"}
    /\ Len(UserChains) = 3
    /\ \A i \in 1..3 : UserChains[i] \in UserChain
  <1>1. UserChain = {"RAIND-EW", "RAIND-NS-OBS", "RAIND-NS-ENF"}
    <2>1. UserChains \in Seq({"RAIND-EW", "RAIND-NS-OBS", "RAIND-NS-ENF"}) /\ Len(UserChains) = 3
      BY DEF UserChains
    <2>2. UserChains[1] = "RAIND-EW" /\ UserChains[2] = "RAIND-NS-OBS" /\ UserChains[3] = "RAIND-NS-ENF"
      BY DEF UserChains
    <2>3. 1..3 = {1, 2, 3}
      OBVIOUS
    <2> HIDE DEF UserChains
    <2>4. ToSet(UserChains) = {"RAIND-EW", "RAIND-NS-OBS", "RAIND-NS-ENF"}
      BY <2>1, <2>2, <2>3, InToSet
    <2> QED
      BY <2>4 DEF UserChain
  <1> QED
    BY <1>1 DEF UserChains, Chain

LEMMA ModeNames ==
    /\ AllModes = {"observe", "enforce", "observe_next_commit", "enforce_next_commit"}
    /\ \A m \in Modes : Pending(m) \in AllModes /\ Pending(m) \notin Modes
    /\ Modes \subseteq AllModes
  BY DEF AllModes, Modes, Pending

LEMMA DefaultType == Default \in File
  <1>1. [c \in UserChain |-> <<>>] \in [UserChain -> Seq(PolicyEntry)]
    BY EmptySequence
  <1> QED
    BY <1>1, ModeNames DEF Default, File

LEMMA LoadType == TypeOK => loadOrInit \in File
  BY DefaultType DEF TypeOK, loadOrInit

\* A file with other policies in one chain, and with another mode.
LEMMA PoliciesType ==
    ASSUME NEW f \in File, NEW c \in UserChain, NEW s \in Seq(PolicyEntry)
    PROVE  /\ [f EXCEPT !.Policies[c] = s] \in File
           /\ [f EXCEPT !.Policies[c] = s].Mode = f.Mode
           /\ f.Policies[c] \in Seq(PolicyEntry)
  BY DEF File

LEMMA ModeType ==
    ASSUME NEW f \in File, NEW m \in AllModes
    PROVE  [f EXCEPT !.Mode = m] \in File /\ [f EXCEPT !.Mode = m].Mode = m
  BY DEF File

LEMMA UpdateStatusType ==
    ASSUME TypeOK, NEW c \in UserChain, NEW id, NEW status \in Statuses, UpdateStatus(c, id, status)
    PROVE  file' \in File /\ file'.Mode = loadOrInit.Mode
  <1> DEFINE s == loadOrInit.Policies[c]
             t == [i \in DOMAIN s |-> IF s[i].id = id THEN [s[i] EXCEPT !.Status = status] ELSE s[i]]
  <1>1. loadOrInit \in File
    BY LoadType
  <1>2. s \in Seq(PolicyEntry)
    BY <1>1 DEF File
  <1>3. file' = [loadOrInit EXCEPT !.Policies[c] = t]
    BY Zenon DEF UpdateStatus
  <1>4. t \in Seq(PolicyEntry)
    <2> HIDE DEF s
    <2>1. Len(s) \in Nat /\ DOMAIN s = 1..Len(s) /\ \A i \in 1..Len(s) : s[i] \in PolicyEntry
      BY <1>2
    <2>2. \A i \in 1..Len(s) : [s[i] EXCEPT !.Status = status] \in PolicyEntry
      BY <2>1 DEF PolicyEntry
    <2>3. t \in [1..Len(s) -> PolicyEntry]
      BY <2>1, <2>2
    <2> QED
      BY <2>1, <2>3
  <1> HIDE DEF t
  <1> QED
    BY <1>1, <1>3, <1>4, PoliciesType

LEMMA RemovePolicyType ==
    ASSUME TypeOK, NEW c \in UserChain, NEW id, RemovePolicy(c, id)
    PROVE  file' \in File /\ file'.Mode = loadOrInit.Mode
  <1> DEFINE s == loadOrInit.Policies[c]
             I == {i \in 1..Len(s) : s[i].id = id}
             t == IF I # {} THEN RemoveAt(s, Min(I)) ELSE s
  <1>1. loadOrInit \in File
    BY LoadType
  <1>2. s \in Seq(PolicyEntry)
    BY <1>1 DEF File
  <1>3. file' = [loadOrInit EXCEPT !.Policies[c] = t]
    <2>1. file' = [loadOrInit EXCEPT !.Policies[c] =
                      IF \E i \in 1..Len(s) : s[i].id = id THEN RemoveAt(s, IF I # {} THEN Min(I) ELSE 0) ELSE s]
      BY Zenon DEF RemovePolicy, RemoveFirstMatch, SelectInSeq
    <2>2. (\E i \in 1..Len(s) : s[i].id = id) <=> I # {}
      OBVIOUS
    <2> HIDE DEF I, s
    <2> QED
      BY <2>1, <2>2, Zenon
  <1>4. t \in Seq(PolicyEntry)
    <2>1. CASE I = {}
      BY <1>2, <2>1
    <2>2. CASE I # {}
      <3>1. I \subseteq Nat
        OBVIOUS
      <3>2. Min(I) \in I
        <4> HIDE DEF I
        <4> QED
          BY <2>2, <3>1, LeastNumber
      <3>3. Min(I) \in 1..Len(s)
        BY <3>2
      <3> HIDE DEF I, s
      <3> QED
        BY <1>2, <2>2, <3>3, RemoveAtType
    <2> QED
      BY <2>1, <2>2
  <1> HIDE DEF t
  <1> QED
    BY <1>1, <1>3, <1>4, PoliciesType

LEMMA AddPolicyType ==
    ASSUME TypeOK, NEW c \in UserChain, NEW p \in PolicyEntry, AddPolicy(c, p)
    PROVE  file' \in File
  <1> DEFINE t == Append(loadOrInit.Policies[c], p)
  <1>1. loadOrInit \in File
    BY LoadType
  <1>2. loadOrInit.Policies[c] \in Seq(PolicyEntry)
    BY <1>1 DEF File
  <1>3. t \in Seq(PolicyEntry)
    BY <1>2, AppendType
  <1>4. file' = [loadOrInit EXCEPT !.Policies[c] = t]
    BY Zenon DEF AddPolicy
  <1> HIDE DEF t
  <1> QED
    BY <1>1, <1>3, <1>4, PoliciesType

-----------------------------------------------------------------------------
\* The commands of BuildPredefinedPolicy, by their position: four flushes, the
\* jump from FORWARD, four rules of the root chain, a DROP for each network and
\* two more rules in RAIND-EW, a rule for each network and a RETURN in the
\* chain of the mode.
NS(enforce) == IF enforce THEN "RAIND-NS-ENF" ELSE "RAIND-NS-OBS"
Verdict(enforce) == IF enforce THEN "DROP" ELSE "ACCEPT"

LEMMA RuleTypes ==
    /\ Return \in Rules /\ Established \in Rules /\ DropBridges \in Rules
    /\ \A c \in UserChain : Jump(c) \in Rules
    /\ \A n \in Networks, on \in {"within", "outbound"}, do \in {"ACCEPT", "DROP"} : Rule(on, {n}, do) \in Rules
  BY DEF Return, Established, DropBridges, Jump, Rule, Rules

LEMMA CommandTypes ==
    /\ \A c \in Chain : Flush(c) \in Commands
    /\ \A c \in Chain, r \in Rules : Add(c, r) \in Commands
    /\ Forward \in Commands
  BY RuleTypes, ChainNames DEF Flush, Add, Forward, Commands

LEMMA EachType ==
    ASSUME NEW c \in Chain, NEW on \in {"within", "outbound"}, NEW nets \in Seq(Networks), NEW do \in {"ACCEPT", "DROP"}
    PROVE  /\ AddEach(c, on, nets, do) \in Seq(Commands)
           /\ Len(AddEach(c, on, nets, do)) = Len(nets)
           /\ \A i \in 1..Len(nets) : AddEach(c, on, nets, do)[i] = Add(c, Rule(on, {nets[i]}, do))
  <1>1. Len(nets) \in Nat /\ DOMAIN nets = 1..Len(nets) /\ \A i \in 1..Len(nets) : nets[i] \in Networks
    OBVIOUS
  <1>2. \A i \in 1..Len(nets) : Add(c, Rule(on, {nets[i]}, do)) \in Commands
    BY <1>1, RuleTypes, CommandTypes
  <1> DEFINE f == AddEach(c, on, nets, do)
  <1>3. f \in [1..Len(nets) -> Commands] /\ \A i \in 1..Len(nets) : f[i] = Add(c, Rule(on, {nets[i]}, do))
    BY <1>1, <1>2, Zenon DEF AddEach
  <1> HIDE DEF f
  <1>4. f \in Seq(Commands) /\ Len(f) = Len(nets)
    BY <1>1, <1>3
  <1> QED
    BY <1>3, <1>4 DEF f

LEMMA PlanIs ==
    ASSUME NEW nets \in Seq(Networks), NEW enforce \in BOOLEAN
    PROVE  LET p == BuildPredefinedPolicy(nets, enforce)
               n == Len(nets)
           IN  /\ p \in Seq(Commands) /\ Len(p) = 12 + 2 * n
               /\ p[1] = Flush("RAIND-ROOT") /\ p[2] = Flush("RAIND-EW")
               /\ p[3] = Flush("RAIND-NS-OBS") /\ p[4] = Flush("RAIND-NS-ENF")
               /\ p[5] = Forward
               /\ p[6] = Add("RAIND-ROOT", Established) /\ p[7] = Add("RAIND-ROOT", Jump("RAIND-EW"))
               /\ p[8] = Add("RAIND-ROOT", Jump(NS(enforce))) /\ p[9] = Add("RAIND-ROOT", Return)
               /\ \A i \in 1..n : p[9 + i] = Add("RAIND-EW", Rule("within", {nets[i]}, "DROP"))
               /\ p[10 + n] = Add("RAIND-EW", DropBridges) /\ p[11 + n] = Add("RAIND-EW", Return)
               /\ \A i \in 1..n : p[11 + n + i] = Add(NS(enforce), Rule("outbound", {nets[i]}, Verdict(enforce)))
               /\ p[12 + 2 * n] = Add(NS(enforce), Return)
  <1> DEFINE n == Len(nets)
             fl == createChain
             ro == buildRaindRootChain(enforce)
             ew1 == AddEach("RAIND-EW", "within", nets, "DROP")
             ew2 == <<Add("RAIND-EW", DropBridges), Add("RAIND-EW", Return)>>
             ns1 == AddEach(NS(enforce), "outbound", nets, Verdict(enforce))
             ns2 == <<Add(NS(enforce), Return)>>
             p1 == fl \o insertForward
             p2 == p1 \o ro
             ew == ew1 \o ew2
             p3 == p2 \o ew
             ns == ns1 \o ns2
             p == p3 \o ns
  <1>0. n \in Nat
    OBVIOUS
  <1>1. BuildPredefinedPolicy(nets, enforce) = p
    BY DEF BuildPredefinedPolicy, buildRaindEWChain, buildRaindNSEnforceChain, buildRaindNSObserveChain, NS, Verdict
  <1>2. /\ fl \in Seq(Commands) /\ Len(fl) = 4
        /\ fl[1] = Flush("RAIND-ROOT") /\ fl[2] = Flush("RAIND-EW")
        /\ fl[3] = Flush("RAIND-NS-OBS") /\ fl[4] = Flush("RAIND-NS-ENF")
    BY CommandTypes, ChainNames DEF createChain
  <1>3. insertForward \in Seq(Commands) /\ Len(insertForward) = 1 /\ insertForward[1] = Forward
    BY CommandTypes DEF insertForward
  <1>4. NS(enforce) \in UserChain /\ NS(enforce) \in Chain /\ "RAIND-ROOT" \in Chain /\ "RAIND-EW" \in UserChain
        /\ "RAIND-EW" \in Chain /\ Verdict(enforce) \in {"ACCEPT", "DROP"}
    BY ChainNames DEF NS, Verdict
  <1>5. /\ ro \in Seq(Commands) /\ Len(ro) = 4
        /\ ro[1] = Add("RAIND-ROOT", Established) /\ ro[2] = Add("RAIND-ROOT", Jump("RAIND-EW"))
        /\ ro[3] = Add("RAIND-ROOT", Jump(NS(enforce))) /\ ro[4] = Add("RAIND-ROOT", Return)
    <2>1. ro = <<Add("RAIND-ROOT", Established), Add("RAIND-ROOT", Jump("RAIND-EW")),
                 Add("RAIND-ROOT", Jump(NS(enforce))), Add("RAIND-ROOT", Return)>>
      BY DEF buildRaindRootChain, NS
    <2>2. /\ Add("RAIND-ROOT", Established) \in Commands /\ Add("RAIND-ROOT", Jump("RAIND-EW")) \in Commands
          /\ Add("RAIND-ROOT", Jump(NS(enforce))) \in Commands /\ Add("RAIND-ROOT", Return) \in Commands
      BY <1>4, CommandTypes, RuleTypes
    <2> HIDE DEF ro
    <2> QED
      BY <2>1, <2>2
  <1>6. /\ ew1 \in Seq(Commands) /\ Len(ew1) = n
        /\ \A i \in 1..n : ew1[i] = Add("RAIND-EW", Rule("within", {nets[i]}, "DROP"))
    BY <1>4, EachType
  <1>7. /\ ew2 \in Seq(Commands) /\ Len(ew2) = 2
        /\ ew2[1] = Add("RAIND-EW", DropBridges) /\ ew2[2] = Add("RAIND-EW", Return)
    BY <1>4, CommandTypes, RuleTypes
  <1>8. /\ ns1 \in Seq(Commands) /\ Len(ns1) = n
        /\ \A i \in 1..n : ns1[i] = Add(NS(enforce), Rule("outbound", {nets[i]}, Verdict(enforce)))
    BY <1>4, EachType
  <1>9. /\ ns2 \in Seq(Commands) /\ Len(ns2) = 1 /\ ns2[1] = Add(NS(enforce), Return)
    BY <1>4, CommandTypes, RuleTypes
  <1> HIDE DEF fl, ro, ew1, ew2, ns1, ns2, n
  <1>10. /\ p1 \in Seq(Commands) /\ Len(p1) = 4 + 1
         /\ \A i \in 1..4 : p1[i] = fl[i]
         /\ \A i \in 1..1 : p1[4 + i] = insertForward[i]
    <2> DEFINE l == 4
               m == 1
    <2>1. fl \in Seq(Commands) /\ insertForward \in Seq(Commands) /\ Len(fl) = l /\ Len(insertForward) = m
      BY <1>2, <1>3
    <2>2. p1 = fl \o insertForward
      OBVIOUS
    <2> HIDE DEF l, m, p1
    <2>3. p1 \in Seq(Commands) /\ Len(p1) = l + m
      BY <2>1, <2>2, ConcatIs
    <2>4. \A i \in 1..l : p1[i] = fl[i]
      BY <2>1, <2>2, ConcatIs
    <2>5. \A i \in 1..m : p1[l + i] = insertForward[i]
      BY <2>1, <2>2, ConcatIs
    <2> QED
      BY <2>3, <2>4, <2>5 DEF l, m
  <1> HIDE DEF p1
  <1>10a. Len(p1) = 5 /\ p1[5] = Forward
    BY <1>3, <1>10
  <1>11. /\ p2 \in Seq(Commands) /\ Len(p2) = 5 + 4
         /\ \A i \in 1..5 : p2[i] = p1[i]
         /\ \A i \in 1..4 : p2[5 + i] = ro[i]
    <2> DEFINE l == 5
               m == 4
    <2>1. p1 \in Seq(Commands) /\ ro \in Seq(Commands) /\ Len(p1) = l /\ Len(ro) = m
      BY <1>5, <1>10, <1>10a
    <2>2. p2 = p1 \o ro
      OBVIOUS
    <2> HIDE DEF l, m, p2
    <2>3. p2 \in Seq(Commands) /\ Len(p2) = l + m
      BY <2>1, <2>2, ConcatIs
    <2>4. \A i \in 1..l : p2[i] = p1[i]
      BY <2>1, <2>2, ConcatIs
    <2>5. \A i \in 1..m : p2[l + i] = ro[i]
      BY <2>1, <2>2, ConcatIs
    <2> QED
      BY <2>3, <2>4, <2>5 DEF l, m
  <1> HIDE DEF p2
  <1>11a. Len(p2) = 9
    BY <1>11
  <1>12. /\ ew \in Seq(Commands) /\ Len(ew) = n + 2
         /\ \A i \in 1..n : ew[i] = ew1[i]
         /\ \A i \in 1..2 : ew[n + i] = ew2[i]
    <2> DEFINE l == n
               m == 2
    <2>1. ew1 \in Seq(Commands) /\ ew2 \in Seq(Commands) /\ Len(ew1) = l /\ Len(ew2) = m
      BY <1>6, <1>7
    <2>2. ew = ew1 \o ew2
      OBVIOUS
    <2> HIDE DEF l, m, ew
    <2>3. ew \in Seq(Commands) /\ Len(ew) = l + m
      BY <2>1, <2>2, ConcatIs
    <2>4. \A i \in 1..l : ew[i] = ew1[i]
      BY <2>1, <2>2, ConcatIs
    <2>5. \A i \in 1..m : ew[l + i] = ew2[i]
      BY <2>1, <2>2, ConcatIs
    <2> QED
      BY <2>3, <2>4, <2>5 DEF l, m
  <1> HIDE DEF ew
  <1>13. /\ p3 \in Seq(Commands) /\ Len(p3) = 9 + (n + 2)
         /\ \A i \in 1..9 : p3[i] = p2[i]
         /\ \A i \in 1..(n + 2) : p3[9 + i] = ew[i]
    <2> DEFINE l == 9
               m == (n + 2)
    <2>1. p2 \in Seq(Commands) /\ ew \in Seq(Commands) /\ Len(p2) = l /\ Len(ew) = m
      BY <1>11, <1>11a, <1>12
    <2>2. p3 = p2 \o ew
      OBVIOUS
    <2> HIDE DEF l, m, p3
    <2>3. p3 \in Seq(Commands) /\ Len(p3) = l + m
      BY <2>1, <2>2, ConcatIs
    <2>4. \A i \in 1..l : p3[i] = p2[i]
      BY <2>1, <2>2, ConcatIs
    <2>5. \A i \in 1..m : p3[l + i] = ew[i]
      BY <2>1, <2>2, ConcatIs
    <2> QED
      BY <2>3, <2>4, <2>5 DEF l, m
  <1> HIDE DEF p3
  <1>14. /\ ns \in Seq(Commands) /\ Len(ns) = n + 1
         /\ \A i \in 1..n : ns[i] = ns1[i]
         /\ \A i \in 1..1 : ns[n + i] = ns2[i]
    <2> DEFINE l == n
               m == 1
    <2>1. ns1 \in Seq(Commands) /\ ns2 \in Seq(Commands) /\ Len(ns1) = l /\ Len(ns2) = m
      BY <1>8, <1>9
    <2>2. ns = ns1 \o ns2
      OBVIOUS
    <2> HIDE DEF l, m, ns
    <2>3. ns \in Seq(Commands) /\ Len(ns) = l + m
      BY <2>1, <2>2, ConcatIs
    <2>4. \A i \in 1..l : ns[i] = ns1[i]
      BY <2>1, <2>2, ConcatIs
    <2>5. \A i \in 1..m : ns[l + i] = ns2[i]
      BY <2>1, <2>2, ConcatIs
    <2> QED
      BY <2>3, <2>4, <2>5 DEF l, m
  <1> HIDE DEF ns
  <1>14a. ns[n + 1] = ns2[1]
    BY <1>14
  <1>15. /\ p \in Seq(Commands) /\ Len(p) = (9 + (n + 2)) + (n + 1)
         /\ \A i \in 1..(9 + (n + 2)) : p[i] = p3[i]
         /\ \A i \in 1..(n + 1) : p[(9 + (n + 2)) + i] = ns[i]
    <2> DEFINE l == (9 + (n + 2))
               m == (n + 1)
    <2>1. p3 \in Seq(Commands) /\ ns \in Seq(Commands) /\ Len(p3) = l /\ Len(ns) = m
      BY <1>13, <1>14
    <2>2. p = p3 \o ns
      OBVIOUS
    <2> HIDE DEF l, m, p
    <2>3. p \in Seq(Commands) /\ Len(p) = l + m
      BY <2>1, <2>2, ConcatIs
    <2>4. \A i \in 1..l : p[i] = p3[i]
      BY <2>1, <2>2, ConcatIs
    <2>5. \A i \in 1..m : p[l + i] = ns[i]
      BY <2>1, <2>2, ConcatIs
    <2> QED
      BY <2>3, <2>4, <2>5 DEF l, m
  <1> HIDE DEF p
  <1>16. Len(p) = 12 + 2 * n
    BY <1>0, <1>15
  <1>17. \A i \in 1..9 : p[i] = p2[i]
    BY <1>0, <1>13, <1>15
  <1>18. \A i \in 1..5 : p[i] = p1[i]
    BY <1>11, <1>17
  <1>19. \A i \in 1..4 : p[i] = fl[i]
    BY <1>10, <1>18
  <1>20. p[6] = ro[1] /\ p[7] = ro[2] /\ p[8] = ro[3] /\ p[9] = ro[4]
    BY <1>11, <1>17
  <1>21. \A i \in 1..(n + 2) : p[9 + i] = ew[i]
    BY <1>0, <1>13, <1>15
  <1>22. \A i \in 1..n : p[9 + i] = ew1[i]
    BY <1>0, <1>12, <1>21
  <1>23. p[10 + n] = ew2[1] /\ p[11 + n] = ew2[2]
    <2>1. p[9 + (n + 1)] = ew[n + 1] /\ p[9 + (n + 2)] = ew[n + 2]
      BY <1>0, <1>21
    <2>2. 9 + (n + 1) = 10 + n /\ 9 + (n + 2) = 11 + n
      BY <1>0
    <2> QED
      BY <1>12, <2>1, <2>2
  <1>24. \A i \in 1..n : p[11 + n + i] = ns1[i]
    <2>1. ASSUME NEW i \in 1..n PROVE p[11 + n + i] = ns1[i]
      <3>1. 9 + (n + 2) + i = 11 + n + i /\ i \in 1..(n + 1)
        BY <1>0
      <3> QED
        BY <1>14, <1>15, <3>1
    <2> QED
      BY <2>1
  <1>25. p[12 + 2 * n] = ns2[1]
    <2>1. 9 + (n + 2) + (n + 1) = 12 + 2 * n /\ n + 1 \in 1..(n + 1)
      BY <1>0
    <2> QED
      BY <1>14a, <1>15, <2>1
  <1>26. p[1] = fl[1] /\ p[2] = fl[2] /\ p[3] = fl[3] /\ p[4] = fl[4] /\ p[5] = p1[5]
    BY <1>18, <1>19
  <1> QED
    BY <1>1, <1>2, <1>5, <1>6, <1>7, <1>8, <1>9, <1>10a, <1>15, <1>16, <1>20, <1>22, <1>23, <1>24, <1>25, <1>26, Zenon DEF n

-----------------------------------------------------------------------------
\* What a request has in hand at each of its steps, and which requests get there.
BuildSteps == {"networks", "enforce", "build", "list", "policy", "applied"}

Shaped(q) ==
    /\ q.step = "build" => q.todo \in Seq(Commands) /\ q.todo # <<>>
    /\ q.step \in {"policy", "applied"} => q.todo \in Seq(PolicyEntry)
    /\ q.step = "applied" => q.todo # <<>>
    /\ q.step \in BuildSteps \cup {"fix", "fixed"} => q.kind \in {"boot", "hook", "network", "commit"}
    /\ q.step \in {"backup", "copy"} => q.kind \in {"hook", "network", "commit", "revert"}
    /\ q.step \in {"rename", "restore"} => q.kind = "revert"
    /\ q.step = "set mode" => q.kind = "mode"
    /\ q.step = "idle" => q.kind = "none"
    /\ q.kind = "boot" => q.step \in BuildSteps

Shape == \A r \in Procs : Shaped(proc[r])

TypeInv == TypeOK /\ Shape

ProcTyped == proc \in [Procs -> Handler] /\ Shape

RestTyped ==
    /\ file \in File \cup {Missing} /\ running \in File \cup {Missing}
    /\ chains \in [Chain -> Seq(Rules)] /\ forward \in BOOLEAN
    /\ veth \in [Hosts -> 0..MaxRequests] /\ networks \in Seq(Networks)
    /\ last \in {"failed", "overlapped", "boot", "commit"} /\ shared \subseteq Procs
    /\ requests \in 0..MaxRequests /\ added \in 0..MaxPolicies
    /\ trouble \in 0..MaxTrouble

LEMMA TypeParts == TypeInv <=> ProcTyped /\ RestTyped
  BY DEF TypeInv, TypeOK, ProcTyped, RestTyped

LEMMA ProcIs ==
    ASSUME ProcTyped, NEW r \in Procs, NEW q \in Handler, Shaped(q), proc' = [proc EXCEPT ![r] = q]
    PROVE  ProcTyped'
  BY DEF ProcTyped, Shape

LEMMA IdleIs == Idle \in Handler /\ Shaped(Idle)
  <1>1. Idle \in Handler
    BY EmptySequence, ChainNames DEF Idle, Handler, Steps, Modes
  <1>2. Idle.step = "idle" /\ Idle.kind = "none"
    BY DEF Idle
  <1> QED
    BY <1>1, <1>2 DEF Shaped, BuildSteps

\* A request that begins.
LEMMA BeginIs ==
    ASSUME NEW kind \in {"boot", "mode", "hook", "network", "commit", "revert"}, NEW step \in Steps, NEW mode \in Modes
    PROVE  LET e == [Idle EXCEPT !.kind = kind, !.step = step]
               f == [Idle EXCEPT !.kind = kind, !.step = step, !.mode = mode]
           IN  /\ e \in Handler /\ e.kind = kind /\ e.step = step
               /\ f \in Handler /\ f.kind = kind /\ f.step = step
  <1>1. Idle \in Handler
    BY IdleIs
  <1> DEFINE e == [Idle EXCEPT !.kind = kind, !.step = step]
             f == [Idle EXCEPT !.kind = kind, !.step = step, !.mode = mode]
  <1>2. e \in Handler /\ e.kind = kind /\ e.step = step
    BY <1>1 DEF Handler
  <1>3. f \in Handler /\ f.kind = kind /\ f.step = step
    BY <1>1 DEF Handler
  <1> QED
    BY <1>2, <1>3

LEMMA InitFile == Init => file \in File
  <1> SUFFICES ASSUME Init PROVE file \in File
    OBVIOUS
  <1>1. CASE file = Default
    BY <1>1, DefaultType
  <1>2. CASE file # Default
    <2>1. PICK c \in EarlierChains : \E hs \in Ends(c) :
             file = [Default EXCEPT !.Policies[c] = <<[id |-> 1, hosts |-> hs, Status |-> "applied"]>>]
      BY <1>2 DEF Init
    <2>2. PICK hs \in Ends(c) :
             file = [Default EXCEPT !.Policies[c] = <<[id |-> 1, hosts |-> hs, Status |-> "applied"]>>]
      BY <2>1
    <2>3. MaxPolicies \in Nat /\ MaxPolicies > 0
      BY <1>2, PolicyAssumption DEF Init
    <2>4. [id |-> 1, hosts |-> hs, Status |-> "applied"] \in PolicyEntry
      BY <2>3 DEF PolicyEntry, Ends, Statuses
    <2> DEFINE s == <<[id |-> 1, hosts |-> hs, Status |-> "applied"]>>
    <2>5. s \in Seq(PolicyEntry)
      BY <2>4
    <2>6. c \in UserChain
      BY PolicyAssumption, ChainNames
    <2> HIDE DEF s
    <2> QED
      BY <2>2, <2>5, <2>6, DefaultType, PoliciesType DEF s
  <1> QED
    BY <1>1, <1>2

LEMMA TypeInit == Init => TypeInv
  <1> SUFFICES ASSUME Init PROVE TypeInv
    OBVIOUS
  <1>1. file \in File
    BY InitFile
  <1>2. ProcTyped
    <2>1. PICK r \in Procs : proc = [q \in Procs |-> IF q = r THEN [Idle EXCEPT !.kind = "boot", !.step = "networks"] ELSE Idle]
      BY DEF Init
    <2> DEFINE b == [Idle EXCEPT !.kind = "boot", !.step = "networks"]
    <2>2. b \in Handler /\ Shaped(b)
      <3>1. b \in Handler /\ b.kind = "boot" /\ b.step = "networks"
        BY BeginIs DEF Steps, Modes
      <3> HIDE DEF b
      <3> QED
        BY <3>1 DEF Shaped, BuildSteps
    <2> HIDE DEF b
    <2>3. proc = [q \in Procs |-> IF q = r THEN b ELSE Idle]
      BY <2>1 DEF b
    <2> QED
      BY <2>2, <2>3, IdleIs DEF ProcTyped, Shape
  <1>3. RestTyped
    <2>1. chains \in [Chain -> Seq(Rules)] /\ networks \in Seq(Networks)
      BY EmptySequence DEF Init
    <2>2. requests \in 0..MaxRequests /\ added \in 0..MaxPolicies /\ trouble \in 0..MaxTrouble
      BY PolicyAssumption DEF Init
    <2>3. veth \in [Hosts -> 0..MaxRequests]
      BY PolicyAssumption DEF Init
    <2> QED
      BY <1>1, <2>1, <2>2, <2>3 DEF Init, RestTyped
  <1> QED
    BY <1>2, <1>3, TypeParts

\* Requests.
LEMMA AcceptTyped ==
    ASSUME RestTyped, NEW kind, NEW mine, mine \subseteq Procs, Accept(kind, mine)
    PROVE  /\ last' \in {"failed", "overlapped", "boot", "commit"} /\ shared' \subseteq Procs
           /\ requests' \in 1..MaxRequests /\ requests' = requests + 1 /\ trouble' \in 0..MaxTrouble
  <1>1. Busy \subseteq Procs
    BY DEF Busy
  <1>2. requests' = requests + 1 /\ requests' \in 1..MaxRequests
    BY PolicyAssumption DEF Accept, RestTyped
  <1>3. trouble' \in 0..MaxTrouble
    BY PolicyAssumption DEF Accept, Trouble, RestTyped
  <1>4. last' \in {"failed", "overlapped", "boot", "commit"} /\ shared' \subseteq Procs
    BY <1>1 DEF Accept, RestTyped
  <1> QED
    BY <1>2, <1>3, <1>4

LEMMA UserRequestTyped ==
    ASSUME TypeInv,
           \/ \E c \in UserChain : \E hs \in Ends(c) : AddUserPolicy(c, hs)
           \/ \E id \in 1..MaxPolicies : RemoveUserPolicy(id)
    PROVE  TypeInv'
  <1>0. TypeOK /\ ProcTyped /\ RestTyped
    BY TypeParts DEF TypeInv
  <1>1. ASSUME NEW c \in UserChain, NEW hs \in Ends(c), AddUserPolicy(c, hs) PROVE TypeInv'
    <2>1. Accept("add", {}) /\ UNCHANGED <<running, iptables, hosts, proc>>
      BY <1>1 DEF AddUserPolicy
    <2>2. added' = added + 1 /\ added' \in 1..MaxPolicies
      BY <1>0, <1>1, PolicyAssumption DEF AddUserPolicy, RestTyped
    <2> DEFINE p == [id |-> added + 1, hosts |-> hs, Status |-> "before_commit"]
    <2>3. p \in PolicyEntry
      BY <2>2 DEF PolicyEntry, Ends, Statuses
    <2>4. AddPolicy(c, p)
      BY <1>1 DEF AddUserPolicy
    <2> HIDE DEF p
    <2>5. file' \in File
      BY <1>0, <2>3, <2>4, AddPolicyType
    <2>6. /\ last' \in {"failed", "overlapped", "boot", "commit"} /\ shared' \subseteq Procs
          /\ requests' \in 1..MaxRequests /\ trouble' \in 0..MaxTrouble
      BY <1>0, <2>1, AcceptTyped
    <2>7. RestTyped'
      BY <1>0, <2>1, <2>2, <2>5, <2>6 DEF RestTyped, iptables, hosts
    <2>8. ProcTyped'
      BY <1>0, <2>1 DEF ProcTyped, Shape
    <2> QED
      BY <2>7, <2>8, TypeParts DEF TypeInv, TypeOK, ProcTyped, RestTyped
  <1>2. ASSUME NEW id \in 1..MaxPolicies, RemoveUserPolicy(id) PROVE TypeInv'
    <2>1. Accept("remove", {}) /\ UNCHANGED <<running, iptables, hosts, proc, added>>
      BY <1>2 DEF RemoveUserPolicy
    <2>2. PICK c \in UserChain : UpdateStatus(c, id, "remove_next_commit")
      BY <1>2 DEF RemoveUserPolicy
    <2>3. file' \in File
      BY <1>0, <2>2, UpdateStatusType DEF Statuses
    <2>4. /\ last' \in {"failed", "overlapped", "boot", "commit"} /\ shared' \subseteq Procs
          /\ requests' \in 1..MaxRequests /\ trouble' \in 0..MaxTrouble
      BY <1>0, <2>1, AcceptTyped
    <2>5. RestTyped'
      BY <1>0, <2>1, <2>3, <2>4 DEF RestTyped, iptables, hosts
    <2>6. ProcTyped'
      BY <1>0, <2>1 DEF ProcTyped, Shape
    <2> QED
      BY <2>5, <2>6 DEF TypeInv, TypeOK, ProcTyped, RestTyped
  <1> QED
    BY <1>1, <1>2

LEMMA RequestTyped ==
    ASSUME TypeInv, NEW r \in Procs, Request(r)
    PROVE  TypeInv'
  <1>0. TypeOK /\ ProcTyped /\ RestTyped
    BY TypeParts DEF TypeInv
  <1>a. ASSUME RestTyped', ProcTyped' PROVE TypeInv'
    BY <1>a DEF TypeInv, TypeOK, ProcTyped, RestTyped
  <1>b. ASSUME NEW kind \in {"hook", "network", "commit", "revert"}, NEW step \in {"fix", "rename"},
               step = "rename" <=> kind = "revert", Begin(r, kind, step)
        PROVE  /\ ProcTyped'
               /\ last' \in {"failed", "overlapped", "boot", "commit"} /\ shared' \subseteq Procs
               /\ requests' \in 1..MaxRequests /\ requests' = requests + 1 /\ trouble' \in 0..MaxTrouble
    <2> DEFINE q == [Idle EXCEPT !.kind = kind, !.step = step]
    <2>1. q \in Handler /\ q.kind = kind /\ q.step = step
      BY IdleIs DEF Handler, Steps
    <2>2. proc' = [proc EXCEPT ![r] = q]
      BY <1>b DEF Begin
    <2> HIDE DEF q
    <2>3. Shaped(q)
      BY <1>b, <2>1 DEF Shaped, BuildSteps
    <2>4. Accept(kind, {r})
      BY <1>b DEF Begin
    <2>5. {r} \subseteq Procs
      OBVIOUS
    <2>6. ProcTyped'
      BY <1>0, <2>1, <2>2, <2>3, ProcIs
    <2>7. /\ last' \in {"failed", "overlapped", "boot", "commit"} /\ shared' \subseteq Procs
          /\ requests' \in 1..MaxRequests /\ requests' = requests + 1 /\ trouble' \in 0..MaxTrouble
      BY <1>0, <2>4, <2>5, AcceptTyped
    <2> QED
      BY <2>6, <2>7
  <1>1. CASE CommitPolicy(r)
    <2>1. Begin(r, "commit", "fix") /\ UNCHANGED <<npm, iptables, hosts, added>>
      BY <1>1 DEF CommitPolicy
    <2>2. RestTyped'
      BY <1>0, <1>b, <2>1 DEF RestTyped, npm, iptables, hosts
    <2> QED
      BY <1>a, <1>b, <2>1, <2>2
  <1>2. CASE RevertPolicy(r)
    <2>1. Begin(r, "revert", "rename") /\ UNCHANGED <<npm, iptables, hosts, added>>
      BY <1>2 DEF RevertPolicy
    <2>2. RestTyped'
      BY <1>0, <1>b, <2>1 DEF RestTyped, npm, iptables, hosts
    <2> QED
      BY <1>a, <1>b, <2>1, <2>2
  <1>3. ASSUME NEW h \in Hosts, HostChange(r, h) PROVE TypeInv'
    <2>1. Begin(r, "hook", "fix") /\ UNCHANGED <<npm, iptables, networks, added>>
      BY <1>3 DEF HostChange
    <2>2. requests' = requests + 1 /\ requests' \in 1..MaxRequests
      BY <1>b, <2>1
    <2>3. veth' \in [Hosts -> 0..MaxRequests]
      <3> DEFINE a == IF veth[h] = 0 THEN requests + 1 ELSE 0
      <3>1. requests + 1 \in 0..MaxRequests /\ 0 \in 0..MaxRequests
        BY <1>0, <2>2, PolicyAssumption DEF RestTyped
      <3>2. a \in 0..MaxRequests
        BY <3>1
      <3>3. veth' = [veth EXCEPT ![h] = a]
        BY <1>3, Zenon DEF HostChange
      <3> HIDE DEF a
      <3> QED
        BY <1>0, <3>2, <3>3 DEF RestTyped
    <2>4. RestTyped'
      BY <1>0, <1>b, <2>1, <2>3 DEF RestTyped, npm, iptables
    <2> QED
      BY <1>a, <1>b, <2>1, <2>4
  <1>4. ASSUME NEW n \in Networks, NetworkChange(r, n) PROVE TypeInv'
    <2>1. Begin(r, "network", "fix") /\ UNCHANGED <<npm, iptables, veth, added>>
      BY <1>4 DEF NetworkChange
    <2>2. networks' \in Seq(Networks)
      <3>1. networks \in Seq(Networks)
        BY <1>0 DEF RestTyped
      <3>2. RemoveFirst(networks, n) \in Seq(Networks) /\ Append(networks, n) \in Seq(Networks)
        BY <3>1, RemoveFirstType, AppendType
      <3> QED
        BY <1>4, <3>2 DEF NetworkChange
    <2>3. RestTyped'
      BY <1>0, <1>b, <2>1, <2>2 DEF RestTyped, npm, iptables
    <2> QED
      BY <1>a, <1>b, <2>1, <2>3
  <1>5. ASSUME NEW m \in Modes, ChangeNSMode(r, m) PROVE TypeInv'
    <2> DEFINE q == [Idle EXCEPT !.kind = "mode", !.step = "set mode", !.mode = m]
    <2>0. "mode" \in {"boot", "mode", "hook", "network", "commit", "revert"} /\ "set mode" \in Steps
      BY DEF Steps
    <2>1. q \in Handler /\ q.kind = "mode" /\ q.step = "set mode"
      BY <2>0, IdleIs DEF Handler
    <2>2. proc' = [proc EXCEPT ![r] = q] /\ Accept("mode", {r}) /\ UNCHANGED <<npm, iptables, hosts, added>>
      BY <1>5 DEF ChangeNSMode
    <2> HIDE DEF q
    <2>3. Shaped(q)
      BY <2>1 DEF Shaped, BuildSteps
    <2>4. ProcTyped'
      BY <1>0, <2>1, <2>2, <2>3, ProcIs
    <2>5. {r} \subseteq Procs
      OBVIOUS
    <2>6. /\ last' \in {"failed", "overlapped", "boot", "commit"} /\ shared' \subseteq Procs
          /\ requests' \in 1..MaxRequests /\ trouble' \in 0..MaxTrouble
      BY <1>0, <2>2, <2>5, AcceptTyped
    <2>7. RestTyped'
      BY <1>0, <2>2, <2>6 DEF RestTyped, npm, iptables, hosts
    <2> QED
      BY <1>a, <2>4, <2>7
  <1>6. CASE SetNSMode(r)
    <2>1. proc[r].mode \in Modes
      BY <1>0 DEF ProcTyped, Handler
    <2>2. file' \in File
      <3>1. Pending(proc[r].mode) \in AllModes /\ loadOrInit \in File
        BY <1>0, <2>1, ModeNames, LoadType
      <3> QED
        BY <1>6, <3>1, ModeType DEF SetNSMode
    <2>3. proc' = [proc EXCEPT ![r] = Idle] /\ UNCHANGED <<running, iptables, hosts, outcome, bounds>>
      BY <1>6 DEF SetNSMode
    <2>4. ProcTyped'
      BY <1>0, <2>3, IdleIs, ProcIs
    <2>5. RestTyped'
      BY <1>0, <2>2, <2>3 DEF RestTyped, iptables, hosts, outcome, bounds
    <2> QED
      BY <1>a, <2>4, <2>5
  <1> QED
    BY <1>1, <1>2, <1>3, <1>4, <1>5, <1>6 DEF Request

-----------------------------------------------------------------------------
\* What the steps of a request do to its record, and to no other.
Fields == {"kind", "step", "todo", "chain", "mode", "nets", "snap", "ok", "complete"}

Only(r) == proc' \in [Procs -> Handler] /\ \A o \in Procs : o # r => proc'[o] = proc[o]

Keeps(r, fields) == \A f \in Fields \ fields : proc'[r][f] = proc[r][f]

LEMMA OnlyIs ==
    ASSUME ProcTyped, NEW r \in Procs, NEW q \in Handler, proc' = [proc EXCEPT ![r] = q]
    PROVE  Only(r) /\ proc'[r] = q
  BY DEF ProcTyped, Only

LEMMA OnlyTyped ==
    ASSUME ProcTyped, NEW r \in Procs, Only(r), Shaped(proc'[r])
    PROVE  ProcTyped'
  BY DEF ProcTyped, Only, Shape, Shaped

LEMMA StopIs ==
    ASSUME ProcTyped, NEW r \in Procs, proc' = [proc EXCEPT ![r] = Idle]
    PROVE  /\ Only(r) /\ proc'[r] = Idle /\ proc'[r].step = "idle" /\ proc'[r].kind = "none" /\ ProcTyped'
  <1>1. Only(r) /\ proc'[r] = Idle
    BY IdleIs, OnlyIs
  <1>2. Idle.step = "idle" /\ Idle.kind = "none"
    BY DEF Idle
  <1> QED
    BY <1>1, <1>2, IdleIs, OnlyTyped

LEMMA RecordIs ==
    ASSUME ProcTyped, NEW r \in Procs
    PROVE  /\ proc[r] \in Handler /\ DOMAIN proc[r] = Fields /\ Shaped(proc[r])
           /\ proc[r].kind \in {"none", "boot", "mode", "hook", "network", "commit", "revert"}
           /\ proc[r].todo \in Seq(Commands) \cup Seq(PolicyEntry) /\ proc[r].chain \in 1..3
           /\ proc[r].mode \in Modes /\ proc[r].nets \in Seq(Networks) /\ proc[r].snap \in File \cup {Missing}
           /\ proc[r].ok \in BOOLEAN /\ proc[r].complete \in BOOLEAN /\ proc[r].step \in Steps
  BY ChainNames DEF ProcTyped, Handler, Shape, Fields

LEMMA GotoIs ==
    ASSUME ProcTyped, NEW r \in Procs, NEW step \in Steps, Goto(r, step)
    PROVE  Only(r) /\ proc'[r].step = step /\ Keeps(r, {"step"})
  <1> DEFINE q == [proc[r] EXCEPT !.step = step]
  <1>1. proc[r] \in Handler /\ DOMAIN proc[r] = Fields
    BY RecordIs
  <1>2. q \in Handler /\ q.step = step /\ \A f \in Fields \ {"step"} : q[f] = proc[r][f]
    BY <1>1 DEF Handler, Fields
  <1>3. proc' = [proc EXCEPT ![r] = q]
    BY DEF Goto
  <1> HIDE DEF q
  <1> QED
    BY <1>2, <1>3, OnlyIs DEF Keeps

LEMMA ReadNSModeIs ==
    ASSUME ProcTyped, NEW r \in Procs, ReadNSMode(r)
    PROVE  /\ Only(r) /\ Keeps(r, {"step", "mode"})
           /\ \/ proc'[r].step = "networks" /\ loadOrInit.Mode \in Modes
              \/ proc'[r].step = "fixed"
  <1>1. CASE loadOrInit.Mode \in Modes /\ Goto(r, "networks")
    BY <1>1, GotoIs DEF Steps, Keeps
  <1>2. ASSUME NEW m \in Modes, proc' = [proc EXCEPT ![r].step = "fixed", ![r].mode = m]
        PROVE  Only(r) /\ Keeps(r, {"step", "mode"}) /\ proc'[r].step = "fixed"
    <2> DEFINE q == [[proc[r] EXCEPT !.step = "fixed"] EXCEPT !.mode = m]
    <2>1. proc[r] \in Handler /\ DOMAIN proc[r] = Fields
      BY RecordIs
    <2>2. q \in Handler /\ q.step = "fixed" /\ \A f \in Fields \ {"step", "mode"} : q[f] = proc[r][f]
      BY <2>1 DEF Handler, Fields, Steps
    <2>3. proc' = [proc EXCEPT ![r] = q]
      BY <1>2 DEF ProcTyped
    <2> HIDE DEF q
    <2> QED
      BY <2>2, <2>3, OnlyIs DEF Keeps
  <1> QED
    BY <1>1, <1>2 DEF ReadNSMode

LEMMA FixNSModeIs ==
    ASSUME ProcTyped, NEW r \in Procs, FixNSMode(r)
    PROVE  Only(r) /\ Keeps(r, {"step", "mode"}) /\ proc'[r].step = "networks"
  <1> DEFINE q == [[proc[r] EXCEPT !.step = "networks"] EXCEPT !.mode = "observe"]
  <1>1. proc[r] \in Handler /\ DOMAIN proc[r] = Fields
    BY RecordIs
  <1>2. q \in Handler /\ q.step = "networks" /\ \A f \in Fields \ {"step", "mode"} : q[f] = proc[r][f]
    BY <1>1 DEF Handler, Fields, Steps, Modes
  <1>3. proc' = [proc EXCEPT ![r] = q]
    BY DEF FixNSMode, ProcTyped
  <1> HIDE DEF q
  <1> QED
    BY <1>2, <1>3, OnlyIs DEF Keeps

LEMMA ReadNetworksIs ==
    ASSUME ProcTyped, RestTyped, NEW r \in Procs, ReadNetworks(r)
    PROVE  Only(r) /\ Keeps(r, {"step", "nets"}) /\ proc'[r].step = "enforce" /\ proc'[r].nets = networks
  <1> DEFINE q == [[proc[r] EXCEPT !.step = "enforce"] EXCEPT !.nets = networks]
  <1>1. proc[r] \in Handler /\ DOMAIN proc[r] = Fields /\ networks \in Seq(Networks)
    BY RecordIs DEF RestTyped
  <1>2. q \in Handler /\ q.step = "enforce" /\ q.nets = networks
        /\ \A f \in Fields \ {"step", "nets"} : q[f] = proc[r][f]
    BY <1>1 DEF Handler, Fields, Steps
  <1>3. proc' = [proc EXCEPT ![r] = q]
    BY DEF ReadNetworks, ProcTyped
  <1> HIDE DEF q
  <1> QED
    BY <1>2, <1>3, OnlyIs DEF Keeps

LEMMA ReadEnforceIs ==
    ASSUME ProcTyped, NEW r \in Procs, ReadEnforce(r)
    PROVE  /\ Only(r) /\ Keeps(r, {"step", "nets", "todo"}) /\ proc'[r].step = "build"
           /\ proc'[r].todo = BuildPredefinedPolicy(proc[r].nets, IsNsEnforce)
           /\ proc'[r].todo \in Seq(Commands) /\ proc'[r].todo # <<>>
  <1> DEFINE p == BuildPredefinedPolicy(proc[r].nets, IsNsEnforce)
  <1>1. proc[r] \in Handler /\ DOMAIN proc[r] = Fields /\ proc[r].nets \in Seq(Networks)
    BY RecordIs
  <1>2. IsNsEnforce \in BOOLEAN
    BY DEF IsNsEnforce
  <1>3. p \in Seq(Commands) /\ p # <<>>
    <2>1. p \in Seq(Commands) /\ Len(p) = 12 + 2 * Len(proc[r].nets)
      BY <1>1, <1>2, PlanIs
    <2>2. Len(proc[r].nets) \in Nat
      BY <1>1
    <2> QED
      BY <2>1, <2>2
  <1> DEFINE q == [[[proc[r] EXCEPT !.step = "build"] EXCEPT !.nets = <<>>] EXCEPT !.todo = p]
  <1>4. proc' = [proc EXCEPT ![r] = q]
    BY DEF ReadEnforce, ProcTyped
  <1> HIDE DEF p
  <1>5. q \in Handler
    BY <1>1, <1>3, EmptySequence DEF Handler, Steps
  <1>6. q.step = "build" /\ q.todo = p /\ \A f \in Fields \ {"step", "nets", "todo"} : q[f] = proc[r][f]
    BY <1>1 DEF Handler, Fields
  <1> HIDE DEF q
  <1>7. Only(r) /\ proc'[r] = q
    BY <1>4, <1>5, OnlyIs
  <1> QED
    BY <1>3, <1>6, <1>7 DEF Keeps, p

LEMMA RunCommandIs ==
    ASSUME ProcTyped, NEW r \in Procs, RunCommand(r)
    PROVE  /\ Only(r) /\ Keeps(r, {"step", "todo"})
           /\ proc[r].todo \in Seq(Commands) /\ proc[r].todo # <<>>
           /\ proc'[r].todo = Tail(proc[r].todo) /\ proc'[r].todo \in Seq(Commands)
           /\ proc'[r].step = IF Len(proc[r].todo) = 1 THEN "list" ELSE "build"
           /\ Len(proc[r].todo) # 1 => proc'[r].todo # <<>>
  <1>1. proc[r] \in Handler /\ DOMAIN proc[r] = Fields /\ Shaped(proc[r]) /\ proc[r].step = "build"
    BY RecordIs DEF RunCommand, At
  <1>2. proc[r].todo \in Seq(Commands) /\ proc[r].todo # <<>>
    BY <1>1 DEF Shaped
  <1> DEFINE t == proc[r].todo
             u == Tail(t)
             s == IF Len(t) = 1 THEN "list" ELSE "build"
             q == [[proc[r] EXCEPT !.todo = u] EXCEPT !.step = s]
  <1>3. t \in Seq(Commands) /\ t # <<>>
    BY <1>2
  <1>4. proc' = [proc EXCEPT ![r] = q]
    <2>1. proc' = [proc EXCEPT ![r].todo = Tail(@), ![r].step = IF Len(proc[r].todo) = 1 THEN "list" ELSE @]
      BY DEF RunCommand
    <2>2. proc' = [proc EXCEPT ![r] = [[proc[r] EXCEPT !.todo = u] EXCEPT !.step = IF Len(t) = 1 THEN "list" ELSE proc[r].step]]
      BY <1>1, <2>1 DEF ProcTyped, Fields
    <2> HIDE DEF u, t
    <2> QED
      BY <1>1, <2>2
  <1>5. u \in Seq(Commands) /\ (Len(t) # 1 => u # <<>>)
    <2> HIDE DEF t
    <2>1. Len(t) \in Nat \ {0} /\ u \in Seq(Commands) /\ Len(u) = Len(t) - 1
      BY <1>3, SeqHeadTail
    <2> HIDE DEF u
    <2>2. Len(t) # 1 => Len(u) # 0
      BY <2>1
    <2> QED
      BY <2>1, <2>2
  <1> HIDE DEF u, t
  <1>6. q \in Handler
    BY <1>1, <1>5 DEF Handler, Steps
  <1>7. q.step = s /\ q.todo = u /\ \A f \in Fields \ {"step", "todo"} : q[f] = proc[r][f]
    BY <1>1 DEF Handler, Fields
  <1> HIDE DEF q
  <1>8. Only(r) /\ proc'[r] = q
    BY <1>4, <1>6, OnlyIs
  <1> QED
    BY <1>3, <1>5, <1>7, <1>8 DEF Keeps, u, t

LEMMA ListPoliciesIs ==
    ASSUME TypeInv, NEW r \in Procs, ListPolicies(r)
    PROVE  /\ Only(r) /\ Keeps(r, {"step", "todo"})
           /\ proc'[r].step = "policy" /\ proc'[r].todo \in Seq(PolicyEntry)
           /\ proc'[r].todo = loadOrInit.Policies[UserChains[proc[r].chain]]
  <1> DEFINE t == loadOrInit.Policies[UserChains[proc[r].chain]]
             q == [[proc[r] EXCEPT !.step = "policy"] EXCEPT !.todo = t]
  <1>0. ProcTyped
    BY TypeParts
  <1>1. proc[r] \in Handler /\ DOMAIN proc[r] = Fields /\ proc[r].chain \in 1..3
    BY <1>0, RecordIs
  <1>2. UserChains[proc[r].chain] \in UserChain /\ loadOrInit \in File
    BY <1>1, ChainNames, LoadType DEF TypeInv
  <1>3. t \in Seq(PolicyEntry)
    BY <1>2 DEF File
  <1>4. proc' = [proc EXCEPT ![r] = q]
    BY <1>0 DEF ListPolicies, ProcTyped
  <1> HIDE DEF t
  <1>5. q \in Handler
    BY <1>1, <1>3 DEF Handler, Steps
  <1>6. q.step = "policy" /\ q.todo = t /\ \A f \in Fields \ {"step", "todo"} : q[f] = proc[r][f]
    BY <1>1 DEF Handler, Fields
  <1> HIDE DEF q
  <1>7. Only(r) /\ proc'[r] = q
    BY <1>0, <1>4, <1>5, OnlyIs
  <1> QED
    BY <1>3, <1>6, <1>7 DEF Keeps, t

LEMMA NextPolicyIs ==
    ASSUME ProcTyped, NEW r \in Procs, proc[r].step \in {"policy", "applied"}, proc[r].todo # <<>>, NextPolicy(r)
    PROVE  /\ Only(r) /\ Keeps(r, {"step", "todo"})
           /\ proc'[r].step = "policy" /\ proc'[r].todo \in Seq(PolicyEntry)
           /\ proc'[r].todo = Tail(proc[r].todo)
  <1> DEFINE t == proc[r].todo
             u == Tail(t)
             q == [[proc[r] EXCEPT !.step = "policy"] EXCEPT !.todo = u]
  <1>1. proc[r] \in Handler /\ DOMAIN proc[r] = Fields /\ Shaped(proc[r])
    BY RecordIs
  <1>2. t \in Seq(PolicyEntry) /\ t # <<>>
    BY <1>1 DEF Shaped
  <1>3. proc' = [proc EXCEPT ![r] = q]
    BY <1>1 DEF NextPolicy, ProcTyped, Fields
  <1>4. u \in Seq(PolicyEntry)
    <2> HIDE DEF t
    <2> QED
      BY <1>2, SeqHeadTail
  <1> HIDE DEF u, t
  <1>5. q \in Handler
    BY <1>1, <1>4 DEF Handler, Steps
  <1>6. q.step = "policy" /\ q.todo = u /\ \A f \in Fields \ {"step", "todo"} : q[f] = proc[r][f]
    BY <1>1 DEF Handler, Fields
  <1> HIDE DEF q
  <1>7. Only(r) /\ proc'[r] = q
    BY <1>3, <1>5, OnlyIs
  <1> QED
    BY <1>4, <1>6, <1>7 DEF Keeps, u, t

LEMMA GiveUpChainIs ==
    ASSUME ProcTyped, NEW r \in Procs, GiveUpChain(r)
    PROVE  /\ Only(r) /\ Keeps(r, {"todo", "ok"}) /\ proc'[r].todo = <<>>
  <1> DEFINE b == proc[r].ok /\ proc[r].chain < Len(UserChains)
             q == [[proc[r] EXCEPT !.todo = <<>>] EXCEPT !.ok = b]
  <1>1. proc[r] \in Handler /\ DOMAIN proc[r] = Fields /\ Shaped(proc[r])
    BY RecordIs
  <1>2. b \in BOOLEAN
    OBVIOUS
  <1>3. proc' = [proc EXCEPT ![r] = q]
    BY <1>1 DEF GiveUpChain, ProcTyped, Fields
  <1> HIDE DEF b
  <1>5. q \in Handler
    BY <1>1, <1>2, EmptySequence DEF Handler, Steps
  <1>6. q.todo = <<>> /\ \A f \in Fields \ {"ok", "todo"} : q[f] = proc[r][f]
    BY <1>1 DEF Handler, Fields
  <1> HIDE DEF q
  <1>7. Only(r) /\ proc'[r] = q
    BY <1>3, <1>5, OnlyIs
  <1> QED
    BY <1>6, <1>7 DEF Keeps

LEMMA InsertFailsIs ==
    ASSUME ProcTyped, NEW r \in Procs, InsertFails(r)
    PROVE  /\ Only(r) /\ Keeps(r, {"todo", "complete"}) /\ proc'[r].todo \in Seq(PolicyEntry) /\ proc'[r].step = "policy"
           /\ proc'[r].complete = FALSE
  <1> DEFINE t == proc[r].todo
             u == Tail(t)
             q == [[proc[r] EXCEPT !.todo = u] EXCEPT !.complete = FALSE]
  <1>1. proc[r] \in Handler /\ DOMAIN proc[r] = Fields /\ Shaped(proc[r]) /\ proc[r].step = "policy"
    BY RecordIs DEF InsertFails, At
  <1>2. t \in Seq(PolicyEntry) /\ t # <<>>
    BY <1>1 DEF Shaped, InsertFails
  <1>3. proc' = [proc EXCEPT ![r] = q]
    BY <1>1 DEF InsertFails, ProcTyped, Fields
  <1>4. u \in Seq(PolicyEntry)
    <2> HIDE DEF t
    <2> QED
      BY <1>2, SeqHeadTail
  <1> HIDE DEF u, t
  <1>5. q \in Handler
    BY <1>1, <1>4 DEF Handler, Steps
  <1>6. q.todo = u /\ q.complete = FALSE /\ \A f \in Fields \ {"complete", "todo"} : q[f] = proc[r][f]
    BY <1>1 DEF Handler, Fields
  <1> HIDE DEF q
  <1>7. Only(r) /\ proc'[r] = q
    BY <1>3, <1>5, OnlyIs
  <1> QED
    BY <1>1, <1>4, <1>6, <1>7 DEF Keeps, Fields

LEMMA NextChainIs ==
    ASSUME ProcTyped, NEW r \in Procs, proc[r].chain < Len(UserChains),
           proc' = [proc EXCEPT ![r].step = "list", ![r].chain = @ + 1]
    PROVE  Only(r) /\ Keeps(r, {"step", "chain"}) /\ proc'[r].step = "list" /\ proc'[r].chain = proc[r].chain + 1
  <1> DEFINE i == proc[r].chain + 1
             q == [[proc[r] EXCEPT !.step = "list"] EXCEPT !.chain = i]
  <1>1. proc[r] \in Handler /\ DOMAIN proc[r] = Fields /\ proc[r].chain \in 1..3 /\ Len(UserChains) = 3
    BY RecordIs, ChainNames
  <1>2. i \in 1..Len(UserChains)
    BY <1>1
  <1>3. proc' = [proc EXCEPT ![r] = q]
    BY <1>1 DEF ProcTyped, Fields
  <1> HIDE DEF i
  <1>5. q \in Handler
    BY <1>1, <1>2 DEF Handler, Steps
  <1>6. q.step = "list" /\ q.chain = i /\ \A f \in Fields \ {"step", "chain"} : q[f] = proc[r][f]
    BY <1>1 DEF Handler, Fields
  <1> HIDE DEF q
  <1>7. Only(r) /\ proc'[r] = q
    BY <1>3, <1>5, OnlyIs
  <1> QED
    BY <1>6, <1>7 DEF Keeps, i

LEMMA SnapIs ==
    ASSUME ProcTyped, RestTyped, NEW r \in Procs, proc' = [proc EXCEPT ![r].step = "copy", ![r].snap = file]
    PROVE  Only(r) /\ Keeps(r, {"step", "snap"}) /\ proc'[r].step = "copy" /\ proc'[r].snap = file
  <1> DEFINE q == [[proc[r] EXCEPT !.step = "copy"] EXCEPT !.snap = file]
  <1>1. proc[r] \in Handler /\ DOMAIN proc[r] = Fields /\ file \in File \cup {Missing}
    BY RecordIs DEF RestTyped
  <1>3. proc' = [proc EXCEPT ![r] = q]
    BY <1>1 DEF ProcTyped, Fields
  <1>5. q \in Handler
    BY <1>1 DEF Handler, Steps
  <1>6. q.step = "copy" /\ q.snap = file /\ \A f \in Fields \ {"step", "snap"} : q[f] = proc[r][f]
    BY <1>1 DEF Handler, Fields
  <1> HIDE DEF q
  <1>7. Only(r) /\ proc'[r] = q
    BY <1>3, <1>5, OnlyIs
  <1> QED
    BY <1>6, <1>7 DEF Keeps

\* The chains after one command, and after the rule of a user.
LEMMA RunCommandChains ==
    ASSUME TypeInv, NEW r \in Procs, RunCommand(r)
    PROVE  LET c == Head(proc[r].todo).chain
               op == Head(proc[r].todo).op
               rule == Head(proc[r].todo).rule
           IN  /\ c \in Chain /\ rule \in Rules
               /\ chains' \in [Chain -> Seq(Rules)]
               /\ \A d \in Chain : d # c => chains'[d] = chains[d]
               /\ op = "flush" => chains'[c] = <<>>
               /\ op = "add" => chains'[c] = AddRuleToChain(chains[c], rule)
               /\ op = "forward" => chains'[c] = chains[c]
               /\ forward' = (forward \/ op = "forward") /\ forward' \in BOOLEAN
  <1>0. ProcTyped /\ RestTyped
    BY TypeParts
  <1> DEFINE h == Head(proc[r].todo)
             c == h.chain
             op == h.op
             rule == h.rule
             v == CASE op = "flush" -> CreateChain(chains[c])
                    [] op = "add" -> AddRuleToChain(chains[c], rule)
                    [] op = "forward" -> chains[c]
  <1>1. h \in Commands
    <2>1. proc[r].todo \in Seq(Commands) /\ proc[r].todo # <<>>
      BY <1>0, RunCommandIs
    <2> DEFINE t == proc[r].todo
    <2>2. t \in Seq(Commands) /\ t # <<>>
      BY <2>1
    <2> HIDE DEF t
    <2>3. Head(t) \in Commands
      BY <2>2, SeqHeadTail
    <2> QED
      BY <2>3 DEF t
  <1> HIDE DEF h
  <1>2. op \in {"flush", "add", "forward"} /\ c \in Chain /\ rule \in Rules
    BY <1>1 DEF Commands
  <1>3. chains' = [chains EXCEPT ![c] = v] /\ forward' = (forward \/ op = "forward")
    BY Zenon DEF RunCommand, h
  <1>4. chains \in [Chain -> Seq(Rules)] /\ forward \in BOOLEAN
    BY <1>0 DEF RestTyped
  <1>5. AddRuleToChain(chains[c], rule) \in Seq(Rules)
    <2> DEFINE s == chains[c]
    <2>1. s \in Seq(Rules)
      BY <1>2, <1>4
    <2> HIDE DEF s, c, rule
    <2>2. Append(s, rule) \in Seq(Rules)
      BY <1>2, <2>1, AppendType
    <2> QED
      BY <2>1, <2>2 DEF AddRuleToChain, s
  <1>6. /\ op = "flush" => v = <<>>
        /\ op = "add" => v = AddRuleToChain(chains[c], rule)
        /\ op = "forward" => v = chains[c]
    BY DEF CreateChain
  <1> HIDE DEF v
  <1>7. v \in Seq(Rules)
    <2>1. CASE op = "flush"
      BY <1>6, <2>1, EmptySequence
    <2>2. CASE op = "add"
      BY <1>5, <1>6, <2>2
    <2>3. CASE op = "forward"
      BY <1>2, <1>4, <1>6, <2>3
    <2> QED
      BY <1>2, <2>1, <2>2, <2>3
  <1>8. chains' \in [Chain -> Seq(Rules)] /\ chains'[c] = v /\ \A d \in Chain : d # c => chains'[d] = chains[d]
    <2> HIDE DEF c
    <2> QED
      BY <1>2, <1>3, <1>4, <1>7
  <1>9. forward' \in BOOLEAN
    BY <1>3, <1>4
  <1> QED
    BY <1>2, <1>3, <1>6, <1>8, <1>9 DEF h

LEMMA InsertChains ==
    ASSUME TypeInv, NEW r \in Procs, InsertUserPolicy(r)
    PROVE  LET c == HeadChain(r)
               rule == UserRule(c, Head(proc[r].todo).hosts)
           IN  /\ c \in UserChain /\ rule \in Rules /\ rule.on = "user"
               /\ chains' \in [Chain -> Seq(Rules)]
               /\ \A d \in Chain : d # c => chains'[d] = chains[d]
               /\ chains'[c] = InsertRuleToChain(chains[c], rule)
  <1>0. ProcTyped /\ RestTyped
    BY TypeParts
  <1> DEFINE hs == Head(proc[r].todo).hosts
             c == HeadChain(r)
             rule == UserRule(c, hs)
             v == InsertRuleToChain(chains[c], rule)
  <1>1. c \in UserChain /\ c \in Chain
    BY <1>0, RecordIs, ChainNames DEF HeadChain
  <1>2. hs \subseteq Hosts
    <2> DEFINE t == proc[r].todo
    <2>1. t \in Seq(PolicyEntry) /\ t # <<>>
      BY <1>0, RecordIs DEF Shaped, InsertUserPolicy, At
    <2>2. Head(t) \in PolicyEntry
      <3> HIDE DEF t
      <3> QED
        BY <2>1, SeqHeadTail
    <2> QED
      BY <2>2 DEF PolicyEntry
  <1> HIDE DEF hs
  <1>3. rule \in Rules /\ rule.on = "user"
    <2>1. {<<h, veth[h]>> : h \in hs} \subseteq Hosts \X (0..MaxRequests)
      BY <1>0, <1>2 DEF RestTyped
    <2> QED
      BY <2>1 DEF UserRule, Rule, Rules
  <1>4. chains' = [chains EXCEPT ![c] = v]
    BY Zenon DEF InsertUserPolicy, hs
  <1>5. chains \in [Chain -> Seq(Rules)]
    BY <1>0 DEF RestTyped
  <1> HIDE DEF c, rule
  <1>6. v \in Seq(Rules)
    <2> DEFINE s == chains[c]
    <2>1. s \in Seq(Rules)
      BY <1>1, <1>5
    <2> HIDE DEF s
    <2>2. <<rule>> \o s \in Seq(Rules)
      BY <1>3, <2>1
    <2> QED
      BY <2>1, <2>2 DEF InsertRuleToChain, s
  <1> HIDE DEF v
  <1>7. chains' \in [Chain -> Seq(Rules)] /\ chains'[c] = v /\ \A d \in Chain : d # c => chains'[d] = chains[d]
    BY <1>1, <1>4, <1>5, <1>6
  <1> QED
    BY <1>1, <1>3, <1>7 DEF v, c, rule, hs

\* A policy is removed or marked: the file stays a file and keeps its mode.
LEMMA MarkingIs ==
    ASSUME TypeInv, NEW r \in Procs, RemoveFlagged(r) \/ MarkUnresolved(r) \/ MarkApplied(r)
    PROVE  /\ file' \in File \cup {Missing} /\ loadOrInit'.Mode = loadOrInit.Mode
           /\ file # Missing => file' # Missing
           /\ Only(r) /\ Keeps(r, {"step", "todo", "ok"})
           /\ proc'[r].step = "policy" /\ proc'[r].todo \in Seq(PolicyEntry)
  <1>0. ProcTyped /\ RestTyped /\ TypeOK
    BY TypeParts DEF TypeInv
  <1> DEFINE c == HeadChain(r)
             id == Head(proc[r].todo).id
  <1>1. proc[r].step \in {"policy", "applied"} /\ proc[r].todo # <<>>
    BY <1>0, RecordIs DEF Shaped, RemoveFlagged, MarkUnresolved, MarkApplied, At
  <1>2. c \in UserChain
    BY <1>0, RecordIs, ChainNames DEF HeadChain
  <1>5. \/ RemovePolicy(c, id) \/ UpdateStatus(c, id, "unresolved") \/ UpdateStatus(c, id, "applied")
        \/ file' = file
    BY Zenon DEF RemoveFlagged, MarkUnresolved, MarkApplied
  <1>6. file' \in File \cup {Missing} /\ loadOrInit'.Mode = loadOrInit.Mode /\ (file # Missing => file' # Missing)
    <2>1. CASE RemovePolicy(c, id) \/ UpdateStatus(c, id, "unresolved") \/ UpdateStatus(c, id, "applied")
      <3> HIDE DEF c, id
      <3>1. file' \in File /\ file'.Mode = loadOrInit.Mode
        BY <1>0, <1>2, <2>1, RemovePolicyType, UpdateStatusType DEF Statuses
      <3>2. file' # Missing
        BY <3>1, MissingAssumption
      <3>3. loadOrInit' = file'
        BY <3>2 DEF loadOrInit
      <3> QED
        BY <3>1, <3>2, <3>3
    <2>2. CASE file' = file
      BY <1>0, <2>2 DEF RestTyped, loadOrInit
    <2> QED
      BY <1>5, <2>1, <2>2
  <1>7. NextPolicy(r) \/ (GiveUpChain(r) /\ proc[r].step = "policy")
    BY Zenon DEF RemoveFlagged, MarkUnresolved, MarkApplied, At
  <1>8. CASE NextPolicy(r)
    BY <1>0, <1>1, <1>6, <1>8, NextPolicyIs DEF Keeps
  <1>9. CASE GiveUpChain(r) /\ proc[r].step = "policy"
    <2>1. Only(r) /\ Keeps(r, {"todo", "ok"}) /\ proc'[r].todo = <<>>
      BY <1>0, <1>9, GiveUpChainIs
    <2>2. proc'[r].step = "policy"
      BY <1>9, <2>1 DEF Keeps, Fields
    <2> QED
      BY <1>6, <2>1, <2>2, EmptySequence DEF Keeps
  <1> QED
    BY <1>7, <1>8, <1>9

LEMMA OutcomeType ==
    ASSUME ProcTyped, NEW r \in Procs PROVE Outcome(r) \in {"failed", "overlapped", "boot", "commit"}
  BY DEF Outcome

LEMMA TroubleType ==
    ASSUME RestTyped, Trouble PROVE trouble' \in 0..MaxTrouble
  BY PolicyAssumption DEF Trouble, RestTyped

LEMMA ReadingTyped ==
    ASSUME TypeInv, NEW r \in Procs,
           \/ ReadNSMode(r) \/ FixNSMode(r) \/ ReadNetworks(r) \/ ReadEnforce(r)
           \/ ListPolicies(r) \/ RemoveFlagged(r) \/ MarkUnresolved(r) \/ MarkApplied(r)
    PROVE  TypeInv'
  <1>0. TypeOK /\ ProcTyped /\ RestTyped
    BY TypeParts DEF TypeInv
  <1>a. ASSUME RestTyped', ProcTyped' PROVE TypeInv'
    BY <1>a DEF TypeInv, TypeOK, ProcTyped, RestTyped
  <1>b. proc[r].kind \in {"none", "boot", "mode", "hook", "network", "commit", "revert"} /\ Shaped(proc[r])
    BY <1>0, RecordIs
  <1>1. CASE ReadNSMode(r)
    <2>1. UNCHANGED <<npm, iptables, hosts, outcome, bounds>> /\ proc[r].step = "fix"
      BY <1>1 DEF ReadNSMode, At
    <2>2. Only(r) /\ Keeps(r, {"step", "mode"}) /\ proc'[r].step \in {"networks", "fixed"}
      BY <1>0, <1>1, ReadNSModeIs
    <2>3. Shaped(proc'[r])
      BY <1>b, <2>1, <2>2 DEF Shaped, BuildSteps, Keeps, Fields
    <2>4. RestTyped'
      BY <1>0, <2>1 DEF RestTyped, npm, iptables, hosts, outcome, bounds
    <2> QED
      BY <1>0, <1>a, <2>2, <2>3, <2>4, OnlyTyped
  <1>2. CASE FixNSMode(r)
    <2>1. UNCHANGED <<running, iptables, hosts, outcome, bounds>> /\ proc[r].step = "fixed"
      BY <1>2 DEF FixNSMode, At
    <2>2. Only(r) /\ Keeps(r, {"step", "mode"}) /\ proc'[r].step = "networks"
      BY <1>0, <1>2, FixNSModeIs
    <2>3. Shaped(proc'[r])
      BY <1>b, <2>1, <2>2 DEF Shaped, BuildSteps, Keeps, Fields
    <2>4. file' \in File
      <3>1. proc[r].mode \in AllModes /\ loadOrInit \in File
        BY <1>0, RecordIs, ModeNames, LoadType
      <3> QED
        BY <1>2, <3>1, ModeType DEF FixNSMode
    <2>5. RestTyped'
      BY <1>0, <2>1, <2>4 DEF RestTyped, iptables, hosts, outcome, bounds
    <2> QED
      BY <1>0, <1>a, <2>2, <2>3, <2>5, OnlyTyped
  <1>3. CASE ReadNetworks(r)
    <2>1. UNCHANGED <<npm, iptables, hosts, outcome, bounds>> /\ proc[r].step = "networks"
      BY <1>3 DEF ReadNetworks, At
    <2>2. Only(r) /\ Keeps(r, {"step", "nets"}) /\ proc'[r].step = "enforce"
      BY <1>0, <1>3, ReadNetworksIs
    <2>3. Shaped(proc'[r])
      BY <1>b, <2>1, <2>2 DEF Shaped, BuildSteps, Keeps, Fields
    <2>4. RestTyped'
      BY <1>0, <2>1 DEF RestTyped, npm, iptables, hosts, outcome, bounds
    <2> QED
      BY <1>0, <1>a, <2>2, <2>3, <2>4, OnlyTyped
  <1>4. CASE ReadEnforce(r)
    <2>1. UNCHANGED <<npm, iptables, hosts, outcome, bounds>> /\ proc[r].step = "enforce"
      BY <1>4 DEF ReadEnforce, At
    <2>2. Only(r) /\ Keeps(r, {"step", "nets", "todo"}) /\ proc'[r].step = "build"
      BY <1>0, <1>4, ReadEnforceIs
    <2>3. proc'[r].todo \in Seq(Commands) /\ proc'[r].todo # <<>>
      BY <1>0, <1>4, ReadEnforceIs
    <2>4. Shaped(proc'[r])
      BY <1>b, <2>1, <2>2, <2>3 DEF Shaped, BuildSteps, Keeps, Fields
    <2>5. RestTyped'
      BY <1>0, <2>1 DEF RestTyped, npm, iptables, hosts, outcome, bounds
    <2> QED
      BY <1>0, <1>a, <2>2, <2>4, <2>5, OnlyTyped
  <1>5. CASE ListPolicies(r)
    <2>1. UNCHANGED <<npm, iptables, hosts, outcome, bounds>> /\ proc[r].step = "list"
      BY <1>5 DEF ListPolicies, At
    <2>2. Only(r) /\ Keeps(r, {"step", "todo"}) /\ proc'[r].step = "policy" /\ proc'[r].todo \in Seq(PolicyEntry)
      BY <1>5, ListPoliciesIs
    <2>3. Shaped(proc'[r])
      BY <1>b, <2>1, <2>2 DEF Shaped, BuildSteps, Keeps, Fields
    <2>4. RestTyped'
      BY <1>0, <2>1 DEF RestTyped, npm, iptables, hosts, outcome, bounds
    <2> QED
      BY <1>0, <1>a, <2>2, <2>3, <2>4, OnlyTyped
  <1>6. CASE RemoveFlagged(r) \/ MarkUnresolved(r) \/ MarkApplied(r)
    <2>1. UNCHANGED <<running, iptables, hosts, outcome, bounds>> /\ proc[r].step \in {"policy", "applied"}
      BY <1>6, Zenon DEF RemoveFlagged, MarkUnresolved, MarkApplied, At
    <2>2. /\ Only(r) /\ Keeps(r, {"step", "todo", "ok"}) /\ proc'[r].step = "policy"
          /\ proc'[r].todo \in Seq(PolicyEntry) /\ file' \in File \cup {Missing}
      BY <1>6, MarkingIs
    <2>3. Shaped(proc'[r])
      BY <1>b, <2>1, <2>2 DEF Shaped, BuildSteps, Keeps, Fields
    <2>4. RestTyped'
      BY <1>0, <2>1, <2>2 DEF RestTyped, iptables, hosts, outcome, bounds
    <2> QED
      BY <1>0, <1>a, <2>2, <2>3, <2>4, OnlyTyped
  <1> QED
    BY <1>1, <1>2, <1>3, <1>4, <1>5, <1>6

LEMMA WritingTyped ==
    ASSUME TypeInv, NEW r \in Procs,
           RunCommand(r) \/ CommandFails(r) \/ InsertUserPolicy(r) \/ InsertFails(r) \/ ChainDone(r)
    PROVE  TypeInv'
  <1>0. TypeOK /\ ProcTyped /\ RestTyped
    BY TypeParts DEF TypeInv
  <1>a. ASSUME RestTyped', ProcTyped' PROVE TypeInv'
    BY <1>a DEF TypeInv, TypeOK, ProcTyped, RestTyped
  <1>b. proc[r].kind \in {"none", "boot", "mode", "hook", "network", "commit", "revert"} /\ Shaped(proc[r])
    BY <1>0, RecordIs
  <1>1. CASE RunCommand(r)
    <2>1. UNCHANGED <<npm, hosts, outcome, bounds>> /\ proc[r].step = "build"
      BY <1>1 DEF RunCommand, At
    <2>2. Only(r) /\ Keeps(r, {"step", "todo"}) /\ proc'[r].todo \in Seq(Commands)
      BY <1>0, <1>1, RunCommandIs
    <2>3. \/ proc'[r].step = "list"
          \/ proc'[r].step = "build" /\ proc'[r].todo # <<>>
      BY <1>0, <1>1, RunCommandIs
    <2>4. Shaped(proc'[r])
      BY <1>b, <2>1, <2>2, <2>3 DEF Shaped, BuildSteps, Keeps, Fields
    <2>5. chains' \in [Chain -> Seq(Rules)] /\ forward' \in BOOLEAN
      BY <1>1, RunCommandChains
    <2>6. RestTyped'
      BY <1>0, <2>1, <2>5 DEF RestTyped, npm, hosts, outcome, bounds
    <2> QED
      BY <1>0, <1>a, <2>2, <2>4, <2>6, OnlyTyped
  <1>2. CASE CommandFails(r)
    <2>1. UNCHANGED <<npm, iptables, hosts, shared, requests, added>> /\ proc' = [proc EXCEPT ![r] = Idle]
          /\ last' \in {"overlapped", "failed"} /\ Trouble
      BY <1>2 DEF CommandFails
    <2>2. RestTyped'
      BY <1>0, <2>1, TroubleType DEF RestTyped, npm, iptables, hosts
    <2> QED
      BY <1>0, <1>a, <2>1, <2>2, StopIs
  <1>3. CASE InsertUserPolicy(r)
    <2>1. UNCHANGED <<npm, forward, hosts, outcome, bounds>> /\ proc[r].step = "policy" /\ proc[r].todo # <<>>
      BY <1>3 DEF InsertUserPolicy, At
    <2>2. Only(r) /\ proc'[r].step = "applied" /\ Keeps(r, {"step"})
      BY <1>0, <1>3, GotoIs DEF InsertUserPolicy, Steps
    <2>3. Shaped(proc'[r])
      BY <1>b, <2>1, <2>2 DEF Shaped, BuildSteps, Keeps, Fields
    <2>4. chains' \in [Chain -> Seq(Rules)]
      BY <1>3, InsertChains
    <2>5. RestTyped'
      BY <1>0, <2>1, <2>4 DEF RestTyped, npm, hosts, outcome, bounds
    <2> QED
      BY <1>0, <1>a, <2>2, <2>3, <2>5, OnlyTyped
  <1>4. CASE InsertFails(r)
    <2>1. UNCHANGED <<npm, iptables, hosts, outcome, requests, added>> /\ proc[r].step = "policy" /\ Trouble
      BY <1>4 DEF InsertFails, At
    <2>2. Only(r) /\ Keeps(r, {"todo", "complete"}) /\ proc'[r].todo \in Seq(PolicyEntry) /\ proc'[r].step = "policy"
      BY <1>0, <1>4, InsertFailsIs
    <2>3. Shaped(proc'[r])
      BY <1>b, <2>1, <2>2 DEF Shaped, BuildSteps, Keeps, Fields
    <2>4. RestTyped'
      BY <1>0, <2>1, TroubleType DEF RestTyped, npm, iptables, hosts, outcome
    <2> QED
      BY <1>0, <1>a, <2>2, <2>3, <2>4, OnlyTyped
  <1>5. CASE ChainDone(r)
    <2>1. UNCHANGED <<npm, iptables, hosts, shared, bounds>> /\ proc[r].step = "policy"
      BY <1>5 DEF ChainDone, At
    <2>2. last' = last \/ last' = Outcome(r)
      BY <1>5 DEF ChainDone
    <2>3. RestTyped'
      BY <1>0, <2>1, <2>2, OutcomeType DEF RestTyped, npm, iptables, hosts, bounds
    <2>4. CASE proc[r].chain < Len(UserChains) /\ proc' = [proc EXCEPT ![r].step = "list", ![r].chain = @ + 1]
      <3>1. Only(r) /\ Keeps(r, {"step", "chain"}) /\ proc'[r].step = "list"
        BY <1>0, <2>4, NextChainIs
      <3>2. Shaped(proc'[r])
        BY <1>b, <2>1, <3>1 DEF Shaped, BuildSteps, Keeps, Fields
      <3> QED
        BY <1>0, <1>a, <2>3, <3>1, <3>2, OnlyTyped
    <2>5. CASE proc[r].kind # "boot" /\ Goto(r, "backup")
      <3>1. Only(r) /\ Keeps(r, {"step"}) /\ proc'[r].step = "backup"
        BY <1>0, <2>5, GotoIs DEF Steps
      <3>2. Shaped(proc'[r])
        BY <1>b, <2>1, <2>5, <3>1 DEF Shaped, BuildSteps, Keeps, Fields
      <3> QED
        BY <1>0, <1>a, <2>3, <3>1, <3>2, OnlyTyped
    <2>6. CASE proc' = [proc EXCEPT ![r] = Idle]
      BY <1>0, <1>a, <2>3, <2>6, StopIs
    <2> QED
      BY <1>5, <2>4, <2>5, <2>6 DEF ChainDone
  <1> QED
    BY <1>1, <1>2, <1>3, <1>4, <1>5

LEMMA CopyingTyped ==
    ASSUME TypeInv, NEW r \in Procs, OpenForBackup(r) \/ Backup(r) \/ RenameAway(r) \/ Restore(r)
    PROVE  TypeInv'
  <1>0. TypeOK /\ ProcTyped /\ RestTyped
    BY TypeParts DEF TypeInv
  <1>a. ASSUME RestTyped', ProcTyped' PROVE TypeInv'
    BY <1>a DEF TypeInv, TypeOK, ProcTyped, RestTyped
  <1>b. proc[r].kind \in {"none", "boot", "mode", "hook", "network", "commit", "revert"} /\ Shaped(proc[r])
        /\ proc[r].snap \in File \cup {Missing}
    BY <1>0, RecordIs
  <1>1. CASE OpenForBackup(r)
    <2>1. UNCHANGED <<npm, iptables, hosts, shared, bounds>> /\ proc[r].step = "backup"
          /\ (last' = last \/ last' = "overlapped")
      BY <1>1 DEF OpenForBackup, At
    <2>2. RestTyped'
      BY <1>0, <2>1 DEF RestTyped, npm, iptables, hosts, bounds
    <2>3. CASE proc' = [proc EXCEPT ![r].step = "copy", ![r].snap = file]
      <3>1. Only(r) /\ Keeps(r, {"step", "snap"}) /\ proc'[r].step = "copy"
        BY <1>0, <2>3, SnapIs
      <3>2. Shaped(proc'[r])
        BY <1>b, <2>1, <3>1 DEF Shaped, BuildSteps, Keeps, Fields
      <3> QED
        BY <1>0, <1>a, <2>2, <3>1, <3>2, OnlyTyped
    <2>4. CASE proc' = [proc EXCEPT ![r] = Idle]
      BY <1>0, <1>a, <2>2, <2>4, StopIs
    <2> QED
      BY <1>1, <2>3, <2>4 DEF OpenForBackup
  <1>2. CASE Backup(r)
    <2>1. UNCHANGED <<file, iptables, hosts, shared, bounds>> /\ running' = proc[r].snap
          /\ proc' = [proc EXCEPT ![r] = Idle] /\ (last' = last \/ last' = Outcome(r))
      BY <1>2 DEF Backup
    <2>2. RestTyped'
      BY <1>0, <1>b, <2>1, OutcomeType DEF RestTyped, iptables, hosts, bounds
    <2> QED
      BY <1>0, <1>a, <2>1, <2>2, StopIs
  <1>3. CASE RenameAway(r)
    <2>1. UNCHANGED <<running, iptables, hosts, outcome, bounds>> /\ file' = Missing /\ proc[r].step = "rename"
      BY <1>3 DEF RenameAway, At
    <2>2. RestTyped'
      BY <1>0, <2>1 DEF RestTyped, iptables, hosts, outcome, bounds
    <2>3. CASE Goto(r, "restore")
      <3>1. Only(r) /\ Keeps(r, {"step"}) /\ proc'[r].step = "restore"
        BY <1>0, <2>3, GotoIs DEF Steps
      <3>2. Shaped(proc'[r])
        BY <1>b, <2>1, <3>1 DEF Shaped, BuildSteps, Keeps, Fields
      <3> QED
        BY <1>0, <1>a, <2>2, <3>1, <3>2, OnlyTyped
    <2>4. CASE proc' = [proc EXCEPT ![r] = Idle]
      BY <1>0, <1>a, <2>2, <2>4, StopIs
    <2> QED
      BY <1>3, <2>3, <2>4 DEF RenameAway
  <1>4. CASE Restore(r)
    <2>1. UNCHANGED <<iptables, hosts, outcome, bounds>> /\ proc[r].step = "restore"
          /\ file' \in {file, running} /\ running' \in {running, Missing}
      BY <1>4 DEF Restore, At, npm
    <2>2. RestTyped'
      BY <1>0, <2>1 DEF RestTyped, iptables, hosts, outcome, bounds
    <2>3. CASE Goto(r, "backup")
      <3>1. Only(r) /\ Keeps(r, {"step"}) /\ proc'[r].step = "backup"
        BY <1>0, <2>3, GotoIs DEF Steps
      <3>2. Shaped(proc'[r])
        BY <1>b, <2>1, <3>1 DEF Shaped, BuildSteps, Keeps, Fields
      <3> QED
        BY <1>0, <1>a, <2>2, <3>1, <3>2, OnlyTyped
    <2>4. CASE proc' = [proc EXCEPT ![r] = Idle]
      BY <1>0, <1>a, <2>2, <2>4, StopIs
    <2> QED
      BY <1>4, <2>3, <2>4 DEF Restore
  <1> QED
    BY <1>1, <1>2, <1>3, <1>4

LEMMA RestartTyped ==
    ASSUME TypeInv, NEW r \in Procs, Restart(r)
    PROVE  TypeInv'
  <1>0. TypeOK /\ ProcTyped /\ RestTyped
    BY TypeParts DEF TypeInv
  <1> DEFINE b == [Idle EXCEPT !.kind = "boot", !.step = "networks"]
  <1>1. b \in Handler /\ b.kind = "boot" /\ b.step = "networks"
    BY IdleIs DEF Handler, Steps
  <1>2. proc' = [q \in Procs |-> IF q = r THEN b ELSE Idle]
    BY DEF Restart
  <1> HIDE DEF b
  <1>3. Shaped(b)
    BY <1>1 DEF Shaped, BuildSteps
  <1>4. proc' \in [Procs -> Handler] /\ \A q \in Procs : Shaped(proc'[q])
    BY <1>1, <1>2, <1>3, IdleIs
  <1>5. ProcTyped'
    BY <1>4 DEF ProcTyped, Shape, Shaped
  <1>6. RestTyped'
    BY <1>0, LoadType, TroubleType DEF Restart, RestTyped, iptables, hosts
  <1> QED
    BY <1>5, <1>6 DEF TypeInv, TypeOK, ProcTyped, RestTyped

LEMMA TypeNext == TypeInv /\ [Next]_vars => TypeInv'
  <1> SUFFICES ASSUME TypeInv, [Next]_vars PROVE TypeInv'
    OBVIOUS
  <1>1. CASE UNCHANGED vars
    BY <1>1 DEF vars, npm, iptables, hosts, outcome, bounds, TypeInv, TypeOK, Shape, Shaped
  <1>2. CASE Done
    BY <1>1, <1>2 DEF Done
  <1>3. ASSUME NEW r \in Procs, Step(r) PROVE TypeInv'
    BY <1>3, ReadingTyped, WritingTyped, CopyingTyped DEF Step
  <1>4. ASSUME NEW r \in Procs, Request(r) \/ Restart(r) PROVE TypeInv'
    BY <1>4, RequestTyped, RestartTyped
  <1>5. CASE \/ \E c \in UserChain : \E hs \in Ends(c) : AddUserPolicy(c, hs)
             \/ \E id \in 1..MaxPolicies : RemoveUserPolicy(id)
    BY <1>5, UserRequestTyped
  <1> QED
    BY <1>1, <1>2, <1>3, <1>4, <1>5 DEF Next

LEMMA PolicyTypes == Spec => []TypeInv
  BY TypeInit, TypeNext, PTL DEF Spec

\* In every reachable state the policy file, its copy, the chains and the
\* requests are well formed: a commit that runs commands has commands in hand
\* and at least one, one that inserts rules has policies in hand, and the
\* bootstrap never gets to the backup.
THEOREM PolicyTypeCorrect == Spec => []TypeOK
  <1>1. TypeInv => TypeOK
    BY DEF TypeInv
  <1> QED
    BY <1>1, PolicyTypes, PTL

-----------------------------------------------------------------------------
\* Adding a rule at the end of a chain, and inserting the rule of a user at its
\* head: what is reached in the chain stays reached.
OnlyOn(s, B) == \A i \in DOMAIN s : s[i].on \in B

LEMMA AddRuleIs ==
    ASSUME NEW s \in Seq(Rules), NEW rule \in Rules
    PROVE  LET t == AddRuleToChain(s, rule)
           IN  /\ t \in Seq(Rules)
               /\ Len(s) \in Nat /\ Len(t) \in Nat /\ Len(s) <= Len(t)
               /\ \A i \in 1..Len(s) : t[i] = s[i]
               /\ \/ t = s /\ \E i \in 1..Len(s) : s[i] = rule
                  \/ Len(t) = Len(s) + 1 /\ t[Len(s) + 1] = rule
  <1> DEFINE t == AddRuleToChain(s, rule)
  <1>1. CASE rule \in ToSet(s)
    <2>1. t = s
      BY <1>1 DEF AddRuleToChain
    <2>2. \E i \in 1..Len(s) : s[i] = rule
      BY <1>1, InToSet
    <2> HIDE DEF t
    <2> QED
      BY <2>1, <2>2 DEF t
  <1>2. CASE rule \notin ToSet(s)
    <2>1. t = Append(s, rule)
      BY <1>2 DEF AddRuleToChain
    <2> HIDE DEF t
    <2>2. /\ t \in Seq(Rules) /\ Len(t) = Len(s) + 1 /\ t[Len(s) + 1] = rule
          /\ \A i \in 1..Len(s) : t[i] = s[i]
      BY <2>1, AppendType
    <2>3. Len(s) \in Nat
      OBVIOUS
    <2> QED
      BY <2>2, <2>3 DEF t
  <1> QED
    BY <1>1, <1>2

LEMMA AddKeepsOnly ==
    ASSUME NEW s \in Seq(Rules), NEW rule \in Rules, NEW B, OnlyOn(s, B), rule.on \in B
    PROVE  OnlyOn(AddRuleToChain(s, rule), B)
  <1> DEFINE t == AddRuleToChain(s, rule)
  <1>1. /\ t \in Seq(Rules) /\ Len(s) \in Nat /\ Len(t) \in Nat
        /\ \A i \in 1..Len(s) : t[i] = s[i]
        /\ \/ t = s
           \/ Len(t) = Len(s) + 1 /\ t[Len(s) + 1] = rule
    BY AddRuleIs
  <1> HIDE DEF t
  <1>2. DOMAIN s = 1..Len(s) /\ DOMAIN t = 1..Len(t)
    BY <1>1
  <1>3. ASSUME NEW i \in 1..Len(t) PROVE t[i].on \in B
    <2>1. CASE i \in 1..Len(s)
      BY <1>1, <1>2, <2>1 DEF OnlyOn
    <2>2. CASE i \notin 1..Len(s)
      <3>1. t # s
        BY <2>2
      <3>2. Len(t) = Len(s) + 1 /\ t[Len(s) + 1] = rule
        BY <1>1, <3>1
      <3>3. Len(s) \in Nat
        BY <1>1
      <3> HIDE DEF t
      <3>4. i = Len(s) + 1
        BY <2>2, <3>2, <3>3
      <3> QED
        BY <3>2, <3>4
    <2> QED
      BY <2>1, <2>2
  <1>4. OnlyOn(t, B)
    BY <1>2, <1>3 DEF OnlyOn
  <1> QED
    BY <1>4 DEF t

LEMMA AddIsReached ==
    ASSUME NEW s \in Seq(Rules), NEW rule \in Rules, NEW B, OnlyOn(s, B)
    PROVE  Reached(AddRuleToChain(s, rule), rule, B)
  <1> DEFINE t == AddRuleToChain(s, rule)
  <1>1. /\ t \in Seq(Rules) /\ Len(s) \in Nat /\ Len(t) \in Nat /\ Len(s) <= Len(t)
        /\ \A i \in 1..Len(s) : t[i] = s[i]
    BY AddRuleIs
  <1>2. \/ t = s /\ \E i \in 1..Len(s) : s[i] = rule
        \/ Len(t) = Len(s) + 1 /\ t[Len(s) + 1] = rule
    BY AddRuleIs
  <1> HIDE DEF t
  <1>3. DOMAIN s = 1..Len(s) /\ DOMAIN t = 1..Len(t)
    BY <1>1
  <1>4. PICK i \in 1..Len(t) : t[i] = rule /\ i - 1 <= Len(s)
    <2>1. CASE t = s /\ \E i \in 1..Len(s) : s[i] = rule
      <3>1. PICK i \in 1..Len(s) : s[i] = rule
        BY <2>1
      <3>2. i - 1 <= Len(s)
        BY <1>1, <3>1
      <3> QED
        BY <2>1, <3>1, <3>2
    <2>2. CASE Len(t) = Len(s) + 1 /\ t[Len(s) + 1] = rule
      <3>1. Len(s) + 1 \in 1..Len(t) /\ (Len(s) + 1) - 1 <= Len(s)
        BY <1>1, <2>2
      <3> QED
        BY <2>2, <3>1
    <2> QED
      BY <1>2, <2>1, <2>2
  <1>5. ASSUME NEW j \in 1..(i - 1) PROVE t[j].on \in B
    <2>1. j \in 1..Len(s)
      BY <1>1, <1>4
    <2> QED
      BY <1>1, <1>3, <2>1 DEF OnlyOn
  <1>6. Reached(t, rule, B)
    BY <1>3, <1>4, <1>5 DEF Reached
  <1> QED
    BY <1>6 DEF t

LEMMA AddKeepsReached ==
    ASSUME NEW s \in Seq(Rules), NEW rule \in Rules, NEW B, NEW x, Reached(s, x, B)
    PROVE  Reached(AddRuleToChain(s, rule), x, B)
  <1> DEFINE t == AddRuleToChain(s, rule)
  <1>1. /\ t \in Seq(Rules) /\ Len(s) \in Nat /\ Len(t) \in Nat /\ Len(s) <= Len(t)
        /\ \A i \in 1..Len(s) : t[i] = s[i]
    BY AddRuleIs
  <1> HIDE DEF t
  <1>2. DOMAIN s = 1..Len(s) /\ DOMAIN t = 1..Len(t)
    BY <1>1
  <1>3. PICK i \in 1..Len(s) : s[i] = x /\ \A j \in 1..(i - 1) : s[j].on \in B
    BY <1>2 DEF Reached
  <1>4. i \in 1..Len(t) /\ t[i] = x
    BY <1>1, <1>3
  <1>5. ASSUME NEW j \in 1..(i - 1) PROVE t[j].on \in B
    <2>1. j \in 1..Len(s)
      BY <1>1
    <2> QED
      BY <1>1, <1>3, <2>1
  <1>6. Reached(t, x, B)
    BY <1>2, <1>4, <1>5 DEF Reached
  <1> QED
    BY <1>6 DEF t

LEMMA AddMembers ==
    ASSUME NEW s \in Seq(Rules), NEW rule \in Rules
    PROVE  ToSet(AddRuleToChain(s, rule)) = ToSet(s) \cup {rule}
  <1> DEFINE t == AddRuleToChain(s, rule)
  <1>1. /\ t \in Seq(Rules) /\ Len(s) \in Nat /\ Len(t) \in Nat /\ Len(s) <= Len(t)
        /\ \A i \in 1..Len(s) : t[i] = s[i]
    BY AddRuleIs
  <1>2. \/ t = s /\ \E i \in 1..Len(s) : s[i] = rule
        \/ Len(t) = Len(s) + 1 /\ t[Len(s) + 1] = rule
    BY AddRuleIs
  <1> HIDE DEF t
  <1>3. ToSet(t) = ToSet(s) \cup {rule}
    <2>1. ASSUME NEW x \in ToSet(t) PROVE x \in ToSet(s) \cup {rule}
      <3>1. PICK i \in 1..Len(t) : t[i] = x
        BY <1>1, InToSet
      <3>2. CASE i \in 1..Len(s)
        BY <1>1, <3>1, <3>2, InToSet
      <3>3. CASE i \notin 1..Len(s)
        <4>1. i = Len(s) + 1 /\ t # s
          BY <1>1, <1>2, <3>3
        <4> QED
          BY <1>2, <3>1, <4>1
      <3> QED
        BY <3>2, <3>3
    <2>2. ASSUME NEW x \in ToSet(s) PROVE x \in ToSet(t)
      <3>1. PICK i \in 1..Len(s) : s[i] = x
        BY InToSet
      <3>2. i \in 1..Len(t) /\ t[i] = x
        BY <1>1, <3>1
      <3> QED
        BY <1>1, <3>2, InToSet
    <2>3. rule \in ToSet(t)
      <3>1. PICK i \in 1..Len(t) : t[i] = rule
        BY <1>1, <1>2
      <3> QED
        BY <1>1, <3>1, InToSet
    <2> QED
      BY <2>1, <2>2, <2>3
  <1> QED
    BY <1>3 DEF t

LEMMA InsertRuleIs ==
    ASSUME NEW s \in Seq(Rules), NEW rule \in Rules
    PROVE  LET t == InsertRuleToChain(s, rule)
           IN  \/ t = s
               \/ /\ t \in Seq(Rules) /\ Len(s) \in Nat /\ Len(t) = Len(s) + 1 /\ t[1] = rule
                  /\ \A i \in 1..Len(s) : t[i + 1] = s[i]
  <1> DEFINE t == InsertRuleToChain(s, rule)
  <1>1. CASE rule \in ToSet(s)
    BY <1>1 DEF InsertRuleToChain
  <1>2. CASE rule \notin ToSet(s)
    <2>1. t = <<rule>> \o s
      BY <1>2 DEF InsertRuleToChain
    <2> HIDE DEF t
    <2> DEFINE u == <<rule>>
    <2>2. u \in Seq(Rules) /\ Len(u) = 1 /\ u[1] = rule
      OBVIOUS
    <2>3. t = u \o s
      BY <2>1
    <2> HIDE DEF u
    <2>4. Len(s) \in Nat
      OBVIOUS
    <2> DEFINE l == Len(s)
               one == 1
    <2>5. Len(s) = l /\ Len(u) = one
      BY <2>2
    <2> HIDE DEF l, one
    <2>6. /\ t \in Seq(Rules) /\ Len(t) = one + l
          /\ \A i \in 1..one : t[i] = u[i]
          /\ \A i \in 1..l : t[one + i] = s[i]
      BY <2>2, <2>3, <2>5, ConcatIs
    <2>7. t \in Seq(Rules) /\ Len(t) = Len(s) + 1 /\ t[1] = rule
      BY <2>2, <2>4, <2>6 DEF l, one
    <2>8. ASSUME NEW i \in 1..Len(s) PROVE t[i + 1] = s[i]
      <3>1. 1 + i = i + 1
        OBVIOUS
      <3> QED
        BY <2>6, <3>1 DEF l, one
    <2> QED
      BY <2>4, <2>7, <2>8 DEF t
  <1> QED
    BY <1>1, <1>2

LEMMA InsertKeepsReached ==
    ASSUME NEW s \in Seq(Rules), NEW rule \in Rules, NEW B, NEW x, Reached(s, x, B), rule.on \in B
    PROVE  Reached(InsertRuleToChain(s, rule), x, B)
  <1> DEFINE t == InsertRuleToChain(s, rule)
  <1>1. CASE t = s
    BY <1>1
  <1>2. CASE /\ t \in Seq(Rules) /\ Len(s) \in Nat /\ Len(t) = Len(s) + 1 /\ t[1] = rule
             /\ \A i \in 1..Len(s) : t[i + 1] = s[i]
    <2> HIDE DEF t
    <2>1. DOMAIN s = 1..Len(s) /\ DOMAIN t = 1..Len(t)
      BY <1>2
    <2>2. PICK i \in 1..Len(s) : s[i] = x /\ \A j \in 1..(i - 1) : s[j].on \in B
      BY <2>1 DEF Reached
    <2>3. i + 1 \in 1..Len(t) /\ t[i + 1] = x
      BY <1>2, <2>2
    <2>4. ASSUME NEW j \in 1..((i + 1) - 1) PROVE t[j].on \in B
      <3>1. CASE j = 1
        BY <1>2, <3>1
      <3>2. CASE j # 1
        <4> DEFINE m == j - 1
        <4>1. m \in 1..Len(s) /\ m \in 1..(i - 1) /\ j = m + 1
          BY <1>2, <3>2
        <4> HIDE DEF m
        <4>2. t[j] = s[m]
          BY <1>2, <4>1
        <4> QED
          BY <2>2, <4>1, <4>2
      <3> QED
        BY <3>1, <3>2
    <2>5. Reached(t, x, B)
      BY <2>1, <2>3, <2>4 DEF Reached
    <2> QED
      BY <2>5 DEF t
  <1> QED
    BY <1>1, <1>2, InsertRuleIs

LEMMA InsertMembers ==
    ASSUME NEW s \in Seq(Rules), NEW rule \in Rules, NEW x, x # rule
    PROVE  x \in ToSet(InsertRuleToChain(s, rule)) <=> x \in ToSet(s)
  <1> DEFINE t == InsertRuleToChain(s, rule)
  <1>1. CASE t = s
    BY <1>1
  <1>2. CASE /\ t \in Seq(Rules) /\ Len(s) \in Nat /\ Len(t) = Len(s) + 1 /\ t[1] = rule
             /\ \A i \in 1..Len(s) : t[i + 1] = s[i]
    <2> HIDE DEF t
    <2>1. ASSUME x \in ToSet(t) PROVE x \in ToSet(s)
      <3>1. PICK i \in 1..Len(t) : t[i] = x
        BY <1>2, <2>1, InToSet
      <3> DEFINE m == i - 1
      <3>2. m \in 1..Len(s) /\ i = m + 1
        BY <1>2, <3>1
      <3> HIDE DEF m
      <3>3. s[m] = x
        BY <1>2, <3>1, <3>2
      <3> QED
        BY <3>2, <3>3, InToSet
    <2>2. ASSUME x \in ToSet(s) PROVE x \in ToSet(t)
      <3>1. PICK i \in 1..Len(s) : s[i] = x
        BY <2>2, InToSet
      <3>2. i + 1 \in 1..Len(t) /\ t[i + 1] = x
        BY <1>2, <3>1
      <3> QED
        BY <1>2, <3>2, InToSet
    <2> QED
      BY <2>1, <2>2 DEF t
  <1> QED
    BY <1>1, <1>2, InsertRuleIs

-----------------------------------------------------------------------------
\* The chains after k commands of a rebuild for the networks nets: the root
\* chain, RAIND-EW, and in enforce mode RAIND-NS-ENF.
RootPart(s, enforce, k) ==
    /\ k \in 1..6 => OnlyOn(s, {"established"})
    /\ k >= 1 => Jump(NS(~enforce)) \notin ToSet(s)
    /\ k >= 7 => Reached(s, Jump("RAIND-EW"), {"established"})
    /\ k >= 8 => Jump(NS(enforce)) \in ToSet(s)

EWPart(s, n, k) ==
    /\ k \in 2..(9 + n) => OnlyOn(s, {"user", "within"})
    /\ k >= 10 + n => Reached(s, DropBridges, {"user", "within"})

EnforcePart(s, nets, n, k) ==
    /\ k \in 4..(11 + 2 * n) => OnlyOn(s, {"user", "outbound"})
    /\ \A i \in 1..n :
          k >= 11 + n + i => Reached(s, Rule("outbound", {nets[i]}, "DROP"), {"user", "outbound"})

Progress(ch, fw, nets, n, enforce, k) ==
    /\ RootPart(ch["RAIND-ROOT"], enforce, k)
    /\ EWPart(ch["RAIND-EW"], n, k)
    /\ enforce => EnforcePart(ch["RAIND-NS-ENF"], nets, n, k)
    /\ k >= 5 => fw

LEMMA RulesDiffer ==
    ASSUME NEW enforce \in BOOLEAN
    PROVE  /\ Jump(NS(~enforce)) # Jump(NS(enforce)) /\ Jump(NS(~enforce)) # Jump("RAIND-EW")
           /\ Jump(NS(~enforce)) # Established /\ Jump(NS(~enforce)) # Return
           /\ Established.on = "established"
  BY DEF Jump, NS, Established, Return, Rule

LEMMA EmptyChain ==
    /\ \A B : OnlyOn(<<>>, B)
    /\ ToSet(<<>>) = {}
  <1>1. DOMAIN <<>> = {}
    OBVIOUS
  <1> QED
    BY <1>1 DEF OnlyOn, ToSet

LEMMA RootStep ==
    ASSUME NEW s \in Seq(Rules), NEW t \in Seq(Rules), NEW enforce \in BOOLEAN, NEW k \in Nat,
           RootPart(s, enforce, k),
           k = 0 => t = <<>>,
           k \in 1..4 => t = s,
           k = 5 => t = AddRuleToChain(s, Established),
           k = 6 => t = AddRuleToChain(s, Jump("RAIND-EW")),
           k = 7 => t = AddRuleToChain(s, Jump(NS(enforce))),
           k = 8 => t = AddRuleToChain(s, Return),
           k >= 9 => t = s
    PROVE  RootPart(t, enforce, k + 1)
  <1>0. Jump("RAIND-EW") \in Rules /\ Jump(NS(enforce)) \in Rules /\ Established \in Rules /\ Return \in Rules
    BY RuleTypes, ChainNames DEF NS
  <1>a. /\ Jump(NS(~enforce)) # Jump(NS(enforce)) /\ Jump(NS(~enforce)) # Jump("RAIND-EW")
        /\ Jump(NS(~enforce)) # Established /\ Jump(NS(~enforce)) # Return
        /\ Established.on = "established"
    BY RulesDiffer
  <1>1. CASE k = 0
    <2>1. OnlyOn(t, {"established"}) /\ Jump(NS(~enforce)) \notin ToSet(t)
      BY <1>1, EmptyChain
    <2> QED
      BY <1>1, <2>1 DEF RootPart
  <1>2. CASE k \in 1..4
    <2>1. k \in 1..6 /\ k + 1 \in 1..6 /\ k >= 1 /\ ~(k + 1 >= 7) /\ ~(k + 1 >= 8)
      BY <1>2
    <2> QED
      BY <1>2, <2>1 DEF RootPart
  <1>3. CASE k = 5
    <2>1. OnlyOn(s, {"established"}) /\ Jump(NS(~enforce)) \notin ToSet(s)
      BY <1>3 DEF RootPart
    <2>2. OnlyOn(t, {"established"})
      BY <1>0, <1>3, <1>a, <2>1, AddKeepsOnly
    <2>3. Jump(NS(~enforce)) \notin ToSet(t)
      BY <1>0, <1>3, <1>a, <2>1, AddMembers
    <2> QED
      BY <1>3, <2>2, <2>3 DEF RootPart
  <1>4. CASE k = 6
    <2>1. OnlyOn(s, {"established"}) /\ Jump(NS(~enforce)) \notin ToSet(s)
      BY <1>4 DEF RootPart
    <2>2. Reached(t, Jump("RAIND-EW"), {"established"})
      BY <1>0, <1>4, <2>1, AddIsReached
    <2>3. Jump(NS(~enforce)) \notin ToSet(t)
      BY <1>0, <1>4, <1>a, <2>1, AddMembers
    <2> QED
      BY <1>4, <2>2, <2>3 DEF RootPart
  <1>5. CASE k = 7
    <2>1. Reached(s, Jump("RAIND-EW"), {"established"}) /\ Jump(NS(~enforce)) \notin ToSet(s)
      BY <1>5 DEF RootPart
    <2>2. Reached(t, Jump("RAIND-EW"), {"established"})
      BY <1>0, <1>5, <2>1, AddKeepsReached
    <2>3. Jump(NS(~enforce)) \notin ToSet(t) /\ Jump(NS(enforce)) \in ToSet(t)
      BY <1>0, <1>5, <1>a, <2>1, AddMembers
    <2> QED
      BY <1>5, <2>2, <2>3 DEF RootPart
  <1>6. CASE k = 8
    <2>1. /\ Reached(s, Jump("RAIND-EW"), {"established"})
          /\ Jump(NS(~enforce)) \notin ToSet(s) /\ Jump(NS(enforce)) \in ToSet(s)
      BY <1>6 DEF RootPart
    <2>2. Reached(t, Jump("RAIND-EW"), {"established"})
      BY <1>0, <1>6, <2>1, AddKeepsReached
    <2>3. Jump(NS(~enforce)) \notin ToSet(t) /\ Jump(NS(enforce)) \in ToSet(t)
      BY <1>0, <1>6, <1>a, <2>1, AddMembers
    <2> QED
      BY <1>6, <2>2, <2>3 DEF RootPart
  <1>7. CASE k >= 9
    <2>1. k >= 1 /\ k >= 7 /\ k >= 8 /\ k + 1 \notin 1..6
      BY <1>7
    <2> QED
      BY <1>7, <2>1 DEF RootPart
  <1>8. k = 0 \/ k \in 1..4 \/ k = 5 \/ k = 6 \/ k = 7 \/ k = 8 \/ k >= 9
    OBVIOUS
  <1> QED
    BY <1>1, <1>2, <1>3, <1>4, <1>5, <1>6, <1>7, <1>8

LEMMA EWStep ==
    ASSUME NEW s \in Seq(Rules), NEW t \in Seq(Rules), NEW nets \in Seq(Networks), NEW n \in Nat, n = Len(nets),
           NEW k \in Nat, EWPart(s, n, k),
           k = 0 => t = s,
           k = 1 => t = <<>>,
           k \in 2..8 => t = s,
           k \in 9..(8 + n) => t = AddRuleToChain(s, Rule("within", {nets[k - 8]}, "DROP")),
           k = 9 + n => t = AddRuleToChain(s, DropBridges),
           k = 10 + n => t = AddRuleToChain(s, Return),
           k >= 11 + n => t = s
    PROVE  EWPart(t, n, k + 1)
  <1> DEFINE B == {"user", "within"}
  <1>0. DropBridges \in Rules /\ Return \in Rules
    BY RuleTypes
  <1>1. CASE k = 0
    <2>1. k + 1 \notin 2..(9 + n) /\ ~(k + 1 >= 10 + n)
      BY <1>1
    <2> QED
      BY <2>1 DEF EWPart
  <1>2. CASE k = 1
    <2>1. OnlyOn(t, B) /\ ~(k + 1 >= 10 + n)
      BY <1>2, EmptyChain
    <2> QED
      BY <2>1 DEF EWPart
  <1>3. CASE k \in 2..8
    <2>1. k \in 2..(9 + n) /\ ~(k + 1 >= 10 + n)
      BY <1>3
    <2> QED
      BY <1>3, <2>1 DEF EWPart
  <1>4. CASE k \in 9..(8 + n)
    <2> DEFINE i == k - 8
               rule == Rule("within", {nets[i]}, "DROP")
    <2>1. i \in 1..n /\ k \in 2..(9 + n) /\ ~(k + 1 >= 10 + n)
      BY <1>4
    <2> HIDE DEF i
    <2>2. rule \in Rules /\ rule.on = "within"
      <3>1. nets[i] \in Networks
        BY <2>1
      <3> QED
        BY <3>1, RuleTypes DEF Rule
    <2>3. OnlyOn(s, B) /\ t = AddRuleToChain(s, rule)
      BY <1>4, <2>1 DEF EWPart, i
    <2> HIDE DEF rule
    <2>4. OnlyOn(t, B)
      BY <2>2, <2>3, AddKeepsOnly
    <2> QED
      BY <2>1, <2>4 DEF EWPart
  <1>5. CASE k = 9 + n
    <2>1. k \in 2..(9 + n) /\ k + 1 \notin 2..(9 + n)
      BY <1>5
    <2>2. OnlyOn(s, B) /\ t = AddRuleToChain(s, DropBridges)
      BY <1>5, <2>1 DEF EWPart
    <2>3. Reached(t, DropBridges, B)
      BY <1>0, <2>2, AddIsReached
    <2> QED
      BY <2>1, <2>3 DEF EWPart
  <1>6. CASE k = 10 + n
    <2>1. k + 1 \notin 2..(9 + n) /\ k >= 10 + n
      BY <1>6
    <2>2. Reached(s, DropBridges, B) /\ t = AddRuleToChain(s, Return)
      BY <1>6, <2>1 DEF EWPart
    <2>3. Reached(t, DropBridges, B)
      BY <1>0, <2>2, AddKeepsReached
    <2> QED
      BY <2>1, <2>3 DEF EWPart
  <1>7. CASE k >= 11 + n
    <2>1. k + 1 \notin 2..(9 + n) /\ k >= 10 + n
      BY <1>7
    <2> QED
      BY <1>7, <2>1 DEF EWPart
  <1>8. k = 0 \/ k = 1 \/ k \in 2..8 \/ k \in 9..(8 + n) \/ k = 9 + n \/ k = 10 + n \/ k >= 11 + n
    OBVIOUS
  <1> QED
    BY <1>1, <1>2, <1>3, <1>4, <1>5, <1>6, <1>7, <1>8

\* The numbers of the commands of the enforce chain.
LEMMA EnforceNumbers ==
    ASSUME NEW n \in Nat, NEW k \in Nat
    PROVE  /\ \A i \in 1..n : k + 1 >= 11 + n + i => (i = k - 10 - n \/ k >= 11 + n + i)
           /\ \/ k \in 0..2 \/ k = 3 \/ k \in 4..(10 + n) \/ k \in (11 + n)..(10 + 2 * n)
              \/ k = 11 + 2 * n \/ k >= 12 + 2 * n
  <1>1. ASSUME NEW i \in 1..n, k + 1 >= 11 + n + i PROVE i = k - 10 - n \/ k >= 11 + n + i
    BY <1>1
  <1>2. \/ k \in 0..2 \/ k = 3 \/ k \in 4..(10 + n) \/ k \in (11 + n)..(10 + 2 * n)
        \/ k = 11 + 2 * n \/ k >= 12 + 2 * n
    OBVIOUS
  <1> QED
    BY <1>1, <1>2

LEMMA EnforceStep ==
    ASSUME NEW s \in Seq(Rules), NEW t \in Seq(Rules), NEW nets \in Seq(Networks), NEW n \in Nat, n = Len(nets),
           NEW k \in Nat, EnforcePart(s, nets, n, k),
           k \in 0..2 => t = s,
           k = 3 => t = <<>>,
           k \in 4..(10 + n) => t = s,
           k \in (11 + n)..(10 + 2 * n) => t = AddRuleToChain(s, Rule("outbound", {nets[k - 10 - n]}, "DROP")),
           k = 11 + 2 * n => t = AddRuleToChain(s, Return),
           k >= 12 + 2 * n => t = s
    PROVE  EnforcePart(t, nets, n, k + 1)
  <1> DEFINE B == {"user", "outbound"}
             rule(i) == Rule("outbound", {nets[i]}, "DROP")
  <1>0. Return \in Rules
    BY RuleTypes
  <1>a. \A i \in 1..n : rule(i) \in Rules /\ rule(i).on = "outbound"
    <2>1. ASSUME NEW i \in 1..n PROVE rule(i) \in Rules /\ rule(i).on = "outbound"
      <3>1. nets[i] \in Networks
        OBVIOUS
      <3> QED
        BY <3>1, RuleTypes DEF Rule
    <2> QED
      BY <2>1
  <1>b. /\ k \in 4..(11 + 2 * n) => OnlyOn(s, B)
        /\ \A i \in 1..n : k >= 11 + n + i => Reached(s, rule(i), B)
    BY DEF EnforcePart
  <1>c. ASSUME k + 1 \in 4..(11 + 2 * n) => OnlyOn(t, B),
               \A i \in 1..n : k + 1 >= 11 + n + i => Reached(t, rule(i), B)
        PROVE  EnforcePart(t, nets, n, k + 1)
    BY <1>c DEF EnforcePart
  <1> HIDE DEF rule, B
  <1>1. CASE k \in 0..2
    <2>1. k + 1 \notin 4..(11 + 2 * n) /\ \A i \in 1..n : ~(k + 1 >= 11 + n + i)
      BY <1>1
    <2> QED
      BY <1>c, <2>1
  <1>2. CASE k = 3
    <2>1. OnlyOn(t, B) /\ \A i \in 1..n : ~(k + 1 >= 11 + n + i)
      BY <1>2, EmptyChain
    <2> QED
      BY <1>c, <2>1
  <1>3. CASE k \in 4..(10 + n)
    <2>1. k \in 4..(11 + 2 * n) /\ \A i \in 1..n : ~(k + 1 >= 11 + n + i)
      BY <1>3
    <2> QED
      BY <1>3, <1>b, <1>c, <2>1
  <1>4. CASE k \in (11 + n)..(10 + 2 * n)
    <2> DEFINE m == k - 10 - n
    <2>1. m \in 1..n /\ k \in 4..(11 + 2 * n)
      BY <1>4
    <2>2. \A i \in 1..n : k + 1 >= 11 + n + i => (i = m \/ k >= 11 + n + i)
      BY EnforceNumbers
    <2>3. t = AddRuleToChain(s, rule(m))
      BY <1>4 DEF rule
    <2> HIDE DEF m
    <2>4. OnlyOn(s, B) /\ rule(m) \in Rules /\ rule(m).on \in B
      BY <1>a, <1>b, <2>1 DEF B
    <2>5. OnlyOn(t, B) /\ Reached(t, rule(m), B)
      BY <2>3, <2>4, AddKeepsOnly, AddIsReached
    <2>6. ASSUME NEW i \in 1..n, k + 1 >= 11 + n + i PROVE Reached(t, rule(i), B)
      <3>1. CASE i = m
        BY <2>5, <3>1
      <3>2. CASE i # m
        <4>1. Reached(s, rule(i), B)
          BY <1>b, <2>2, <2>6, <3>2
        <4> QED
          BY <2>3, <2>4, <4>1, AddKeepsReached
      <3> QED
        BY <3>1, <3>2
    <2> QED
      BY <1>c, <2>5, <2>6
  <1>5. CASE k = 11 + 2 * n
    <2>1. k + 1 \notin 4..(11 + 2 * n) /\ \A i \in 1..n : k >= 11 + n + i
      BY <1>5
    <2>2. t = AddRuleToChain(s, Return)
      BY <1>5
    <2>3. \A i \in 1..n : Reached(t, rule(i), B)
      BY <1>0, <1>b, <2>1, <2>2, AddKeepsReached
    <2> QED
      BY <1>c, <2>1, <2>3
  <1>6. CASE k >= 12 + 2 * n
    <2>1. k + 1 \notin 4..(11 + 2 * n) /\ \A i \in 1..n : k >= 11 + n + i
      BY <1>6
    <2> QED
      BY <1>6, <1>b, <1>c, <2>1
  <1>7. k \in 0..2 \/ k = 3 \/ k \in 4..(10 + n) \/ k \in (11 + n)..(10 + 2 * n) \/ k = 11 + 2 * n \/ k >= 12 + 2 * n
    BY EnforceNumbers
  <1> QED
    BY <1>1, <1>2, <1>3, <1>4, <1>5, <1>6, <1>7

\* The command after the first k, and what it leaves alone.
Adds(cmd, c, rule) == cmd.op = "add" /\ cmd.chain = c /\ cmd.rule = rule
Flushes(cmd, c) == cmd.op = "flush" /\ cmd.chain = c

LEMMA CommandFields ==
    /\ \A c : Flushes(Flush(c), c)
    /\ \A c, rule : Adds(Add(c, rule), c, rule)
    /\ Forward.op = "forward" /\ Forward.chain = "RAIND-ROOT"
  BY DEF Flushes, Flush, Adds, Add, Forward

CommandFacts(cmd, k, nets, n, enforce) ==
    /\ k = 0 => Flushes(cmd, "RAIND-ROOT")
    /\ k = 1 => Flushes(cmd, "RAIND-EW")
    /\ k = 2 => Flushes(cmd, "RAIND-NS-OBS")
    /\ k = 3 => Flushes(cmd, "RAIND-NS-ENF")
    /\ k = 4 => cmd.op = "forward" /\ cmd.chain = "RAIND-ROOT"
    /\ k = 5 => Adds(cmd, "RAIND-ROOT", Established)
    /\ k = 6 => Adds(cmd, "RAIND-ROOT", Jump("RAIND-EW"))
    /\ k = 7 => Adds(cmd, "RAIND-ROOT", Jump(NS(enforce)))
    /\ k = 8 => Adds(cmd, "RAIND-ROOT", Return)
    /\ k \in 9..(8 + n) => Adds(cmd, "RAIND-EW", Rule("within", {nets[k - 8]}, "DROP"))
    /\ k = 9 + n => Adds(cmd, "RAIND-EW", DropBridges)
    /\ k = 10 + n => Adds(cmd, "RAIND-EW", Return)
    /\ k \in (11 + n)..(10 + 2 * n) =>
          Adds(cmd, NS(enforce), Rule("outbound", {nets[k - 10 - n]}, Verdict(enforce)))
    /\ k = 11 + 2 * n => Adds(cmd, NS(enforce), Return)

LEMMA CommandAt ==
    ASSUME NEW nets \in Seq(Networks), NEW n \in Nat, n = Len(nets), NEW enforce \in BOOLEAN,
           NEW k \in 0..(11 + 2 * n), NEW cmd, cmd = BuildPredefinedPolicy(nets, enforce)[k + 1]
    PROVE  CommandFacts(cmd, k, nets, n, enforce)
  <1> DEFINE p == BuildPredefinedPolicy(nets, enforce)
  <1>1. /\ p[1] = Flush("RAIND-ROOT") /\ p[2] = Flush("RAIND-EW")
        /\ p[3] = Flush("RAIND-NS-OBS") /\ p[4] = Flush("RAIND-NS-ENF")
        /\ p[5] = Forward
        /\ p[6] = Add("RAIND-ROOT", Established) /\ p[7] = Add("RAIND-ROOT", Jump("RAIND-EW"))
        /\ p[8] = Add("RAIND-ROOT", Jump(NS(enforce))) /\ p[9] = Add("RAIND-ROOT", Return)
    BY PlanIs
  <1>2. /\ \A i \in 1..n : p[9 + i] = Add("RAIND-EW", Rule("within", {nets[i]}, "DROP"))
        /\ p[10 + n] = Add("RAIND-EW", DropBridges) /\ p[11 + n] = Add("RAIND-EW", Return)
    BY PlanIs
  <1>3. /\ \A i \in 1..n : p[11 + n + i] = Add(NS(enforce), Rule("outbound", {nets[i]}, Verdict(enforce)))
        /\ p[12 + 2 * n] = Add(NS(enforce), Return)
    BY PlanIs
  <1>4. cmd = p[k + 1]
    OBVIOUS
  <1> HIDE DEF p
  <1>5. /\ k = 0 => cmd = Flush("RAIND-ROOT")
        /\ k = 1 => cmd = Flush("RAIND-EW")
        /\ k = 2 => cmd = Flush("RAIND-NS-OBS")
        /\ k = 3 => cmd = Flush("RAIND-NS-ENF")
        /\ k = 4 => cmd = Forward
    BY <1>1, <1>4
  <1>6. /\ k = 5 => cmd = Add("RAIND-ROOT", Established)
        /\ k = 6 => cmd = Add("RAIND-ROOT", Jump("RAIND-EW"))
        /\ k = 7 => cmd = Add("RAIND-ROOT", Jump(NS(enforce)))
        /\ k = 8 => cmd = Add("RAIND-ROOT", Return)
    BY <1>1, <1>4
  <1>7. ASSUME k \in 9..(8 + n) PROVE cmd = Add("RAIND-EW", Rule("within", {nets[k - 8]}, "DROP"))
    <2> DEFINE i == k - 8
    <2>1. i \in 1..n /\ k + 1 = 9 + i
      BY <1>7
    <2> HIDE DEF i
    <2>2. cmd = Add("RAIND-EW", Rule("within", {nets[i]}, "DROP"))
      BY <1>2, <1>4, <2>1
    <2> QED
      BY <2>2 DEF i
  <1>8. ASSUME k \in (11 + n)..(10 + 2 * n)
        PROVE  cmd = Add(NS(enforce), Rule("outbound", {nets[k - 10 - n]}, Verdict(enforce)))
    <2> DEFINE i == k - 10 - n
    <2>1. i \in 1..n /\ k + 1 = 11 + n + i
      BY <1>8
    <2> HIDE DEF i
    <2>2. cmd = Add(NS(enforce), Rule("outbound", {nets[i]}, Verdict(enforce)))
      BY <1>3, <1>4, <2>1
    <2> QED
      BY <2>2 DEF i
  <1>9. /\ k = 9 + n => cmd = Add("RAIND-EW", DropBridges)
        /\ k = 10 + n => cmd = Add("RAIND-EW", Return)
        /\ k = 11 + 2 * n => cmd = Add(NS(enforce), Return)
    <2>1. /\ k = 9 + n => k + 1 = 10 + n
          /\ k = 10 + n => k + 1 = 11 + n
          /\ k = 11 + 2 * n => k + 1 = 12 + 2 * n
      OBVIOUS
    <2> QED
      BY <1>2, <1>3, <1>4, <2>1
  <1> QED
    BY <1>5, <1>6, <1>7, <1>8, <1>9, CommandFields DEF CommandFacts

Obeys(ch, fw, cmd, ch2, fw2) ==
    /\ \A d \in Chain : d # cmd.chain => ch2[d] = ch[d]
    /\ cmd.op = "flush" => ch2[cmd.chain] = <<>>
    /\ cmd.op = "add" => ch2[cmd.chain] = AddRuleToChain(ch[cmd.chain], cmd.rule)
    /\ cmd.op = "forward" => ch2[cmd.chain] = ch[cmd.chain]
    /\ fw2 = (fw \/ cmd.op = "forward")

LEMMA ProgressStep ==
    ASSUME NEW nets \in Seq(Networks), NEW n \in Nat, n = Len(nets), NEW enforce \in BOOLEAN,
           NEW k \in 0..(11 + 2 * n), NEW cmd, cmd = BuildPredefinedPolicy(nets, enforce)[k + 1],
           NEW ch \in [Chain -> Seq(Rules)], NEW ch2 \in [Chain -> Seq(Rules)],
           NEW fw \in BOOLEAN, NEW fw2 \in BOOLEAN,
           Obeys(ch, fw, cmd, ch2, fw2), Progress(ch, fw, nets, n, enforce, k)
    PROVE  Progress(ch2, fw2, nets, n, enforce, k + 1)
  <1> DEFINE Ro == "RAIND-ROOT"
             Ew == "RAIND-EW"
             En == "RAIND-NS-ENF"
             Ob == "RAIND-NS-OBS"
  <1>0. Ro \in Chain /\ Ew \in Chain /\ En \in Chain /\ Ob \in Chain
    BY ChainNames
  <1>z. CommandFacts(cmd, k, nets, n, enforce)
    BY CommandAt
  <1>a. /\ \A d \in Chain : cmd.chain # d => ch2[d] = ch[d]
        /\ \A c, rule : Adds(cmd, c, rule) => ch2[c] = AddRuleToChain(ch[c], rule)
        /\ \A c : Flushes(cmd, c) => ch2[c] = <<>>
        /\ fw2 = (fw \/ cmd.op = "forward")
    BY DEF Obeys, Adds, Flushes
  <1>b. k = 4 => cmd.op = "forward" /\ cmd.chain = Ro /\ ch2[Ro] = ch[Ro]
    BY <1>z DEF Obeys, CommandFacts
  <1>c. k \in Nat /\ n \in Nat
    OBVIOUS
  <1>d. RootPart(ch[Ro], enforce, k) /\ EWPart(ch[Ew], n, k) /\ (enforce => EnforcePart(ch[En], nets, n, k)) /\ (k >= 5 => fw)
    BY DEF Progress
  <1>e. \A d \in Chain : ch[d] \in Seq(Rules) /\ ch2[d] \in Seq(Rules)
    OBVIOUS
  <1>f. /\ k = 0 => Flushes(cmd, Ro)
        /\ k = 1 => Flushes(cmd, Ew)
        /\ k = 2 => Flushes(cmd, Ob)
        /\ k = 3 => Flushes(cmd, En)
        /\ k = 5 => Adds(cmd, Ro, Established)
        /\ k = 6 => Adds(cmd, Ro, Jump("RAIND-EW"))
        /\ k = 7 => Adds(cmd, Ro, Jump(NS(enforce)))
        /\ k = 8 => Adds(cmd, Ro, Return)
    BY <1>z DEF CommandFacts
  <1>g. /\ k \in 9..(8 + n) => Adds(cmd, Ew, Rule("within", {nets[k - 8]}, "DROP"))
        /\ k = 9 + n => Adds(cmd, Ew, DropBridges)
        /\ k = 10 + n => Adds(cmd, Ew, Return)
    BY <1>z DEF CommandFacts
  <1>h. /\ k \in (11 + n)..(10 + 2 * n) =>
              Adds(cmd, NS(enforce), Rule("outbound", {nets[k - 10 - n]}, Verdict(enforce)))
        /\ k = 11 + 2 * n => Adds(cmd, NS(enforce), Return)
    BY <1>z DEF CommandFacts
  <1>i. /\ k = 0 \/ k \in 4..8 => cmd.chain = Ro
        /\ k = 1 \/ k \in 9..(10 + n) => cmd.chain = Ew
        /\ k = 2 => cmd.chain = Ob
        /\ k = 3 => cmd.chain = En
        /\ k >= 11 + n => cmd.chain = NS(enforce)
    <2>1. k = 0 \/ k \in 4..8 => cmd.chain = Ro
      BY <1>b, <1>f DEF Adds, Flushes
    <2>2. k = 1 \/ k \in 9..(10 + n) => cmd.chain = Ew
      <3>1. k \in 9..(10 + n) => k \in 9..(8 + n) \/ k = 9 + n \/ k = 10 + n
        BY <1>c
      <3> QED
        BY <1>f, <1>g, <3>1 DEF Adds, Flushes
    <2>3. k >= 11 + n => cmd.chain = NS(enforce)
      <3> DEFINE u == 11 + 2 * n
      <3>a. k <= u /\ u \in Int /\ 10 + 2 * n = u - 1
        OBVIOUS
      <3> HIDE DEF u
      <3>b. k >= 11 + n => k \in (11 + n)..(u - 1) \/ k = u
        BY <1>c, <3>a
      <3>1. k >= 11 + n => k \in (11 + n)..(10 + 2 * n) \/ k = 11 + 2 * n
        BY <3>a, <3>b DEF u
      <3> QED
        BY <1>h, <3>1 DEF Adds
    <2> QED
      BY <1>f, <2>1, <2>2, <2>3 DEF Flushes
  <1>1. RootPart(ch2[Ro], enforce, k + 1)
    <2>1. k \in 1..3 => ch2[Ro] = ch[Ro]
      <3>1. k \in 1..3 => k = 1 \/ k = 2 \/ k = 3
        BY <1>c
      <3> QED
        BY <1>0, <1>a, <1>i, <3>1
    <2>2. k \in 1..4 => ch2[Ro] = ch[Ro]
      <3>1. k \in 1..4 => k \in 1..3 \/ k = 4
        BY <1>c
      <3> QED
        BY <1>b, <2>1, <3>1
    <2>3. k >= 9 => ch2[Ro] = ch[Ro]
      <3>1. k >= 9 => k \in 9..(10 + n) \/ k >= 11 + n
        BY <1>c
      <3>2. NS(enforce) # Ro
        BY DEF NS
      <3>3. k >= 9 => cmd.chain # Ro
        BY <1>i, <3>1, <3>2
      <3> QED
        BY <1>0, <1>a, <3>3
    <2>4. /\ k = 0 => ch2[Ro] = <<>>
          /\ k = 5 => ch2[Ro] = AddRuleToChain(ch[Ro], Established)
          /\ k = 6 => ch2[Ro] = AddRuleToChain(ch[Ro], Jump("RAIND-EW"))
          /\ k = 7 => ch2[Ro] = AddRuleToChain(ch[Ro], Jump(NS(enforce)))
          /\ k = 8 => ch2[Ro] = AddRuleToChain(ch[Ro], Return)
      BY <1>a, <1>f
    <2> QED
      BY <1>0, <1>c, <1>d, <1>e, <2>2, <2>3, <2>4, RootStep
  <1>2. EWPart(ch2[Ew], n, k + 1)
    <2>1. k = 0 => ch2[Ew] = ch[Ew]
      BY <1>0, <1>a, <1>i
    <2>2. k \in 2..8 => ch2[Ew] = ch[Ew]
      <3>1. k \in 2..8 => k = 2 \/ k = 3 \/ k \in 4..8
        BY <1>c
      <3> QED
        BY <1>0, <1>a, <1>i, <3>1
    <2>3. k >= 11 + n => ch2[Ew] = ch[Ew]
      <3>1. NS(enforce) # Ew
        BY DEF NS
      <3> QED
        BY <1>0, <1>a, <1>i, <3>1
    <2>4. /\ k = 1 => ch2[Ew] = <<>>
          /\ k \in 9..(8 + n) => ch2[Ew] = AddRuleToChain(ch[Ew], Rule("within", {nets[k - 8]}, "DROP"))
          /\ k = 9 + n => ch2[Ew] = AddRuleToChain(ch[Ew], DropBridges)
          /\ k = 10 + n => ch2[Ew] = AddRuleToChain(ch[Ew], Return)
      BY <1>a, <1>f, <1>g
    <2> QED
      BY <1>0, <1>c, <1>d, <1>e, <2>1, <2>2, <2>3, <2>4, EWStep
  <1>3. ASSUME enforce PROVE EnforcePart(ch2[En], nets, n, k + 1)
    <2>0. NS(enforce) = En /\ Verdict(enforce) = "DROP"
      BY <1>3 DEF NS, Verdict
    <2>1. k \in 0..2 => ch2[En] = ch[En]
      <3>1. k \in 0..2 => k = 0 \/ k = 1 \/ k = 2
        BY <1>c
      <3> QED
        BY <1>0, <1>a, <1>i, <3>1
    <2>2. k \in 4..(10 + n) => ch2[En] = ch[En]
      <3>1. k \in 4..(10 + n) => k \in 4..8 \/ k \in 9..(10 + n)
        BY <1>c
      <3> QED
        BY <1>0, <1>a, <1>i, <3>1
    <2>3. k < 12 + 2 * n
      BY <1>c
    <2>4. /\ k = 3 => ch2[En] = <<>>
          /\ k \in (11 + n)..(10 + 2 * n) => ch2[En] = AddRuleToChain(ch[En], Rule("outbound", {nets[k - 10 - n]}, "DROP"))
          /\ k = 11 + 2 * n => ch2[En] = AddRuleToChain(ch[En], Return)
      BY <1>a, <1>f, <1>h, <2>0
    <2>5. ~(k >= 12 + 2 * n)
      BY <1>c, <2>3
    <2> QED
      BY <1>0, <1>3, <1>c, <1>d, <1>e, <2>1, <2>2, <2>4, <2>5, EnforceStep
  <1>4. k + 1 >= 5 => fw2
    <2>1. k + 1 >= 5 => k = 4 \/ k >= 5
      BY <1>c
    <2> QED
      BY <1>a, <1>b, <1>d, <2>1
  <1> QED
    BY <1>1, <1>2, <1>3, <1>4 DEF Progress

-----------------------------------------------------------------------------
\* Outbound traffic as the mode has it.
Egress(ch, nets, mode) ==
    /\ \A c \in UserChain \ {"RAIND-EW"} :
          Jump(c) \in ToSet(ch["RAIND-ROOT"]) <=> c = NS(mode = "enforce")
    /\ \A x \in ToSet(nets) :
          mode = "enforce" =>
              Reached(ch["RAIND-NS-ENF"], Rule("outbound", {x}, "DROP"), {"user", "outbound"})

\* The last rebuild, if it is to be relied on, fits the policy x.
Settled(x) ==
    last \in {"boot", "commit"} =>
        /\ Denied
        /\ x # Missing => Egress(chains, networks, x.Mode)
        /\ x # Missing /\ last = "commit" => x.Mode \in Modes

\* A rebuild starts from a mode that is not pending; the bootstrap from the
\* mode of the copy, whichever it is.
Ready(r) ==
    IF proc[r].kind = "boot" THEN running # Missing /\ running.Mode = loadOrInit.Mode
    ELSE loadOrInit.Mode \in Modes

Rebuilt(mode) == Denied /\ Egress(chains, networks, mode)

\* The commands still to do are the last ones of the plan.
Building(r) ==
    LET t == proc[r].todo
        n == Len(networks)
        k == (12 + 2 * n) - Len(t)
    IN  /\ Len(t) \in 1..(12 + 2 * n)
        /\ \A i \in 1..Len(t) : t[i] = BuildPredefinedPolicy(networks, IsNsEnforce)[k + i]
        /\ Progress(chains, forward, networks, n, IsNsEnforce, k)

\* What a request that no other has overlapped can rely on, by its step.
Sound(r) ==
    LET q == proc[r] IN
    /\ q.step \in {"set mode", "rename", "restore"} => Settled(running)
    /\ q.step \in BuildSteps => Ready(r)
    /\ q.step = "enforce" => q.nets = networks
    /\ q.step = "build" => Building(r)
    /\ q.step \in {"list", "policy", "applied"} => Rebuilt(loadOrInit.Mode)
    /\ q.step = "backup" /\ q.kind # "revert" => loadOrInit.Mode \in Modes /\ Rebuilt(loadOrInit.Mode)
    /\ q.step = "copy" /\ q.kind # "revert" => q.snap.Mode \in Modes /\ Rebuilt(q.snap.Mode)
    /\ q.step = "backup" /\ q.kind = "revert" => file # Missing /\ Settled(file)
    /\ q.step = "copy" /\ q.kind = "revert" => Settled(q.snap)

\* A request that has overlapped no other is the only one, and one that has
\* leaves its mark on the outcome.
PolicyInv ==
    /\ \A r \in Busy : r \notin shared => Busy = {r}
    /\ Busy \cap shared # {} => last = "overlapped"
    /\ Busy = {} => Settled(running)
    /\ \A r \in Busy : r \notin shared => Sound(r)

LEMMA BusyIs ==
    ASSUME NEW r \in Procs, proc[r].step # "idle", Only(r)
    PROVE  /\ r \in Busy /\ Busy' \subseteq Busy
           /\ proc'[r].step # "idle" => Busy' = Busy
           /\ proc'[r].step = "idle" => Busy' = Busy \ {r}
  BY DEF Busy, Only

LEMMA SharedStep ==
    ASSUME PolicyInv, NEW r \in Procs, proc[r].step # "idle", Only(r), r \in shared,
           shared' = shared, last' = last \/ last' = "overlapped"
    PROVE  PolicyInv'
  <1>1. r \in Busy /\ Busy' \subseteq Busy
    BY BusyIs
  <1>2. Busy \subseteq shared
    BY <1>1 DEF PolicyInv
  <1>3. Busy' \subseteq shared' /\ last' = "overlapped"
    BY <1>1, <1>2 DEF PolicyInv
  <1>4. \A q \in Busy' : q \in shared'
    BY <1>3
  <1> QED
    BY <1>3, <1>4 DEF PolicyInv, Settled

LEMMA SoloStep ==
    ASSUME PolicyInv, NEW r \in Procs, proc[r].step # "idle", Only(r), r \notin shared, shared' = shared,
           proc'[r].step # "idle" => Sound(r)',
           proc'[r].step = "idle" => Settled(running)'
    PROVE  PolicyInv'
  <1>1. r \in Busy
    BY BusyIs
  <1>2. Busy = {r}
    BY <1>1 DEF PolicyInv
  <1>3. CASE proc'[r].step = "idle"
    <2>1. Busy' = {}
      BY <1>2, <1>3, BusyIs
    <2> QED
      BY <1>3, <2>1 DEF PolicyInv
  <1>4. CASE proc'[r].step # "idle"
    <2>1. Busy' = {r}
      BY <1>2, <1>4, BusyIs
    <2> QED
      BY <1>4, <2>1 DEF PolicyInv
  <1> QED
    BY <1>3, <1>4

LEMMA SoundNow ==
    ASSUME PolicyInv, NEW r \in Procs, proc[r].step # "idle", r \notin shared
    PROVE  Sound(r)
  BY DEF PolicyInv, Busy

\* Nothing but the file and the records of requests changes.
LEMMA SettledStays ==
    ASSUME UNCHANGED <<iptables, networks, last>>, NEW x, NEW y, Settled(x), y = x
    PROVE  /\ Denied' = Denied
           /\ last' \in {"boot", "commit"} =>
                 /\ Denied'
                 /\ y # Missing => Egress(chains', networks', y.Mode)
                 /\ y # Missing /\ last' = "commit" => y.Mode \in Modes
  BY DEF Settled, Denied, iptables

LEMMA RunningStays ==
    ASSUME UNCHANGED <<iptables, networks, last, running>>, Settled(running)
    PROVE  Settled(running)'
  BY SettledStays DEF Settled

LEMMA RebuiltStays ==
    ASSUME UNCHANGED <<iptables, networks>>, NEW m, Rebuilt(m)
    PROVE  Denied' /\ Egress(chains', networks', m)
  BY DEF Rebuilt, Denied, iptables

\* The steps that only read, until the first command.
LEMMA ReadingSound ==
    ASSUME TypeInv, PolicyInv, NEW r \in Procs,
           ReadNSMode(r) \/ FixNSMode(r) \/ ReadNetworks(r) \/ ReadEnforce(r)
    PROVE  PolicyInv'
  <1>0. TypeOK /\ ProcTyped /\ RestTyped
    BY TypeParts DEF TypeInv
  <1>a. /\ proc[r].step \in {"fix", "fixed", "networks", "enforce"} /\ proc[r].step # "idle"
        /\ UNCHANGED <<running, iptables, hosts, outcome, bounds>>
    BY DEF ReadNSMode, FixNSMode, ReadNetworks, ReadEnforce, At, npm
  <1>b. Only(r)
    BY <1>0, ReadNSModeIs, FixNSModeIs, ReadNetworksIs, ReadEnforceIs
  <1>c. shared' = shared /\ last' = last /\ running' = running /\ networks' = networks /\ chains' = chains
        /\ forward' = forward
    BY <1>a DEF outcome, hosts, iptables
  <1>d. CASE r \in shared
    BY <1>a, <1>b, <1>c, <1>d, SharedStep
  <1>e. CASE r \notin shared
    <2>0. Sound(r) /\ Shaped(proc[r])
      BY <1>0, <1>a, <1>e, SoundNow, RecordIs
    <2>1. CASE ReadNSMode(r)
      <3>1. file' = file /\ proc[r].step = "fix"
        BY <2>1 DEF ReadNSMode, npm, At
      <3>2. loadOrInit' = loadOrInit
        BY <3>1 DEF loadOrInit
      <3>3. /\ Keeps(r, {"step", "mode"})
            /\ \/ proc'[r].step = "networks" /\ loadOrInit.Mode \in Modes
               \/ proc'[r].step = "fixed"
        BY <1>0, <2>1, ReadNSModeIs
      <3>4. proc'[r].kind = proc[r].kind /\ proc[r].kind # "boot"
        BY <2>0, <3>1, <3>3 DEF Keeps, Fields, Shaped, BuildSteps
      <3>5. Sound(r)'
        BY <3>2, <3>3, <3>4 DEF Sound, Ready, BuildSteps
      <3> QED
        BY <1>a, <1>b, <1>c, <1>e, <3>3, <3>5, SoloStep
    <2>2. CASE FixNSMode(r)
      <3>1. Keeps(r, {"step", "mode"}) /\ proc'[r].step = "networks"
        BY <1>0, <2>2, FixNSModeIs
      <3>2. proc[r].step = "fixed" /\ proc[r].mode \in Modes /\ loadOrInit \in File
        BY <1>0, <2>2, RecordIs, LoadType DEF FixNSMode, At
      <3>3. file' \in File /\ file'.Mode \in Modes
        BY <2>2, <3>2, ModeType, ModeNames DEF FixNSMode
      <3>4. loadOrInit' = file'
        BY <3>3, MissingAssumption DEF loadOrInit
      <3>5. proc'[r].kind = proc[r].kind /\ proc[r].kind # "boot"
        BY <2>0, <3>1, <3>2 DEF Keeps, Fields, Shaped, BuildSteps
      <3>6. Sound(r)'
        BY <3>1, <3>3, <3>4, <3>5 DEF Sound, Ready, BuildSteps
      <3> QED
        BY <1>a, <1>b, <1>c, <1>e, <3>1, <3>6, SoloStep
    <2>3. CASE ReadNetworks(r)
      <3>1. Keeps(r, {"step", "nets"}) /\ proc'[r].step = "enforce" /\ proc'[r].nets = networks
        BY <1>0, <2>3, ReadNetworksIs
      <3>2. file' = file /\ proc[r].step = "networks"
        BY <2>3 DEF ReadNetworks, npm, At
      <3>3. loadOrInit' = loadOrInit
        BY <3>2 DEF loadOrInit
      <3>4. proc'[r].kind = proc[r].kind
        BY <3>1 DEF Keeps, Fields
      <3>5. Ready(r)
        BY <2>0, <3>2 DEF Sound, BuildSteps
      <3>6. Ready(r)'
        BY <1>c, <3>3, <3>4, <3>5 DEF Ready
      <3>7. Sound(r)'
        BY <1>c, <3>1, <3>6 DEF Sound
      <3> QED
        BY <1>a, <1>b, <1>c, <1>e, <3>1, <3>7, SoloStep
    <2>4. CASE ReadEnforce(r)
      <3>1. /\ Keeps(r, {"step", "nets", "todo"}) /\ proc'[r].step = "build"
            /\ proc'[r].todo = BuildPredefinedPolicy(proc[r].nets, IsNsEnforce)
        BY <1>0, <2>4, ReadEnforceIs
      <3>2. file' = file /\ proc[r].step = "enforce"
        BY <2>4 DEF ReadEnforce, npm, At
      <3>3. loadOrInit' = loadOrInit /\ IsNsEnforce' = IsNsEnforce
        BY <3>2 DEF loadOrInit, IsNsEnforce
      <3>4. proc'[r].kind = proc[r].kind
        BY <3>1 DEF Keeps, Fields
      <3>5. Ready(r) /\ proc[r].nets = networks
        BY <2>0, <3>2 DEF Sound, BuildSteps
      <3>6. Ready(r)'
        BY <1>c, <3>3, <3>4, <3>5 DEF Ready
      <3>7. Building(r)'
        <4> DEFINE p == BuildPredefinedPolicy(networks, IsNsEnforce)
                   n == Len(networks)
                   full == 12 + 2 * n
        <4>1. networks \in Seq(Networks) /\ IsNsEnforce \in BOOLEAN
          BY <1>0 DEF RestTyped, IsNsEnforce
        <4>2. Len(p) = full /\ n \in Nat
          BY <4>1, PlanIs
        <4>3. full \in Nat /\ full - full = 0 /\ full \in 1..full
          BY <4>2
        <4>4. proc'[r].todo = p /\ BuildPredefinedPolicy(networks', IsNsEnforce') = p
          BY <1>c, <3>1, <3>3, <3>5
        <4>5. Progress(chains, forward, networks, n, IsNsEnforce, 0)
          BY <4>2 DEF Progress, RootPart, EWPart, EnforcePart
        <4>6. \A i \in 1..full : 0 + i = i
          BY <4>2
        <4> HIDE DEF p
        <4>7. /\ Len(proc'[r].todo) = full
              /\ \A i \in 1..full : proc'[r].todo[i] = p[(full - full) + i]
          BY <4>2, <4>3, <4>4, <4>6
        <4> HIDE DEF full
        <4>8. Progress(chains', forward', networks', Len(networks'), IsNsEnforce', full - full)
          BY <1>c, <3>3, <4>3, <4>5
        <4> QED
          BY <1>c, <4>3, <4>4, <4>7, <4>8, Zenon DEF Building, full
      <3>8. Sound(r)'
        BY <3>1, <3>6, <3>7 DEF Sound
      <3> QED
        BY <1>a, <1>b, <1>c, <1>e, <3>1, <3>8, SoloStep
    <2> QED
      BY <2>1, <2>2, <2>3, <2>4
  <1> QED
    BY <1>d, <1>e

\* The end of the plan: the chains are rebuilt.
LEMMA ProgressDone ==
    ASSUME TypeInv, Progress(chains, forward, networks, Len(networks), IsNsEnforce, 12 + 2 * Len(networks))
    PROVE  Rebuilt(loadOrInit.Mode)
  <1> DEFINE n == Len(networks)
             k == 12 + 2 * n
             e == IsNsEnforce
  <1>0. networks \in Seq(Networks) /\ e \in BOOLEAN /\ e = (loadOrInit.Mode = "enforce")
    BY TypeParts DEF RestTyped, IsNsEnforce
  <1>1. n \in Nat
    BY <1>0
  <1>2. k >= 1 /\ k >= 5 /\ k >= 7 /\ k >= 8 /\ k >= 10 + n /\ \A i \in 1..n : k >= 11 + n + i
    BY <1>1
  <1>3. /\ RootPart(chains["RAIND-ROOT"], e, k)
        /\ EWPart(chains["RAIND-EW"], n, k)
        /\ e => EnforcePart(chains["RAIND-NS-ENF"], networks, n, k)
        /\ k >= 5 => forward
    BY DEF Progress
  <1> HIDE DEF k
  <1>4. /\ Jump(NS(~e)) \notin ToSet(chains["RAIND-ROOT"])
        /\ Reached(chains["RAIND-ROOT"], Jump("RAIND-EW"), {"established"})
        /\ Jump(NS(e)) \in ToSet(chains["RAIND-ROOT"])
    BY <1>2, <1>3 DEF RootPart
  <1>5. Denied
    BY <1>2, <1>3, <1>4 DEF Denied, EWPart
  <1>6. \A c \in UserChain \ {"RAIND-EW"} : Jump(c) \in ToSet(chains["RAIND-ROOT"]) <=> c = NS(e)
    <2>1. ASSUME NEW c \in UserChain \ {"RAIND-EW"} PROVE c = NS(e) \/ c = NS(~e)
      BY <1>0, ChainNames DEF NS
    <2>2. NS(e) # NS(~e)
      BY <1>0 DEF NS
    <2> QED
      BY <1>4, <2>1, <2>2
  <1>7. ASSUME e, NEW x \in ToSet(networks)
        PROVE  Reached(chains["RAIND-NS-ENF"], Rule("outbound", {x}, "DROP"), {"user", "outbound"})
    <2>1. PICK i \in 1..n : networks[i] = x
      BY <1>0, InToSet
    <2> QED
      BY <1>2, <1>3, <1>7, <2>1 DEF EnforcePart
  <1>8. Egress(chains, networks, loadOrInit.Mode)
    BY <1>0, <1>6, <1>7 DEF Egress
  <1> QED
    BY <1>5, <1>8 DEF Rebuilt

LEMMA CommandSound ==
    ASSUME TypeInv, PolicyInv, NEW r \in Procs, RunCommand(r), TypeInv'
    PROVE  PolicyInv'
  <1>0. ProcTyped /\ RestTyped
    BY TypeParts
  <1>1. Only(r) /\ Keeps(r, {"step", "todo"})
    BY <1>0, RunCommandIs
  <1>2. proc[r].step = "build" /\ UNCHANGED <<npm, hosts, outcome, bounds>>
    BY DEF RunCommand, At
  <1>3. /\ shared' = shared /\ last' = last /\ running' = running /\ networks' = networks
        /\ loadOrInit' = loadOrInit /\ IsNsEnforce' = IsNsEnforce
    BY <1>2 DEF outcome, hosts, npm, loadOrInit, IsNsEnforce
  <1>4. CASE r \in shared
    BY <1>1, <1>2, <1>3, <1>4, SharedStep
  <1>5. CASE r \notin shared
    <2>0. Sound(r)
      BY <1>2, <1>5, SoundNow
    <2>1. Ready(r) /\ Building(r)
      BY <1>2, <2>0 DEF Sound, BuildSteps
    <2> DEFINE t == proc[r].todo
               u == proc'[r].todo
               n == Len(networks)
               full == 12 + 2 * n
               l == Len(t)
               k == full - l
               p == BuildPredefinedPolicy(networks, IsNsEnforce)
               cmd == Head(t)
    <2>2. /\ l \in 1..full
          /\ \A i \in 1..l : t[i] = p[k + i]
          /\ Progress(chains, forward, networks, n, IsNsEnforce, k)
      BY <2>1, Zenon DEF Building
    <2>3. t \in Seq(Commands) /\ t # <<>> /\ u = Tail(t)
      BY <1>0, RunCommandIs
    <2>4. proc'[r].step = IF l = 1 THEN "list" ELSE "build"
      BY <1>0, RunCommandIs
    <2>5. /\ Obeys(chains, forward, cmd, chains', forward')
          /\ chains' \in [Chain -> Seq(Rules)] /\ forward' \in BOOLEAN
      BY RunCommandChains DEF Obeys
    <2>6. networks \in Seq(Networks) /\ chains \in [Chain -> Seq(Rules)] /\ forward \in BOOLEAN /\ IsNsEnforce \in BOOLEAN
      BY <1>0 DEF RestTyped, IsNsEnforce
    <2>7. n \in Nat /\ full \in Nat /\ full = 12 + 2 * n
      BY <2>6
    <2>8. /\ cmd = t[1] /\ Len(u) = l - 1 /\ \A i \in 1..(l - 1) : u[i] = t[i + 1]
      <3> HIDE DEF t, u, l, cmd
      <3>1. Head(t) = t[1] /\ Len(Tail(t)) = Len(t) - 1 /\ \A i \in 1..(Len(t) - 1) : Tail(t)[i] = t[i + 1]
        BY <2>3, SeqHeadTail
      <3> QED
        BY <2>3, <3>1, Zenon DEF l, cmd
    <2>9. k \in 0..(11 + 2 * n) /\ k + 1 = full - (l - 1)
      <3> HIDE DEF l, n
      <3> QED
        BY <2>2, <2>7
    <2>10. cmd = p[k + 1]
      <3>1. 1 \in 1..l
        <4> HIDE DEF l, full
        <4> QED
          BY <2>2, <2>7
      <3> HIDE DEF p, k, l, t, cmd
      <3> QED
        BY <2>2, <2>8, <3>1
    <2>11. Progress(chains', forward', networks, n, IsNsEnforce, k + 1)
      <3> DEFINE e == IsNsEnforce
      <3>1. cmd = BuildPredefinedPolicy(networks, e)[k + 1] /\ e \in BOOLEAN /\ Progress(chains, forward, networks, n, e, k)
        BY <2>2, <2>6, <2>10
      <3>2. n = Len(networks)
        OBVIOUS
      <3> DEFINE ch2 == chains'
                 fw2 == forward'
      <3>3. Obeys(chains, forward, cmd, ch2, fw2) /\ ch2 \in [Chain -> Seq(Rules)] /\ fw2 \in BOOLEAN
        BY <2>5
      <3>4. n \in Nat /\ k \in 0..(11 + 2 * n)
        BY <2>7, <2>9
      <3> HIDE DEF cmd, k, e, n, full, l, t, p, ch2, fw2
      <3>5. Progress(ch2, fw2, networks, n, e, k + 1)
        BY <2>6, <3>1, <3>2, <3>3, <3>4, ProgressStep
      <3> QED
        BY <3>5 DEF e, ch2, fw2
    <2>12. Ready(r)'
      <3>1. proc'[r].kind = proc[r].kind
        BY <1>1 DEF Keeps, Fields
      <3> QED
        BY <1>3, <2>1, <3>1 DEF Ready
    <2>13. CASE l = 1
      <3>1. k + 1 = full
        <4> HIDE DEF full
        <4> QED
          BY <2>7, <2>13
      <3>2. Progress(chains', forward', networks', Len(networks'), IsNsEnforce', 12 + 2 * Len(networks'))
        BY <1>3, <2>11, <3>1
      <3>3. Rebuilt(loadOrInit.Mode)'
        <4>1. (TypeInv /\ Progress(chains, forward, networks, Len(networks), IsNsEnforce, 12 + 2 * Len(networks))
                 => Rebuilt(loadOrInit.Mode))'
          BY ProgressDone, PTL
        <4> QED
          BY <3>2, <4>1
      <3>4. Sound(r)'
        <4>1. proc'[r].step = "list"
          BY <2>4, <2>13
        <4> QED
          BY <2>12, <3>3, <4>1 DEF Sound, BuildSteps
      <3>5. proc'[r].step # "idle"
        BY <2>4, <2>13
      <3> QED
        BY <1>1, <1>2, <1>3, <1>5, <3>4, <3>5, SoloStep
    <2>14. CASE l # 1
      <3>1. l - 1 \in 1..full /\ \A i \in 1..(l - 1) : i + 1 \in 1..l /\ k + (i + 1) = (k + 1) + i
        <4>1. l \in Int /\ k \in Int
          <5> HIDE DEF l, full
          <5> QED
            BY <2>2, <2>7 DEF k
        <4> HIDE DEF k, l, full
        <4> QED
          BY <2>2, <2>7, <2>14, <4>1
      <3>2. \A i \in 1..(l - 1) : u[i] = p[(k + 1) + i]
        <4> HIDE DEF k, l, full, p, t, u
        <4>1. ASSUME NEW i \in 1..(l - 1) PROVE u[i] = p[(k + 1) + i]
          <5>1. u[i] = t[i + 1]
            BY <2>8
          <5>2. t[i + 1] = p[k + (i + 1)]
            BY <2>2, <3>1
          <5> QED
            BY <3>1, <5>1, <5>2
        <4> QED
          BY <4>1
      <3>3. Building(r)'
        <4> DEFINE m == Len(u)
        <4>0. m = l - 1 /\ k + 1 = full - m
          BY <2>8, <2>9
        <4> HIDE DEF m, k, l
        <4>1. m \in 1..full /\ \A i \in 1..m : u[i] = p[(full - m) + i]
          BY <3>1, <3>2, <4>0
        <4>2. Progress(chains', forward', networks, n, IsNsEnforce, full - m)
          BY <2>11, <4>0
        <4>3. p = BuildPredefinedPolicy(networks', IsNsEnforce')
          BY <1>3
        <4> HIDE DEF p
        <4> QED
          BY <1>3, <4>1, <4>2, <4>3, Zenon DEF Building, m, full
      <3>4. Sound(r)'
        <4>1. proc'[r].step = "build"
          BY <2>4, <2>14
        <4> QED
          BY <2>12, <3>3, <4>1 DEF Sound, BuildSteps
      <3>5. proc'[r].step # "idle"
        BY <2>4, <2>14
      <3> QED
        BY <1>1, <1>2, <1>3, <1>5, <3>4, <3>5, SoloStep
    <2> QED
      BY <2>13, <2>14
  <1> QED
    BY <1>4, <1>5

\* The rules of users go to the head of their chains and change no verdict on
\* what they do not match.
LEMMA InsertRebuilt ==
    ASSUME TypeInv, NEW r \in Procs, InsertUserPolicy(r), NEW m, Rebuilt(m)
    PROVE  Denied' /\ Egress(chains', networks', m)
  <1> DEFINE c == HeadChain(r)
             rule == UserRule(c, Head(proc[r].todo).hosts)
  <1>1. /\ c \in UserChain /\ rule \in Rules /\ rule.on = "user"
        /\ \A d \in Chain : d # c => chains'[d] = chains[d]
        /\ chains'[c] = InsertRuleToChain(chains[c], rule)
    BY InsertChains
  <1>2. forward' = forward /\ networks' = networks
    BY DEF InsertUserPolicy, hosts
  <1>3. chains \in [Chain -> Seq(Rules)]
    BY TypeParts DEF RestTyped
  <1> HIDE DEF c, rule
  <1>4. chains'["RAIND-ROOT"] = chains["RAIND-ROOT"]
    BY <1>1, ChainNames
  <1>5. ASSUME NEW d \in UserChain, NEW x, NEW B, "user" \in B, Reached(chains[d], x, B)
        PROVE  Reached(chains'[d], x, B)
    <2>0. d \in Chain /\ chains[d] \in Seq(Rules)
      BY <1>3 DEF Chain
    <2>1. CASE d = c
      <3>1. Reached(InsertRuleToChain(chains[d], rule), x, B)
        BY <1>1, <1>5, <2>0, InsertKeepsReached
      <3> QED
        BY <1>1, <2>1, <3>1
    <2>2. CASE d # c
      BY <1>1, <1>5, <2>0, <2>2
    <2> QED
      BY <2>1, <2>2
  <1>6. Denied'
    <2>1. /\ forward /\ Reached(chains["RAIND-ROOT"], Jump("RAIND-EW"), {"established"})
          /\ Reached(chains["RAIND-EW"], DropBridges, {"user", "within"})
      BY DEF Rebuilt, Denied
    <2>2. "RAIND-EW" \in UserChain
      BY ChainNames
    <2>3. Reached(chains'["RAIND-EW"], DropBridges, {"user", "within"})
      BY <1>5, <2>1, <2>2
    <2> QED
      BY <1>2, <1>4, <2>1, <2>3 DEF Denied
  <1>7. Egress(chains', networks', m)
    <2>1. Egress(chains, networks, m)
      BY DEF Rebuilt
    <2>2. "RAIND-NS-ENF" \in UserChain
      BY ChainNames
    <2>3. ASSUME NEW x \in ToSet(networks), m = "enforce"
          PROVE  Reached(chains'["RAIND-NS-ENF"], Rule("outbound", {x}, "DROP"), {"user", "outbound"})
      <3>1. Reached(chains["RAIND-NS-ENF"], Rule("outbound", {x}, "DROP"), {"user", "outbound"})
        BY <2>1, <2>3 DEF Egress
      <3> QED
        BY <1>5, <2>2, <3>1
    <2> QED
      BY <1>2, <1>4, <2>1, <2>3 DEF Egress
  <1> QED
    BY <1>6, <1>7

LEMMA PolicyStepsSound ==
    ASSUME TypeInv, PolicyInv, NEW r \in Procs,
           \/ ListPolicies(r) \/ RemoveFlagged(r) \/ MarkUnresolved(r) \/ MarkApplied(r)
           \/ InsertUserPolicy(r) \/ InsertFails(r)
    PROVE  PolicyInv'
  <1>0. ProcTyped /\ RestTyped
    BY TypeParts
  <1>1. proc[r].step \in {"list", "policy", "applied"} /\ running' = running /\ shared' = shared /\ last' = last
        /\ networks' = networks
    BY Zenon DEF ListPolicies, RemoveFlagged, MarkUnresolved, MarkApplied, InsertUserPolicy, InsertFails, At, npm, outcome, hosts
  <1>2. Only(r) /\ proc'[r].step \in {"policy", "applied"} /\ proc'[r].kind = proc[r].kind
    <2>1. CASE ListPolicies(r)
      BY <2>1, ListPoliciesIs DEF Keeps, Fields
    <2>2. CASE RemoveFlagged(r) \/ MarkUnresolved(r) \/ MarkApplied(r)
      <3>1. Only(r) /\ Keeps(r, {"step", "todo", "ok"}) /\ proc'[r].step = "policy"
        BY <2>2, MarkingIs
      <3> QED
        BY <3>1 DEF Keeps, Fields
    <2>3. CASE InsertUserPolicy(r)
      <3>1. Only(r) /\ proc'[r].step = "applied" /\ Keeps(r, {"step"})
        BY <1>0, <2>3, GotoIs DEF InsertUserPolicy, Steps
      <3> QED
        BY <3>1 DEF Keeps, Fields
    <2>4. CASE InsertFails(r)
      <3>1. Only(r) /\ Keeps(r, {"todo", "complete"}) /\ proc'[r].step = "policy"
        BY <1>0, <2>4, InsertFailsIs
      <3> QED
        BY <3>1 DEF Keeps, Fields
    <2> QED
      BY <2>1, <2>2, <2>3, <2>4
  <1>3. loadOrInit'.Mode = loadOrInit.Mode
    <2>1. CASE RemoveFlagged(r) \/ MarkUnresolved(r) \/ MarkApplied(r)
      BY <2>1, MarkingIs
    <2>2. CASE ListPolicies(r) \/ InsertUserPolicy(r) \/ InsertFails(r)
      <3>1. file' = file
        BY <2>2 DEF ListPolicies, InsertUserPolicy, InsertFails, npm
      <3> QED
        BY <3>1 DEF loadOrInit
    <2> QED
      BY <2>1, <2>2
  <1>4. proc[r].step # "idle" /\ proc'[r].step # "idle"
    BY <1>1, <1>2
  <1>5. CASE r \in shared
    BY <1>1, <1>2, <1>4, <1>5, SharedStep
  <1>6. CASE r \notin shared
    <2>1. Sound(r)
      BY <1>4, <1>6, SoundNow
    <2>2. Ready(r) /\ Rebuilt(loadOrInit.Mode)
      BY <1>1, <2>1 DEF Sound, BuildSteps
    <2>3. Denied' /\ Egress(chains', networks', loadOrInit.Mode)
      <3>1. CASE InsertUserPolicy(r)
        BY <2>2, <3>1, InsertRebuilt
      <3>2. CASE ~InsertUserPolicy(r)
        <4>1. UNCHANGED <<iptables, networks>>
          BY <3>2, Zenon DEF ListPolicies, RemoveFlagged, MarkUnresolved, MarkApplied, InsertFails, hosts
        <4> QED
          BY <2>2, <4>1, RebuiltStays
      <3> QED
        BY <3>1, <3>2
    <2>4. Rebuilt(loadOrInit.Mode)'
      BY <1>3, <2>3 DEF Rebuilt
    <2>5. Ready(r)'
      BY <1>1, <1>2, <1>3, <2>2 DEF Ready
    <2>6. Sound(r)'
      BY <1>2, <2>4, <2>5 DEF Sound
    <2> QED
      BY <1>1, <1>2, <1>4, <1>6, <2>6, SoloStep
  <1> QED
    BY <1>5, <1>6

LEMMA EndingSound ==
    ASSUME TypeInv, PolicyInv, NEW r \in Procs, CommandFails(r) \/ ChainDone(r)
    PROVE  PolicyInv'
  <1>0. ProcTyped /\ RestTyped
    BY TypeParts
  <1>1. CASE CommandFails(r)
    <2>1. proc[r].step = "build" /\ proc[r].step # "idle" /\ proc' = [proc EXCEPT ![r] = Idle] /\ shared' = shared
      BY <1>1 DEF CommandFails, At
    <2>2. Only(r) /\ proc'[r].step = "idle"
      BY <1>0, <2>1, StopIs
    <2>3. CASE r \in shared
      <3>1. last' = "overlapped"
        BY <1>1, <2>3 DEF CommandFails
      <3> QED
        BY <2>1, <2>2, <2>3, <3>1, SharedStep
    <2>4. CASE r \notin shared
      <3>1. last' = "failed"
        BY <1>1, <2>4 DEF CommandFails
      <3>2. Settled(running)'
        BY <3>1 DEF Settled
      <3> QED
        BY <2>1, <2>2, <2>4, <3>2, SoloStep
    <2> QED
      BY <2>3, <2>4
  <1>2. CASE ChainDone(r)
    <2>0. proc[r].step = "policy" /\ proc[r].step # "idle" /\ shared' = shared /\ UNCHANGED <<npm, iptables, hosts>>
          /\ (last' = last \/ last' = Outcome(r))
      BY <1>2 DEF ChainDone, At
    <2>1. running' = running /\ networks' = networks /\ loadOrInit' = loadOrInit /\ UNCHANGED <<iptables, networks>>
      BY <2>0 DEF npm, hosts, loadOrInit
    <2>2. Only(r)
      BY <1>0, <1>2, NextChainIs, GotoIs, StopIs DEF ChainDone, Steps
    <2>3. CASE r \in shared
      <3>1. Outcome(r) = "overlapped"
        BY <2>3 DEF Outcome
      <3> QED
        BY <2>0, <2>2, <2>3, <3>1, SharedStep
    <2>4. CASE r \notin shared
      <3>0. Ready(r) /\ Rebuilt(loadOrInit.Mode) /\ Shaped(proc[r])
        BY <1>0, <2>0, <2>4, SoundNow, RecordIs DEF Sound, BuildSteps
      <3>1. Denied' /\ Egress(chains', networks', loadOrInit.Mode)
        BY <2>1, <3>0, RebuiltStays
      <3>2. Rebuilt(loadOrInit.Mode)'
        BY <2>1, <3>1 DEF Rebuilt
      <3>3. CASE proc[r].chain < Len(UserChains) /\ proc' = [proc EXCEPT ![r].step = "list", ![r].chain = @ + 1]
        <4>1. Keeps(r, {"step", "chain"}) /\ proc'[r].step = "list"
          BY <1>0, <3>3, NextChainIs
        <4>2. proc'[r].kind = proc[r].kind
          BY <4>1 DEF Keeps, Fields
        <4>3. Ready(r)'
          BY <2>1, <3>0, <4>2 DEF Ready
        <4>4. Sound(r)'
          BY <3>2, <4>1, <4>3 DEF Sound
        <4> QED
          BY <2>0, <2>2, <2>4, <4>1, <4>4, SoloStep
      <3>4. CASE proc[r].kind # "boot" /\ Goto(r, "backup")
        <4>1. Keeps(r, {"step"}) /\ proc'[r].step = "backup"
          BY <1>0, <3>4, GotoIs DEF Steps
        <4>2. proc'[r].kind = proc[r].kind /\ proc[r].kind # "revert"
          BY <2>0, <3>0, <4>1 DEF Keeps, Fields, Shaped, BuildSteps
        <4>3. loadOrInit'.Mode \in Modes
          BY <2>1, <3>0, <3>4 DEF Ready
        <4>4. Sound(r)'
          BY <3>2, <4>1, <4>2, <4>3 DEF Sound, BuildSteps
        <4> QED
          BY <2>0, <2>2, <2>4, <4>1, <4>4, SoloStep
      <3>5. CASE /\ ~proc[r].ok \/ proc[r].kind = "boot"
                 /\ proc' = [proc EXCEPT ![r] = Idle]
                 /\ last' = Outcome(r)
        <4>1. proc'[r].step = "idle"
          BY <1>0, <3>5, StopIs
        <4>2. last' \in {"boot", "commit"} => last' = "boot" /\ proc[r].kind = "boot"
          BY <2>4, <3>5 DEF Outcome
        <4>3. proc[r].kind = "boot" => running.Mode = loadOrInit.Mode
          BY <3>0 DEF Ready
        <4>4. Settled(running)'
          BY <2>1, <3>1, <4>2, <4>3 DEF Settled
        <4> QED
          BY <2>0, <2>2, <2>4, <4>1, <4>4, SoloStep
      <3> QED
        BY <1>2, <3>3, <3>4, <3>5 DEF ChainDone
    <2> QED
      BY <2>3, <2>4
  <1> QED
    BY <1>1, <1>2

LEMMA CopyingSound ==
    ASSUME TypeInv, PolicyInv, NEW r \in Procs,
           OpenForBackup(r) \/ Backup(r) \/ RenameAway(r) \/ Restore(r) \/ SetNSMode(r)
    PROVE  PolicyInv'
  <1>0. ProcTyped /\ RestTyped
    BY TypeParts
  <1>1. /\ proc[r].step \in {"backup", "copy", "rename", "restore", "set mode"} /\ proc[r].step # "idle"
        /\ shared' = shared /\ UNCHANGED <<iptables, networks>> /\ networks' = networks
    BY DEF OpenForBackup, Backup, RenameAway, Restore, SetNSMode, At, outcome, hosts
  <1>2. Only(r)
    BY <1>0, SnapIs, GotoIs, StopIs DEF OpenForBackup, Backup, RenameAway, Restore, SetNSMode, Steps
  <1>3. CASE r \in shared
    <2>1. last' = last \/ last' = "overlapped"
      BY <1>3 DEF OpenForBackup, Backup, RenameAway, Restore, SetNSMode, Outcome, outcome
    <2> QED
      BY <1>1, <1>2, <1>3, <2>1, SharedStep
  <1>4. CASE r \notin shared
    <2>0. Sound(r) /\ Shaped(proc[r])
      BY <1>0, <1>1, <1>4, SoundNow, RecordIs
    <2>1. CASE SetNSMode(r)
      <3>1. proc' = [proc EXCEPT ![r] = Idle] /\ UNCHANGED <<iptables, networks, last, running>> /\ proc[r].step = "set mode"
        BY <2>1 DEF SetNSMode, At, outcome, hosts
      <3>2. Settled(running)
        BY <2>0, <3>1 DEF Sound
      <3>3. Settled(running)'
        BY <3>1, <3>2, RunningStays
      <3>4. proc'[r].step = "idle"
        BY <1>0, <3>1, StopIs
      <3> QED
        BY <1>1, <1>2, <1>4, <3>3, <3>4, SoloStep
    <2>2. CASE RenameAway(r)
      <3>1. UNCHANGED <<iptables, networks, last, running>> /\ proc[r].step = "rename"
        BY <2>2 DEF RenameAway, At, outcome, hosts
      <3>2. Settled(running)
        BY <2>0, <3>1 DEF Sound
      <3>3. Settled(running)'
        BY <3>1, <3>2, RunningStays
      <3>4. proc'[r].step \in {"idle", "restore"}
        BY <1>0, <2>2, StopIs, GotoIs DEF RenameAway, Steps
      <3>5. proc'[r].step = "restore" => Sound(r)'
        BY <3>3 DEF Sound, BuildSteps
      <3> QED
        BY <1>1, <1>2, <1>4, <3>3, <3>4, <3>5, SoloStep
    <2>3. CASE Restore(r)
      <3>1. UNCHANGED <<iptables, networks, last>> /\ proc[r].step = "restore"
        BY <2>3 DEF Restore, At, outcome, hosts
      <3>2. Settled(running)
        BY <2>0, <3>1 DEF Sound
      <3>3. CASE running # Missing /\ file' = running /\ Goto(r, "backup")
        <4>1. Keeps(r, {"step"}) /\ proc'[r].step = "backup"
          BY <1>0, <3>3, GotoIs DEF Steps
        <4>2. proc'[r].kind = "revert"
          BY <2>0, <3>1, <4>1 DEF Keeps, Fields, Shaped
        <4>3. Settled(file)'
          BY <3>1, <3>2, <3>3, SettledStays DEF Settled
        <4>4. Sound(r)'
          BY <3>3, <4>1, <4>2, <4>3 DEF Sound, BuildSteps
        <4> QED
          BY <1>1, <1>2, <1>4, <4>1, <4>4, SoloStep
      <3>4. CASE proc' = [proc EXCEPT ![r] = Idle] /\ UNCHANGED npm
        <4>1. running' = running
          BY <3>4 DEF npm
        <4>2. Settled(running)'
          BY <3>1, <3>2, <4>1, RunningStays
        <4>3. proc'[r].step = "idle"
          BY <1>0, <3>4, StopIs
        <4> QED
          BY <1>1, <1>2, <1>4, <4>2, <4>3, SoloStep
      <3> QED
        BY <2>3, <3>3, <3>4 DEF Restore
    <2>4. CASE OpenForBackup(r)
      <3>1. proc[r].step = "backup" /\ UNCHANGED <<file, running>>
        BY <2>4 DEF OpenForBackup, At, npm
      <3>2. CASE file # Missing /\ proc' = [proc EXCEPT ![r].step = "copy", ![r].snap = file] /\ last' = last
        <4>1. Keeps(r, {"step", "snap"}) /\ proc'[r].step = "copy" /\ proc'[r].snap = file
          BY <1>0, <3>2, SnapIs
        <4>2. proc'[r].kind = proc[r].kind /\ loadOrInit = file
          BY <3>2, <4>1 DEF Keeps, Fields, loadOrInit
        <4>3. CASE proc[r].kind = "revert"
          <5>1. Settled(file)
            BY <2>0, <3>1, <4>3 DEF Sound
          <5>2. UNCHANGED <<iptables, networks, last>>
            BY <1>1, <3>2
          <5>3. Settled(proc[r].snap)'
            BY <4>1, <5>1, <5>2, SettledStays DEF Settled
          <5>4. Sound(r)'
            BY <4>1, <4>2, <4>3, <5>3 DEF Sound, BuildSteps
          <5> QED
            BY <1>1, <1>2, <1>4, <4>1, <5>4, SoloStep
        <4>4. CASE proc[r].kind # "revert"
          <5>1. file.Mode \in Modes /\ Rebuilt(file.Mode)
            BY <2>0, <3>1, <4>2, <4>4 DEF Sound
          <5>2. Denied' /\ Egress(chains', networks', file.Mode)
            BY <1>1, <5>1, RebuiltStays
          <5>3. Rebuilt(proc[r].snap.Mode)' /\ proc'[r].snap.Mode \in Modes
            BY <4>1, <5>1, <5>2 DEF Rebuilt
          <5>4. Sound(r)'
            BY <4>1, <4>2, <4>4, <5>3 DEF Sound, BuildSteps
          <5> QED
            BY <1>1, <1>2, <1>4, <4>1, <5>4, SoloStep
        <4> QED
          BY <4>3, <4>4
      <3>3. CASE /\ file = Missing
                 /\ proc' = [proc EXCEPT ![r] = Idle]
                 /\ last' = IF proc[r].kind = "revert" THEN last ELSE "overlapped"
        <4>1. proc[r].kind # "revert"
          BY <2>0, <3>1, <3>3 DEF Sound
        <4>2. Settled(running)'
          BY <3>3, <4>1 DEF Settled
        <4>3. proc'[r].step = "idle"
          BY <1>0, <3>3, StopIs
        <4> QED
          BY <1>1, <1>2, <1>4, <4>2, <4>3, SoloStep
      <3> QED
        BY <2>4, <3>2, <3>3 DEF OpenForBackup
    <2>5. CASE Backup(r)
      <3>1. proc[r].step = "copy" /\ running' = proc[r].snap /\ proc' = [proc EXCEPT ![r] = Idle]
            /\ last' = IF proc[r].kind = "revert" THEN last ELSE Outcome(r)
        BY <2>5 DEF Backup, At
      <3>2. proc'[r].step = "idle"
        BY <1>0, <3>1, StopIs
      <3>3. CASE proc[r].kind = "revert"
        <4>1. Settled(proc[r].snap)
          BY <2>0, <3>1, <3>3 DEF Sound
        <4>2. UNCHANGED <<iptables, networks, last>>
          BY <1>1, <3>1, <3>3
        <4>3. Settled(running)'
          BY <3>1, <4>1, <4>2, SettledStays DEF Settled
        <4> QED
          BY <1>1, <1>2, <1>4, <3>2, <4>3, SoloStep
      <3>4. CASE proc[r].kind # "revert"
        <4>1. proc[r].snap.Mode \in Modes /\ Rebuilt(proc[r].snap.Mode)
          BY <2>0, <3>1, <3>4 DEF Sound
        <4>2. Denied' /\ Egress(chains', networks', proc[r].snap.Mode)
          BY <1>1, <4>1, RebuiltStays
        <4>3. Settled(running)'
          BY <3>1, <4>1, <4>2 DEF Settled
        <4> QED
          BY <1>1, <1>2, <1>4, <3>2, <4>3, SoloStep
      <3> QED
        BY <3>3, <3>4
    <2> QED
      BY <2>1, <2>2, <2>3, <2>4, <2>5
  <1> QED
    BY <1>3, <1>4

\* A request that finds another one under way spoils the outcome of both.
LEMMA OverlapSound ==
    ASSUME PolicyInv, NEW kind, NEW mine, Accept(kind, mine), Busy # {}, Busy' \subseteq Busy \cup mine
    PROVE  PolicyInv'
  <1>1. shared' = shared \cup Busy \cup mine /\ last' = "overlapped"
    BY DEF Accept
  <1>2. \A q \in Busy' : q \in shared'
    BY <1>1
  <1> QED
    BY <1>1, <1>2 DEF PolicyInv, Settled

LEMMA UserRequestSound ==
    ASSUME TypeInv, PolicyInv,
           \/ \E c \in UserChain : \E hs \in Ends(c) : AddUserPolicy(c, hs)
           \/ \E id \in 1..MaxPolicies : RemoveUserPolicy(id)
    PROVE  PolicyInv'
  <1>1. PICK kind : Accept(kind, {}) /\ UNCHANGED <<running, iptables, hosts, proc>>
    <2>1. \/ Accept("add", {}) /\ UNCHANGED <<running, iptables, hosts, proc>>
          \/ Accept("remove", {}) /\ UNCHANGED <<running, iptables, hosts, proc>>
      BY DEF AddUserPolicy, RemoveUserPolicy
    <2> QED
      BY <2>1
  <1>2. Busy' = Busy
    BY <1>1 DEF Busy
  <1>3. CASE Busy # {}
    BY <1>1, <1>2, <1>3, OverlapSound
  <1>4. CASE Busy = {}
    <2>1. UNCHANGED <<iptables, networks, last, running>>
      BY <1>1, <1>4 DEF Accept, hosts
    <2>2. Settled(running)'
      BY <1>4, <2>1, RunningStays DEF PolicyInv
    <2> QED
      BY <1>2, <1>4, <2>2 DEF PolicyInv
  <1> QED
    BY <1>3, <1>4

LEMMA BeginSound ==
    ASSUME TypeInv, PolicyInv, NEW r \in Procs, NEW kind, Accept(kind, {r}), Only(r),
           proc'[r].step # "idle", Busy = {} => Sound(r)'
    PROVE  PolicyInv'
  <1>1. Busy' = Busy \cup {r}
    BY DEF Busy, Only
  <1>2. CASE Busy # {}
    BY <1>1, <1>2, OverlapSound
  <1>3. CASE Busy = {}
    <2>1. shared' = {}
      BY <1>3 DEF Accept
    <2>2. Busy' = {r}
      BY <1>1, <1>3
    <2> QED
      BY <1>3, <2>1, <2>2 DEF PolicyInv
  <1> QED
    BY <1>2, <1>3

LEMMA RequestSound ==
    ASSUME TypeInv, PolicyInv, NEW r \in Procs, Request(r)
    PROVE  PolicyInv'
  <1>0. ProcTyped /\ RestTyped
    BY TypeParts
  <1>1. ASSUME NEW kind \in {"hook", "network", "commit", "revert"}, NEW step \in {"fix", "rename"},
               Begin(r, kind, step),
               step = "rename" => UNCHANGED <<running, iptables, networks>>
        PROVE  PolicyInv'
    <2> DEFINE q == [Idle EXCEPT !.kind = kind, !.step = step]
    <2>1. q \in Handler /\ q.kind = kind /\ q.step = step
      BY IdleIs DEF Handler, Steps
    <2>2. proc' = [proc EXCEPT ![r] = q] /\ Accept(kind, {r})
      BY <1>1 DEF Begin
    <2> HIDE DEF q
    <2>3. Only(r) /\ proc'[r] = q
      BY <1>0, <2>1, <2>2, OnlyIs
    <2>4. ASSUME Busy = {} PROVE Sound(r)'
      <3>1. step = "rename" => Settled(running)'
        <4>1. last' = last /\ Settled(running)
          BY <2>2, <2>4 DEF Accept, PolicyInv
        <4> QED
          BY <1>1, <4>1, RunningStays
      <3> QED
        BY <1>1, <2>1, <2>3, <3>1 DEF Sound, BuildSteps
    <2>5. proc'[r].step # "idle"
      BY <1>1, <2>1, <2>3
    <2> QED
      BY <2>2, <2>3, <2>4, <2>5, BeginSound
  <1>2. CASE CommitPolicy(r)
    BY <1>1, <1>2 DEF CommitPolicy
  <1>3. CASE RevertPolicy(r)
    <2>1. Begin(r, "revert", "rename") /\ UNCHANGED <<running, iptables, networks>>
      BY <1>3 DEF RevertPolicy, npm, hosts
    <2> QED
      BY <1>1, <2>1
  <1>4. ASSUME NEW h \in Hosts, HostChange(r, h) PROVE PolicyInv'
    BY <1>1, <1>4 DEF HostChange
  <1>5. ASSUME NEW n \in Networks, NetworkChange(r, n) PROVE PolicyInv'
    BY <1>1, <1>5 DEF NetworkChange
  <1>6. ASSUME NEW m \in Modes, ChangeNSMode(r, m) PROVE PolicyInv'
    <2> DEFINE q == [Idle EXCEPT !.kind = "mode", !.step = "set mode", !.mode = m]
    <2>1. q \in Handler /\ q.kind = "mode" /\ q.step = "set mode"
      BY IdleIs DEF Handler, Steps
    <2>2. proc' = [proc EXCEPT ![r] = q] /\ Accept("mode", {r}) /\ UNCHANGED <<running, iptables, networks>>
      BY <1>6 DEF ChangeNSMode, npm, hosts
    <2> HIDE DEF q
    <2>3. Only(r) /\ proc'[r] = q
      BY <1>0, <2>1, <2>2, OnlyIs
    <2>4. ASSUME Busy = {} PROVE Sound(r)'
      <3>1. last' = last /\ Settled(running)
        BY <2>2, <2>4 DEF Accept, PolicyInv
      <3>2. Settled(running)'
        BY <2>2, <3>1, RunningStays
      <3> QED
        BY <2>1, <2>3, <3>2 DEF Sound, BuildSteps
    <2>5. proc'[r].step # "idle"
      BY <2>1, <2>3
    <2> QED
      BY <2>2, <2>3, <2>4, <2>5, BeginSound
  <1>7. CASE SetNSMode(r)
    BY <1>7, CopyingSound
  <1> QED
    BY <1>2, <1>3, <1>4, <1>5, <1>6, <1>7 DEF Request

LEMMA BootSound ==
    ASSUME NEW r \in Procs, proc = [q \in Procs |-> IF q = r THEN [Idle EXCEPT !.kind = "boot", !.step = "networks"] ELSE Idle],
           shared = {}, file \in File, running = file
    PROVE  PolicyInv
  <1> DEFINE b == [Idle EXCEPT !.kind = "boot", !.step = "networks"]
  <1>1. b.kind = "boot" /\ b.step = "networks" /\ Idle.step = "idle"
    BY DEF Idle
  <1>2. proc = [q \in Procs |-> IF q = r THEN b ELSE Idle]
    OBVIOUS
  <1> HIDE DEF b
  <1>3. Busy = {r} /\ proc[r].kind = "boot" /\ proc[r].step = "networks"
    BY <1>1, <1>2 DEF Busy
  <1>4. running # Missing /\ loadOrInit = running
    BY MissingAssumption DEF loadOrInit
  <1>5. Sound(r)
    BY <1>3, <1>4 DEF Sound, Ready
  <1> QED
    BY <1>3, <1>5 DEF PolicyInv

LEMMA PolicyInit == Init => PolicyInv
  <1> SUFFICES ASSUME Init PROVE PolicyInv
    OBVIOUS
  <1>1. file \in File
    BY InitFile
  <1>2. PICK r \in Procs : proc = [q \in Procs |-> IF q = r THEN [Idle EXCEPT !.kind = "boot", !.step = "networks"] ELSE Idle]
    BY DEF Init
  <1>3. shared = {} /\ running = file
    BY DEF Init
  <1> QED
    BY <1>1, <1>2, <1>3, BootSound

LEMMA RestartSound ==
    ASSUME TypeInv, NEW r \in Procs, Restart(r)
    PROVE  PolicyInv'
  <1> DEFINE b == [Idle EXCEPT !.kind = "boot", !.step = "networks"]
  <1>1. b.kind = "boot" /\ b.step = "networks" /\ Idle.step = "idle"
    BY DEF Idle
  <1>2. proc' = [q \in Procs |-> IF q = r THEN b ELSE Idle]
    BY DEF Restart
  <1> HIDE DEF b
  <1>3. Busy' = {r} /\ proc'[r].kind = "boot" /\ proc'[r].step = "networks"
    BY <1>1, <1>2 DEF Busy
  <1>4. shared' = {} /\ running' = file' /\ file' = loadOrInit /\ loadOrInit \in File
    BY LoadType DEF Restart, TypeInv
  <1>5. running' # Missing /\ loadOrInit' = running'
    BY <1>4, MissingAssumption DEF loadOrInit
  <1>6. Sound(r)'
    BY <1>3, <1>5 DEF Sound, Ready
  <1> QED
    BY <1>3, <1>4, <1>6 DEF PolicyInv

LEMMA PolicyNext == TypeInv /\ TypeInv' /\ PolicyInv /\ [Next]_vars => PolicyInv'
  <1> SUFFICES ASSUME TypeInv, TypeInv', PolicyInv, [Next]_vars PROVE PolicyInv'
    OBVIOUS
  <1>1. CASE UNCHANGED vars
    <2>1. /\ UNCHANGED <<file, running, chains, forward, networks, proc, last, shared>>
      BY <1>1 DEF vars, npm, iptables, hosts, outcome
    <2>2. Busy' = Busy /\ loadOrInit' = loadOrInit /\ IsNsEnforce' = IsNsEnforce /\ Denied' = Denied
      BY <2>1 DEF Busy, loadOrInit, IsNsEnforce, Denied
    <2> QED
      BY <2>1, <2>2 DEF PolicyInv, Sound, Settled, Ready, Rebuilt, Building
  <1>2. CASE Done
    BY <1>1, <1>2 DEF Done
  <1>3. ASSUME NEW r \in Procs, Step(r) PROVE PolicyInv'
    BY <1>3, ReadingSound, CommandSound, PolicyStepsSound, EndingSound, CopyingSound DEF Step
  <1>4. ASSUME NEW r \in Procs, Request(r) \/ Restart(r) PROVE PolicyInv'
    BY <1>4, RequestSound, RestartSound
  <1>5. CASE \/ \E c \in UserChain : \E hs \in Ends(c) : AddUserPolicy(c, hs)
             \/ \E id \in 1..MaxPolicies : RemoveUserPolicy(id)
    BY <1>5, UserRequestSound
  <1> QED
    BY <1>1, <1>2, <1>3, <1>4, <1>5 DEF Next

\* The inductive invariant of the policy service: a rebuild that no request
\* overlaps has, after each of its commands, the chains of exactly that prefix
\* of the plan, for the mode that is in the file and the networks there are.
THEOREM PolicyInvariant == Spec => []PolicyInv
  BY PolicyTypes, PolicyInit, PolicyNext, PTL DEF Spec

\* buildRaindEWChain, for any number of networks, containers, policies, requests
\* and failures: once a rebuild has ended without error and without another
\* request in its way, traffic between bridges meets the DROP.
THEOREM BridgesAreIsolated == Spec => []Isolation
  <1>1. PolicyInv => Isolation
    BY DEF PolicyInv, Isolation, Quiescent, Settled
  <1> QED
    BY <1>1, PolicyInvariant, PTL

\* buildRaindRootChain, FixNSMode and Revert: the chain for outbound traffic is
\* that of the mode in the running copy, which is not pending after a commit,
\* and in enforce mode every network is denied.
THEOREM EgressFollowsMode == Spec => []EgressMode
  <1>1. PolicyInv => EgressMode
    <2> SUFFICES ASSUME PolicyInv, Quiescent, last \in {"boot", "commit"}, running # Missing
                 PROVE  /\ last = "commit" => running.Mode \in Modes
                        /\ \A c \in UserChain \ {"RAIND-EW"} :
                              Jump(c) \in ToSet(chains["RAIND-ROOT"]) <=> c = NS(running.Mode = "enforce")
                        /\ \A n \in ToSet(networks) :
                              running.Mode = "enforce" =>
                                 Reached(chains[NS(running.Mode = "enforce")], Rule("outbound", {n}, "DROP"), {"user", "outbound"})
      BY Zenon DEF EgressMode, NS
    <2>1. Egress(chains, networks, running.Mode) /\ (last = "commit" => running.Mode \in Modes)
      BY DEF PolicyInv, Quiescent, Settled
    <2>2. running.Mode = "enforce" => NS(running.Mode = "enforce") = "RAIND-NS-ENF"
      BY DEF NS
    <2> QED
      BY <2>1, <2>2 DEF Egress
  <1> QED
    BY <1>1, PolicyInvariant, PTL

-----------------------------------------------------------------------------
\* The policies of a chain have different numbers, also in the copy and in what
\* a request has opened: numbers are given out once.
UniqueIds(s) == \A i, j \in DOMAIN s : s[i].id = s[j].id => i = j

Numbered(f, n) ==
    \A c \in UserChain :
        UniqueIds(f.Policies[c]) /\ \A i \in DOMAIN f.Policies[c] : f.Policies[c][i].id <= n

IdsKept ==
    /\ file # Missing => Numbered(file, added)
    /\ running # Missing => Numbered(running, added)
    /\ \A r \in Procs : proc[r].snap # Missing => Numbered(proc[r].snap, added)

\* The rules of users that a chain has, and those it is to have for a set of
\* policies and the interfaces v.
RuleOf(v, c, hs) ==
    Rule("user", {<<h, v[h]>> : h \in hs}, IF c = "RAIND-NS-OBS" THEN "DROP" ELSE "ACCEPT")

Of(s) == {rule \in ToSet(s) : rule.on = "user"}

RulesOf(v, c, D) == {RuleOf(v, c, p.hosts) : p \in {x \in D : x.Status = "applied"}}

AtHead(s) == \A i, j \in DOMAIN s : s[i].on = "user" /\ s[j].on # "user" => i < j

Decided(D) == \A p \in D : p.Status \in {"applied", "unresolved"}

Matching(s, v, c, D) == Of(s) = RulesOf(v, c, D) /\ AtHead(s) /\ Decided(D)

Fits(ch, v, x) == \A c \in UserChain : Matching(ch[c], v, c, ToSet(x.Policies[c]))

\* The last commit, if there was one after the last failure, fits the policy x.
Kept(x) == last = "commit" /\ x # Missing => Fits(chains, veth, x)

\* The policies that a request has dealt with: in the chains before the one in
\* hand all, in the one in hand those that are no longer to do.
Dealt(q, i, S) ==
    IF i < q.chain THEN S
    ELSE IF i > q.chain \/ q.step = "list" THEN {}
    ELSE (S \ ToSet(q.todo))
           \cup IF q.step = "applied" THEN {[Head(q.todo) EXCEPT !.Status = "applied"]} ELSE {}

Written(ch, v, np, q) ==
    \A i \in 1..3 :
        Matching(ch[UserChains[i]], v, UserChains[i], Dealt(q, i, ToSet(np.Policies[UserChains[i]])))

InHand(np, q) == UniqueIds(q.todo) /\ ToSet(q.todo) \subseteq ToSet(np.Policies[UserChains[q.chain]])

\* The chains that have been flushed have no rule of a user, after k commands.
Flushed(ch, k) ==
    /\ k >= 2 => Of(ch["RAIND-EW"]) = {}
    /\ k >= 3 => Of(ch["RAIND-NS-OBS"]) = {}
    /\ k >= 4 => Of(ch["RAIND-NS-ENF"]) = {}

\* What a request that no other has overlapped can rely on, by its step.
Fair(r) ==
    LET q == proc[r] IN
    /\ q.step \in {"set mode", "rename", "restore"} => Kept(running)
    /\ q.step \in {"fix", "fixed", "networks", "enforce", "build"} => q.chain = 1
    /\ q.step = "build" => Flushed(chains, (12 + 2 * Len(networks)) - Len(q.todo))
    /\ q.step \in {"list", "policy", "applied"} /\ q.complete => Written(chains, veth, loadOrInit, q)
    /\ q.step \in {"policy", "applied"} /\ q.complete => InHand(loadOrInit, q)
    /\ q.step = "backup" /\ q.kind # "revert" /\ q.complete => Fits(chains, veth, loadOrInit)
    /\ q.step = "copy" /\ q.kind # "revert" /\ q.complete => Fits(chains, veth, q.snap)
    /\ q.step = "backup" /\ q.kind = "revert" => Kept(file)
    /\ q.step = "copy" /\ q.kind = "revert" => Kept(q.snap)

RulesInv ==
    /\ Busy = {} => Kept(running)
    /\ \A r \in Busy : r \notin shared => Fair(r)

-----------------------------------------------------------------------------
\* Marking and removing an entry of a list of policies.
Replaced(s, t, h, u) ==
    /\ Len(t) = Len(s)
    /\ \A i \in 1..Len(s) : (s[i].id = h.id => t[i] = u) /\ (s[i].id # h.id => t[i] = s[i])

LEMMA UpdateSet ==
    ASSUME NEW s \in Seq(PolicyEntry), UniqueIds(s), NEW h \in ToSet(s), NEW u, NEW t \in Seq(PolicyEntry),
           Replaced(s, t, h, u)
    PROVE  ToSet(t) = (ToSet(s) \ {h}) \cup {u}
  <1>1. /\ Len(s) \in Nat /\ DOMAIN s = 1..Len(s) /\ \A i \in 1..Len(s) : s[i] \in PolicyEntry
        /\ \A x : x \in ToSet(s) <=> \E i \in 1..Len(s) : s[i] = x
    BY InToSet
  <1>3. \A x : x \in ToSet(t) <=> \E i \in 1..Len(s) : t[i] = x
    BY InToSet DEF Replaced
  <1>4. PICK m \in 1..Len(s) : s[m] = h
    BY <1>1
  <1>5. \A i \in 1..Len(s) : s[i].id = h.id => i = m
    BY <1>1, <1>4 DEF UniqueIds
  <1>6. t[m] = u /\ \A i \in 1..Len(s) : i # m => t[i] = s[i] /\ s[i] # h
    BY <1>1, <1>4, <1>5 DEF Replaced
  <1>7. ASSUME NEW x \in ToSet(t) PROVE x = u \/ (x \in ToSet(s) /\ x # h)
    BY <1>1, <1>3, <1>6
  <1>8. ASSUME NEW x \in ToSet(s), x # h PROVE x \in ToSet(t)
    BY <1>1, <1>3, <1>4, <1>6, <1>8
  <1>9. u \in ToSet(t)
    BY <1>3, <1>4, <1>6
  <1> QED
    BY <1>7, <1>8, <1>9

LEMMA SubSeqIs ==
    ASSUME NEW S, NEW s \in Seq(S), NEW p \in 1..(Len(s) + 1), NEW q \in 0..Len(s), p - 1 <= q
    PROVE  /\ SubSeq(s, p, q) \in Seq(S) /\ Len(SubSeq(s, p, q)) = (q + 1) - p
           /\ \A i \in 1..((q + 1) - p) : SubSeq(s, p, q)[i] = s[(p + i) - 1]
  <1>1. Len(s) \in Nat /\ p \in Nat /\ q \in Nat /\ (q + 1) - p \in Nat
    OBVIOUS
  <1>2. CASE p <= q
    BY <1>1, <1>2
  <1>3. CASE q < p
    BY <1>1, <1>3
  <1> QED
    BY <1>1, <1>2, <1>3

LEMMA RemoveAtIs ==
    ASSUME NEW S, NEW s \in Seq(S), NEW m \in 1..Len(s)
    PROVE  LET t == RemoveAt(s, m)
           IN  /\ t \in Seq(S) /\ Len(s) \in Nat /\ Len(t) = Len(s) - 1
               /\ \A i \in 1..Len(t) : t[i] = s[IF i < m THEN i ELSE i + 1]
  <1> DEFINE l == Len(s)
             a == m - 1
             b == l - m
             u == SubSeq(s, 1, m - 1)
             v == SubSeq(s, m + 1, l)
             t == RemoveAt(s, m)
  <1>1. l \in Nat /\ m \in Nat /\ a \in Nat /\ b \in Nat /\ a + b = l - 1 /\ m <= l
    OBVIOUS
  <1>2. u \in Seq(S) /\ Len(u) = a /\ \A i \in 1..a : u[i] = s[i]
    <2>1. 1 \in 1..(l + 1) /\ a \in 0..l /\ 1 - 1 <= a /\ (a + 1) - 1 = a /\ \A i \in 1..a : (1 + i) - 1 = i
      BY <1>1
    <2>2. /\ SubSeq(s, 1, a) \in Seq(S) /\ Len(SubSeq(s, 1, a)) = (a + 1) - 1
          /\ \A i \in 1..((a + 1) - 1) : SubSeq(s, 1, a)[i] = s[(1 + i) - 1]
      <3> HIDE DEF a
      <3> QED
        BY <2>1, SubSeqIs
    <2> HIDE DEF a
    <2> QED
      BY <2>1, <2>2 DEF a
  <1>3. v \in Seq(S) /\ Len(v) = b /\ \A i \in 1..b : v[i] = s[m + i]
    <2> DEFINE p == m + 1
    <2>1. p \in 1..(l + 1) /\ l \in 0..l /\ p - 1 <= l /\ (l + 1) - p = b /\ \A i \in 1..b : (p + i) - 1 = m + i
      BY <1>1
    <2> HIDE DEF p, b
    <2>2. /\ SubSeq(s, p, l) \in Seq(S) /\ Len(SubSeq(s, p, l)) = (l + 1) - p
          /\ \A i \in 1..((l + 1) - p) : SubSeq(s, p, l)[i] = s[(p + i) - 1]
      BY <2>1, SubSeqIs
    <2> QED
      BY <2>1, <2>2 DEF p
  <1>4. t = u \o v
    BY DEF RemoveAt
  <1> HIDE DEF u, v, t, a, b
  <1>5. /\ t \in Seq(S) /\ Len(t) = a + b
        /\ \A i \in 1..a : t[i] = u[i]
        /\ \A i \in 1..b : t[a + i] = v[i]
    <2>1. u \in Seq(S) /\ v \in Seq(S) /\ Len(u) = a /\ Len(v) = b
      BY <1>2, <1>3
    <2> HIDE DEF l
    <2> QED
      <3>1. /\ u \o v \in Seq(S) /\ Len(u \o v) = a + b
            /\ \A i \in 1..a : (u \o v)[i] = u[i]
            /\ \A i \in 1..b : (u \o v)[a + i] = v[i]
        BY <2>1, ConcatLengths
      <3> QED
        BY <1>4, <3>1
  <1>6. Len(t) = l - 1
    BY <1>1, <1>5
  <1>7. ASSUME NEW i \in 1..Len(t) PROVE t[i] = s[IF i < m THEN i ELSE i + 1]
    <2>1. CASE i < m
      <3>1. i \in 1..a
        BY <1>1, <1>6, <2>1 DEF a
      <3> QED
        BY <1>2, <1>5, <2>1, <3>1
    <2>2. CASE ~(i < m)
      <3> DEFINE j == i - a
      <3>1. j \in 1..b /\ i = a + j /\ m + j = i + 1
        BY <1>1, <1>6, <2>2 DEF a, b
      <3> HIDE DEF j
      <3>2. t[i] = v[j] /\ v[j] = s[m + j]
        BY <1>3, <1>5, <3>1
      <3> QED
        BY <2>2, <3>1, <3>2
    <2> QED
      BY <2>1, <2>2
  <1> QED
    BY <1>1, <1>5, <1>6, <1>7 DEF t

LEMMA RemoveSet ==
    ASSUME NEW s \in Seq(PolicyEntry), UniqueIds(s), NEW m \in 1..Len(s), NEW t, t = RemoveAt(s, m)
    PROVE  /\ t \in Seq(PolicyEntry) /\ UniqueIds(t) /\ ToSet(t) = ToSet(s) \ {s[m]}
           /\ \A i \in DOMAIN t : \E j \in DOMAIN s : t[i] = s[j]
  <1>1. /\ t \in Seq(PolicyEntry) /\ Len(s) \in Nat /\ Len(t) = Len(s) - 1
        /\ \A i \in 1..Len(t) : t[i] = s[IF i < m THEN i ELSE i + 1]
    BY RemoveAtIs
  <1>2. /\ DOMAIN s = 1..Len(s) /\ DOMAIN t = 1..Len(t)
        /\ \A x : x \in ToSet(s) <=> \E i \in 1..Len(s) : s[i] = x
        /\ \A x : x \in ToSet(t) <=> \E i \in 1..Len(t) : t[i] = x
    BY <1>1, InToSet
  <1> DEFINE f(i) == IF i < m THEN i ELSE i + 1
             g(i) == IF i < m THEN i ELSE i - 1
  <1>3. /\ \A i \in 1..Len(t) : f(i) \in 1..Len(s) /\ f(i) # m /\ t[i] = s[f(i)]
        /\ \A i, j \in 1..Len(t) : f(i) = f(j) => i = j
        /\ \A i \in 1..Len(s) : i # m => g(i) \in 1..Len(t) /\ f(g(i)) = i
    BY <1>1
  <1> HIDE DEF f, g
  <1>4. UniqueIds(t)
    BY <1>2, <1>3 DEF UniqueIds
  <1>5. ASSUME NEW x \in ToSet(t) PROVE x \in ToSet(s) \ {s[m]}
    <2>1. PICK i \in 1..Len(t) : t[i] = x
      BY <1>2
    <2>2. x = s[f(i)] /\ f(i) \in 1..Len(s) /\ f(i) # m
      BY <1>3, <2>1
    <2>3. s[f(i)] # s[m]
      BY <1>2, <2>2 DEF UniqueIds
    <2> QED
      BY <1>2, <2>2, <2>3
  <1>6. ASSUME NEW x \in ToSet(s) \ {s[m]} PROVE x \in ToSet(t)
    <2>1. PICK i \in 1..Len(s) : s[i] = x
      BY <1>2
    <2>2. i # m
      BY <2>1
    <2>3. g(i) \in 1..Len(t) /\ t[g(i)] = x
      BY <1>3, <2>1, <2>2
    <2> QED
      BY <1>2, <2>3
  <1> QED
    BY <1>1, <1>2, <1>3, <1>4, <1>5, <1>6

\* What is left to do once the first policy in hand is dealt with.
LEMMA TailSet ==
    ASSUME NEW s \in Seq(PolicyEntry), s # <<>>, UniqueIds(s)
    PROVE  Head(s) \in ToSet(s) /\ UniqueIds(Tail(s)) /\ ToSet(Tail(s)) = ToSet(s) \ {Head(s)}
  <1> DEFINE h == Head(s)
             t == Tail(s)
  <1>1. /\ t \in Seq(PolicyEntry) /\ Len(s) \in Nat \ {0} /\ Len(t) = Len(s) - 1
        /\ h = s[1] /\ \A i \in 1..(Len(s) - 1) : t[i] = s[i + 1]
    BY SeqHeadTail
  <1> HIDE DEF h, t
  <1>2. /\ DOMAIN s = 1..Len(s) /\ DOMAIN t = 1..Len(t)
        /\ \A x : x \in ToSet(s) <=> \E i \in 1..Len(s) : s[i] = x
        /\ \A x : x \in ToSet(t) <=> \E i \in 1..Len(t) : t[i] = x
    BY <1>1, InToSet
  <1>3. /\ \A i \in 1..Len(t) : i + 1 \in 1..Len(s) /\ i + 1 # 1 /\ t[i] = s[i + 1]
        /\ \A i, j \in 1..Len(t) : i + 1 = j + 1 => i = j
        /\ \A i \in 1..Len(s) : i # 1 => i - 1 \in 1..Len(t) /\ (i - 1) + 1 = i
        /\ 1 \in 1..Len(s)
    BY <1>1
  <1>4. UniqueIds(t)
    BY <1>2, <1>3 DEF UniqueIds
  <1>5. ASSUME NEW x \in ToSet(t) PROVE x \in ToSet(s) \ {h}
    <2>1. PICK i \in 1..Len(t) : t[i] = x
      BY <1>2
    <2>2. x = s[i + 1] /\ i + 1 \in 1..Len(s) /\ i + 1 # 1
      BY <1>3, <2>1
    <2>3. s[i + 1] # s[1]
      BY <1>2, <1>3, <2>2 DEF UniqueIds
    <2> QED
      BY <1>1, <1>2, <2>2, <2>3
  <1>6. ASSUME NEW x \in ToSet(s) \ {h} PROVE x \in ToSet(t)
    <2>1. PICK i \in 1..Len(s) : s[i] = x
      BY <1>2
    <2>2. i # 1
      BY <1>1, <2>1
    <2>3. i - 1 \in 1..Len(t) /\ t[i - 1] = x
      BY <1>3, <2>1, <2>2
    <2> QED
      BY <1>2, <2>3
  <1>7. h \in ToSet(s)
    BY <1>1, <1>2, <1>3
  <1> QED
    BY <1>4, <1>5, <1>6, <1>7 DEF h, t

\* The policy file after each operation on it.
LEMMA PoliciesAre ==
    ASSUME NEW f \in File, NEW c \in UserChain, NEW t \in Seq(PolicyEntry)
    PROVE  /\ [f EXCEPT !.Policies[c] = t] \in File /\ [f EXCEPT !.Policies[c] = t] # Missing
           /\ [f EXCEPT !.Policies[c] = t].Policies[c] = t
           /\ \A d \in UserChain : d # c => [f EXCEPT !.Policies[c] = t].Policies[d] = f.Policies[d]
  <1>1. [f EXCEPT !.Policies[c] = t] \in File
    BY PoliciesType
  <1>2. /\ [f EXCEPT !.Policies[c] = t].Policies[c] = t
        /\ \A d \in UserChain : d # c => [f EXCEPT !.Policies[c] = t].Policies[d] = f.Policies[d]
    BY DEF File
  <1> QED
    BY <1>1, <1>2, MissingAssumption

LEMMA EntryIs == \A p \in PolicyEntry : p.id \in Nat
  BY PolicyAssumption DEF PolicyEntry

LEMMA FileIs == ASSUME NEW f \in File, NEW c \in UserChain PROVE f.Policies[c] \in Seq(PolicyEntry)
  BY DEF File

LEMMA UpdateStatusIs ==
    ASSUME TypeOK, NEW c \in UserChain, NEW id, NEW status \in Statuses, UpdateStatus(c, id, status)
    PROVE  LET s == loadOrInit.Policies[c]
               t == file'.Policies[c]
           IN  /\ file' \in File /\ file' # Missing /\ s \in Seq(PolicyEntry) /\ t \in Seq(PolicyEntry) /\ Len(t) = Len(s)
               /\ DOMAIN t = DOMAIN s /\ \A i \in DOMAIN s : t[i].id = s[i].id
               /\ \A i \in 1..Len(s) : t[i] = IF s[i].id = id THEN [s[i] EXCEPT !.Status = status] ELSE s[i]
               /\ UniqueIds(s) => UniqueIds(t)
               /\ \A d \in UserChain : d # c => file'.Policies[d] = loadOrInit.Policies[d]
  <1> DEFINE s == loadOrInit.Policies[c]
             t == [i \in DOMAIN s |-> IF s[i].id = id THEN [s[i] EXCEPT !.Status = status] ELSE s[i]]
  <1>1. loadOrInit \in File
    BY LoadType
  <1>2. s \in Seq(PolicyEntry)
    BY <1>1, FileIs
  <1>3. file' = [loadOrInit EXCEPT !.Policies[c] = t]
    BY Zenon DEF UpdateStatus
  <1>4. /\ t \in Seq(PolicyEntry) /\ Len(t) = Len(s) /\ DOMAIN t = DOMAIN s
        /\ \A i \in DOMAIN s : t[i].id = s[i].id
        /\ \A i \in 1..Len(s) : t[i] = IF s[i].id = id THEN [s[i] EXCEPT !.Status = status] ELSE s[i]
        /\ UniqueIds(s) => UniqueIds(t)
    <2> HIDE DEF s
    <2>1. Len(s) \in Nat /\ DOMAIN s = 1..Len(s) /\ \A i \in 1..Len(s) : s[i] \in PolicyEntry
      BY <1>2
    <2>2. \A i \in 1..Len(s) :
             /\ [s[i] EXCEPT !.Status = status] \in PolicyEntry
             /\ [s[i] EXCEPT !.Status = status].id = s[i].id
      BY <2>1 DEF PolicyEntry
    <2>3. t \in [1..Len(s) -> PolicyEntry]
      BY <2>1, <2>2
    <2>4. t \in Seq(PolicyEntry) /\ Len(t) = Len(s) /\ DOMAIN t = DOMAIN s
      BY <2>1, <2>3
    <2>5. \A i \in DOMAIN s : t[i].id = s[i].id
      BY <2>1, <2>2
    <2>6. \A i \in 1..Len(s) : t[i] = IF s[i].id = id THEN [s[i] EXCEPT !.Status = status] ELSE s[i]
      BY <2>1
    <2> HIDE DEF t
    <2> QED
      BY <2>4, <2>5, <2>6 DEF UniqueIds
  <1> HIDE DEF t
  <1>5. /\ file' \in File /\ file' # Missing /\ file'.Policies[c] = t
        /\ \A d \in UserChain : d # c => file'.Policies[d] = loadOrInit.Policies[d]
    BY <1>1, <1>3, <1>4, PoliciesAre
  <1> QED
    BY <1>2, <1>4, <1>5, Zenon

LEMMA RemovePolicyIs ==
    ASSUME TypeOK, NEW c \in UserChain, NEW id, RemovePolicy(c, id), HasPolicy(loadOrInit, c, id)
    PROVE  LET s == loadOrInit.Policies[c]
           IN  /\ file' \in File /\ file' # Missing /\ s \in Seq(PolicyEntry)
               /\ \E m \in 1..Len(s) : s[m].id = id /\ file'.Policies[c] = RemoveAt(s, m)
               /\ \A d \in UserChain : d # c => file'.Policies[d] = loadOrInit.Policies[d]
  <1> DEFINE s == loadOrInit.Policies[c]
             I == {i \in 1..Len(s) : s[i].id = id}
             t == RemoveAt(s, Min(I))
  <1>1. loadOrInit \in File
    BY LoadType
  <1>2. s \in Seq(PolicyEntry)
    BY <1>1, FileIs
  <1>3. \E i \in 1..Len(s) : s[i].id = id
    <2>1. \E i \in DOMAIN s : s[i].id = id
      BY Zenon DEF HasPolicy
    <2> HIDE DEF s
    <2> QED
      BY <1>2, <2>1
  <1>4. I # {} /\ I \subseteq Nat
    BY <1>3
  <1>5. file' = [loadOrInit EXCEPT !.Policies[c] = t]
    <2>1. file' = [loadOrInit EXCEPT !.Policies[c] =
                      IF \E i \in 1..Len(s) : s[i].id = id THEN RemoveAt(s, IF I # {} THEN Min(I) ELSE 0) ELSE s]
      BY Zenon DEF RemovePolicy, RemoveFirstMatch, SelectInSeq
    <2> HIDE DEF I, s
    <2> QED
      BY <1>3, <1>4, <2>1, Zenon
  <1>6. Min(I) \in 1..Len(s) /\ s[Min(I)].id = id
    <2>1. Min(I) \in I
      <3> HIDE DEF I
      <3> QED
        BY <1>4, LeastNumber
    <2> QED
      BY <2>1
  <1>7. t \in Seq(PolicyEntry)
    <2> HIDE DEF I, s
    <2> QED
      BY <1>2, <1>6, RemoveAtType
  <1>8. /\ file' \in File /\ file' # Missing /\ file'.Policies[c] = t
        /\ \A d \in UserChain : d # c => file'.Policies[d] = loadOrInit.Policies[d]
    <2> HIDE DEF t
    <2> QED
      BY <1>1, <1>5, <1>7, PoliciesAre
  <1> HIDE DEF I
  <1> QED
    BY <1>2, <1>6, <1>8, Zenon

LEMMA AddPolicyIs ==
    ASSUME TypeOK, NEW c \in UserChain, NEW p \in PolicyEntry, AddPolicy(c, p)
    PROVE  /\ file' \in File /\ file' # Missing /\ loadOrInit.Policies[c] \in Seq(PolicyEntry)
           /\ file'.Policies[c] = Append(loadOrInit.Policies[c], p)
           /\ \A d \in UserChain : d # c => file'.Policies[d] = loadOrInit.Policies[d]
  <1> DEFINE s == loadOrInit.Policies[c]
             t == Append(s, p)
  <1>1. loadOrInit \in File
    BY LoadType
  <1>2. s \in Seq(PolicyEntry)
    BY <1>1, FileIs
  <1>3. t \in Seq(PolicyEntry)
    <2> HIDE DEF s
    <2> QED
      BY <1>2, AppendType
  <1>4. file' = [loadOrInit EXCEPT !.Policies[c] = t]
    BY Zenon DEF AddPolicy
  <1> HIDE DEF t
  <1>5. /\ file' \in File /\ file' # Missing /\ file'.Policies[c] = t
        /\ \A d \in UserChain : d # c => file'.Policies[d] = loadOrInit.Policies[d]
    BY <1>1, <1>3, <1>4, PoliciesAre
  <1> QED
    BY <1>2, <1>5 DEF t

LEMMA SetModeIs ==
    ASSUME NEW f \in File, NEW m \in AllModes
    PROVE  [f EXCEPT !.Mode = m] \in File /\ [f EXCEPT !.Mode = m].Policies = f.Policies
  BY DEF File

-----------------------------------------------------------------------------
\* Numbers are given out once.
LEMMA NumberedPolicies ==
    ASSUME NEW f, NEW g, NEW n, Numbered(f, n), \A d \in UserChain : g.Policies[d] = f.Policies[d]
    PROVE  Numbered(g, n)
  BY DEF Numbered

LEMMA NumberedMore ==
    ASSUME NEW f \in File, NEW n \in Nat, NEW m \in Nat, n <= m, Numbered(f, n)
    PROVE  Numbered(f, m)
  <1> SUFFICES ASSUME NEW c \in UserChain
               PROVE  UniqueIds(f.Policies[c]) /\ \A i \in DOMAIN f.Policies[c] : f.Policies[c][i].id <= m
    BY DEF Numbered
  <1> DEFINE s == f.Policies[c]
  <1>1. s \in Seq(PolicyEntry) /\ UniqueIds(s) /\ \A i \in DOMAIN s : s[i].id <= n
    BY FileIs DEF Numbered
  <1> HIDE DEF s
  <1>2. \A i \in DOMAIN s : s[i].id \in Nat
    BY <1>1, EntryIs
  <1>3. \A i \in DOMAIN s : s[i].id <= m
    BY <1>1, <1>2
  <1> QED
    BY <1>1, <1>3 DEF s

LEMMA DefaultNumbered == \A n : Numbered(Default, n)
  <1>1. \A c \in UserChain : Default.Policies[c] = <<>>
    BY DEF Default
  <1>2. DOMAIN <<>> = {}
    OBVIOUS
  <1> QED
    BY <1>1, <1>2 DEF Numbered, UniqueIds

LEMMA LoadNumbered == IdsKept => Numbered(loadOrInit, added)
  BY DefaultNumbered DEF IdsKept, loadOrInit

LEMMA AppendNumbered ==
    ASSUME NEW s \in Seq(PolicyEntry), NEW p \in PolicyEntry, NEW n \in Nat, p.id = n + 1, UniqueIds(s),
           \A i \in DOMAIN s : s[i].id <= n
    PROVE  UniqueIds(Append(s, p)) /\ \A i \in DOMAIN Append(s, p) : Append(s, p)[i].id <= n + 1
  <1> DEFINE t == Append(s, p)
             l == Len(s)
  <1>1. /\ t \in Seq(PolicyEntry) /\ Len(t) = l + 1 /\ t[l + 1] = p
        /\ \A i \in 1..l : t[i] = s[i]
    BY AppendType
  <1> HIDE DEF t
  <1>2. l \in Nat /\ DOMAIN s = 1..l /\ \A i \in 1..l : s[i] \in PolicyEntry
    OBVIOUS
  <1> HIDE DEF l
  <1>3. DOMAIN t = 1..(l + 1)
    BY <1>1
  <1>4. \A i \in 1..l : t[i].id \in Nat /\ t[i].id <= n
    BY <1>1, <1>2, EntryIs
  <1>5. \A i \in 1..(l + 1) : i \in 1..l \/ i = l + 1
    BY <1>2
  <1>6. \A i \in 1..(l + 1) : t[i].id <= n + 1
    BY <1>1, <1>4, <1>5
  <1>7. \A i \in 1..l : t[i].id # n + 1
    BY <1>4
  <1>8. \A i, j \in 1..l : t[i].id = t[j].id => i = j
    BY <1>1, <1>2 DEF UniqueIds
  <1>9. UniqueIds(t)
    BY <1>1, <1>3, <1>5, <1>7, <1>8 DEF UniqueIds
  <1> QED
    BY <1>3, <1>6, <1>9 DEF t

LEMMA MarkNumbered ==
    ASSUME TypeOK, IdsKept, NEW c \in UserChain, NEW id,
           \/ \E st \in Statuses : UpdateStatus(c, id, st)
           \/ RemovePolicy(c, id) /\ HasPolicy(loadOrInit, c, id)
    PROVE  Numbered(file', added)
  <1> DEFINE s == loadOrInit.Policies[c]
             t == file'.Policies[c]
  <1>1. Numbered(loadOrInit, added)
    BY LoadNumbered
  <1>2. UniqueIds(s) /\ \A i \in DOMAIN s : s[i].id <= added
    BY <1>1 DEF Numbered
  <1>3. \A d \in UserChain : d # c => file'.Policies[d] = loadOrInit.Policies[d]
    BY UpdateStatusIs, RemovePolicyIs
  <1>4. UniqueIds(t) /\ \A i \in DOMAIN t : t[i].id <= added
    <2>1. CASE \E st \in Statuses : UpdateStatus(c, id, st)
      <3>1. PICK st \in Statuses : UpdateStatus(c, id, st)
        BY <2>1
      <3>2. DOMAIN t = DOMAIN s /\ (\A i \in DOMAIN s : t[i].id = s[i].id) /\ (UniqueIds(s) => UniqueIds(t))
        BY <3>1, UpdateStatusIs
      <3> HIDE DEF s, t
      <3> QED
        BY <1>2, <3>2
    <2>2. CASE RemovePolicy(c, id) /\ HasPolicy(loadOrInit, c, id)
      <3>1. s \in Seq(PolicyEntry) /\ \E m \in 1..Len(s) : t = RemoveAt(s, m)
        BY <2>2, RemovePolicyIs
      <3> HIDE DEF s, t
      <3>2. PICK m \in 1..Len(s) : t = RemoveAt(s, m)
        BY <3>1
      <3>3. UniqueIds(t) /\ \A i \in DOMAIN t : \E j \in DOMAIN s : t[i] = s[j]
        BY <1>2, <3>1, <3>2, RemoveSet
      <3> QED
        BY <1>2, <3>3
    <2> QED
      BY <2>1, <2>2
  <1> QED
    BY <1>1, <1>3, <1>4 DEF Numbered

LEMMA ModeNumbered ==
    ASSUME TypeOK, IdsKept, NEW m \in AllModes, file' = [loadOrInit EXCEPT !.Mode = m]
    PROVE  Numbered(file', added)
  <1>1. Numbered(loadOrInit, added) /\ loadOrInit \in File
    BY LoadNumbered, LoadType
  <1>2. file'.Policies = loadOrInit.Policies
    BY <1>1, SetModeIs
  <1> QED
    BY <1>1, <1>2 DEF Numbered

LEMMA IdsStep ==
    ASSUME TypeInv, TypeInv', IdsKept, added <= added', file' # Missing => Numbered(file', added'),
           \/ running' \in {running, Missing, file'}
           \/ \E r \in Procs : running' = proc[r].snap,
           \A o \in Procs : proc'[o].snap \in {proc[o].snap, Missing, file}
    PROVE  IdsKept'
  <1>1. ProcTyped /\ RestTyped /\ added \in Nat /\ added' \in Nat
    BY TypeParts, PolicyAssumption DEF RestTyped, TypeInv, TypeOK
  <1>2. ASSUME NEW f \in File \cup {Missing}, f # Missing => Numbered(f, added)
        PROVE  f # Missing => Numbered(f, added')
    <2>1. \A a, b \in Nat : a <= b => (f # Missing => (Numbered(f, a) => Numbered(f, b)))
      BY <1>2, NumberedMore
    <2> QED
      BY <1>1, <1>2, <2>1
  <1>3. running # Missing => Numbered(running, added')
    BY <1>1, <1>2 DEF IdsKept, RestTyped
  <1>4. file # Missing => Numbered(file, added')
    BY <1>1, <1>2 DEF IdsKept, RestTyped
  <1>5. \A r \in Procs : proc[r].snap # Missing => Numbered(proc[r].snap, added')
    BY <1>1, <1>2, RecordIs DEF IdsKept
  <1>6. running' # Missing => Numbered(running', added')
    BY <1>3, <1>5
  <1>7. \A o \in Procs : proc'[o].snap # Missing => Numbered(proc'[o].snap, added')
    BY <1>4, <1>5
  <1> QED
    BY <1>6, <1>7 DEF IdsKept

\* A step of a request opens the file or keeps what it has opened.
LEMMA StopSnaps ==
    ASSUME ProcTyped, NEW r \in Procs, proc' = [proc EXCEPT ![r] = Idle]
    PROVE  \A o \in Procs : proc'[o].snap \in {proc[o].snap, Missing, file}
  <1>1. Only(r) /\ proc'[r] = Idle
    BY StopIs
  <1>2. Idle.snap = Missing
    BY DEF Idle
  <1> QED
    BY <1>1, <1>2 DEF Only

LEMMA KeepsSnaps ==
    ASSUME NEW r \in Procs, Only(r), NEW F, Keeps(r, F), "snap" \notin F
    PROVE  \A o \in Procs : proc'[o].snap \in {proc[o].snap, Missing, file}
  BY DEF Only, Keeps, Fields

LEMMA StepSnaps ==
    ASSUME TypeInv, NEW r \in Procs, Step(r)
    PROVE  \A o \in Procs : proc'[o].snap \in {proc[o].snap, Missing, file}
  <1>0. ProcTyped /\ RestTyped
    BY TypeParts
  <1>1. CASE ReadNSMode(r)
    BY <1>0, <1>1, ReadNSModeIs, KeepsSnaps
  <1>2. CASE FixNSMode(r)
    BY <1>0, <1>2, FixNSModeIs, KeepsSnaps
  <1>3. CASE ReadNetworks(r)
    BY <1>0, <1>3, ReadNetworksIs, KeepsSnaps
  <1>4. CASE ReadEnforce(r)
    BY <1>0, <1>4, ReadEnforceIs, KeepsSnaps
  <1>5. CASE RunCommand(r)
    BY <1>0, <1>5, RunCommandIs, KeepsSnaps
  <1>6. CASE CommandFails(r)
    BY <1>0, <1>6, StopSnaps DEF CommandFails
  <1>7. CASE ListPolicies(r)
    BY <1>7, ListPoliciesIs, KeepsSnaps
  <1>8. CASE RemoveFlagged(r) \/ MarkUnresolved(r) \/ MarkApplied(r)
    BY <1>8, MarkingIs, KeepsSnaps
  <1>9. CASE InsertUserPolicy(r)
    <2>1. Only(r) /\ Keeps(r, {"step"})
      BY <1>0, <1>9, GotoIs DEF InsertUserPolicy, Steps
    <2> QED
      BY <2>1, KeepsSnaps
  <1>10. CASE InsertFails(r)
    BY <1>0, <1>10, InsertFailsIs, KeepsSnaps
  <1>11. CASE ChainDone(r)
    <2>1. CASE proc[r].chain < Len(UserChains) /\ proc' = [proc EXCEPT ![r].step = "list", ![r].chain = @ + 1]
      BY <1>0, <2>1, NextChainIs, KeepsSnaps
    <2>2. CASE Goto(r, "backup")
      <3>1. Only(r) /\ Keeps(r, {"step"})
        BY <1>0, <2>2, GotoIs DEF Steps
      <3> QED
        BY <3>1, KeepsSnaps
    <2>3. CASE proc' = [proc EXCEPT ![r] = Idle]
      BY <1>0, <2>3, StopSnaps
    <2> QED
      BY <1>11, <2>1, <2>2, <2>3 DEF ChainDone
  <1>12. CASE OpenForBackup(r)
    <2>1. CASE proc' = [proc EXCEPT ![r].step = "copy", ![r].snap = file]
      <3>1. Only(r) /\ proc'[r].snap = file
        BY <1>0, <2>1, SnapIs
      <3> QED
        BY <3>1 DEF Only
    <2>2. CASE proc' = [proc EXCEPT ![r] = Idle]
      BY <1>0, <2>2, StopSnaps
    <2> QED
      BY <1>12, <2>1, <2>2 DEF OpenForBackup
  <1>13. CASE Backup(r)
    BY <1>0, <1>13, StopSnaps DEF Backup
  <1>14. CASE RenameAway(r) \/ Restore(r)
    <2>1. CASE Goto(r, "restore") \/ Goto(r, "backup")
      <3>1. Only(r) /\ Keeps(r, {"step"})
        BY <1>0, <2>1, GotoIs DEF Steps
      <3> QED
        BY <3>1, KeepsSnaps
    <2>2. CASE proc' = [proc EXCEPT ![r] = Idle]
      BY <1>0, <2>2, StopSnaps
    <2> QED
      BY <1>14, <2>1, <2>2 DEF RenameAway, Restore
  <1> QED
    BY <1>1, <1>2, <1>3, <1>4, <1>5, <1>6, <1>7, <1>8, <1>9, <1>10, <1>11, <1>12, <1>13, <1>14 DEF Step

LEMMA StepIds ==
    ASSUME TypeInv, TypeInv', IdsKept, NEW r \in Procs, Step(r)
    PROVE  IdsKept'
  <1>0. ProcTyped /\ RestTyped /\ TypeOK /\ added \in Nat
    BY TypeParts, PolicyAssumption DEF TypeInv, RestTyped
  <1>1. added' = added
    BY Zenon DEF Step, ReadNSMode, FixNSMode, ReadNetworks, ReadEnforce, RunCommand, CommandFails, ListPolicies, RemoveFlagged,
          MarkUnresolved, InsertUserPolicy, InsertFails, MarkApplied, ChainDone, OpenForBackup, Backup, RenameAway, Restore, bounds
  <1>2. running' \in {running, Missing} \/ running' = proc[r].snap
    BY Zenon DEF Step, ReadNSMode, FixNSMode, ReadNetworks, ReadEnforce, RunCommand, CommandFails, ListPolicies, RemoveFlagged,
          MarkUnresolved, InsertUserPolicy, InsertFails, MarkApplied, ChainDone, OpenForBackup, Backup, RenameAway, Restore, npm
  <1>3. file' # Missing => Numbered(file', added)
    <2>1. CASE FixNSMode(r)
      <3>1. proc[r].mode \in AllModes
        BY <1>0, RecordIs, ModeNames
      <3> QED
        BY <1>0, <2>1, <3>1, ModeNumbered DEF FixNSMode
    <2>2. CASE RemoveFlagged(r) \/ MarkUnresolved(r) \/ MarkApplied(r)
      <3> DEFINE c == HeadChain(r)
                 id == Head(proc[r].todo).id
      <3>1. c \in UserChain
        BY <1>0, RecordIs, ChainNames DEF HeadChain
      <3>2. \/ RemovePolicy(c, id) /\ HasPolicy(loadOrInit, c, id)
            \/ UpdateStatus(c, id, "unresolved") \/ UpdateStatus(c, id, "applied")
            \/ file' = file
        BY <2>2, Zenon DEF RemoveFlagged, MarkUnresolved, MarkApplied
      <3> HIDE DEF c, id
      <3>3. "unresolved" \in Statuses /\ "applied" \in Statuses
        BY DEF Statuses
      <3> QED
        BY <1>0, <3>1, <3>2, <3>3, MarkNumbered DEF IdsKept
    <2>3. CASE RenameAway(r)
      BY <2>3 DEF RenameAway
    <2>4. CASE Restore(r)
      BY <2>4 DEF Restore, IdsKept, npm
    <2>5. CASE file' = file
      BY <2>5 DEF IdsKept
    <2> QED
      BY <2>1, <2>2, <2>3, <2>4, <2>5 DEF Step, ReadNSMode, ReadNetworks, ReadEnforce, RunCommand, CommandFails, ListPolicies,
          InsertUserPolicy, InsertFails, ChainDone, OpenForBackup, Backup, npm
  <1>4. \A o \in Procs : proc'[o].snap \in {proc[o].snap, Missing, file}
    BY StepSnaps
  <1>5. added <= added'
    BY <1>0, <1>1
  <1> QED
    BY <1>1, <1>2, <1>3, <1>4, <1>5, IdsStep

LEMMA RequestIds ==
    ASSUME TypeInv, TypeInv', IdsKept, NEW r \in Procs, Request(r)
    PROVE  IdsKept'
  <1>0. ProcTyped /\ RestTyped /\ TypeOK /\ added \in Nat /\ added <= added
    BY TypeParts, PolicyAssumption DEF TypeInv, RestTyped
  <1>1. CASE SetNSMode(r)
    <2>1. added' = added /\ running' = running /\ proc' = [proc EXCEPT ![r] = Idle]
      BY <1>1 DEF SetNSMode, bounds
    <2>2. Pending(proc[r].mode) \in AllModes
      BY <1>0, RecordIs, ModeNames
    <2>3. Numbered(file', added)
      BY <1>0, <1>1, <2>2, ModeNumbered DEF SetNSMode
    <2>4. \A o \in Procs : proc'[o].snap \in {proc[o].snap, Missing, file}
      BY <1>0, <2>1, StopSnaps
    <2> QED
      BY <1>0, <2>1, <2>3, <2>4, IdsStep
  <1>2. ASSUME NEW q \in Handler, proc' = [proc EXCEPT ![r] = q], q.snap = Missing, UNCHANGED <<npm, added>>
        PROVE  IdsKept'
    <2>1. Only(r) /\ proc'[r] = q
      BY <1>0, <1>2, OnlyIs
    <2>2. \A o \in Procs : proc'[o].snap \in {proc[o].snap, Missing, file}
      BY <1>2, <2>1 DEF Only
    <2>3. file' # Missing => Numbered(file', added')
      BY <1>2 DEF IdsKept, npm
    <2> QED
      BY <1>0, <1>2, <2>2, <2>3, IdsStep DEF npm
  <1>3. ASSUME NEW kind \in {"hook", "network", "commit", "revert"}, NEW step \in {"fix", "rename"},
               Begin(r, kind, step), UNCHANGED <<npm, added>>
        PROVE  IdsKept'
    <2> DEFINE q == [Idle EXCEPT !.kind = kind, !.step = step]
    <2>1. q \in Handler /\ q.snap = Missing
      BY IdleIs DEF Handler, Steps, Idle
    <2>2. proc' = [proc EXCEPT ![r] = q]
      BY <1>3 DEF Begin
    <2> HIDE DEF q
    <2> QED
      BY <1>2, <1>3, <2>1, <2>2
  <1>4. ASSUME NEW m \in Modes, ChangeNSMode(r, m) PROVE IdsKept'
    <2> DEFINE q == [Idle EXCEPT !.kind = "mode", !.step = "set mode", !.mode = m]
    <2>1. q \in Handler /\ q.snap = Missing
      BY IdleIs DEF Handler, Steps, Idle
    <2>2. proc' = [proc EXCEPT ![r] = q] /\ UNCHANGED <<npm, added>>
      BY <1>4 DEF ChangeNSMode
    <2> HIDE DEF q
    <2> QED
      BY <1>2, <2>1, <2>2
  <1>5. CASE CommitPolicy(r) \/ RevertPolicy(r)
    BY <1>3, <1>5 DEF CommitPolicy, RevertPolicy
  <1>6. ASSUME NEW h \in Hosts, HostChange(r, h) PROVE IdsKept'
    BY <1>3, <1>6 DEF HostChange
  <1>7. ASSUME NEW n \in Networks, NetworkChange(r, n) PROVE IdsKept'
    BY <1>3, <1>7 DEF NetworkChange
  <1> QED
    BY <1>1, <1>4, <1>5, <1>6, <1>7 DEF Request

LEMMA UserRequestIds ==
    ASSUME TypeInv, TypeInv', IdsKept,
           \/ \E c \in UserChain : \E hs \in Ends(c) : AddUserPolicy(c, hs)
           \/ \E id \in 1..MaxPolicies : RemoveUserPolicy(id)
    PROVE  IdsKept'
  <1>0. RestTyped /\ TypeOK /\ added \in Nat /\ added <= added + 1 /\ added <= added
    BY TypeParts, PolicyAssumption DEF TypeInv, RestTyped
  <1>1. ASSUME NEW c \in UserChain, NEW hs \in Ends(c), AddUserPolicy(c, hs) PROVE IdsKept'
    <2> DEFINE p == [id |-> added + 1, hosts |-> hs, Status |-> "before_commit"]
               s == loadOrInit.Policies[c]
    <2>1. added' = added + 1 /\ running' = running /\ proc' = proc /\ AddPolicy(c, p) /\ added < MaxPolicies
      BY <1>1 DEF AddUserPolicy
    <2>2. p \in PolicyEntry /\ p.id = added + 1
      BY <1>0, <2>1, PolicyAssumption DEF PolicyEntry, Ends, Statuses
    <2> HIDE DEF p
    <2>3. /\ s \in Seq(PolicyEntry)
          /\ file'.Policies[c] = Append(s, p)
          /\ \A d \in UserChain : d # c => file'.Policies[d] = loadOrInit.Policies[d]
      BY <1>0, <2>1, <2>2, AddPolicyIs
    <2>4. Numbered(loadOrInit, added) /\ loadOrInit \in File
      BY <1>0, LoadNumbered, LoadType
    <2>5. UniqueIds(s) /\ \A i \in DOMAIN s : s[i].id <= added
      BY <2>4 DEF Numbered
    <2>6. Numbered(loadOrInit, added + 1)
      <3>1. \A a, b \in Nat : a <= b => (Numbered(loadOrInit, a) => Numbered(loadOrInit, b))
        BY <2>4, NumberedMore
      <3> QED
        BY <1>0, <2>4, <3>1
    <2> HIDE DEF s
    <2>7. UniqueIds(Append(s, p)) /\ \A i \in DOMAIN Append(s, p) : Append(s, p)[i].id <= added + 1
      <3>1. ASSUME NEW n \in Nat, p.id = n + 1, \A i \in DOMAIN s : s[i].id <= n
            PROVE  UniqueIds(Append(s, p)) /\ \A i \in DOMAIN Append(s, p) : Append(s, p)[i].id <= n + 1
        BY <2>2, <2>3, <2>5, <3>1, AppendNumbered
      <3> QED
        BY <1>0, <2>2, <2>5, <3>1
    <2>8. Numbered(file', added')
      BY <2>1, <2>3, <2>6, <2>7 DEF Numbered
    <2> QED
      BY <1>0, <2>1, <2>8, IdsStep
  <1>2. ASSUME NEW id \in 1..MaxPolicies, RemoveUserPolicy(id) PROVE IdsKept'
    <2>1. added' = added /\ running' = running /\ proc' = proc
      BY <1>2 DEF RemoveUserPolicy
    <2>2. PICK c \in UserChain : UpdateStatus(c, id, "remove_next_commit")
      BY <1>2 DEF RemoveUserPolicy
    <2>3. Numbered(file', added)
      BY <1>0, <2>2, MarkNumbered DEF Statuses
    <2> QED
      BY <1>0, <2>1, <2>3, IdsStep
  <1> QED
    BY <1>1, <1>2

LEMMA RestartIds ==
    ASSUME TypeInv, TypeInv', IdsKept, NEW r \in Procs, Restart(r)
    PROVE  IdsKept'
  <1> DEFINE b == [Idle EXCEPT !.kind = "boot", !.step = "networks"]
  <1>1. b.snap = Missing /\ Idle.snap = Missing
    BY DEF Idle
  <1>2. proc' = [q \in Procs |-> IF q = r THEN b ELSE Idle]
    BY DEF Restart
  <1> HIDE DEF b
  <1>3. \A o \in Procs : proc'[o].snap \in {proc[o].snap, Missing, file}
    BY <1>1, <1>2
  <1>4. added' = added /\ file' = loadOrInit /\ running' = file' /\ added <= added
    BY TypeParts, PolicyAssumption DEF Restart, RestTyped
  <1>5. Numbered(file', added')
    BY <1>4, LoadNumbered
  <1> QED
    BY <1>3, <1>4, <1>5, IdsStep

LEMMA IdsInit == Init => IdsKept
  <1> SUFFICES ASSUME Init PROVE IdsKept
    OBVIOUS
  <1>1. \A r \in Procs : proc[r].snap = Missing
    <2> DEFINE b == [Idle EXCEPT !.kind = "boot", !.step = "networks"]
    <2>1. b.snap = Missing /\ Idle.snap = Missing
      BY DEF Idle
    <2>2. PICK r \in Procs : proc = [q \in Procs |-> IF q = r THEN b ELSE Idle]
      BY DEF Init
    <2> HIDE DEF b
    <2> QED
      BY <2>1, <2>2
  <1>2. Numbered(file, added)
    <2>1. CASE file = Default
      BY <2>1, DefaultNumbered
    <2>2. ASSUME NEW c \in EarlierChains, NEW hs \in Ends(c), MaxPolicies > 0, added = 1,
                 file = [Default EXCEPT !.Policies[c] = <<[id |-> 1, hosts |-> hs, Status |-> "applied"]>>]
          PROVE  Numbered(file, added)
      <3> DEFINE p == [id |-> 1, hosts |-> hs, Status |-> "applied"]
                 t == <<p>>
      <3>1. p \in PolicyEntry /\ p.id = 1 /\ c \in UserChain
        BY <2>2, PolicyAssumption, ChainNames DEF PolicyEntry, Ends, Statuses
      <3> HIDE DEF p
      <3>2. t \in Seq(PolicyEntry) /\ DOMAIN t = {1} /\ t[1] = p
        BY <3>1
      <3>3. file = [Default EXCEPT !.Policies[c] = t]
        BY <2>2 DEF p
      <3> HIDE DEF t
      <3>4. file.Policies[c] = t /\ \A d \in UserChain : d # c => file.Policies[d] = Default.Policies[d]
        BY <3>1, <3>2, <3>3, DefaultType, PoliciesAre
      <3>5. UniqueIds(t) /\ \A i \in DOMAIN t : t[i].id <= 1
        BY <3>1, <3>2 DEF UniqueIds
      <3>6. Numbered(Default, 1)
        BY DefaultNumbered
      <3> QED
        BY <2>2, <3>4, <3>5, <3>6 DEF Numbered
    <2> QED
      BY <2>1, <2>2 DEF Init
  <1>3. running = file
    BY DEF Init
  <1> QED
    BY <1>1, <1>2, <1>3 DEF IdsKept

LEMMA IdsNext == TypeInv /\ TypeInv' /\ IdsKept /\ [Next]_vars => IdsKept'
  <1> SUFFICES ASSUME TypeInv, TypeInv', IdsKept, [Next]_vars PROVE IdsKept'
    OBVIOUS
  <1>1. CASE UNCHANGED vars
    BY <1>1 DEF vars, npm, bounds, IdsKept
  <1>2. CASE Done
    BY <1>1, <1>2 DEF Done
  <1>3. ASSUME NEW r \in Procs, Step(r) \/ Request(r) \/ Restart(r) PROVE IdsKept'
    BY <1>3, StepIds, RequestIds, RestartIds
  <1>4. CASE \/ \E c \in UserChain : \E hs \in Ends(c) : AddUserPolicy(c, hs)
             \/ \E id \in 1..MaxPolicies : RemoveUserPolicy(id)
    BY <1>4, UserRequestIds
  <1> QED
    BY <1>1, <1>2, <1>3, <1>4 DEF Next

\* No two policies of a chain have the same number, in the file, in its copy and
\* in what a request has opened: removing and marking by number hits one policy.
THEOREM PolicyNumbers == Spec => []IdsKept
  BY PolicyTypes, IdsInit, IdsNext, PTL DEF Spec

-----------------------------------------------------------------------------
\* The rules of users in a chain.
LEMMA ChainsDiffer ==
    /\ \A i, j \in 1..3 : UserChains[i] = UserChains[j] => i = j
    /\ \A c \in UserChain : \E i \in 1..3 : UserChains[i] = c
    /\ UserChains[1] = "RAIND-EW" /\ UserChains[2] = "RAIND-NS-OBS" /\ UserChains[3] = "RAIND-NS-ENF"
  <1>1. UserChains[1] = "RAIND-EW" /\ UserChains[2] = "RAIND-NS-OBS" /\ UserChains[3] = "RAIND-NS-ENF"
    BY DEF UserChains
  <1>2. 1..3 = {1, 2, 3}
    OBVIOUS
  <1> HIDE DEF UserChains
  <1> QED
    BY <1>1, <1>2, ChainNames

LEMMA NoneMatches ==
    ASSUME NEW s \in Seq(Rules), Of(s) = {}, NEW v, NEW c
    PROVE  Matching(s, v, c, {})
  <1>1. RulesOf(v, c, {}) = {}
    BY DEF RulesOf
  <1>2. \A i \in DOMAIN s : s[i].on # "user"
    BY InToSet DEF Of
  <1> QED
    BY <1>1, <1>2 DEF Matching, AtHead, Decided

LEMMA AddNoUser ==
    ASSUME NEW s \in Seq(Rules), Of(s) = {}, NEW rule \in Rules, rule.on # "user"
    PROVE  Of(AddRuleToChain(s, rule)) = {}
  <1> DEFINE t == AddRuleToChain(s, rule)
  <1>1. /\ t \in Seq(Rules) /\ Len(s) \in Nat /\ Len(t) \in Nat
        /\ \A i \in 1..Len(s) : t[i] = s[i]
        /\ \/ t = s
           \/ Len(t) = Len(s) + 1 /\ t[Len(s) + 1] = rule
    BY AddRuleIs
  <1> HIDE DEF t
  <1>2. \A i \in 1..Len(s) : s[i].on # "user"
    BY InToSet DEF Of
  <1>3. CASE t = s
    BY <1>3 DEF t
  <1>4. CASE Len(t) = Len(s) + 1 /\ t[Len(s) + 1] = rule
    <2>1. \A i \in 1..Len(t) : i \in 1..Len(s) \/ i = Len(s) + 1
      BY <1>1, <1>4
    <2>2. \A i \in 1..Len(t) : t[i].on # "user"
      BY <1>1, <1>2, <1>4, <2>1
    <2>3. \A x \in ToSet(t) : x.on # "user"
      BY <1>1, <2>2, InToSet
    <2>4. Of(t) = {}
      BY <2>3 DEF Of
    <2> QED
      BY <2>4 DEF t
  <1> QED
    BY <1>1, <1>3, <1>4

LEMMA InsertOf ==
    ASSUME NEW s \in Seq(Rules), NEW rule \in Rules, rule.on = "user", AtHead(s)
    PROVE  Of(InsertRuleToChain(s, rule)) = Of(s) \cup {rule} /\ AtHead(InsertRuleToChain(s, rule))
  <1> DEFINE t == InsertRuleToChain(s, rule)
  <1>1. CASE rule \in ToSet(s)
    <2>1. t = s
      BY <1>1 DEF InsertRuleToChain
    <2>2. rule \in Of(s)
      BY <1>1 DEF Of
    <2> HIDE DEF t
    <2>3. Of(t) = Of(s) \cup {rule} /\ AtHead(t)
      BY <2>1, <2>2
    <2> QED
      BY <2>3 DEF t
  <1>2. CASE rule \notin ToSet(s)
    <2>0. t # s
      <3>1. t = <<rule>> \o s
        BY <1>2 DEF InsertRuleToChain
      <3> HIDE DEF t
      <3>2. Len(s) \in Nat /\ Len(t) = 1 + Len(s)
        BY <3>1
      <3>3. Len(t) # Len(s)
        BY <3>2
      <3> QED
        BY <3>3
    <2>1. /\ t \in Seq(Rules) /\ Len(s) \in Nat /\ Len(t) = Len(s) + 1 /\ t[1] = rule
          /\ \A i \in 1..Len(s) : t[i + 1] = s[i]
      BY <2>0, InsertRuleIs
    <2>2. \A x : x # rule => (x \in ToSet(t) <=> x \in ToSet(s))
      BY InsertMembers
    <2> HIDE DEF t
    <2>3. rule \in ToSet(t)
      <3>1. 1 \in 1..Len(t)
        BY <2>1
      <3> QED
        BY <2>1, <3>1, InToSet
    <2>4. Of(t) = Of(s) \cup {rule}
      BY <2>2, <2>3 DEF Of
    <2>5. ASSUME NEW i \in 1..Len(t), NEW j \in 1..Len(t), t[i].on = "user", t[j].on # "user"
          PROVE  i < j
      <3>1. j # 1
        BY <2>1, <2>5
      <3>2. j - 1 \in 1..Len(s) /\ t[j] = s[j - 1]
        <4>1. j - 1 \in 1..Len(s) /\ (j - 1) + 1 = j
          BY <2>1, <3>1
        <4> QED
          BY <2>1, <4>1
      <3>3. CASE i = 1
        BY <3>1, <3>3
      <3>4. CASE i # 1
        <4>1. i - 1 \in 1..Len(s) /\ (i - 1) + 1 = i
          BY <2>1, <3>4
        <4>2. t[i] = s[i - 1]
          BY <2>1, <4>1
        <4>3. i - 1 < j - 1
          BY <2>5, <3>2, <4>1, <4>2 DEF AtHead
        <4> QED
          BY <4>3
      <3> QED
        BY <3>3, <3>4
    <2>6. AtHead(t)
      BY <2>1, <2>5 DEF AtHead
    <2> QED
      BY <2>4, <2>6 DEF t
  <1> QED
    BY <1>1, <1>2

LEMMA RulesOfMore ==
    ASSUME NEW v, NEW c, NEW D, NEW p
    PROVE  /\ p.Status = "applied" => RulesOf(v, c, D \cup {p}) = RulesOf(v, c, D) \cup {RuleOf(v, c, p.hosts)}
           /\ p.Status # "applied" => RulesOf(v, c, D \cup {p}) = RulesOf(v, c, D)
  BY DEF RulesOf

LEMMA InsertMatches ==
    ASSUME NEW s \in Seq(Rules), NEW v, NEW c, NEW D, NEW p, p.Status = "applied", Matching(s, v, c, D),
           NEW rule \in Rules, rule = RuleOf(v, c, p.hosts), rule.on = "user"
    PROVE  Matching(InsertRuleToChain(s, rule), v, c, D \cup {p})
  <1> DEFINE t == InsertRuleToChain(s, rule)
  <1>1. Of(s) = RulesOf(v, c, D) /\ AtHead(s) /\ Decided(D)
    BY DEF Matching
  <1>2. Of(t) = Of(s) \cup {rule} /\ AtHead(t)
    BY <1>1, InsertOf
  <1>3. RulesOf(v, c, D \cup {p}) = RulesOf(v, c, D) \cup {rule}
    BY RulesOfMore
  <1>4. Decided(D \cup {p})
    BY <1>1 DEF Decided
  <1> HIDE DEF t
  <1>5. Matching(t, v, c, D \cup {p})
    BY <1>1, <1>2, <1>3, <1>4 DEF Matching
  <1> QED
    BY <1>5 DEF t

LEMMA UnresolvedMatches ==
    ASSUME NEW s, NEW v, NEW c, NEW D, NEW p, p.Status = "unresolved", Matching(s, v, c, D)
    PROVE  Matching(s, v, c, D \cup {p})
  <1>1. Of(s) = RulesOf(v, c, D) /\ AtHead(s) /\ Decided(D)
    BY DEF Matching
  <1>2. RulesOf(v, c, D \cup {p}) = RulesOf(v, c, D)
    BY RulesOfMore
  <1>3. Decided(D \cup {p})
    BY <1>1 DEF Decided
  <1> QED
    BY <1>1, <1>2, <1>3 DEF Matching

-----------------------------------------------------------------------------
\* A command of the plan flushes a chain or adds a rule that is no user's.
LEMMA PlanRules ==
    ASSUME NEW cmd, NEW k \in Nat, NEW nets, NEW n \in Nat, NEW enforce \in BOOLEAN, k <= 11 + 2 * n,
           CommandFacts(cmd, k, nets, n, enforce)
    PROVE  /\ k >= 4 /\ cmd.op = "add" => cmd.rule.on # "user"
           /\ k >= 4 => cmd.op \in {"add", "forward"}
  <1>0. k >= 4 => \/ k = 4 \/ k = 5 \/ k = 6 \/ k = 7 \/ k = 8 \/ k \in 9..(8 + n) \/ k = 9 + n \/ k = 10 + n
                  \/ k \in (11 + n)..(10 + 2 * n) \/ k = 11 + 2 * n
    OBVIOUS
  <1>1. \A on, of, do : Rule(on, of, do).on = on
    BY DEF Rule
  <1>2. Established.on # "user" /\ Return.on # "user" /\ DropBridges.on # "user" /\ \A c : Jump(c).on # "user"
    BY <1>1 DEF Established, Return, DropBridges, Jump
  <1>3. /\ k = 4 => cmd.op = "forward"
        /\ k = 5 => Adds(cmd, "RAIND-ROOT", Established)
        /\ k = 6 => Adds(cmd, "RAIND-ROOT", Jump("RAIND-EW"))
        /\ k = 7 => Adds(cmd, "RAIND-ROOT", Jump(NS(enforce)))
        /\ k = 8 => Adds(cmd, "RAIND-ROOT", Return)
        /\ k \in 9..(8 + n) => Adds(cmd, "RAIND-EW", Rule("within", {nets[k - 8]}, "DROP"))
        /\ k = 9 + n => Adds(cmd, "RAIND-EW", DropBridges)
        /\ k = 10 + n => Adds(cmd, "RAIND-EW", Return)
        /\ k \in (11 + n)..(10 + 2 * n) =>
              Adds(cmd, NS(enforce), Rule("outbound", {nets[k - 10 - n]}, Verdict(enforce)))
        /\ k = 11 + 2 * n => Adds(cmd, NS(enforce), Return)
    BY DEF CommandFacts
  <1>4. \A c, rule : Adds(cmd, c, rule) => cmd.op = "add" /\ cmd.rule = rule
    BY DEF Adds
  <1>5. CASE k = 4
    BY <1>3, <1>5
  <1>6. CASE k = 5 \/ k = 6 \/ k = 7 \/ k = 8 \/ k = 9 + n \/ k = 10 + n \/ k = 11 + 2 * n
    BY <1>2, <1>3, <1>4, <1>6, Zenon
  <1>7. CASE k \in 9..(8 + n)
    <2> DEFINE rule == Rule("within", {nets[k - 8]}, "DROP")
    <2>1. Adds(cmd, "RAIND-EW", rule) /\ rule.on = "within"
      BY <1>1, <1>3, <1>7
    <2> HIDE DEF rule
    <2> QED
      BY <1>4, <2>1
  <1>8. CASE k \in (11 + n)..(10 + 2 * n)
    <2> DEFINE rule == Rule("outbound", {nets[k - 10 - n]}, Verdict(enforce))
    <2>1. Adds(cmd, NS(enforce), rule) /\ rule.on = "outbound"
      BY <1>1, <1>3, <1>8
    <2> HIDE DEF rule
    <2> QED
      BY <1>4, <2>1
  <1> QED
    BY <1>0, <1>5, <1>6, <1>7, <1>8

LEMMA FlushedStep ==
    ASSUME NEW nets \in Seq(Networks), NEW n \in Nat, n = Len(nets), NEW enforce \in BOOLEAN,
           NEW k \in 0..(11 + 2 * n), NEW cmd, cmd = BuildPredefinedPolicy(nets, enforce)[k + 1],
           cmd.rule \in Rules, cmd.chain \in Chain,
           NEW ch \in [Chain -> Seq(Rules)], NEW ch2 \in [Chain -> Seq(Rules)], NEW fw, NEW fw2,
           Obeys(ch, fw, cmd, ch2, fw2), Flushed(ch, k)
    PROVE  Flushed(ch2, k + 1)
  <1>0. k \in Nat /\ k <= 11 + 2 * n
    OBVIOUS
  <1>1. CommandFacts(cmd, k, nets, n, enforce)
    BY CommandAt
  <1>2. /\ k >= 4 /\ cmd.op = "add" => cmd.rule.on # "user"
        /\ k >= 4 => cmd.op \in {"add", "forward"}
    BY <1>0, <1>1, PlanRules
  <1>3. \A d \in Chain : d # cmd.chain => ch2[d] = ch[d]
    BY DEF Obeys
  <1>4. Of(<<>>) = {}
    BY EmptyChain DEF Of
  <1>5. ASSUME NEW d \in Chain, k >= 4, Of(ch[d]) = {} PROVE Of(ch2[d]) = {}
    <2>1. CASE cmd.chain # d
      BY <1>3, <1>5, <2>1
    <2>2. CASE cmd.chain = d /\ cmd.op = "forward"
      BY <1>5, <2>2 DEF Obeys
    <2>3. CASE cmd.chain = d /\ cmd.op = "add"
      <3>1. ch2[d] = AddRuleToChain(ch[d], cmd.rule) /\ ch[d] \in Seq(Rules) /\ cmd.rule.on # "user"
        BY <1>2, <1>5, <2>3 DEF Obeys
      <3>2. Of(AddRuleToChain(ch[d], cmd.rule)) = {}
        BY <1>5, <3>1, AddNoUser
      <3> QED
        BY <3>1, <3>2
    <2> QED
      BY <1>2, <1>5, <2>1, <2>2, <2>3
  <1>6. "RAIND-EW" \in Chain /\ "RAIND-NS-OBS" \in Chain /\ "RAIND-NS-ENF" \in Chain
    BY ChainNames
  <1>7. CASE k >= 4
    <2>1. Of(ch["RAIND-EW"]) = {} /\ Of(ch["RAIND-NS-OBS"]) = {} /\ Of(ch["RAIND-NS-ENF"]) = {}
      BY <1>0, <1>7 DEF Flushed
    <2> QED
      BY <1>5, <1>6, <1>7, <2>1 DEF Flushed
  <1>8. CASE k = 0
    BY <1>8 DEF Flushed
  <1>9. CASE k = 1 \/ k = 2 \/ k = 3
    <2>1. /\ k = 1 => Flushes(cmd, "RAIND-EW")
          /\ k = 2 => Flushes(cmd, "RAIND-NS-OBS")
          /\ k = 3 => Flushes(cmd, "RAIND-NS-ENF")
      BY <1>1 DEF CommandFacts
    <2>2. \A d : Flushes(cmd, d) => Of(ch2[d]) = {} /\ cmd.chain = d
      BY <1>4 DEF Obeys, Flushes
    <2>3. CASE k = 1
      <3>0. ~(k + 1 >= 3) /\ ~(k + 1 >= 4)
        BY <2>3
      <3>1. Of(ch2["RAIND-EW"]) = {}
        BY <2>1, <2>2, <2>3, Zenon
      <3> QED
        BY <3>0, <3>1 DEF Flushed
    <2>4. CASE k = 2
      <3>0. ~(k + 1 >= 4) /\ k >= 2
        BY <2>4
      <3>1. Of(ch2["RAIND-NS-OBS"]) = {} /\ cmd.chain = "RAIND-NS-OBS"
        BY <2>1, <2>2, <2>4, Zenon
      <3>2. Of(ch2["RAIND-EW"]) = {}
        BY <1>3, <1>6, <3>0, <3>1 DEF Flushed
      <3> QED
        BY <3>0, <3>1, <3>2 DEF Flushed
    <2>5. CASE k = 3
      <3>0. k >= 2 /\ k >= 3
        BY <2>5
      <3>1. Of(ch2["RAIND-NS-ENF"]) = {} /\ cmd.chain = "RAIND-NS-ENF"
        BY <2>1, <2>2, <2>5, Zenon
      <3>2. Of(ch2["RAIND-EW"]) = {} /\ Of(ch2["RAIND-NS-OBS"]) = {}
        BY <1>3, <1>6, <3>0, <3>1 DEF Flushed
      <3> QED
        BY <3>1, <3>2 DEF Flushed
    <2> QED
      BY <1>9, <2>3, <2>4, <2>5
  <1> QED
    BY <1>0, <1>7, <1>8, <1>9

-----------------------------------------------------------------------------
\* The progress of a request through the policies.
LEMMA DealtIs ==
    ASSUME NEW q, q.chain \in 1..3, NEW i \in 1..3, NEW S
    PROVE  /\ i < q.chain => Dealt(q, i, S) = S
           /\ i > q.chain => Dealt(q, i, S) = {}
           /\ i = q.chain /\ q.step = "list" => Dealt(q, i, S) = {}
           /\ i = q.chain /\ q.step = "policy" => Dealt(q, i, S) = S \ ToSet(q.todo)
           /\ i = q.chain /\ q.step = "applied" =>
                 Dealt(q, i, S) = (S \ ToSet(q.todo)) \cup {[Head(q.todo) EXCEPT !.Status = "applied"]}
  <1>1. /\ i < q.chain => ~(i > q.chain) /\ i # q.chain
        /\ i > q.chain => ~(i < q.chain)
        /\ i = q.chain => ~(i < q.chain) /\ ~(i > q.chain)
    OBVIOUS
  <1>2. (S \ ToSet(q.todo)) \cup {} = S \ ToSet(q.todo)
    OBVIOUS
  <1> QED
    BY <1>1, <1>2, Zenon DEF Dealt

LEMMA DealtOther ==
    ASSUME NEW q, q.chain \in 1..3, NEW q2, q2.chain = q.chain, NEW i \in 1..3, i # q.chain, NEW S
    PROVE  Dealt(q2, i, S) = Dealt(q, i, S)
  <1>1. i < q.chain \/ i > q.chain
    OBVIOUS
  <1>2. CASE i < q.chain
    <2>1. Dealt(q, i, S) = S
      BY <1>2, DealtIs
    <2>2. Dealt(q2, i, S) = S
      BY <1>2, DealtIs
    <2> QED
      BY <2>1, <2>2
  <1>3. CASE i > q.chain
    <2>1. Dealt(q, i, S) = {}
      BY <1>3, DealtIs
    <2>2. Dealt(q2, i, S) = {}
      BY <1>3, DealtIs
    <2> QED
      BY <2>1, <2>2
  <1> QED
    BY <1>1, <1>2, <1>3

LEMMA WrittenStep ==
    ASSUME NEW q, q.chain \in 1..3, NEW q2, q2.chain = q.chain, NEW ch, NEW ch2, NEW v, NEW np, NEW np2, NEW c,
           c = UserChains[q.chain], Written(ch, v, np, q),
           \A d \in UserChain : d # c => ch2[d] = ch[d],
           \A d \in UserChain : d # c => np2.Policies[d] = np.Policies[d],
           Matching(ch2[c], v, c, Dealt(q2, q.chain, ToSet(np2.Policies[c])))
    PROVE  Written(ch2, v, np2, q2)
  <1> SUFFICES ASSUME NEW i \in 1..3
               PROVE  Matching(ch2[UserChains[i]], v, UserChains[i],
                               Dealt(q2, i, ToSet(np2.Policies[UserChains[i]])))
    BY DEF Written
  <1>1. CASE i = q.chain
    BY <1>1
  <1>2. CASE i # q.chain
    <2> DEFINE d == UserChains[i]
    <2>1. d \in UserChain /\ d # c
      BY <1>2, ChainNames, ChainsDiffer
    <2>2. Matching(ch[d], v, d, Dealt(q, i, ToSet(np.Policies[d])))
      BY DEF Written
    <2> HIDE DEF d
    <2>3. Dealt(q2, i, ToSet(np.Policies[d])) = Dealt(q, i, ToSet(np.Policies[d]))
      BY <1>2, DealtOther
    <2>4. Matching(ch2[d], v, d, Dealt(q2, i, ToSet(np2.Policies[d])))
      BY <2>1, <2>2, <2>3
    <2> QED
      BY <2>4 DEF d
  <1> QED
    BY <1>1, <1>2

\* One policy less to do: N is what has become of it.
LEMMA OneDealt ==
    ASSUME NEW S, NEW T, T \subseteq S, NEW h \in T, NEW N, \A x \in N : x \notin T \ {h}
    PROVE  /\ T \ {h} \subseteq (S \ {h}) \cup N
           /\ ((S \ {h}) \cup N) \ (T \ {h}) = (S \ T) \cup N
  OBVIOUS

\* The state after the first policy in hand has been removed or marked.
LEMMA MarkedIs ==
    ASSUME TypeOK, IdsKept, NEW c \in UserChain, NEW todo \in Seq(PolicyEntry), todo # <<>>, UniqueIds(todo),
           ToSet(todo) \subseteq ToSet(loadOrInit.Policies[c])
    PROVE  LET S == ToSet(loadOrInit.Policies[c])
               T == ToSet(todo)
               h == Head(todo)
           IN  /\ HasPolicy(loadOrInit, c, h.id) /\ UniqueIds(Tail(todo)) /\ ToSet(Tail(todo)) = T \ {h}
               /\ RemovePolicy(c, h.id) =>
                     /\ file' # Missing /\ \A d \in UserChain : d # c => file'.Policies[d] = loadOrInit.Policies[d]
                     /\ ToSet(Tail(todo)) \subseteq ToSet(file'.Policies[c])
                     /\ ToSet(file'.Policies[c]) \ ToSet(Tail(todo)) = S \ T
               /\ \A st \in Statuses : UpdateStatus(c, h.id, st) =>
                     /\ file' # Missing /\ \A d \in UserChain : d # c => file'.Policies[d] = loadOrInit.Policies[d]
                     /\ ToSet(Tail(todo)) \subseteq ToSet(file'.Policies[c])
                     /\ ToSet(file'.Policies[c]) \ ToSet(Tail(todo)) = (S \ T) \cup {[h EXCEPT !.Status = st]}
  <1> DEFINE P == loadOrInit.Policies[c]
             S == ToSet(P)
             T == ToSet(todo)
             h == Head(todo)
             U == ToSet(Tail(todo))
             Q == file'.Policies[c]
  <1>1. P \in Seq(PolicyEntry) /\ UniqueIds(P)
    <2>1. loadOrInit \in File /\ Numbered(loadOrInit, added)
      BY LoadType, LoadNumbered
    <2> QED
      BY <2>1, FileIs DEF Numbered
  <1>2. h \in T /\ UniqueIds(Tail(todo)) /\ U = T \ {h}
    BY TailSet
  <1>3. T \subseteq S
    OBVIOUS
  <1>4. h \in S /\ h \in PolicyEntry /\ T \subseteq PolicyEntry
    BY <1>2, <1>3, InToSet
  <1> HIDE DEF S, T, U, h
  <1>5. HasPolicy(loadOrInit, c, h.id)
    <2> HIDE DEF P
    <2>1. \E i \in DOMAIN P : P[i].id = h.id
      BY <1>1, <1>4, InToSet DEF S
    <2> QED
      BY <2>1, Zenon DEF HasPolicy, P
  <1>6. \A x, y \in S : x.id = y.id => x = y
    <2> HIDE DEF P
    <2> QED
      BY <1>1, InToSet DEF S, UniqueIds
  <1>7. ASSUME RemovePolicy(c, h.id)
        PROVE  /\ file' # Missing /\ \A d \in UserChain : d # c => file'.Policies[d] = loadOrInit.Policies[d]
               /\ U \subseteq ToSet(Q) /\ ToSet(Q) \ U = S \ T
    <2>1. /\ file' # Missing /\ \A d \in UserChain : d # c => file'.Policies[d] = loadOrInit.Policies[d]
          /\ \E m \in 1..Len(P) : P[m].id = h.id /\ Q = RemoveAt(P, m)
      BY <1>5, <1>7, RemovePolicyIs
    <2>2. PICK m \in 1..Len(P) : P[m].id = h.id /\ Q = RemoveAt(P, m)
      BY <2>1
    <2> HIDE DEF P, Q
    <2>3. P[m] = h
      BY <1>1, <1>4, <1>6, <2>2, InToSet DEF S
    <2>4. ToSet(Q) = S \ {h}
      BY <1>1, <2>2, <2>3, RemoveSet DEF S
    <2>5. U \subseteq (S \ {h}) \cup {} /\ ((S \ {h}) \cup {}) \ U = (S \ T) \cup {}
      BY <1>2, <1>3, OneDealt
    <2> QED
      BY <2>1, <2>4, <2>5 DEF P, Q
  <1>8. ASSUME NEW st \in Statuses, UpdateStatus(c, h.id, st)
        PROVE  /\ file' # Missing /\ \A d \in UserChain : d # c => file'.Policies[d] = loadOrInit.Policies[d]
               /\ U \subseteq ToSet(Q) /\ ToSet(Q) \ U = (S \ T) \cup {[h EXCEPT !.Status = st]}
    <2> DEFINE g == [h EXCEPT !.Status = st]
    <2>1. /\ file' # Missing /\ \A d \in UserChain : d # c => file'.Policies[d] = loadOrInit.Policies[d]
          /\ Q \in Seq(PolicyEntry) /\ Len(Q) = Len(P)
          /\ \A i \in 1..Len(P) : Q[i] = IF P[i].id = h.id THEN [P[i] EXCEPT !.Status = st] ELSE P[i]
      BY <1>8, UpdateStatusIs
    <2>2. g.id = h.id
      BY <1>4 DEF PolicyEntry
    <2>3. \A i \in 1..Len(P) : P[i].id = h.id => P[i] = h
      <3> HIDE DEF P
      <3> QED
        BY <1>1, <1>4, <1>6, InToSet DEF S
    <2>4. \A i \in 1..Len(P) : (P[i].id = h.id => Q[i] = g) /\ (P[i].id # h.id => Q[i] = P[i])
      <3> HIDE DEF P, Q
      <3> QED
        BY <2>1, <2>3
    <2> HIDE DEF P, Q, g
    <2>5. ToSet(Q) = (S \ {h}) \cup {g}
      <3>1. h \in ToSet(P) /\ S = ToSet(P)
        BY <1>4 DEF S
      <3>2. ToSet(Q) = (ToSet(P) \ {h}) \cup {g}
        <4>1. Q \in Seq(PolicyEntry) /\ Replaced(P, Q, h, g)
          BY <2>1, <2>4 DEF Replaced
        <4> QED
          BY <1>1, <3>1, <4>1, UpdateSet
      <3> QED
        BY <3>1, <3>2
    <2>6. g \notin T \ {h}
      BY <1>3, <1>4, <1>6, <2>2
    <2>7. U \subseteq (S \ {h}) \cup {g} /\ ((S \ {h}) \cup {g}) \ U = (S \ T) \cup {g}
      BY <1>2, <1>3, <2>6, OneDealt
    <2> QED
      BY <2>1, <2>5, <2>7 DEF P, Q, g
  <1> QED
    BY <1>2, <1>5, <1>7, <1>8 DEF S, T, U, h

-----------------------------------------------------------------------------
\* The steps of a request that has overlapped another one say nothing of the
\* chains; those of one that has not lead from one fact to the next.
LEMMA RulesShared ==
    ASSUME PolicyInv, NEW r \in Procs, proc[r].step # "idle", Only(r), r \in shared,
           shared' = shared, last' = last \/ last' = "overlapped"
    PROVE  RulesInv'
  <1>1. r \in Busy /\ Busy' \subseteq Busy
    BY BusyIs
  <1>2. Busy \subseteq shared
    BY <1>1 DEF PolicyInv
  <1>3. Busy' \subseteq shared' /\ last' = "overlapped"
    BY <1>1, <1>2 DEF PolicyInv
  <1>4. \A q \in Busy' : q \in shared'
    BY <1>3
  <1> QED
    BY <1>3, <1>4 DEF RulesInv, Kept

LEMMA RulesSolo ==
    ASSUME PolicyInv, NEW r \in Procs, proc[r].step # "idle", Only(r), r \notin shared, shared' = shared,
           proc'[r].step # "idle" => Fair(r)',
           proc'[r].step = "idle" => Kept(running)'
    PROVE  RulesInv'
  <1>1. r \in Busy
    BY BusyIs
  <1>2. Busy = {r}
    BY <1>1 DEF PolicyInv
  <1>3. CASE proc'[r].step = "idle"
    <2>1. Busy' = {}
      BY <1>2, <1>3, BusyIs
    <2> QED
      BY <1>3, <2>1 DEF RulesInv
  <1>4. CASE proc'[r].step # "idle"
    <2>1. Busy' = {r}
      BY <1>2, <1>4, BusyIs
    <2> QED
      BY <1>4, <2>1 DEF RulesInv
  <1> QED
    BY <1>3, <1>4

LEMMA FairNow ==
    ASSUME RulesInv, NEW r \in Procs, proc[r].step # "idle", r \notin shared
    PROVE  Fair(r)
  BY DEF RulesInv, Busy

LEMMA KeptStays ==
    ASSUME UNCHANGED <<chains, veth, last>>, NEW x, Kept(x)
    PROVE  last' = "commit" /\ x # Missing => Fits(chains', veth', x)
  BY DEF Kept

LEMMA ReadingFair ==
    ASSUME TypeInv, PolicyInv, RulesInv, NEW r \in Procs,
           ReadNSMode(r) \/ FixNSMode(r) \/ ReadNetworks(r) \/ ReadEnforce(r)
    PROVE  RulesInv'
  <1>0. TypeOK /\ ProcTyped /\ RestTyped
    BY TypeParts DEF TypeInv
  <1>a. /\ proc[r].step \in {"fix", "fixed", "networks", "enforce"} /\ proc[r].step # "idle"
        /\ UNCHANGED <<running, iptables, hosts, outcome, bounds>>
    BY DEF ReadNSMode, FixNSMode, ReadNetworks, ReadEnforce, At, npm
  <1>b. Only(r)
    BY <1>0, ReadNSModeIs, FixNSModeIs, ReadNetworksIs, ReadEnforceIs
  <1>c. shared' = shared /\ last' = last /\ networks' = networks /\ chains' = chains
    BY <1>a DEF outcome, hosts, iptables
  <1>d. CASE r \in shared
    BY <1>a, <1>b, <1>c, <1>d, RulesShared
  <1>e. CASE r \notin shared
    <2>0. Sound(r) /\ Fair(r)
      BY <1>0, <1>a, <1>e, SoundNow, FairNow
    <2>1. proc[r].chain = 1
      BY <1>a, <2>0 DEF Fair
    <2>2. CASE ReadNSMode(r) \/ FixNSMode(r) \/ ReadNetworks(r)
      <3>1. proc'[r].step \in {"fixed", "networks", "enforce"} /\ proc'[r].chain = 1
        BY <1>0, <2>1, <2>2, ReadNSModeIs, FixNSModeIs, ReadNetworksIs DEF Keeps, Fields
      <3>2. Fair(r)'
        BY <3>1 DEF Fair
      <3> QED
        BY <1>a, <1>b, <1>c, <1>e, <3>1, <3>2, RulesSolo
    <2>3. CASE ReadEnforce(r)
      <3>1. proc'[r].step = "build" /\ proc'[r].chain = 1 /\ proc'[r].todo = BuildPredefinedPolicy(proc[r].nets, IsNsEnforce)
        BY <1>0, <2>1, <2>3, ReadEnforceIs DEF Keeps, Fields
      <3>2. proc[r].nets = networks /\ networks \in Seq(Networks) /\ IsNsEnforce \in BOOLEAN
        BY <1>0, <2>0, <2>3 DEF Sound, ReadEnforce, At, RestTyped, IsNsEnforce
      <3> DEFINE p == BuildPredefinedPolicy(networks, IsNsEnforce)
                 n == Len(networks)
                 full == 12 + 2 * n
      <3>3. Len(p) = full /\ n \in Nat
        BY <3>2, PlanIs
      <3>4. full - Len(p) = 0
        BY <3>3
      <3>5. proc'[r].todo = p /\ 12 + 2 * Len(networks') = full
        BY <1>c, <3>1, <3>2
      <3>6. Flushed(chains', 0)
        BY DEF Flushed
      <3> HIDE DEF p, full
      <3>7. Flushed(chains', (12 + 2 * Len(networks')) - Len(proc'[r].todo))
        BY <3>4, <3>5, <3>6
      <3>8. Fair(r)'
        BY <3>1, <3>7 DEF Fair
      <3> QED
        BY <1>a, <1>b, <1>c, <1>e, <3>1, <3>8, RulesSolo
    <2> QED
      BY <2>2, <2>3
  <1> QED
    BY <1>d, <1>e

\* The command that is run next is the next one of the plan.
LEMMA CommandPlan ==
    ASSUME TypeInv, NEW r \in Procs, RunCommand(r), Building(r)
    PROVE  LET n == Len(networks)
               l == Len(proc[r].todo)
               k == (12 + 2 * n) - l
           IN  /\ n \in Nat /\ l \in 1..(12 + 2 * n) /\ k \in 0..(11 + 2 * n) /\ k + 1 = (12 + 2 * n) - (l - 1)
               /\ Head(proc[r].todo) = BuildPredefinedPolicy(networks, IsNsEnforce)[k + 1]
               /\ Len(proc'[r].todo) = l - 1
  <1>0. ProcTyped /\ RestTyped
    BY TypeParts
  <1> DEFINE t == proc[r].todo
             n == Len(networks)
             full == 12 + 2 * n
             l == Len(t)
             k == full - l
             p == BuildPredefinedPolicy(networks, IsNsEnforce)
  <1>1. l \in 1..full /\ \A i \in 1..l : t[i] = p[k + i]
    BY Zenon DEF Building
  <1>2. t \in Seq(Commands) /\ t # <<>> /\ proc'[r].todo = Tail(t)
    BY <1>0, RunCommandIs
  <1>3. n \in Nat /\ full \in Nat /\ full = 12 + 2 * n
    BY <1>0 DEF RestTyped
  <1>4. Head(t) = t[1] /\ Len(Tail(t)) = l - 1
    <2> HIDE DEF t
    <2> QED
      BY <1>2, SeqHeadTail
  <1>5. k \in 0..(11 + 2 * n) /\ k + 1 = full - (l - 1) /\ 1 \in 1..l
    <2> HIDE DEF l, n
    <2> QED
      BY <1>1, <1>3
  <1>6. Head(t) = p[k + 1]
    <2> HIDE DEF p, k, l, t
    <2> QED
      BY <1>1, <1>4, <1>5
  <1>7. Len(proc'[r].todo) = l - 1
    BY <1>2, <1>4
  <1> HIDE DEF p, t
  <1> QED
    BY <1>1, <1>3, <1>5, <1>6, <1>7 DEF p, t

LEMMA CommandFair ==
    ASSUME TypeInv, TypeInv', PolicyInv, RulesInv, NEW r \in Procs, RunCommand(r)
    PROVE  RulesInv'
  <1>0. ProcTyped /\ RestTyped
    BY TypeParts
  <1>1. Only(r) /\ Keeps(r, {"step", "todo"}) /\ proc'[r].step = IF Len(proc[r].todo) = 1 THEN "list" ELSE "build"
    BY <1>0, RunCommandIs
  <1>2. proc[r].step = "build" /\ UNCHANGED <<npm, hosts, outcome, bounds>>
    BY DEF RunCommand, At
  <1>3. /\ shared' = shared /\ last' = last /\ networks' = networks
        /\ loadOrInit' = loadOrInit /\ veth' = veth
    BY <1>2 DEF outcome, hosts, npm, loadOrInit
  <1>4. CASE r \in shared
    BY <1>1, <1>2, <1>3, <1>4, RulesShared
  <1>5. CASE r \notin shared
    <2>0. Building(r) /\ Fair(r)
      BY <1>2, <1>5, SoundNow, FairNow DEF Sound
    <2> DEFINE n == Len(networks)
               l == Len(proc[r].todo)
               k == (12 + 2 * n) - l
               cmd == Head(proc[r].todo)
    <2>1. proc[r].chain = 1 /\ Flushed(chains, k)
      BY <1>2, <2>0 DEF Fair
    <2>2. /\ n \in Nat /\ l \in 1..(12 + 2 * n) /\ k \in 0..(11 + 2 * n) /\ k + 1 = (12 + 2 * n) - (l - 1)
          /\ cmd = BuildPredefinedPolicy(networks, IsNsEnforce)[k + 1]
          /\ Len(proc'[r].todo) = l - 1
      BY <2>0, CommandPlan
    <2>3. /\ Obeys(chains, forward, cmd, chains', forward')
          /\ chains' \in [Chain -> Seq(Rules)] /\ cmd.chain \in Chain /\ cmd.rule \in Rules
      BY RunCommandChains DEF Obeys
    <2>4. networks \in Seq(Networks) /\ chains \in [Chain -> Seq(Rules)] /\ IsNsEnforce \in BOOLEAN
      BY <1>0 DEF RestTyped, IsNsEnforce
    <2>5. Flushed(chains', k + 1)
      <3> DEFINE e == IsNsEnforce
                 ch2 == chains'
                 fw2 == forward'
      <3>1. cmd = BuildPredefinedPolicy(networks, e)[k + 1] /\ e \in BOOLEAN
        BY <2>2, <2>4
      <3>2. n = Len(networks)
        OBVIOUS
      <3>3. Obeys(chains, forward, cmd, ch2, fw2) /\ ch2 \in [Chain -> Seq(Rules)]
        BY <2>3
      <3> HIDE DEF cmd, k, e, n, l, ch2, fw2
      <3>5. Flushed(ch2, k + 1)
        BY <2>1, <2>2, <2>3, <2>4, <3>1, <3>2, <3>3, FlushedStep
      <3> QED
        BY <3>5 DEF ch2
    <2>6. proc'[r].chain = 1
      BY <1>1, <2>1 DEF Keeps, Fields
    <2>7. CASE l = 1
      <3>1. k + 1 >= 2 /\ k + 1 >= 3 /\ k + 1 >= 4
        <4> HIDE DEF n
        <4> QED
          BY <2>2, <2>7
      <3>2. Of(chains'["RAIND-EW"]) = {} /\ Of(chains'["RAIND-NS-OBS"]) = {} /\ Of(chains'["RAIND-NS-ENF"]) = {}
        BY <2>5, <3>1 DEF Flushed
      <3>3. proc'[r].step = "list"
        BY <1>1, <2>7
      <3>4. ASSUME NEW i \in 1..3
            PROVE  Matching(chains'[UserChains[i]], veth', UserChains[i],
                            Dealt(proc'[r], i, ToSet(loadOrInit'.Policies[UserChains[i]])))
        <4> DEFINE q == proc'[r]
                   c == UserChains[i]
                   D == Dealt(q, i, ToSet(loadOrInit'.Policies[c]))
        <4>1. D = {}
          <5>1. q.chain \in 1..3 /\ (i = q.chain \/ i > q.chain) /\ q.step = "list"
            BY <2>6, <3>3
          <5> HIDE DEF q
          <5> QED
            BY <5>1, DealtIs
        <4>2. c \in UserChain /\ c \in Chain
          BY ChainNames
        <4>3. Of(chains'[c]) = {} /\ chains'[c] \in Seq(Rules)
          BY <2>3, <3>2, <4>2, ChainNames
        <4> HIDE DEF c, D
        <4>4. Matching(chains'[c], veth', c, D)
          BY <4>1, <4>3, NoneMatches
        <4> QED
          BY <4>4 DEF c, D, q
      <3>5. Written(chains', veth', loadOrInit', proc'[r])
        BY <3>4, Zenon DEF Written
      <3>6. Fair(r)'
        BY <3>3, <3>5 DEF Fair
      <3>7. proc'[r].step # "idle"
        BY <3>3
      <3> QED
        BY <1>1, <1>2, <1>3, <1>5, <3>6, <3>7, RulesSolo
    <2>8. CASE l # 1
      <3>1. proc'[r].step = "build"
        BY <1>1, <2>8
      <3>2. Flushed(chains', (12 + 2 * Len(networks')) - Len(proc'[r].todo))
        <4> HIDE DEF k, l
        <4> QED
          BY <1>3, <2>2, <2>5
      <3>3. Fair(r)'
        BY <2>6, <3>1, <3>2 DEF Fair
      <3>4. proc'[r].step # "idle"
        BY <3>1
      <3> QED
        BY <1>1, <1>2, <1>3, <1>5, <3>3, <3>4, RulesSolo
    <2> QED
      BY <2>7, <2>8
  <1> QED
    BY <1>4, <1>5

-----------------------------------------------------------------------------
\* The work on the policies of one chain, by a request that no other overlaps
\* and that has inserted every rule so far.
LEMMA HandIs ==
    ASSUME TypeInv, NEW r \in Procs, proc[r].step \in {"policy", "applied"}, proc[r].todo # <<>>,
           proc[r].complete, Fair(r)
    PROVE  LET c == HeadChain(r)
               S == ToSet(loadOrInit.Policies[c])
           IN  /\ c \in UserChain /\ c = UserChains[proc[r].chain] /\ proc[r].chain \in 1..3
               /\ proc[r].todo \in Seq(PolicyEntry) /\ UniqueIds(proc[r].todo) /\ ToSet(proc[r].todo) \subseteq S
               /\ Written(chains, veth, loadOrInit, proc[r])
               /\ Matching(chains[c], veth, c, Dealt(proc[r], proc[r].chain, S))
  <1>1. proc[r].chain \in 1..3 /\ proc[r].todo \in Seq(PolicyEntry)
    BY TypeParts, RecordIs DEF Shaped
  <1>2. HeadChain(r) \in UserChain
    BY <1>1, ChainNames DEF HeadChain
  <1>3. Written(chains, veth, loadOrInit, proc[r]) /\ InHand(loadOrInit, proc[r])
    BY Zenon DEF Fair
  <1>4. Matching(chains[HeadChain(r)], veth, HeadChain(r),
                 Dealt(proc[r], proc[r].chain, ToSet(loadOrInit.Policies[HeadChain(r)])))
    BY <1>1, <1>3, Zenon DEF Written, HeadChain
  <1>5. UniqueIds(proc[r].todo) /\ ToSet(proc[r].todo) \subseteq ToSet(loadOrInit.Policies[HeadChain(r)])
    BY <1>3, Zenon DEF InHand, HeadChain
  <1> QED
    BY <1>1, <1>2, <1>3, <1>4, <1>5, Zenon DEF HeadChain

LEMMA MarkFair ==
    ASSUME TypeInv, IdsKept, NEW r \in Procs, proc[r].step \in {"policy", "applied"}, proc[r].todo # <<>>,
           proc[r].complete, Fair(r), chains' = chains, veth' = veth, NextPolicy(r), file' # Missing,
           \A d \in UserChain : d # HeadChain(r) => file'.Policies[d] = loadOrInit.Policies[d],
           ToSet(Tail(proc[r].todo)) \subseteq ToSet(file'.Policies[HeadChain(r)]),
           Matching(chains[HeadChain(r)], veth, HeadChain(r),
                    ToSet(file'.Policies[HeadChain(r)]) \ ToSet(Tail(proc[r].todo)))
    PROVE  Fair(r)'
  <1>0. ProcTyped /\ TypeOK
    BY TypeParts DEF TypeInv
  <1> DEFINE c == HeadChain(r)
             q2 == proc'[r]
             np2 == file'
  <1>1. /\ c \in UserChain /\ c = UserChains[proc[r].chain] /\ proc[r].chain \in 1..3
        /\ proc[r].todo \in Seq(PolicyEntry) /\ UniqueIds(proc[r].todo)
        /\ Written(chains, veth, loadOrInit, proc[r])
    BY HandIs
  <1>2. Only(r) /\ Keeps(r, {"step", "todo"}) /\ q2.step = "policy" /\ q2.todo = Tail(proc[r].todo)
    BY <1>0, NextPolicyIs
  <1>3. q2.chain = proc[r].chain
    BY <1>2 DEF Keeps, Fields
  <1>4. loadOrInit' = np2
    BY DEF loadOrInit
  <1>5. UniqueIds(q2.todo)
    BY <1>1, <1>2, TailSet
  <1>6. UserChains[q2.chain] = c
    BY <1>1, <1>3
  <1>7. ToSet(q2.todo) \subseteq ToSet(np2.Policies[c]) /\ Matching(chains[c], veth, c, ToSet(np2.Policies[c]) \ ToSet(q2.todo))
    BY <1>2
  <1>8. \A d \in UserChain : d # c => np2.Policies[d] = loadOrInit.Policies[d]
    OBVIOUS
  <1>9. np2 = file' /\ q2 = proc'[r]
    OBVIOUS
  <1> HIDE DEF c, q2, np2
  <1>10. Dealt(q2, proc[r].chain, ToSet(np2.Policies[c])) = ToSet(np2.Policies[c]) \ ToSet(q2.todo)
    BY <1>1, <1>2, <1>3, DealtIs
  <1>11. Matching(chains[c], veth, c, Dealt(q2, proc[r].chain, ToSet(np2.Policies[c])))
    BY <1>7, <1>10
  <1>12. Written(chains, veth, np2, q2)
    BY <1>1, <1>3, <1>8, <1>11, WrittenStep
  <1>13. InHand(np2, q2)
    BY <1>5, <1>6, <1>7 DEF InHand
  <1>14. Written(chains', veth', loadOrInit', proc'[r]) /\ InHand(loadOrInit', proc'[r]) /\ proc'[r].step = "policy"
    BY <1>2, <1>4, <1>9, <1>12, <1>13
  <1> QED
    BY <1>14 DEF Fair

LEMMA MarkingFair ==
    ASSUME TypeInv, IdsKept, NEW r \in Procs, proc[r].complete, Fair(r),
           RemoveFlagged(r) \/ MarkUnresolved(r) \/ MarkApplied(r)
    PROVE  Fair(r)'
  <1>0. ProcTyped /\ TypeOK
    BY TypeParts DEF TypeInv
  <1> DEFINE c == HeadChain(r)
             todo == proc[r].todo
             h == Head(todo)
             S == ToSet(loadOrInit.Policies[c])
             T == ToSet(todo)
  <1>1. proc[r].step \in {"policy", "applied"} /\ todo # <<>> /\ chains' = chains /\ veth' = veth
    BY <1>0, RecordIs DEF Shaped, RemoveFlagged, MarkUnresolved, MarkApplied, At, iptables, hosts
  <1>2. /\ c \in UserChain /\ proc[r].chain \in 1..3
        /\ todo \in Seq(PolicyEntry) /\ UniqueIds(todo) /\ T \subseteq S
        /\ Matching(chains[c], veth, c, Dealt(proc[r], proc[r].chain, S))
    BY <1>1, HandIs
  <1>3. HasPolicy(loadOrInit, c, h.id)
    BY <1>0, <1>1, <1>2, MarkedIs
  <1>4. NextPolicy(r)
    BY <1>3, Zenon DEF RemoveFlagged, MarkUnresolved, MarkApplied
  <1>a. \A st \in Statuses : UpdateStatus(c, h.id, st) =>
                     /\ file' # Missing /\ \A d \in UserChain : d # c => file'.Policies[d] = loadOrInit.Policies[d]
                     /\ ToSet(Tail(todo)) \subseteq ToSet(file'.Policies[c])
                     /\ ToSet(file'.Policies[c]) \ ToSet(Tail(todo)) = (S \ T) \cup {[h EXCEPT !.Status = st]}
    BY <1>0, <1>1, <1>2, MarkedIs
  <1>5. CASE RemoveFlagged(r)
    <2>1. RemovePolicy(c, h.id) /\ proc[r].step = "policy"
      BY <1>3, <1>5, Zenon DEF RemoveFlagged, At
    <2>2. /\ file' # Missing /\ \A d \in UserChain : d # c => file'.Policies[d] = loadOrInit.Policies[d]
          /\ ToSet(Tail(todo)) \subseteq ToSet(file'.Policies[c])
          /\ ToSet(file'.Policies[c]) \ ToSet(Tail(todo)) = S \ T
      BY <1>0, <1>1, <1>2, <2>1, MarkedIs
    <2>3. Dealt(proc[r], proc[r].chain, S) = S \ T
      BY <1>2, <2>1, DealtIs
    <2>4. Matching(chains[c], veth, c, ToSet(file'.Policies[c]) \ ToSet(Tail(todo)))
      BY <1>2, <2>2, <2>3
    <2> QED
      BY <1>1, <1>4, <2>2, <2>4, MarkFair
  <1>6. CASE MarkUnresolved(r)
    <2> DEFINE g == [h EXCEPT !.Status = "unresolved"]
    <2>1. UpdateStatus(c, h.id, "unresolved") /\ proc[r].step = "policy"
      BY <1>3, <1>6, Zenon DEF MarkUnresolved, At
    <2>2. /\ file' # Missing /\ \A d \in UserChain : d # c => file'.Policies[d] = loadOrInit.Policies[d]
          /\ ToSet(Tail(todo)) \subseteq ToSet(file'.Policies[c])
          /\ ToSet(file'.Policies[c]) \ ToSet(Tail(todo)) = (S \ T) \cup {g}
      BY <1>a, <2>1 DEF Statuses
    <2>3. Dealt(proc[r], proc[r].chain, S) = S \ T
      BY <1>2, <2>1, DealtIs
    <2>4. h \in PolicyEntry
      <3> HIDE DEF todo
      <3> QED
        BY <1>1, <1>2, SeqHeadTail
    <2>5. g.Status = "unresolved"
      <3> HIDE DEF h
      <3> QED
        BY <2>4 DEF PolicyEntry
    <2> HIDE DEF g
    <2>6. Matching(chains[c], veth, c, (S \ T) \cup {g})
      <3> HIDE DEF S, T, c
      <3> QED
        BY <1>2, <2>3, <2>5, UnresolvedMatches
    <2>7. Matching(chains[c], veth, c, ToSet(file'.Policies[c]) \ ToSet(Tail(todo)))
      BY <2>2, <2>6
    <2> QED
      BY <1>1, <1>4, <2>2, <2>7, MarkFair
  <1>7. CASE MarkApplied(r)
    <2> DEFINE g == [h EXCEPT !.Status = "applied"]
    <2>1. UpdateStatus(c, h.id, "applied") /\ proc[r].step = "applied"
      BY <1>3, <1>7, Zenon DEF MarkApplied, At
    <2>2. /\ file' # Missing /\ \A d \in UserChain : d # c => file'.Policies[d] = loadOrInit.Policies[d]
          /\ ToSet(Tail(todo)) \subseteq ToSet(file'.Policies[c])
          /\ ToSet(file'.Policies[c]) \ ToSet(Tail(todo)) = (S \ T) \cup {g}
      BY <1>a, <2>1 DEF Statuses
    <2>3. Dealt(proc[r], proc[r].chain, S) = (S \ T) \cup {g}
      BY <1>2, <2>1, DealtIs
    <2>4. Matching(chains[c], veth, c, ToSet(file'.Policies[c]) \ ToSet(Tail(todo)))
      BY <1>2, <2>2, <2>3
    <2> QED
      BY <1>1, <1>4, <2>2, <2>4, MarkFair
  <1> QED
    BY <1>5, <1>6, <1>7

LEMMA InsertFair ==
    ASSUME TypeInv, NEW r \in Procs, proc[r].complete, Fair(r), InsertUserPolicy(r)
    PROVE  Fair(r)'
  <1>0. ProcTyped /\ RestTyped
    BY TypeParts
  <1> DEFINE c == HeadChain(r)
             todo == proc[r].todo
             h == Head(todo)
             S == ToSet(loadOrInit.Policies[c])
             T == ToSet(todo)
             g == [h EXCEPT !.Status = "applied"]
             rule == UserRule(c, h.hosts)
             q2 == proc'[r]
             ch2 == chains'
  <1>1. /\ proc[r].step = "policy" /\ todo # <<>> /\ veth' = veth /\ file' = file /\ Goto(r, "applied")
    BY DEF InsertUserPolicy, At, npm, hosts
  <1>2. /\ c \in UserChain /\ c = UserChains[proc[r].chain] /\ proc[r].chain \in 1..3
        /\ todo \in Seq(PolicyEntry) /\ UniqueIds(todo) /\ T \subseteq S
        /\ Written(chains, veth, loadOrInit, proc[r])
        /\ Matching(chains[c], veth, c, Dealt(proc[r], proc[r].chain, S))
    BY <1>1, HandIs
  <1>3. /\ rule \in Rules /\ rule.on = "user"
        /\ \A d \in Chain : d # c => ch2[d] = chains[d]
        /\ ch2[c] = InsertRuleToChain(chains[c], rule)
    BY InsertChains
  <1>4. Only(r) /\ q2.step = "applied" /\ Keeps(r, {"step"})
    BY <1>0, <1>1, GotoIs DEF Steps
  <1>5. q2.chain = proc[r].chain /\ q2.todo = todo
    BY <1>4 DEF Keeps, Fields
  <1>6. h \in PolicyEntry
    <2> HIDE DEF todo
    <2> QED
      BY <1>1, <1>2, SeqHeadTail
  <1>7. g.Status = "applied" /\ g.hosts = h.hosts
    <2> HIDE DEF h
    <2> QED
      BY <1>6 DEF PolicyEntry
  <1>8. rule = RuleOf(veth, c, g.hosts)
    <2> HIDE DEF g
    <2> QED
      BY <1>7, Zenon DEF UserRule, RuleOf
  <1>9. Dealt(proc[r], proc[r].chain, S) = S \ T
    BY <1>1, <1>2, DealtIs
  <1>10. Dealt(q2, proc[r].chain, S) = (S \ T) \cup {g}
    <2>1. q2.chain \in 1..3 /\ proc[r].chain = q2.chain /\ q2.step = "applied"
      BY <1>2, <1>4, <1>5
    <2> HIDE DEF q2
    <2>2. Dealt(q2, proc[r].chain, S) = (S \ ToSet(q2.todo)) \cup {[Head(q2.todo) EXCEPT !.Status = "applied"]}
      BY <2>1, DealtIs
    <2> QED
      BY <1>5, <2>2
  <1>11. chains[c] \in Seq(Rules)
    BY <1>0, <1>2 DEF RestTyped, Chain
  <1>12. Matching(ch2[c], veth, c, (S \ T) \cup {g})
    <2> HIDE DEF S, T, c, g, rule, ch2
    <2>1. Matching(InsertRuleToChain(chains[c], rule), veth, c, (S \ T) \cup {g})
      BY <1>2, <1>3, <1>7, <1>8, <1>9, <1>11, InsertMatches
    <2> QED
      BY <1>3, <2>1
  <1>13. loadOrInit' = loadOrInit
    BY <1>1 DEF loadOrInit
  <1>14. \A d \in UserChain : d # c => ch2[d] = chains[d]
    BY <1>3 DEF Chain
  <1>15. Matching(ch2[c], veth, c, Dealt(q2, proc[r].chain, ToSet(loadOrInit.Policies[c])))
    BY <1>10, <1>12
  <1>16. UniqueIds(q2.todo) /\ ToSet(q2.todo) \subseteq ToSet(loadOrInit.Policies[c])
    BY <1>2, <1>5
  <1>17. q2 = proc'[r] /\ ch2 = chains'
    OBVIOUS
  <1> HIDE DEF c, q2, ch2
  <1>18. Written(ch2, veth, loadOrInit, q2)
    BY <1>2, <1>5, <1>14, <1>15, WrittenStep
  <1>19. InHand(loadOrInit, q2)
    BY <1>2, <1>5, <1>16 DEF InHand
  <1>20. Written(chains', veth', loadOrInit', proc'[r]) /\ InHand(loadOrInit', proc'[r]) /\ proc'[r].step = "applied"
    BY <1>1, <1>4, <1>13, <1>17, <1>18, <1>19
  <1> QED
    BY <1>20 DEF Fair

LEMMA ListFair ==
    ASSUME TypeInv, IdsKept, NEW r \in Procs, proc[r].complete, Fair(r), ListPolicies(r)
    PROVE  Fair(r)'
  <1>0. ProcTyped /\ RestTyped /\ TypeOK
    BY TypeParts DEF TypeInv
  <1> DEFINE c == UserChains[proc[r].chain]
             S == ToSet(loadOrInit.Policies[c])
             q2 == proc'[r]
  <1>1. proc[r].step = "list" /\ chains' = chains /\ veth' = veth /\ file' = file
    BY DEF ListPolicies, At, npm, iptables, hosts
  <1>2. Only(r) /\ Keeps(r, {"step", "todo"}) /\ q2.step = "policy" /\ q2.todo = loadOrInit.Policies[c]
    BY ListPoliciesIs
  <1>3. proc[r].chain \in 1..3 /\ q2.chain = proc[r].chain
    BY <1>0, <1>2, RecordIs DEF Keeps, Fields
  <1>4. c \in UserChain /\ Written(chains, veth, loadOrInit, proc[r])
    BY <1>1, <1>3, ChainNames DEF Fair
  <1>5. Matching(chains[c], veth, c, Dealt(proc[r], proc[r].chain, S))
    BY <1>3, <1>4, Zenon DEF Written
  <1>6. Dealt(proc[r], proc[r].chain, S) = {}
    BY <1>1, <1>3, DealtIs
  <1>7. q2 = proc'[r] /\ c = UserChains[proc[r].chain]
    OBVIOUS
  <1>8. UniqueIds(loadOrInit.Policies[c])
    BY <1>4, LoadNumbered DEF Numbered
  <1> HIDE DEF q2, c
  <1>9. Dealt(q2, proc[r].chain, S) = {}
    <2>1. Dealt(q2, proc[r].chain, S) = S \ ToSet(q2.todo)
      BY <1>2, <1>3, DealtIs
    <2> QED
      BY <1>2, <2>1
  <1>10. Written(chains, veth, loadOrInit, q2)
    <2>1. Matching(chains[c], veth, c, Dealt(q2, proc[r].chain, ToSet(loadOrInit.Policies[c])))
      BY <1>5, <1>6, <1>9
    <2> QED
      BY <1>3, <1>4, <1>7, <2>1, WrittenStep
  <1>11. InHand(loadOrInit, q2)
    BY <1>2, <1>3, <1>7, <1>8 DEF InHand
  <1>12. loadOrInit' = loadOrInit
    BY <1>1 DEF loadOrInit
  <1>13. Written(chains', veth', loadOrInit', proc'[r]) /\ InHand(loadOrInit', proc'[r]) /\ proc'[r].step = "policy"
    BY <1>1, <1>2, <1>7, <1>10, <1>11, <1>12
  <1> QED
    BY <1>13 DEF Fair

LEMMA PolicyStepsFair ==
    ASSUME TypeInv, PolicyInv, RulesInv, IdsKept, NEW r \in Procs,
           \/ ListPolicies(r) \/ RemoveFlagged(r) \/ MarkUnresolved(r) \/ MarkApplied(r)
           \/ InsertUserPolicy(r) \/ InsertFails(r)
    PROVE  RulesInv'
  <1>0. ProcTyped /\ RestTyped
    BY TypeParts
  <1>1. proc[r].step \in {"list", "policy", "applied"} /\ shared' = shared /\ last' = last
    BY Zenon DEF ListPolicies, RemoveFlagged, MarkUnresolved, MarkApplied, InsertUserPolicy, InsertFails, At, outcome
  <1>2. /\ Only(r) /\ proc'[r].step \in {"policy", "applied"}
        /\ proc'[r].complete = proc[r].complete \/ (InsertFails(r) /\ ~proc'[r].complete)
    <2>1. CASE ListPolicies(r)
      BY <2>1, ListPoliciesIs DEF Keeps, Fields
    <2>2. CASE RemoveFlagged(r) \/ MarkUnresolved(r) \/ MarkApplied(r)
      <3>1. Only(r) /\ Keeps(r, {"step", "todo", "ok"}) /\ proc'[r].step = "policy"
        BY <2>2, MarkingIs
      <3> QED
        BY <3>1 DEF Keeps, Fields
    <2>3. CASE InsertUserPolicy(r)
      <3>1. Only(r) /\ proc'[r].step = "applied" /\ Keeps(r, {"step"})
        BY <1>0, <2>3, GotoIs DEF InsertUserPolicy, Steps
      <3> QED
        BY <3>1 DEF Keeps, Fields
    <2>4. CASE InsertFails(r)
      BY <1>0, <2>4, InsertFailsIs
    <2> QED
      BY <2>1, <2>2, <2>3, <2>4
  <1>4. proc[r].step # "idle" /\ proc'[r].step # "idle"
    BY <1>1, <1>2
  <1>5. CASE r \in shared
    BY <1>1, <1>2, <1>4, <1>5, RulesShared
  <1>6. CASE r \notin shared
    <2>1. Fair(r)
      BY <1>4, <1>6, FairNow
    <2>2. CASE ~proc'[r].complete
      <3>1. Fair(r)'
        BY <1>2, <2>2 DEF Fair
      <3> QED
        BY <1>1, <1>2, <1>4, <1>6, <3>1, RulesSolo
    <2>3. CASE proc'[r].complete
      <3>1. proc[r].complete /\ ~InsertFails(r)
        <4>1. InsertFails(r) => ~proc'[r].complete
          BY <1>0, InsertFailsIs
        <4> QED
          BY <1>2, <2>3, <4>1, Zenon
      <3>2. Fair(r)'
        BY <2>1, <3>1, ListFair, MarkingFair, InsertFair
      <3> QED
        BY <1>1, <1>2, <1>4, <1>6, <3>2, RulesSolo
    <2> QED
      BY <2>2, <2>3
  <1> QED
    BY <1>5, <1>6

-----------------------------------------------------------------------------
\* The end of a rebuild, and the copies of the file.
LEMMA AllDealt ==
    ASSUME NEW ch, NEW v, NEW np, NEW q, q.chain = 3, q.step = "policy", q.todo = <<>>, Written(ch, v, np, q)
    PROVE  Fits(ch, v, np)
  <1> SUFFICES ASSUME NEW c \in UserChain
               PROVE  Matching(ch[c], v, c, ToSet(np.Policies[c]))
    BY DEF Fits
  <1>1. PICK i \in 1..3 : UserChains[i] = c
    BY ChainsDiffer
  <1> DEFINE S == ToSet(np.Policies[c])
  <1>2. Matching(ch[c], v, c, Dealt(q, i, S))
    BY <1>1, Zenon DEF Written
  <1>3. ToSet(q.todo) = {}
    BY DEF ToSet
  <1> HIDE DEF S
  <1>4. Dealt(q, i, S) = S
    <2>1. i < q.chain \/ i = q.chain
      OBVIOUS
    <2>2. CASE i < q.chain
      BY <2>2, DealtIs
    <2>3. CASE i = q.chain
      <3>1. Dealt(q, i, S) = S \ ToSet(q.todo)
        BY <2>3, DealtIs
      <3> QED
        BY <1>3, <3>1
    <2> QED
      BY <2>1, <2>2, <2>3
  <1>5. Matching(ch[c], v, c, S)
    BY <1>2, <1>4
  <1> QED
    BY <1>5 DEF S

LEMMA NextChainDealt ==
    ASSUME NEW ch, NEW v, NEW np, NEW q, q.chain \in 1..2, q.step = "policy", q.todo = <<>>, Written(ch, v, np, q),
           NEW q2, q2.chain = q.chain + 1, q2.step = "list"
    PROVE  Written(ch, v, np, q2)
  <1> SUFFICES ASSUME NEW i \in 1..3
               PROVE  Matching(ch[UserChains[i]], v, UserChains[i], Dealt(q2, i, ToSet(np.Policies[UserChains[i]])))
    BY DEF Written
  <1> DEFINE S == ToSet(np.Policies[UserChains[i]])
  <1>1. Matching(ch[UserChains[i]], v, UserChains[i], Dealt(q, i, S))
    BY Zenon DEF Written
  <1>2. ToSet(q.todo) = {}
    BY DEF ToSet
  <1> HIDE DEF S
  <1>3. q.chain \in 1..3 /\ q2.chain \in 1..3
    OBVIOUS
  <1>4. CASE i < q.chain
    <2>1. i < q2.chain
      BY <1>4
    <2>2. Dealt(q, i, S) = S /\ Dealt(q2, i, S) = S
      BY <1>3, <1>4, <2>1, DealtIs
    <2> QED
      BY <1>1, <2>2 DEF S
  <1>5. CASE i = q.chain
    <2>1. i < q2.chain
      BY <1>5
    <2>2. Dealt(q, i, S) = S \ ToSet(q.todo) /\ Dealt(q2, i, S) = S
      BY <1>3, <1>5, <2>1, DealtIs
    <2>3. S \ ToSet(q.todo) = S
      BY <1>2
    <2> QED
      BY <1>1, <2>2, <2>3 DEF S
  <1>6. CASE i > q.chain
    <2>1. i = q2.chain \/ i > q2.chain
      BY <1>6
    <2>2. Dealt(q, i, S) = {} /\ Dealt(q2, i, S) = {}
      BY <1>3, <1>6, <2>1, DealtIs
    <2> QED
      BY <1>1, <2>2 DEF S
  <1>7. i < q.chain \/ i = q.chain \/ i > q.chain
    OBVIOUS
  <1> QED
    BY <1>4, <1>5, <1>6, <1>7

LEMMA EndingFair ==
    ASSUME TypeInv, PolicyInv, RulesInv, NEW r \in Procs, CommandFails(r) \/ ChainDone(r)
    PROVE  RulesInv'
  <1>0. ProcTyped /\ RestTyped
    BY TypeParts
  <1>1. CASE CommandFails(r)
    <2>1. proc[r].step # "idle" /\ proc' = [proc EXCEPT ![r] = Idle] /\ shared' = shared
      BY <1>1 DEF CommandFails, At
    <2>2. Only(r) /\ proc'[r].step = "idle"
      BY <1>0, <2>1, StopIs
    <2>3. CASE r \in shared
      <3>1. last' = "overlapped"
        BY <1>1, <2>3 DEF CommandFails
      <3> QED
        BY <2>1, <2>2, <2>3, <3>1, RulesShared
    <2>4. CASE r \notin shared
      <3>1. last' = "failed"
        BY <1>1, <2>4 DEF CommandFails
      <3>2. Kept(running)'
        BY <3>1 DEF Kept
      <3> QED
        BY <2>1, <2>2, <2>4, <3>2, RulesSolo
    <2> QED
      BY <2>3, <2>4
  <1>2. CASE ChainDone(r)
    <2>0. /\ proc[r].step = "policy" /\ proc[r].step # "idle" /\ proc[r].todo = <<>> /\ shared' = shared
          /\ UNCHANGED <<npm, iptables, hosts>> /\ (last' = last \/ last' = Outcome(r))
      BY <1>2 DEF ChainDone, At
    <2>1. loadOrInit' = loadOrInit /\ chains' = chains /\ veth' = veth
      BY <2>0 DEF npm, hosts, iptables, loadOrInit
    <2>2. Only(r)
      BY <1>0, <1>2, NextChainIs, GotoIs, StopIs DEF ChainDone, Steps
    <2>3. CASE r \in shared
      <3>1. Outcome(r) = "overlapped"
        BY <2>3 DEF Outcome
      <3> QED
        BY <2>0, <2>2, <2>3, <3>1, RulesShared
    <2>4. CASE r \notin shared
      <3>0. Fair(r) /\ Shaped(proc[r]) /\ proc[r].chain \in 1..3
        BY <1>0, <2>0, <2>4, FairNow, RecordIs
      <3>1. proc[r].complete => Written(chains, veth, loadOrInit, proc[r])
        BY <2>0, <3>0, Zenon DEF Fair
      <3>3. CASE proc[r].chain < Len(UserChains) /\ proc' = [proc EXCEPT ![r].step = "list", ![r].chain = @ + 1]
        <4>1. Keeps(r, {"step", "chain"}) /\ proc'[r].step = "list" /\ proc'[r].chain = proc[r].chain + 1
          BY <1>0, <3>3, NextChainIs
        <4>2. proc'[r].complete = proc[r].complete
          BY <4>1 DEF Keeps, Fields
        <4>3. proc[r].chain \in 1..2
          BY <3>0, <3>3, ChainNames
        <4>4. proc[r].complete => Written(chains, veth, loadOrInit, proc'[r])
          BY <2>0, <3>1, <4>1, <4>3, NextChainDealt
        <4>5. proc'[r].complete => Written(chains', veth', loadOrInit', proc'[r])
          BY <2>1, <4>2, <4>4, Zenon
        <4>6. Fair(r)'
          BY <4>1, <4>5 DEF Fair
        <4>7. proc'[r].step # "idle"
          BY <4>1
        <4> QED
          BY <2>0, <2>2, <2>4, <4>6, <4>7, RulesSolo
      <3>4. CASE proc[r].chain = Len(UserChains) /\ Goto(r, "backup")
        <4>1. Keeps(r, {"step"}) /\ proc'[r].step = "backup"
          BY <1>0, <3>4, GotoIs DEF Steps
        <4>2. proc'[r].kind = proc[r].kind /\ proc[r].kind # "revert" /\ proc'[r].complete = proc[r].complete
          BY <2>0, <3>0, <4>1 DEF Keeps, Fields, Shaped, BuildSteps
        <4>3. proc[r].chain = 3
          BY <3>4, ChainNames
        <4>4. proc[r].complete => Fits(chains, veth, loadOrInit)
          BY <2>0, <3>1, <4>3, AllDealt
        <4>5. proc'[r].complete => Fits(chains', veth', loadOrInit')
          BY <2>1, <4>2, <4>4, Zenon
        <4>6. Fair(r)'
          BY <4>1, <4>2, <4>5 DEF Fair
        <4>7. proc'[r].step # "idle"
          BY <4>1
        <4> QED
          BY <2>0, <2>2, <2>4, <4>6, <4>7, RulesSolo
      <3>5. CASE /\ ~proc[r].ok \/ proc[r].kind = "boot"
                 /\ proc' = [proc EXCEPT ![r] = Idle]
                 /\ last' = Outcome(r)
        <4>1. proc'[r].step = "idle"
          BY <1>0, <3>5, StopIs
        <4>2. last' # "commit"
          BY <2>4, <3>5 DEF Outcome
        <4>3. Kept(running)'
          BY <4>2 DEF Kept
        <4> QED
          BY <2>0, <2>2, <2>4, <4>1, <4>3, RulesSolo
      <3> QED
        BY <1>2, <3>3, <3>4, <3>5 DEF ChainDone
    <2> QED
      BY <2>3, <2>4
  <1> QED
    BY <1>1, <1>2

LEMMA RunningKept ==
    ASSUME UNCHANGED <<chains, veth, last, running>>, Kept(running)
    PROVE  Kept(running)'
  BY KeptStays DEF Kept

LEMMA CopyingFair ==
    ASSUME TypeInv, PolicyInv, RulesInv, NEW r \in Procs,
           OpenForBackup(r) \/ Backup(r) \/ RenameAway(r) \/ Restore(r) \/ SetNSMode(r)
    PROVE  RulesInv'
  <1>0. ProcTyped /\ RestTyped
    BY TypeParts
  <1>1. /\ proc[r].step \in {"backup", "copy", "rename", "restore", "set mode"} /\ proc[r].step # "idle"
        /\ shared' = shared /\ chains' = chains /\ veth' = veth
    BY DEF OpenForBackup, Backup, RenameAway, Restore, SetNSMode, At, outcome, hosts, iptables
  <1>2. Only(r)
    BY <1>0, SnapIs, GotoIs, StopIs DEF OpenForBackup, Backup, RenameAway, Restore, SetNSMode, Steps
  <1>3. CASE r \in shared
    <2>1. last' = last \/ last' = "overlapped"
      BY <1>3 DEF OpenForBackup, Backup, RenameAway, Restore, SetNSMode, Outcome, outcome
    <2> QED
      BY <1>1, <1>2, <1>3, <2>1, RulesShared
  <1>4. CASE r \notin shared
    <2>0. Fair(r) /\ Sound(r) /\ Shaped(proc[r])
      BY <1>0, <1>1, <1>4, FairNow, SoundNow, RecordIs
    <2>1. CASE SetNSMode(r)
      <3>1. proc' = [proc EXCEPT ![r] = Idle] /\ last' = last /\ running' = running /\ proc[r].step = "set mode"
        BY <2>1 DEF SetNSMode, At, outcome
      <3>2. Kept(running)
        BY <2>0, <3>1 DEF Fair
      <3>3. Kept(running)'
        BY <1>1, <3>1, <3>2, RunningKept
      <3>4. proc'[r].step = "idle"
        BY <1>0, <3>1, StopIs
      <3> QED
        BY <1>1, <1>2, <1>4, <3>3, <3>4, RulesSolo
    <2>2. CASE RenameAway(r)
      <3>1. last' = last /\ running' = running /\ proc[r].step = "rename"
        BY <2>2 DEF RenameAway, At, outcome
      <3>2. Kept(running)
        BY <2>0, <3>1 DEF Fair
      <3>3. Kept(running)'
        BY <1>1, <3>1, <3>2, RunningKept
      <3>4. proc'[r].step \in {"idle", "restore"}
        BY <1>0, <2>2, StopIs, GotoIs DEF RenameAway, Steps
      <3>5. proc'[r].step = "restore" => Fair(r)'
        BY <3>3 DEF Fair
      <3> QED
        BY <1>1, <1>2, <1>4, <3>3, <3>4, <3>5, RulesSolo
    <2>3. CASE Restore(r)
      <3>1. last' = last /\ proc[r].step = "restore"
        BY <2>3 DEF Restore, At, outcome
      <3>2. Kept(running)
        BY <2>0, <3>1 DEF Fair
      <3>3. CASE running # Missing /\ file' = running /\ Goto(r, "backup")
        <4>1. Keeps(r, {"step"}) /\ proc'[r].step = "backup"
          BY <1>0, <3>3, GotoIs DEF Steps
        <4>2. proc'[r].kind = "revert"
          BY <2>0, <3>1, <4>1 DEF Keeps, Fields, Shaped
        <4>3. Kept(file)'
          BY <1>1, <3>1, <3>2, <3>3, KeptStays DEF Kept
        <4>4. Fair(r)'
          BY <4>1, <4>2, <4>3 DEF Fair
        <4>5. proc'[r].step # "idle"
          BY <4>1
        <4> QED
          BY <1>1, <1>2, <1>4, <4>4, <4>5, RulesSolo
      <3>4. CASE proc' = [proc EXCEPT ![r] = Idle] /\ UNCHANGED npm
        <4>1. running' = running
          BY <3>4 DEF npm
        <4>2. Kept(running)'
          BY <1>1, <3>1, <3>2, <4>1, RunningKept
        <4>3. proc'[r].step = "idle"
          BY <1>0, <3>4, StopIs
        <4> QED
          BY <1>1, <1>2, <1>4, <4>2, <4>3, RulesSolo
      <3> QED
        BY <2>3, <3>3, <3>4 DEF Restore
    <2>4. CASE OpenForBackup(r)
      <3>1. proc[r].step = "backup" /\ UNCHANGED <<file, running>>
        BY <2>4 DEF OpenForBackup, At, npm
      <3>2. CASE file # Missing /\ proc' = [proc EXCEPT ![r].step = "copy", ![r].snap = file] /\ last' = last
        <4>1. Keeps(r, {"step", "snap"}) /\ proc'[r].step = "copy" /\ proc'[r].snap = file
          BY <1>0, <3>2, SnapIs
        <4>2. proc'[r].kind = proc[r].kind /\ proc'[r].complete = proc[r].complete /\ loadOrInit = file
          BY <3>2, <4>1 DEF Keeps, Fields, loadOrInit
        <4>3. proc[r].kind = "revert" => Kept(proc[r].snap)'
          <5>1. proc[r].kind = "revert" => Kept(file)
            BY <2>0, <3>1 DEF Fair
          <5> QED
            BY <1>1, <3>2, <4>1, <5>1, KeptStays DEF Kept
        <4>4. proc[r].kind # "revert" /\ proc'[r].complete => Fits(chains', veth', proc'[r].snap)
          <5>1. proc[r].kind # "revert" /\ proc[r].complete => Fits(chains, veth, loadOrInit)
            BY <2>0, <3>1, Zenon DEF Fair
          <5> QED
            BY <1>1, <4>1, <4>2, <5>1, Zenon
        <4>5. Fair(r)'
          BY <4>1, <4>2, <4>3, <4>4 DEF Fair
        <4>6. proc'[r].step # "idle"
          BY <4>1
        <4> QED
          BY <1>1, <1>2, <1>4, <4>5, <4>6, RulesSolo
      <3>3. CASE /\ file = Missing
                 /\ proc' = [proc EXCEPT ![r] = Idle]
                 /\ last' = IF proc[r].kind = "revert" THEN last ELSE "overlapped"
        <4>1. proc[r].kind # "revert"
          BY <2>0, <3>1, <3>3 DEF Sound
        <4>2. Kept(running)'
          BY <3>3, <4>1 DEF Kept
        <4>3. proc'[r].step = "idle"
          BY <1>0, <3>3, StopIs
        <4> QED
          BY <1>1, <1>2, <1>4, <4>2, <4>3, RulesSolo
      <3> QED
        BY <2>4, <3>2, <3>3 DEF OpenForBackup
    <2>5. CASE Backup(r)
      <3>1. /\ proc[r].step = "copy" /\ running' = proc[r].snap /\ proc' = [proc EXCEPT ![r] = Idle]
            /\ last' = IF proc[r].kind = "revert" THEN last ELSE Outcome(r)
        BY <2>5 DEF Backup, At
      <3>2. proc'[r].step = "idle"
        BY <1>0, <3>1, StopIs
      <3>3. CASE proc[r].kind = "revert"
        <4>1. Kept(proc[r].snap) /\ last' = last
          BY <2>0, <3>1, <3>3 DEF Fair
        <4>2. Kept(running)'
          BY <1>1, <3>1, <4>1, KeptStays DEF Kept
        <4> QED
          BY <1>1, <1>2, <1>4, <3>2, <4>2, RulesSolo
      <3>4. CASE proc[r].kind # "revert"
        <4>1. last' = "commit" => proc[r].complete
          BY <1>4, <3>1, <3>4 DEF Outcome
        <4>2. proc[r].complete => Fits(chains, veth, proc[r].snap)
          BY <2>0, <3>1, <3>4, Zenon DEF Fair
        <4>3. last' = "commit" => Fits(chains', veth', running')
          BY <1>1, <3>1, <4>1, <4>2, Zenon
        <4>4. Kept(running)'
          BY <4>3 DEF Kept
        <4> QED
          BY <1>1, <1>2, <1>4, <3>2, <4>4, RulesSolo
      <3> QED
        BY <3>3, <3>4
    <2> QED
      BY <2>1, <2>2, <2>3, <2>4, <2>5
  <1> QED
    BY <1>3, <1>4

-----------------------------------------------------------------------------
\* The beginning of requests, and the theorem.
LEMMA RulesOverlap ==
    ASSUME NEW kind, NEW mine, Accept(kind, mine), Busy # {}, Busy' \subseteq Busy \cup mine
    PROVE  RulesInv'
  <1>1. shared' = shared \cup Busy \cup mine /\ last' = "overlapped"
    BY DEF Accept
  <1>2. \A q \in Busy' : q \in shared'
    BY <1>1
  <1> QED
    BY <1>1, <1>2 DEF RulesInv, Kept

LEMMA UserRequestFair ==
    ASSUME RulesInv,
           \/ \E c \in UserChain : \E hs \in Ends(c) : AddUserPolicy(c, hs)
           \/ \E id \in 1..MaxPolicies : RemoveUserPolicy(id)
    PROVE  RulesInv'
  <1>1. PICK kind : Accept(kind, {}) /\ UNCHANGED <<running, iptables, hosts, proc>>
    <2>1. \/ Accept("add", {}) /\ UNCHANGED <<running, iptables, hosts, proc>>
          \/ Accept("remove", {}) /\ UNCHANGED <<running, iptables, hosts, proc>>
      BY DEF AddUserPolicy, RemoveUserPolicy
    <2> QED
      BY <2>1
  <1>2. Busy' = Busy
    BY <1>1 DEF Busy
  <1>3. CASE Busy # {}
    BY <1>1, <1>2, <1>3, RulesOverlap
  <1>4. CASE Busy = {}
    <2>1. UNCHANGED <<chains, veth, last, running>>
      BY <1>1, <1>4 DEF Accept, hosts, iptables
    <2>2. Kept(running)'
      BY <1>4, <2>1, RunningKept DEF RulesInv
    <2> QED
      BY <1>2, <1>4, <2>2 DEF RulesInv
  <1> QED
    BY <1>3, <1>4

LEMMA BeginFair ==
    ASSUME NEW r \in Procs, NEW kind, Accept(kind, {r}), Only(r), proc'[r].step # "idle", Busy = {} => Fair(r)'
    PROVE  RulesInv'
  <1>1. Busy' = Busy \cup {r}
    BY DEF Busy, Only
  <1>2. CASE Busy # {}
    BY <1>1, <1>2, RulesOverlap
  <1>3. CASE Busy = {}
    <2>1. Busy' = {r}
      BY <1>1, <1>3
    <2> QED
      BY <1>3, <2>1 DEF RulesInv
  <1> QED
    BY <1>2, <1>3

LEMMA RequestFair ==
    ASSUME TypeInv, PolicyInv, RulesInv, NEW r \in Procs, Request(r)
    PROVE  RulesInv'
  <1>0. ProcTyped /\ RestTyped
    BY TypeParts
  <1>1. ASSUME NEW kind \in {"hook", "network", "commit", "revert"}, NEW step \in {"fix", "rename"},
               Begin(r, kind, step),
               step = "rename" => UNCHANGED <<running, chains, veth>>
        PROVE  RulesInv'
    <2> DEFINE q == [Idle EXCEPT !.kind = kind, !.step = step]
    <2>1. q \in Handler /\ q.step = step /\ q.chain = 1
      <3>1. q \in Handler
        BY IdleIs DEF Handler, Steps
      <3> QED
        BY <3>1 DEF Idle
    <2>2. proc' = [proc EXCEPT ![r] = q] /\ Accept(kind, {r})
      BY <1>1 DEF Begin
    <2> HIDE DEF q
    <2>3. Only(r) /\ proc'[r] = q
      BY <1>0, <2>1, <2>2, OnlyIs
    <2>4. ASSUME Busy = {} PROVE Fair(r)'
      <3>1. step = "rename" => Kept(running)'
        <4>1. last' = last /\ Kept(running)
          BY <2>2, <2>4 DEF Accept, RulesInv
        <4> QED
          BY <1>1, <4>1, RunningKept
      <3> QED
        BY <1>1, <2>1, <2>3, <3>1 DEF Fair
    <2>5. proc'[r].step # "idle"
      BY <1>1, <2>1, <2>3
    <2> QED
      BY <2>2, <2>3, <2>4, <2>5, BeginFair
  <1>2. CASE CommitPolicy(r)
    BY <1>1, <1>2 DEF CommitPolicy
  <1>3. CASE RevertPolicy(r)
    <2>1. Begin(r, "revert", "rename") /\ UNCHANGED <<running, chains, veth>>
      BY <1>3 DEF RevertPolicy, npm, hosts, iptables
    <2> QED
      BY <1>1, <2>1
  <1>4. ASSUME NEW h \in Hosts, HostChange(r, h) PROVE RulesInv'
    BY <1>1, <1>4 DEF HostChange
  <1>5. ASSUME NEW n \in Networks, NetworkChange(r, n) PROVE RulesInv'
    BY <1>1, <1>5 DEF NetworkChange
  <1>6. ASSUME NEW m \in Modes, ChangeNSMode(r, m) PROVE RulesInv'
    <2> DEFINE q == [Idle EXCEPT !.kind = "mode", !.step = "set mode", !.mode = m]
    <2>1. q \in Handler /\ q.step = "set mode"
      BY IdleIs DEF Handler, Steps
    <2>2. proc' = [proc EXCEPT ![r] = q] /\ Accept("mode", {r}) /\ UNCHANGED <<running, chains, veth>>
      BY <1>6 DEF ChangeNSMode, npm, hosts, iptables
    <2> HIDE DEF q
    <2>3. Only(r) /\ proc'[r] = q
      BY <1>0, <2>1, <2>2, OnlyIs
    <2>4. ASSUME Busy = {} PROVE Fair(r)'
      <3>1. last' = last /\ Kept(running)
        BY <2>2, <2>4 DEF Accept, RulesInv
      <3>2. Kept(running)'
        BY <2>2, <3>1, RunningKept
      <3> QED
        BY <2>1, <2>3, <3>2 DEF Fair
    <2>5. proc'[r].step # "idle"
      BY <2>1, <2>3
    <2> QED
      BY <2>2, <2>3, <2>4, <2>5, BeginFair
  <1>7. CASE SetNSMode(r)
    BY <1>7, CopyingFair
  <1> QED
    BY <1>2, <1>3, <1>4, <1>5, <1>6, <1>7 DEF Request

LEMMA BootFair ==
    ASSUME NEW r \in Procs, NEW p, p = [q \in Procs |-> IF q = r THEN [Idle EXCEPT !.kind = "boot", !.step = "networks"] ELSE Idle]
    PROVE  {q \in Procs : p[q].step # "idle"} = {r} /\ p[r].step = "networks" /\ p[r].chain = 1
  <1> DEFINE b == [Idle EXCEPT !.kind = "boot", !.step = "networks"]
  <1>1. b.step = "networks" /\ b.chain = 1 /\ Idle.step = "idle"
    BY DEF Idle
  <1>2. p = [q \in Procs |-> IF q = r THEN b ELSE Idle]
    OBVIOUS
  <1> HIDE DEF b
  <1> QED
    BY <1>1, <1>2

LEMMA RulesInit == Init => RulesInv
  <1> SUFFICES ASSUME Init PROVE RulesInv
    OBVIOUS
  <1>1. PICK r \in Procs : proc = [q \in Procs |-> IF q = r THEN [Idle EXCEPT !.kind = "boot", !.step = "networks"] ELSE Idle]
    BY DEF Init
  <1>2. Busy = {r} /\ proc[r].step = "networks" /\ proc[r].chain = 1
    BY <1>1, BootFair DEF Busy
  <1>3. Fair(r)
    BY <1>2 DEF Fair
  <1> QED
    BY <1>2, <1>3 DEF RulesInv

LEMMA RestartFair ==
    ASSUME NEW r \in Procs, Restart(r)
    PROVE  RulesInv'
  <1>1. proc' = [q \in Procs |-> IF q = r THEN [Idle EXCEPT !.kind = "boot", !.step = "networks"] ELSE Idle]
    BY DEF Restart
  <1>2. Busy' = {r} /\ proc'[r].step = "networks" /\ proc'[r].chain = 1
    BY <1>1, BootFair DEF Busy
  <1>3. Fair(r)'
    BY <1>2 DEF Fair
  <1> QED
    BY <1>2, <1>3 DEF RulesInv

LEMMA RulesNext == TypeInv /\ TypeInv' /\ PolicyInv /\ IdsKept /\ RulesInv /\ [Next]_vars => RulesInv'
  <1> SUFFICES ASSUME TypeInv, TypeInv', PolicyInv, IdsKept, RulesInv, [Next]_vars PROVE RulesInv'
    OBVIOUS
  <1>1. CASE UNCHANGED vars
    <2>1. /\ UNCHANGED <<file, running, chains, veth, networks, proc, last, shared>>
      BY <1>1 DEF vars, npm, iptables, hosts, outcome
    <2>2. Busy' = Busy /\ loadOrInit' = loadOrInit
      BY <2>1 DEF Busy, loadOrInit
    <2> QED
      BY <2>1, <2>2 DEF RulesInv, Fair, Kept
  <1>2. CASE Done
    BY <1>1, <1>2 DEF Done
  <1>3. ASSUME NEW r \in Procs, Step(r) PROVE RulesInv'
    BY <1>3, ReadingFair, CommandFair, PolicyStepsFair, EndingFair, CopyingFair DEF Step
  <1>4. ASSUME NEW r \in Procs, Request(r) \/ Restart(r) PROVE RulesInv'
    BY <1>4, RequestFair, RestartFair
  <1>5. CASE \/ \E c \in UserChain : \E hs \in Ends(c) : AddUserPolicy(c, hs)
             \/ \E id \in 1..MaxPolicies : RemoveUserPolicy(id)
    BY <1>5, UserRequestFair
  <1> QED
    BY <1>1, <1>2, <1>3, <1>4, <1>5 DEF Next

\* BuildUserPolicy: a request that no other has overlapped and that could insert
\* every rule has, at each of its steps, the rules of exactly those policies
\* that it has dealt with in the chains, and nothing of what stood there before.
THEOREM RulesInvariant == Spec => []RulesInv
  BY PolicyTypes, PolicyInvariant, PolicyNumbers, RulesInit, RulesNext, PTL DEF Spec

\* insertRaindEWUserPolicy and insertRaindNSUserPolicy, for any number of
\* policies, containers, requests and failures: after a commit the rules of
\* users that stand, at the head of their chains and for the interfaces there
\* are now, are those of the policies that the running copy calls applied;
\* nothing is left flagged for removal or waiting.
THEOREM RulesFollowStatus == Spec => []RulesMatchStatus
  <1>1. RulesInv => RulesMatchStatus
    <2> SUFFICES ASSUME RulesInv, Quiescent, last = "commit", running # Missing, NEW c \in UserChain
                 PROVE  /\ {rule \in ToSet(chains[c]) : rule.on = "user"}
                             = {UserRule(c, p.hosts) : p \in Applied(running, c)}
                        /\ \A i, j \in DOMAIN chains[c] : chains[c][i].on = "user" /\ chains[c][j].on # "user" => i < j
                        /\ \A p \in ToSet(running.Policies[c]) : p.Status \in {"applied", "unresolved"}
      BY Zenon DEF RulesMatchStatus
    <2> DEFINE D == ToSet(running.Policies[c])
    <2>1. Matching(chains[c], veth, c, D)
      BY DEF RulesInv, Quiescent, Kept, Fits
    <2>2. {UserRule(c, p.hosts) : p \in Applied(running, c)} = RulesOf(veth, c, D)
      BY Zenon DEF RulesOf, RuleOf, UserRule, Applied
    <2>3. {rule \in ToSet(chains[c]) : rule.on = "user"} = Of(chains[c])
      BY Zenon DEF Of
    <2>4. Of(chains[c]) = RulesOf(veth, c, D) /\ AtHead(chains[c]) /\ Decided(D)
      BY <2>1 DEF Matching
    <2>5. \A i, j \in DOMAIN chains[c] : chains[c][i].on = "user" /\ chains[c][j].on # "user" => i < j
      BY <2>4, Zenon DEF AtHead
    <2>6. \A p \in D : p.Status \in {"applied", "unresolved"}
      BY <2>4, Zenon DEF Decided
    <2> HIDE DEF D
    <2>7. {rule \in ToSet(chains[c]) : rule.on = "user"} = {UserRule(c, p.hosts) : p \in Applied(running, c)}
      BY <2>2, <2>3, <2>4
    <2> QED
      BY <2>5, <2>6, <2>7 DEF D
  <1> QED
    BY <1>1, RulesInvariant, PTL

=============================================================================
