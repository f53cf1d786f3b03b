----------------------------- MODULE ImageProofs ------------------------------
(***************************************************************************)
(* Proofs about module Image for any number of requests, images,           *)
(* directories, versions, layers, faults and containers, in three parts:   *)
(*                                                                         *)
(*   - layers: the extraction of every archive as image builders write     *)
(*     them is what the archive means (ExtractionIsOverlay);               *)
(*   - builds: what a build leaves behind, and when it goes on after RUN   *)
(*     (BuildInvariant);                                                   *)
(*   - files: where requests are and what they owe to the directories that *)
(*     they write (TypeInvariant, FilesInvariant), and with them that an   *)
(*     image that the index accepts is whole (ImagesAreUsable).            *)
(***************************************************************************)
EXTENDS Image, Integers, WellFoundedInduction, SequenceTheorems, FiniteSetTheorems, TLAPS

-----------------------------------------------------------------------------
\* Paths.
LEMMA PathIsSeq ==
    ASSUME NEW p \in Paths
    PROVE  p \in Seq(ToSet(p)) /\ Len(p) \in Nat /\ Len(p) > 0
BY PathsAssumption

LEMMA PrefixIs ==
    ASSUME NEW p \in Paths, NEW n \in 1..Len(p)
    PROVE  /\ SubSeq(p, 1, n) \in Seq(ToSet(p)) /\ Len(SubSeq(p, 1, n)) = n
           /\ \A i \in 1..n : SubSeq(p, 1, n)[i] = p[i]
<1>1. p \in Seq(ToSet(p)) /\ Len(p) \in Nat
  BY PathIsSeq
<1>2. \A i \in 1..n : p[i] \in ToSet(p)
  BY <1>1
<1>3. n \in Int /\ 1 \in Int
  BY <1>1
<1> QED
  BY <1>1, <1>2, <1>3, SubSeqProperties

LEMMA ParentsArePaths ==
    ASSUME NEW p \in Paths
    PROVE  Parents(p) \subseteq Paths /\ p \notin Parents(p)
<1>1. Parents(p) \subseteq Paths
  BY PathsAssumption DEF Parents
<1>2. ASSUME p \in Parents(p) PROVE FALSE
  <2>1. PICK n \in 1..(Len(p) - 1) : p = SubSeq(p, 1, n)
    BY <1>2 DEF Parents
  <2>2. n \in 1..Len(p)
    BY <2>1, PathIsSeq
  <2>3. Len(p) = n
    BY <2>1, <2>2, PrefixIs
  <2> QED
    BY <2>1, <2>3, PathIsSeq
<1> QED
  BY <1>1, <1>2

\* A prefix of a prefix.
LEMMA PrefixOfPrefix ==
    ASSUME NEW p \in Paths, NEW n \in 1..Len(p), NEW m \in 1..n, SubSeq(p, 1, n) \in Paths
    PROVE  SubSeq(SubSeq(p, 1, n), 1, m) = SubSeq(p, 1, m)
<1> DEFINE q == SubSeq(p, 1, n)
<1>0. n \in Nat /\ m \in Nat /\ m \in 1..Len(p)
  BY PathIsSeq
<1>1. q \in Paths /\ Len(q) = n /\ \A i \in 1..n : q[i] = p[i]
  BY PrefixIs
<1>2. /\ SubSeq(q, 1, m) \in Seq(ToSet(q)) /\ Len(SubSeq(q, 1, m)) = m
      /\ \A i \in 1..m : SubSeq(q, 1, m)[i] = q[i]
  <2> HIDE DEF q
  <2> QED BY <1>1, PrefixIs
<1>3. /\ SubSeq(p, 1, m) \in Seq(ToSet(p)) /\ Len(SubSeq(p, 1, m)) = m
      /\ \A i \in 1..m : SubSeq(p, 1, m)[i] = p[i]
  BY <1>0, PrefixIs
<1>4. \A i \in 1..m : SubSeq(q, 1, m)[i] = SubSeq(p, 1, m)[i]
  BY <1>0, <1>1, <1>2, <1>3
<1> HIDE DEF q
<1>5. SubSeq(q, 1, m) = SubSeq(p, 1, m)
  BY <1>2, <1>3, <1>4, SeqEqual
<1> QED
  BY <1>5 DEF q

LEMMA ParentsTransitive ==
    ASSUME NEW p \in Paths, NEW q \in Parents(p), NEW r \in Parents(q)
    PROVE  r \in Parents(p)
<1>1. q \in Paths
  BY ParentsArePaths
<1>2. PICK n \in 1..(Len(p) - 1) : q = SubSeq(p, 1, n)
  BY DEF Parents
<1>3. PICK m \in 1..(Len(q) - 1) : r = SubSeq(q, 1, m)
  BY DEF Parents
<1>4. Len(p) \in Nat /\ n \in 1..Len(p)
  BY <1>2, PathIsSeq
<1>5. Len(q) = n
  BY <1>2, <1>4, PrefixIs
<1>6. m \in 1..n /\ m \in 1..(Len(p) - 1)
  BY <1>3, <1>4, <1>5
<1>7. r = SubSeq(p, 1, m)
  BY <1>1, <1>2, <1>3, <1>4, <1>6, PrefixOfPrefix
<1> QED
  BY <1>6, <1>7 DEF Parents

-----------------------------------------------------------------------------
\* Folds over sequences.
LEMMA LeastNumber ==
    ASSUME NEW T, T \subseteq Nat, T # {}
    PROVE  \E x \in T : \A y \in T : x <= y
<1> DEFINE R == {ss \in Nat \X Nat : ss[1] < ss[2]}
<1>1. IsWellFoundedOn(R, Nat)
  BY NatLessThanWellFounded, Zenon DEF OpToRel
<1>2. \A x, y \in Nat : <<y, x>> \in R <=> y < x
  OBVIOUS
<1> HIDE DEF R
<1>3. PICK x \in T : \A y \in T : ~(<<y, x>> \in R)
  BY <1>1, WFMin
<1>4. \A y \in T : ~(y < x)
  BY <1>2, <1>3
<1> QED
  BY <1>4

\* A set of numbers that holds 0, and with a number below N the next one, holds
\* all up to N.
LEMMA UpTo ==
    ASSUME NEW N \in Nat, NEW T, 0 \in T, \A m \in 0..(N - 1) : m \in T => m + 1 \in T
    PROVE  \A m \in 0..N : m \in T
<1> SUFFICES ASSUME NEW m \in 0..N, m \notin T PROVE FALSE
  OBVIOUS
<1> DEFINE U == {x \in 0..N : x \notin T}
<1>1. U \subseteq Nat /\ U # {}
  OBVIOUS
<1>2. PICK x \in U : \A y \in U : x <= y
  <2> HIDE DEF U
  <2> QED BY <1>1, LeastNumber
<1>3. x # 0 /\ x \in 0..N /\ x \notin T
  BY <1>2
<1>4. x - 1 \in 0..(N - 1) /\ x - 1 \in 0..N /\ (x - 1) + 1 = x
  BY <1>3
<1>5. x - 1 \notin U
  BY <1>2, <1>4
<1>6. x - 1 \in T
  BY <1>4, <1>5
<1> QED
  BY <1>3, <1>4, <1>6

LEMMA MaxOf ==
    ASSUME NEW N \in Nat, NEW s \in SUBSET (1..N), s # {}
    PROVE  Max(s) \in s /\ \A y \in s : y <= Max(s)
<1> DEFINE T == {k \in 0..N : \A y \in s : y <= k}
<1>1. T \subseteq Nat /\ N \in T
  OBVIOUS
<1>2. PICK x \in T : \A y \in T : x <= y
  <2> HIDE DEF T
  <2> QED BY <1>1, LeastNumber
<1>3. x \in s
  <2> SUFFICES ASSUME x \notin s PROVE FALSE
    OBVIOUS
  <2>1. \A y \in s : y < x
    BY <1>2
  <2>2. PICK z \in s : TRUE
    OBVIOUS
  <2>5. x # 0
    BY <2>1, <2>2, <1>2
  <2>3. x - 1 \in 0..N /\ \A y \in s : y <= x - 1
    BY <1>2, <2>1, <2>5
  <2>4. x - 1 \in T
    BY <2>3
  <2> QED
    BY <1>2, <2>4
<1>4. \A y \in s : x >= y
  BY <1>2
<1>5. Max(s) \in s /\ \A y \in s : Max(s) >= y
  BY <1>3, <1>4, Zenon DEF Max
<1> QED
  BY <1>5

\* The steps of the three folds.
Op(fold, st, x) ==
    IF fold = "entry" THEN applyEntry(st, x) ELSE IF fold = "upper" THEN applyUpperEntry(st, x) ELSE Overlay(st, x)

IterStep(fold, base, seq, f, s) == IF s = {} THEN base ELSE Op(fold, f[s \ {Max(s)}], seq[Max(s)])

IsIter(fold, base, seq, N, f) == f = [s \in SUBSET (1..N) |-> IterStep(fold, base, seq, f, s)]

LEMMA IterExtends ==
    ASSUME NEW fold, NEW base, NEW seq, NEW N \in Nat, NEW f, IsIter(fold, base, seq, N, f)
    PROVE  \E g : IsIter(fold, base, seq, N + 1, g)
<1> DEFINE g == [s \in SUBSET (1..(N + 1)) |->
                    IF s \subseteq 1..N THEN f[s] ELSE Op(fold, f[s \ {N + 1}], seq[N + 1])]
<1>1. ASSUME NEW s \in SUBSET (1..(N + 1)) PROVE g[s] = IterStep(fold, base, seq, g, s)
  <2>1. CASE s \subseteq 1..N
    <3>1. g[s] = f[s]
      BY <2>1
    <3>2. f[s] = IterStep(fold, base, seq, f, s)
      <4> HIDE DEF g
      <4> QED BY <2>1, Zenon DEF IsIter
    <3>3. CASE s = {}
      <4> HIDE DEF g
      <4> QED BY <3>1, <3>2, <3>3 DEF IterStep
    <3>4. CASE s # {}
      <4>1. s \ {Max(s)} \in SUBSET (1..(N + 1)) /\ s \ {Max(s)} \subseteq 1..N
        BY <2>1
      <4>2. g[s \ {Max(s)}] = f[s \ {Max(s)}]
        BY <4>1
      <4> HIDE DEF g
      <4> QED BY <3>1, <3>2, <3>4, <4>2 DEF IterStep
    <3> QED BY <3>3, <3>4
  <2>2. CASE ~(s \subseteq 1..N)
    <3>1. N + 1 \in s /\ s # {} /\ N + 1 \in Nat
      BY <2>2
    <3>2. Max(s) \in s /\ \A y \in s : y <= Max(s)
      <4> HIDE DEF g
      <4> QED BY <3>1, MaxOf
    <3>3. Max(s) = N + 1
      <4> HIDE DEF g
      <4>1. Max(s) \in 1..(N + 1) /\ N + 1 <= Max(s)
        BY <3>1, <3>2
      <4> QED BY <4>1
    <3>4. s \ {N + 1} \in SUBSET (1..(N + 1)) /\ s \ {N + 1} \subseteq 1..N
      OBVIOUS
    <3>5. g[s \ {N + 1}] = f[s \ {N + 1}]
      BY <3>4
    <3>6. g[s] = Op(fold, f[s \ {N + 1}], seq[N + 1])
      BY <2>2
    <3> HIDE DEF g
    <3> QED BY <3>1, <3>3, <3>5, <3>6 DEF IterStep
  <2> QED BY <2>1, <2>2
<1>2. g = [s \in SUBSET (1..(N + 1)) |-> g[s]]
  BY Zenon
<1> HIDE DEF g
<1>3. g = [s \in SUBSET (1..(N + 1)) |-> IterStep(fold, base, seq, g, s)]
  BY <1>1, <1>2, Zenon
<1> QED
  BY <1>3, Zenon DEF IsIter

LEMMA IterExists ==
    ASSUME NEW fold, NEW base, NEW seq, NEW N \in Nat
    PROVE  \E f : IsIter(fold, base, seq, N, f)
<1> DEFINE T == {m \in Nat : \E f : IsIter(fold, base, seq, m, f)}
<1>1. 0 \in T
  <2> DEFINE f == [s \in SUBSET (1..0) |-> base]
  <2>1. f = [s \in SUBSET (1..0) |-> IterStep(fold, base, seq, f, s)]
    <3>1. \A s \in SUBSET (1..0) : s = {}
      OBVIOUS
    <3>2. \A s \in SUBSET (1..0) : IterStep(fold, base, seq, f, s) = base
      BY <3>1, Zenon DEF IterStep
    <3> QED BY <3>2, Zenon
  <2>2. IsIter(fold, base, seq, 0, f)
    BY <2>1, Zenon DEF IsIter
  <2> QED BY <2>2
<1>2. \A m \in 0..(N - 1) : m \in T => m + 1 \in T
  BY IterExtends
<1> HIDE DEF T
<1>3. N \in T
  BY <1>1, <1>2, UpTo
<1> QED
  BY <1>3 DEF T

\* The states of a fold: the first is the base, each next one is the step on the
\* one before and the element at its place.
IsRun(fold, base, seq, r) ==
    /\ r[0] = base
    /\ \A m \in 0..(Len(seq) - 1) : r[m + 1] = Op(fold, r[m], seq[m + 1])

LEMMA IterRuns ==
    ASSUME NEW fold, NEW base, NEW S, NEW seq \in Seq(S), NEW it, IsIter(fold, base, seq, Len(seq), it)
    PROVE  \E r : IsRun(fold, base, seq, r) /\ r[Len(seq)] = it[1..Len(seq)]
<1> DEFINE N == Len(seq)
           r == [m \in 0..N |-> it[1..m]]
<1>0. N \in Nat
  OBVIOUS
<1>1. IsIter(fold, base, seq, N, it)
  OBVIOUS
<1> HIDE DEF N
<1>3. \A s \in SUBSET (1..N) : it[s] = IterStep(fold, base, seq, it, s)
  BY <1>1, Zenon DEF IsIter
<1>4. r[0] = base
  <2>1. r[0] = it[1..0] /\ 1..0 = {} /\ {} \in SUBSET (1..N)
    BY <1>0
  <2> QED BY <2>1, <1>3 DEF IterStep
<1>5. ASSUME NEW m \in 0..(N - 1) PROVE r[m + 1] = Op(fold, r[m], seq[m + 1])
  <2>1. m \in Nat /\ m + 1 \in 0..N /\ m \in 0..N /\ m + 1 \in Nat
    BY <1>0
  <2>2. r[m + 1] = it[1..(m + 1)] /\ r[m] = it[1..m]
    BY <2>1
  <2> HIDE DEF r
  <2>3. 1..(m + 1) \in SUBSET (1..N) /\ 1..(m + 1) # {} /\ 1..(m + 1) \in SUBSET (1..(m + 1))
    <3>1. 1 \in 1..(m + 1)
      BY <2>1
    <3>2. \A y \in 1..(m + 1) : y \in 1..N
      BY <1>0, <2>1
    <3> QED BY <3>1, <3>2, Zenon
  <2>4. Max(1..(m + 1)) \in 1..(m + 1) /\ \A y \in 1..(m + 1) : y <= Max(1..(m + 1))
    BY <2>1, <2>3, MaxOf
  <2>5. Max(1..(m + 1)) = m + 1
    BY <2>1, <2>4
  <2>6. (1..(m + 1)) \ {m + 1} = 1..m
    BY <2>1
  <2>7. it[1..(m + 1)] = Op(fold, it[1..m], seq[m + 1])
    BY <1>3, <2>3, <2>5, <2>6, Zenon DEF IterStep
  <2> QED BY <2>2, <2>7
<1>6. r[N] = it[1..N]
  BY <1>0
<1>7. N = Len(seq)
  BY DEF N
<1> HIDE DEF r
<1>8. IsRun(fold, base, seq, r)
  BY <1>4, <1>5, <1>7 DEF IsRun
<1> QED
  BY <1>6, <1>7, <1>8

LEMMA LayerRuns ==
    ASSUME NEW fs, NEW S, NEW layer \in Seq(S)
    PROVE  \E r : IsRun("entry", [ok |-> TRUE, fs |-> fs], layer, r) /\ r[Len(layer)] = applyOneLayer(fs, layer)
<1> DEFINE base == [ok |-> TRUE, fs |-> fs]
           At(f, s) == IF s = {} THEN base ELSE applyEntry(f[s \ {Max(s)}], layer[Max(s)])
           it == CHOOSE f : f = [s \in SUBSET DOMAIN layer |-> At(f, s)]
<1>1. DOMAIN layer = 1..Len(layer) /\ Len(layer) \in Nat
  OBVIOUS
<1>2. applyOneLayer(fs, layer) = it[DOMAIN layer]
  BY Zenon DEF applyOneLayer, FoldLeft, MapThenFoldSet
<1>3. \A st, x : Op("entry", st, x) = applyEntry(st, x)
  BY Zenon DEF Op
<1>4. \A f, s : IterStep("entry", base, layer, f, s) = At(f, s)
  BY <1>3, Zenon DEF IterStep
<1>5. PICK f : IsIter("entry", base, layer, Len(layer), f)
  <2> HIDE DEF base, it
  <2> QED BY <1>1, IterExists
<1> HIDE DEF At
<1>6. f = [s \in SUBSET DOMAIN layer |-> At(f, s)]
  BY <1>1, <1>4, <1>5, Zenon DEF IsIter
<1>7. it = [s \in SUBSET DOMAIN layer |-> At(it, s)]
  BY <1>6, Zenon
<1> HIDE DEF it
<1>8. IsIter("entry", base, layer, Len(layer), it)
  BY <1>1, <1>4, <1>7, Zenon DEF IsIter
<1> HIDE DEF base
<1>9. \E r : IsRun("entry", base, layer, r) /\ r[Len(layer)] = it[1..Len(layer)]
  BY <1>8, IterRuns
<1> QED
  BY <1>1, <1>2, <1>9, Zenon DEF base

LEMMA UpperRuns ==
    ASSUME NEW fs, NEW S, NEW upper \in Seq(S)
    PROVE  \E r : IsRun("upper", [ok |-> TRUE, fs |-> fs], upper, r) /\ r[Len(upper)] = applyOverlayUpper(fs, upper)
<1> DEFINE base == [ok |-> TRUE, fs |-> fs]
           At(f, s) == IF s = {} THEN base ELSE applyUpperEntry(f[s \ {Max(s)}], upper[Max(s)])
           it == CHOOSE f : f = [s \in SUBSET DOMAIN upper |-> At(f, s)]
<1>1. DOMAIN upper = 1..Len(upper) /\ Len(upper) \in Nat
  OBVIOUS
<1>2. applyOverlayUpper(fs, upper) = it[DOMAIN upper]
  BY Zenon DEF applyOverlayUpper, FoldLeft, MapThenFoldSet
<1>3. \A st, x : Op("upper", st, x) = applyUpperEntry(st, x)
  BY Zenon DEF Op
<1>4. \A f, s : IterStep("upper", base, upper, f, s) = At(f, s)
  BY <1>3, Zenon DEF IterStep
<1>5. PICK f : IsIter("upper", base, upper, Len(upper), f)
  <2> HIDE DEF base, it
  <2> QED BY <1>1, IterExists
<1> HIDE DEF At
<1>6. f = [s \in SUBSET DOMAIN upper |-> At(f, s)]
  BY <1>1, <1>4, <1>5, Zenon DEF IsIter
<1>7. it = [s \in SUBSET DOMAIN upper |-> At(it, s)]
  BY <1>6, Zenon
<1> HIDE DEF it
<1>8. IsIter("upper", base, upper, Len(upper), it)
  BY <1>1, <1>4, <1>7, Zenon DEF IsIter
<1> HIDE DEF base
<1>9. \E r : IsRun("upper", base, upper, r) /\ r[Len(upper)] = it[1..Len(upper)]
  BY <1>8, IterRuns
<1> QED
  BY <1>1, <1>2, <1>9, Zenon DEF base

LEMMA VersionIsSeq ==
    ASSUME NEW v \in Versions
    PROVE  /\ LayersOf[v] \in Seq(ToSet(LayersOf[v])) /\ Len(LayersOf[v]) \in Nat /\ Len(LayersOf[v]) > 0
           /\ DOMAIN LayersOf[v] = 1..Len(LayersOf[v])
           /\ \A k \in 1..Len(LayersOf[v]) : IsArchive(LayersOf[v][k]) /\ WellFormed(LayersOf[v][k])
                                              /\ LayersOf[v][k] \in Archives
<1>1. LayersOf[v] \in Seq(ToSet(LayersOf[v])) /\ Len(LayersOf[v]) > 0
  BY ImageAssumption
<1>2. Len(LayersOf[v]) \in Nat /\ DOMAIN LayersOf[v] = 1..Len(LayersOf[v])
  BY <1>1
<1>3. \A k \in 1..Len(LayersOf[v]) : LayersOf[v][k] \in ToSet(LayersOf[v])
  BY <1>2 DEF ToSet
<1> QED
  BY <1>1, <1>2, <1>3, ImageAssumption DEF Archives

LEMMA MeaningRuns ==
    ASSUME NEW v \in Versions
    PROVE  \E r : IsRun("overlay", Empty, LayersOf[v], r) /\ r[Len(LayersOf[v])] = Meaning(v)
<1> DEFINE base == Empty
           At(f, s) == IF s = {} THEN base ELSE Overlay(f[s \ {Max(s)}], LayersOf[v][Max(s)])
           it == CHOOSE f : f = [s \in SUBSET DOMAIN LayersOf[v] |-> At(f, s)]
<1>1. DOMAIN LayersOf[v] = 1..Len(LayersOf[v]) /\ Len(LayersOf[v]) \in Nat
  BY VersionIsSeq
<1>2. Meaning(v) = it[DOMAIN LayersOf[v]]
  BY Zenon DEF Meaning, FoldLeft, MapThenFoldSet
<1>3. \A st, x : Op("overlay", st, x) = Overlay(st, x)
  BY Zenon DEF Op
<1>4. \A f, s : IterStep("overlay", base, LayersOf[v], f, s) = At(f, s)
  BY <1>3, Zenon DEF IterStep
<1>5. PICK f : IsIter("overlay", base, LayersOf[v], Len(LayersOf[v]), f)
  <2> HIDE DEF base, it
  <2> QED BY <1>1, IterExists
<1> HIDE DEF At
<1>6. f = [s \in SUBSET DOMAIN LayersOf[v] |-> At(f, s)]
  BY <1>1, <1>4, <1>5, Zenon DEF IsIter
<1>7. it = [s \in SUBSET DOMAIN LayersOf[v] |-> At(it, s)]
  BY <1>6, Zenon
<1> HIDE DEF it
<1>8. IsIter("overlay", base, LayersOf[v], Len(LayersOf[v]), it)
  BY <1>1, <1>4, <1>7, Zenon DEF IsIter
<1> HIDE DEF base
<1>9. \E r : IsRun("overlay", base, LayersOf[v], r) /\ r[Len(LayersOf[v])] = it[1..Len(LayersOf[v])]
  BY <1>8, VersionIsSeq, IterRuns
<1> QED
  BY <1>1, <1>2, <1>9, Zenon DEF base

-----------------------------------------------------------------------------
\* Trees: what is there is in directories.
IsTree(t) == DOMAIN t = Paths /\ t = [p \in Paths |-> t[p]]

Proper(t) == IsTree(t) /\ \A p \in Paths : t[p] # Nothing => \A q \in Parents(p) : t[q] = Dir

LEMMA EmptyProper == Proper(Empty)
BY DEF Proper, IsTree, Empty

LEMMA RemoveAllIs ==
    ASSUME NEW t, NEW p
    PROVE  /\ IsTree(RemoveAll(t, p))
           /\ \A q \in Paths : RemoveAll(t, p)[q] = IF q = p \/ p \in Parents(q) THEN Nothing ELSE t[q]
BY DEF RemoveAll, Below, IsTree

\* The state of an extraction.
IsState(st) == DOMAIN st = {"ok", "fs"} /\ st.ok \in BOOLEAN

LEMMA BaseIs ==
    ASSUME NEW t
    PROVE  IsState([ok |-> TRUE, fs |-> t]) /\ [ok |-> TRUE, fs |-> t].ok /\ [ok |-> TRUE, fs |-> t].fs = t
BY DEF IsState

LEMMA FailedIs ==
    ASSUME NEW st, IsState(st)
    PROVE  IsState(Failed(st)) /\ ~Failed(st).ok /\ Failed(st).fs = st.fs
BY DEF IsState, Failed

LEMMA WithTree ==
    ASSUME NEW st, IsState(st), NEW u
    PROVE  LET r == [st EXCEPT !.fs = u] IN IsState(r) /\ r.ok = st.ok /\ r.fs = u
BY DEF IsState

MadeDirs(t, dirs) == [q \in Paths |-> IF q \in dirs THEN Dir ELSE t[q]]

LEMMA MkdirAllIs ==
    ASSUME NEW st, IsState(st), NEW dirs
    PROVE  LET r == MkdirAll(st, dirs) IN
           /\ IsState(r)
           /\ (\E q \in dirs : IsFile(st.fs[q])) => ~r.ok /\ r.fs = st.fs
           /\ ~(\E q \in dirs : IsFile(st.fs[q])) => r.ok = st.ok /\ r.fs = MadeDirs(st.fs, dirs)
<1>1. CASE \E q \in dirs : IsFile(st.fs[q])
  <2>1. MkdirAll(st, dirs) = Failed(st)
    BY <1>1, Zenon DEF MkdirAll
  <2> QED BY <1>1, <2>1, FailedIs
<1>2. CASE ~\E q \in dirs : IsFile(st.fs[q])
  <2>1. MkdirAll(st, dirs) = [st EXCEPT !.fs = MadeDirs(st.fs, dirs)]
    BY <1>2, Zenon DEF MkdirAll, MadeDirs
  <2> QED BY <1>2, <2>1, WithTree
<1> QED
  BY <1>1, <1>2

PutTree(t, p, node) == [q \in Paths |-> IF q = p THEN node ELSE IF p \in Parents(q) THEN Nothing ELSE t[q]]

LEMMA PutTreeIs ==
    ASSUME NEW t, NEW p \in Paths, NEW node
    PROVE  [RemoveAll(t, p) EXCEPT ![p] = node] = PutTree(t, p, node)
BY DEF RemoveAll, Below, PutTree

LEMMA PutIs ==
    ASSUME NEW st, IsState(st), NEW p \in Paths, NEW node
    PROVE  LET r == Put(st, p, node) IN IsState(r) /\ r.ok = st.ok /\ r.fs = PutTree(st.fs, p, node)
<1> DEFINE u == [RemoveAll(st.fs, p) EXCEPT ![p] = node]
<1>1. Put(st, p, node) = [st EXCEPT !.fs = u]
  BY Zenon DEF Put
<1>2. u = PutTree(st.fs, p, node)
  BY PutTreeIs
<1> HIDE DEF u
<1> QED
  BY <1>1, <1>2, WithTree

LEMMA OpaqueIs ==
    ASSUME NEW st, IsState(st), NEW p \in Paths
    PROVE  LET r == removeAllChildren(st, p) IN
           /\ IsState(r)
           /\ st.fs[p] = Nothing => r = MkdirAll(st, Parents(p) \cup {p})
           /\ st.fs[p] = Dir => r.ok = st.ok /\ r.fs = PutTree(st.fs, p, Dir)
           /\ IsFile(st.fs[p]) => ~r.ok /\ r.fs = st.fs
<1>1. Nothing # Dir
  BY PathsAssumption
<1>2. CASE st.fs[p] = Nothing
  <2>1. removeAllChildren(st, p) = MkdirAll(st, Parents(p) \cup {p})
    BY <1>1, <1>2 DEF removeAllChildren
  <2> QED BY <1>1, <1>2, <2>1, MkdirAllIs DEF IsFile
<1>3. CASE st.fs[p] = Dir
  <2>1. removeAllChildren(st, p) = [st EXCEPT !.fs = [RemoveAll(@, p) EXCEPT ![p] = Dir]]
    BY <1>1, <1>3 DEF removeAllChildren
  <2> DEFINE u == [RemoveAll(st.fs, p) EXCEPT ![p] = Dir]
  <2>2. removeAllChildren(st, p) = [st EXCEPT !.fs = u]
    BY <2>1, Zenon
  <2>3. u = PutTree(st.fs, p, Dir)
    BY PutTreeIs
  <2> HIDE DEF u
  <2> QED BY <1>1, <1>3, <2>2, <2>3, WithTree DEF IsFile
<1>4. CASE IsFile(st.fs[p])
  <2>1. removeAllChildren(st, p) = Failed(st)
    BY <1>4 DEF removeAllChildren, IsFile
  <2> QED BY <1>4, <2>1, FailedIs DEF IsFile
<1> QED
  BY <1>2, <1>3, <1>4 DEF IsFile

\* What one entry does to a tree.
EntryFiles(st, e, r) ==
    /\ IsState(r)
    /\ (\E q \in Parents(e.path) : IsFile(st.fs[q])) => ~r.ok
    /\ ~(\E q \in Parents(e.path) : IsFile(st.fs[q])) =>
          \/ /\ e.kind = "file" /\ r.ok
             /\ r.fs = PutTree(MadeDirs(st.fs, Parents(e.path)), e.path, e.data)
          \/ /\ e.kind = "hardlink" /\ IsFile(RemoveAll(st.fs, e.path)[e.data]) /\ r.ok
             /\ r.fs = PutTree(MadeDirs(st.fs, Parents(e.path)), e.path, st.fs[e.data])
          \/ e.kind = "hardlink" /\ ~IsFile(RemoveAll(st.fs, e.path)[e.data]) /\ ~r.ok

LEMMA EntryIs ==
    ASSUME NEW st, IsState(st), NEW e, IsEntry(e)
    PROVE  LET r == applyEntry(st, e) IN
           /\ IsState(r)
           /\ ~st.ok => r = st
           /\ st.ok /\ e.kind = "whiteout" => r.ok /\ r.fs = RemoveAll(st.fs, e.path)
           /\ st.ok /\ e.kind = "opaque" => r = removeAllChildren(st, e.path)
           /\ st.ok /\ e.kind = "dir" => r = MkdirAll(st, Parents(e.path) \cup {e.path})
           /\ st.ok /\ e.kind = "device" => IF InDev(e.path) THEN r = st ELSE ~r.ok
           /\ st.ok /\ Leaf(e) => EntryFiles(st, e, r)
<1> DEFINE r == applyEntry(st, e)
           inDir == MkdirAll(st, Parents(e.path))
<1>0. st.ok \in BOOLEAN /\ e.path \in Paths /\ e.kind \in {"whiteout", "opaque", "dir", "file", "hardlink", "device"}
  BY DEF IsState, IsEntry
<1>1. CASE ~st.ok
  <2>1. r = st
    BY <1>1, Zenon DEF applyEntry
  <2> QED BY <1>1, <2>1
<1>2. CASE st.ok /\ e.kind = "whiteout"
  <2>1. r = [st EXCEPT !.fs = RemoveAll(st.fs, e.path)]
    BY <1>2 DEF applyEntry
  <2>2. IsState(r) /\ r.ok = st.ok /\ r.fs = RemoveAll(st.fs, e.path)
    <3> HIDE DEF r
    <3> QED BY <2>1, WithTree
  <2> HIDE DEF r
  <2> QED BY <1>2, <2>2 DEF Leaf, r
<1>3. CASE st.ok /\ e.kind = "opaque"
  <2>1. r = removeAllChildren(st, e.path)
    BY <1>3 DEF applyEntry
  <2> HIDE DEF r
  <2>2. IsState(r)
    BY <1>0, <2>1, OpaqueIs
  <2> QED BY <1>3, <2>1, <2>2 DEF Leaf, r
<1>4. CASE st.ok /\ e.kind = "dir"
  <2>1. r = MkdirAll(st, Parents(e.path) \cup {e.path})
    BY <1>4 DEF applyEntry
  <2> HIDE DEF r
  <2>2. IsState(r)
    BY <2>1, MkdirAllIs
  <2> QED BY <1>4, <2>1, <2>2 DEF Leaf, r
<1>5. CASE st.ok /\ e.kind = "device"
  <2>1. r = IF InDev(e.path) THEN st ELSE Failed(st)
    BY <1>5 DEF applyEntry
  <2> HIDE DEF r
  <2> QED BY <1>5, <2>1, FailedIs DEF Leaf, r
<1>6. CASE st.ok /\ Leaf(e)
  <2>1. /\ IsState(inDir)
        /\ (\E q \in Parents(e.path) : IsFile(st.fs[q])) => ~inDir.ok
        /\ ~(\E q \in Parents(e.path) : IsFile(st.fs[q])) => inDir.ok /\ inDir.fs = MadeDirs(st.fs, Parents(e.path))
    BY <1>6, MkdirAllIs
  <2>2. e.kind = "file" => r = IF inDir.ok THEN Put(inDir, e.path, e.data) ELSE inDir
    BY <1>6 DEF applyEntry
  <2>3. e.kind = "hardlink" => r = IF inDir.ok /\ IsFile(RemoveAll(st.fs, e.path)[e.data])
                                   THEN Put(inDir, e.path, st.fs[e.data]) ELSE Failed(st)
    BY <1>6 DEF applyEntry
  <2> HIDE DEF r, inDir
  <2>4. e.kind = "file" \/ e.kind = "hardlink"
    BY <1>6 DEF Leaf
  <2>5. CASE ~inDir.ok
    <3>1. IsState(r) /\ ~r.ok
      BY <2>1, <2>2, <2>3, <2>4, <2>5, FailedIs
    <3>2. \E q \in Parents(e.path) : IsFile(st.fs[q])
      BY <2>1, <2>5
    <3>3. EntryFiles(st, e, r)
      BY <3>1, <3>2 DEF EntryFiles
    <3> QED BY <1>6, <3>1, <3>3 DEF Leaf, r
  <2>6. CASE inDir.ok /\ e.kind = "file"
    <3>1. r = Put(inDir, e.path, e.data)
      BY <2>2, <2>6
    <3>2. IsState(r) /\ r.ok = inDir.ok /\ r.fs = PutTree(inDir.fs, e.path, e.data)
      BY <1>0, <2>1, <3>1, PutIs
    <3>3. EntryFiles(st, e, r)
      BY <2>1, <2>6, <3>2 DEF EntryFiles
    <3> QED BY <1>6, <3>2, <3>3 DEF Leaf, r
  <2>7. CASE inDir.ok /\ e.kind = "hardlink" /\ IsFile(RemoveAll(st.fs, e.path)[e.data])
    <3>1. r = Put(inDir, e.path, st.fs[e.data])
      BY <2>3, <2>7
    <3>2. IsState(r) /\ r.ok = inDir.ok /\ r.fs = PutTree(inDir.fs, e.path, st.fs[e.data])
      BY <1>0, <2>1, <3>1, PutIs
    <3>3. EntryFiles(st, e, r)
      BY <2>1, <2>7, <3>2 DEF EntryFiles
    <3> QED BY <1>6, <3>2, <3>3 DEF Leaf, r
  <2>8. CASE inDir.ok /\ e.kind = "hardlink" /\ ~IsFile(RemoveAll(st.fs, e.path)[e.data])
    <3>1. r = Failed(st)
      BY <2>3, <2>8
    <3>2. IsState(r) /\ ~r.ok
      BY <3>1, FailedIs
    <3>3. EntryFiles(st, e, r)
      BY <2>1, <2>8, <3>2 DEF EntryFiles
    <3> QED BY <1>6, <3>2, <3>3 DEF Leaf, r
  <2> QED BY <2>4, <2>5, <2>6, <2>7, <2>8
<1> HIDE DEF r
<1> QED
  BY <1>0, <1>1, <1>2, <1>3, <1>4, <1>5, <1>6 DEF Leaf

-----------------------------------------------------------------------------
\* The calls keep trees proper.
LEMMA RemoveAllProper ==
    ASSUME NEW t, Proper(t), NEW p \in Paths
    PROVE  Proper(RemoveAll(t, p))
<1> DEFINE u == RemoveAll(t, p)
<1>1. IsTree(u) /\ \A q \in Paths : u[q] = IF q = p \/ p \in Parents(q) THEN Nothing ELSE t[q]
  BY RemoveAllIs
<1> HIDE DEF u
<1>2. ASSUME NEW q \in Paths, u[q] # Nothing, NEW s \in Parents(q) PROVE u[s] = Dir
  <2>1. q # p /\ p \notin Parents(q) /\ t[q] # Nothing
    BY <1>1, <1>2
  <2>2. s \in Paths /\ t[s] = Dir
    BY <2>1, ParentsArePaths DEF Proper
  <2>3. s # p /\ p \notin Parents(s)
    BY <2>1, <2>2, ParentsTransitive
  <2> QED BY <1>1, <2>2, <2>3
<1> QED
  BY <1>1, <1>2 DEF Proper, u

\* A set of directories that holds the parents of each.
Closed(dirs) == dirs \subseteq Paths /\ \A p \in dirs : Parents(p) \subseteq dirs

LEMMA ParentsClosed ==
    ASSUME NEW p \in Paths
    PROVE  Closed(Parents(p)) /\ Closed(Parents(p) \cup {p})
BY ParentsArePaths, ParentsTransitive DEF Closed

LEMMA MadeDirsProper ==
    ASSUME NEW t, Proper(t), NEW dirs, Closed(dirs), ~\E q \in dirs : IsFile(t[q])
    PROVE  Proper(MadeDirs(t, dirs)) /\ \A q \in dirs : MadeDirs(t, dirs)[q] = Dir
<1> DEFINE u == MadeDirs(t, dirs)
<1>1. IsTree(u) /\ \A q \in Paths : u[q] = IF q \in dirs THEN Dir ELSE t[q]
  BY DEF MadeDirs, IsTree
<1> HIDE DEF u
<1>2. ASSUME NEW q \in Paths, u[q] # Nothing, NEW s \in Parents(q) PROVE u[s] = Dir
  <2>1. s \in Paths
    BY ParentsArePaths
  <2>2. q \in dirs => s \in dirs
    BY DEF Closed
  <2>3. q \notin dirs => t[s] = Dir
    BY <1>1, <1>2 DEF Proper
  <2> QED BY <1>1, <2>1, <2>2, <2>3
<1>3. \A q \in dirs : u[q] = Dir
  BY <1>1 DEF Closed
<1> QED
  BY <1>1, <1>2, <1>3 DEF Proper, u

LEMMA PutTreeProper ==
    ASSUME NEW t, Proper(t), NEW p \in Paths, NEW node, \A q \in Parents(p) : t[q] = Dir
    PROVE  Proper(PutTree(t, p, node))
<1> DEFINE u == PutTree(t, p, node)
<1>1. IsTree(u) /\ \A q \in Paths : u[q] = IF q = p THEN node ELSE IF p \in Parents(q) THEN Nothing ELSE t[q]
  BY DEF PutTree, IsTree
<1> HIDE DEF u
<1>2. ASSUME NEW q \in Paths, u[q] # Nothing, NEW s \in Parents(q) PROVE u[s] = Dir
  <2>1. s \in Paths /\ p \notin Parents(q)
    BY <1>1, <1>2, ParentsArePaths
  <2>2. s # p /\ p \notin Parents(s)
    BY <2>1, ParentsTransitive
  <2>3. t[s] = Dir
    BY <1>1, <1>2, <2>1 DEF Proper
  <2> QED BY <1>1, <2>1, <2>2, <2>3
<1> QED
  BY <1>1, <1>2 DEF Proper, u

\* A value of a tree after a call is one that was there, a directory, nothing or
\* what was put.
Valued(t, V) == \A p \in Paths : t[p] \in V

Call(t, u, V) == Proper(u) /\ (Valued(t, V) => Valued(u, V))

LEMMA DirsCall ==
    ASSUME NEW V, {Nothing, Dir} \subseteq V, NEW st, IsState(st), st.ok, Proper(st.fs), NEW dirs, Closed(dirs),
           MkdirAll(st, dirs).ok
    PROVE  Call(st.fs, MkdirAll(st, dirs).fs, V) /\ ~\E q \in dirs : IsFile(st.fs[q])
<1> DEFINE r == MkdirAll(st, dirs)
<1>1. ~(\E q \in dirs : IsFile(st.fs[q])) /\ r.fs = MadeDirs(st.fs, dirs)
  BY MkdirAllIs
<1> HIDE DEF r
<1>2. Proper(r.fs)
  BY <1>1, MadeDirsProper
<1>3. Valued(st.fs, V) => Valued(r.fs, V)
  BY <1>1 DEF Valued, MadeDirs
<1> QED
  BY <1>1, <1>2, <1>3 DEF Call, r

LEMMA EntryCall ==
    ASSUME NEW V, {Nothing, Dir} \subseteq V, NEW st, IsState(st), st.ok, Proper(st.fs),
           NEW e, IsEntry(e), e.kind = "file" => e.data \in V, applyEntry(st, e).ok
    PROVE  Call(st.fs, applyEntry(st, e).fs, V)
<1> DEFINE r == applyEntry(st, e)
<1>0. e.path \in Paths /\ e.kind \in {"whiteout", "opaque", "dir", "file", "hardlink", "device"}
  BY DEF IsEntry
<1>1. CASE e.kind = "whiteout"
  <2>1. r.fs = RemoveAll(st.fs, e.path)
    BY <1>1, EntryIs
  <2> HIDE DEF r
  <2>2. Proper(r.fs)
    BY <1>0, <2>1, RemoveAllProper
  <2>3. Valued(st.fs, V) => Valued(r.fs, V)
    BY <2>1, RemoveAllIs DEF Valued
  <2> QED BY <2>2, <2>3 DEF Call, r
<1>2. CASE e.kind = "opaque"
  <2>1. r = removeAllChildren(st, e.path) /\ r.ok
    BY <1>2, EntryIs
  <2> HIDE DEF r
  <2>2. CASE st.fs[e.path] = Nothing
    <3>1. r = MkdirAll(st, Parents(e.path) \cup {e.path})
      BY <1>0, <2>1, <2>2, OpaqueIs
    <3> QED BY <1>0, <2>1, <3>1, ParentsClosed, DirsCall DEF r
  <2>3. CASE st.fs[e.path] = Dir
    <3>1. r.fs = PutTree(st.fs, e.path, Dir)
      BY <1>0, <2>1, <2>3, OpaqueIs
    <3>2. \A q \in Parents(e.path) : st.fs[q] = Dir
      BY <1>0, <2>3, PathsAssumption DEF Proper
    <3>3. Proper(r.fs)
      BY <1>0, <3>1, <3>2, PutTreeProper
    <3>4. Valued(st.fs, V) => Valued(r.fs, V)
      BY <3>1 DEF Valued, PutTree
    <3> QED BY <3>3, <3>4 DEF Call, r
  <2>4. CASE IsFile(st.fs[e.path])
    BY <1>0, <2>1, <2>4, OpaqueIs
  <2> QED BY <2>2, <2>3, <2>4 DEF IsFile
<1>3. CASE e.kind = "dir"
  <2>1. r = MkdirAll(st, Parents(e.path) \cup {e.path}) /\ r.ok
    BY <1>3, EntryIs
  <2> HIDE DEF r
  <2> QED BY <1>0, <2>1, ParentsClosed, DirsCall DEF r
<1>4. CASE e.kind = "device"
  <2>1. r = st
    BY <1>4, EntryIs
  <2> QED BY <2>1 DEF Call
<1>5. CASE Leaf(e)
  <2>1. EntryFiles(st, e, r) /\ r.ok
    BY <1>5, EntryIs
  <2> HIDE DEF r
  <2>2. ~\E q \in Parents(e.path) : IsFile(st.fs[q])
    BY <2>1 DEF EntryFiles
  <2>3. PICK node : /\ r.fs = PutTree(MadeDirs(st.fs, Parents(e.path)), e.path, node)
                    /\ (node = e.data /\ e.kind = "file") \/ (node = st.fs[e.data] /\ e.kind = "hardlink")
    BY <2>1, <2>2 DEF EntryFiles
  <2> DEFINE u == MadeDirs(st.fs, Parents(e.path))
  <2>4. Proper(u) /\ \A q \in Parents(e.path) : u[q] = Dir
    BY <1>0, <2>2, ParentsClosed, MadeDirsProper
  <2>5. Valued(st.fs, V) => Valued(u, V)
    BY DEF Valued, MadeDirs
  <2>6. Valued(st.fs, V) => node \in V
    BY <2>3 DEF Valued, IsEntry
  <2>7. r.fs = PutTree(u, e.path, node)
    BY <2>3
  <2> HIDE DEF u
  <2>8. Proper(r.fs)
    BY <1>0, <2>4, <2>7, PutTreeProper
  <2>9. Valued(st.fs, V) => Valued(r.fs, V)
    BY <2>5, <2>6, <2>7 DEF Valued, PutTree
  <2> QED BY <2>8, <2>9 DEF Call, r
<1> QED
  BY <1>0, <1>1, <1>2, <1>3, <1>4, <1>5 DEF Leaf

\* One entry of the upper directory.
LEMMA UpperIs ==
    ASSUME NEW V, {Nothing, Dir} \subseteq V, NEW st, IsState(st), st.ok, Proper(st.fs),
           NEW e, IsEntry(e), e.kind = "file" => e.data \in V
    PROVE  /\ IsState(applyUpperEntry(st, e))
           /\ applyUpperEntry(st, e).ok => Call(st.fs, applyUpperEntry(st, e).fs, V)
<1> DEFINE r == applyUpperEntry(st, e)
<1>1. r = Failed(st) \/ r = st \/ r = applyEntry(st, e)
  BY Zenon DEF applyUpperEntry
<1> HIDE DEF r
<1>2. Call(st.fs, st.fs, V)
  BY DEF Call
<1>3. IsState(applyEntry(st, e))
  BY EntryIs
<1>4. applyEntry(st, e).ok => Call(st.fs, applyEntry(st, e).fs, V)
  BY EntryCall
<1>5. IsState(Failed(st)) /\ ~Failed(st).ok
  BY FailedIs
<1> QED
  BY <1>1, <1>2, <1>3, <1>4, <1>5 DEF r

LEMMA UpperStuck ==
    ASSUME NEW st, IsState(st), ~st.ok, NEW e, IsEntry(e)
    PROVE  applyUpperEntry(st, e) = st
<1>1. applyEntry(st, e) = st
  BY EntryIs
<1> QED
  BY <1>1, Zenon DEF applyUpperEntry

-----------------------------------------------------------------------------
\* What a set of entries means, entry by entry.
Owns(e, p) == (Leaf(e) \/ e.kind = "dir") /\ e.path = p
Implies(e, p) ==
    e.kind \notin {"whiteout", "device"} /\ (p \in Parents(e.path) \/ (e.kind = "opaque" /\ e.path = p))
Hides(e, p) ==
    \/ e.kind = "whiteout" /\ (e.path = p \/ e.path \in Parents(p))
    \/ (e.kind = "opaque" \/ Leaf(e)) /\ e.path \in Parents(p)

NodeOf(E, e, x) ==
    /\ e.kind = "dir" => x = Dir
    /\ e.kind = "file" => x = e.data
    /\ e.kind = "hardlink" => \E f \in E : f.kind = "file" /\ f.path = e.data /\ x = f.data

OverAt(fs, E, p, x) ==
    /\ \A e \in E : Owns(e, p) => NodeOf(E, e, x)
    /\ (\A e \in E : ~Owns(e, p)) =>
          /\ (\E e \in E : Implies(e, p)) => x = Dir
          /\ (\A e \in E : ~Implies(e, p)) =>
                /\ (\E e \in E : Hides(e, p)) => x = Nothing
                /\ (\A e \in E : ~Hides(e, p)) => x = fs[p]

Over(fs, E, t) == IsTree(t) /\ \A p \in Paths : OverAt(fs, E, p, t[p])

\* The directories that an entry needs.
Needs(e, p) == Implies(e, p) \/ (Owns(e, p) /\ e.kind = "dir")

Refused(fs, E) ==
    \/ \E e \in E : e.kind = "device" /\ ~InDev(e.path)
    \/ \E p \in Paths : IsFile(fs[p]) /\ (\A e \in E : ~Hides(e, p)) /\ \E e \in E : Needs(e, p)

\* An entry that may follow the entries of a set.
Fits(E, e) ==
    /\ \A f \in E \cup {e} : IsEntry(f)
    /\ \A f \in E : Marker(e) /\ f.kind # "whiteout" =>
          e.path \notin Parents(f.path) /\ (e.kind = "whiteout" => e.path # f.path)
    /\ \A f \in E : ~Marker(f) /\ ~Marker(e) => f.path # e.path
    /\ \A f, g \in E \cup {e} : Leaf(f) /\ g.kind # "whiteout" =>
          f.path \notin Parents(g.path) /\ (g.kind = "opaque" => f.path # g.path)
    /\ e.kind = "hardlink" => \E f \in E : f.kind = "file" /\ f.path = e.data

LEMMA NoCycle ==
    ASSUME NEW p \in Paths, NEW q \in Paths, p \in Parents(q)
    PROVE  p # q /\ q \notin Parents(p)
BY ParentsArePaths, ParentsTransitive

LEMMA NeedsIs ==
    ASSUME NEW e, IsEntry(e), NEW p \in Paths
    PROVE  /\ e.kind \in {"whiteout", "device"} => ~Needs(e, p)
           /\ e.kind \in {"opaque", "dir"} => (Needs(e, p) <=> p \in Parents(e.path) \/ p = e.path)
           /\ Leaf(e) => (Needs(e, p) <=> p \in Parents(e.path))
BY DEF Needs, Implies, Owns, Marker, Leaf

\* What an entry needs is not hidden by it, nor a file of the set.
LEMMA NeedsFits ==
    ASSUME NEW E, NEW e, Fits(E, e), NEW p \in Paths, Needs(e, p)
    PROVE  ~Hides(e, p) /\ \A f \in E : Leaf(f) => f.path # p
<1>1. IsEntry(e) /\ e.path \in Paths
  BY DEF Fits, IsEntry
<1>2. e.kind # "whiteout" /\ (p \in Parents(e.path) \/ (p = e.path /\ e.kind \in {"opaque", "dir"}))
  BY DEF Needs, Implies, Owns, Leaf
<1>3. e.path # p => e.path \notin Parents(p)
  BY <1>1, <1>2, NoCycle
<1>4. e.path \notin Parents(p)
  BY <1>1, <1>3, ParentsArePaths
<1>5. ~Hides(e, p)
  BY <1>2, <1>4 DEF Hides
<1>6. ASSUME NEW f \in E, Leaf(f), f.path = p PROVE FALSE
  <2>1. p \notin Parents(e.path) /\ (e.kind = "opaque" => p # e.path)
    BY <1>2, <1>6 DEF Fits
  <2>2. p = e.path /\ e.kind = "dir"
    BY <1>2, <2>1
  <2>3. ~Marker(f) /\ ~Marker(e)
    BY <1>6, <2>2 DEF Leaf, Marker
  <2> QED BY <1>6, <2>2, <2>3 DEF Fits
<1> QED
  BY <1>5, <1>6

\* A file of the tree that is no entry of the set was there before.
LEMMA FileStays ==
    ASSUME NEW fs, NEW E, NEW t, Over(fs, E, t), NEW p \in Paths,
           \A f \in E : Leaf(f) => f.path # p
    PROVE  IsFile(t[p]) <=> /\ IsFile(fs[p]) /\ \A f \in E : ~Hides(f, p) /\ ~Needs(f, p)
<1>1. OverAt(fs, E, p, t[p])
  BY DEF Over
<1>2. \A f \in E : Owns(f, p) => f.kind = "dir" /\ Needs(f, p)
  BY DEF Owns, Needs
<1>3. \A f \in E : Implies(f, p) => Needs(f, p)
  BY DEF Needs
<1>4. Nothing # Dir
  BY PathsAssumption
<1>5. ASSUME IsFile(t[p]) PROVE IsFile(fs[p]) /\ \A f \in E : ~Hides(f, p) /\ ~Needs(f, p)
  <2>1. \A f \in E : ~Owns(f, p)
    BY <1>1, <1>2, <1>5 DEF OverAt, NodeOf, IsFile
  <2>2. \A f \in E : ~Implies(f, p)
    BY <1>1, <1>5, <2>1 DEF OverAt, IsFile
  <2>3. \A f \in E : ~Hides(f, p)
    BY <1>1, <1>5, <2>1, <2>2 DEF OverAt, IsFile
  <2>4. t[p] = fs[p]
    BY <1>1, <2>1, <2>2, <2>3 DEF OverAt
  <2> QED BY <1>5, <2>1, <2>2, <2>3, <2>4 DEF Needs
<1>6. ASSUME IsFile(fs[p]), \A f \in E : ~Hides(f, p) /\ ~Needs(f, p) PROVE IsFile(t[p])
  <2>1. t[p] = fs[p]
    BY <1>1, <1>2, <1>3, <1>6 DEF OverAt
  <2> QED BY <1>6, <2>1
<1> QED
  BY <1>5, <1>6

\* An entry is refused for a directory that it needs in the place of a file.
LEMMA RefusedStep ==
    ASSUME NEW fs, NEW E, NEW t, NEW e, Over(fs, E, t), ~Refused(fs, E), Fits(E, e), e.kind = "device" => InDev(e.path)
    PROVE  Refused(fs, E \cup {e}) <=> \E p \in Paths : Needs(e, p) /\ IsFile(t[p])
<1>0. \A f \in E \cup {e} : f.kind = "device" => InDev(f.path)
  BY DEF Refused
<1>1. ASSUME NEW p \in Paths, Needs(e, p), IsFile(t[p]) PROVE Refused(fs, E \cup {e})
  <2>1. ~Hides(e, p) /\ \A f \in E : Leaf(f) => f.path # p
    BY <1>1, NeedsFits
  <2>2. IsFile(fs[p]) /\ \A f \in E : ~Hides(f, p)
    BY <1>1, <2>1, FileStays
  <2> QED BY <1>1, <2>1, <2>2 DEF Refused
<1>2. ASSUME Refused(fs, E \cup {e}) PROVE \E p \in Paths : Needs(e, p) /\ IsFile(t[p])
  <2>1. PICK p \in Paths : IsFile(fs[p]) /\ (\A f \in E \cup {e} : ~Hides(f, p)) /\ \E f \in E \cup {e} : Needs(f, p)
    BY <1>0, <1>2 DEF Refused
  <2>2. \A f \in E : ~Needs(f, p)
    BY <2>1 DEF Refused
  <2>3. Needs(e, p)
    BY <2>1, <2>2
  <2>4. \A f \in E : Leaf(f) => f.path # p
    BY <2>3, NeedsFits
  <2>5. IsFile(t[p])
    BY <2>1, <2>2, <2>4, FileStays
  <2> QED BY <2>3, <2>5
<1> QED
  BY <1>1, <1>2

\* What is refused once stays refused.
LEMMA RefusedStays ==
    ASSUME NEW fs, NEW E, NEW e, Refused(fs, E), Fits(E, e)
    PROVE  Refused(fs, E \cup {e})
<1>1. CASE \E f \in E : f.kind = "device" /\ ~InDev(f.path)
  BY <1>1 DEF Refused
<1>2. CASE ~\E f \in E : f.kind = "device" /\ ~InDev(f.path)
  <2>1. PICK p \in Paths : IsFile(fs[p]) /\ (\A f \in E : ~Hides(f, p)) /\ \E f \in E : Needs(f, p)
    BY <1>2 DEF Refused
  <2>2. PICK f \in E : Needs(f, p)
    BY <2>1
  <2>3. f.kind # "whiteout" /\ (p \in Parents(f.path) \/ p = f.path)
    BY <2>2 DEF Needs, Implies, Owns
  <2>4. f.path \in Paths /\ e.path \in Paths
    BY DEF Fits, IsEntry
  <2>5. ASSUME Hides(e, p) PROVE FALSE
    <3>1. e.path \in Parents(p) => e.path \in Parents(f.path)
      BY <2>3, <2>4, ParentsTransitive
    <3>2. CASE e.kind = "whiteout"
      <4>1. e.path \notin Parents(f.path) /\ e.path # f.path
        BY <2>3, <3>2 DEF Fits, Marker
      <4> QED BY <2>3, <2>5, <3>1, <3>2, <4>1 DEF Hides, Leaf
    <3>3. CASE e.kind = "opaque"
      <4>1. e.path \notin Parents(f.path)
        BY <2>3, <3>3 DEF Fits, Marker
      <4> QED BY <2>5, <3>1, <3>3, <4>1 DEF Hides, Leaf
    <3>4. CASE Leaf(e)
      <4>1. e.path \notin Parents(f.path)
        BY <2>3, <3>4 DEF Fits
      <4> QED BY <2>5, <3>1, <3>4, <4>1 DEF Hides, Leaf
    <3> QED BY <2>5, <3>2, <3>3, <3>4 DEF Hides
  <2> QED BY <2>1, <2>2, <2>5 DEF Refused
<1> QED
  BY <1>1, <1>2

\* A path that an entry says nothing of.
LEMMA OverElsewhere ==
    ASSUME NEW fs, NEW E, NEW e, NEW p, NEW x, OverAt(fs, E, p, x),
           ~Owns(e, p), ~Implies(e, p), ~Hides(e, p)
    PROVE  OverAt(fs, E \cup {e}, p, x)
<1>1. \A f \in E : NodeOf(E, f, x) => NodeOf(E \cup {e}, f, x)
  BY DEF NodeOf
<1> QED
  BY <1>1 DEF OverAt

\* A path that an entry hides.
LEMMA OverHidden ==
    ASSUME NEW fs, NEW E, NEW e, NEW p, Hides(e, p),
           \A f \in E \cup {e} : ~Owns(f, p) /\ ~Implies(f, p)
    PROVE  OverAt(fs, E \cup {e}, p, Nothing)
BY DEF OverAt

\* A directory that an entry needs.
LEMMA OverNeeded ==
    ASSUME NEW fs, NEW E, NEW e, NEW p \in Paths, Fits(E, e), Needs(e, p)
    PROVE  OverAt(fs, E \cup {e}, p, Dir)
<1>1. \A f \in E : Leaf(f) => f.path # p
  BY NeedsFits
<1>3. \A f \in E : Owns(f, p) => NodeOf(E \cup {e}, f, Dir)
  BY <1>1 DEF Owns, NodeOf
<1>4. Owns(e, p) => e.kind = "dir"
  <2> SUFFICES ASSUME Owns(e, p), e.kind # "dir" PROVE FALSE
    OBVIOUS
  <2>1. e.kind # "opaque" /\ e.path = p
    BY DEF Owns, Leaf
  <2>2. p \in Parents(p)
    BY <2>1 DEF Needs, Implies
  <2> QED BY <2>2, ParentsArePaths
<1>5. Owns(e, p) => NodeOf(E \cup {e}, e, Dir)
  BY <1>4 DEF NodeOf
<1>6. ~Owns(e, p) => Implies(e, p)
  BY DEF Needs
<1> QED
  BY <1>3, <1>5, <1>6 DEF OverAt

\* Nothing of the set is where an entry that may follow it hides.
LEMMA HidesFits ==
    ASSUME NEW E, NEW e, Fits(E, e), NEW p \in Paths, Hides(e, p)
    PROVE  \A f \in E \cup {e} : ~Owns(f, p) /\ ~Implies(f, p)
<1>0. e.path \in Paths /\ (e.path = p \/ e.path \in Parents(p)) /\ (e.kind # "whiteout" => e.path \in Parents(p))
  BY DEF Fits, IsEntry, Hides
<1>1. ASSUME NEW f \in E, f.kind # "whiteout", p \in Parents(f.path) \/ p = f.path PROVE FALSE
  <2>1. f.path \in Paths
    BY <1>1 DEF Fits, IsEntry
  <2>2. e.path \in Parents(p) => e.path \in Parents(f.path)
    BY <1>1, <2>1, ParentsTransitive
  <2>3. CASE e.kind = "whiteout"
    <3>1. e.path \notin Parents(f.path) /\ e.path # f.path
      BY <1>1, <2>3 DEF Fits, Marker
    <3> QED BY <1>0, <1>1, <2>2, <3>1
  <2>4. CASE e.kind = "opaque"
    <3>1. e.path \notin Parents(f.path)
      BY <1>1, <2>4 DEF Fits, Marker
    <3> QED BY <1>0, <2>2, <2>4, <3>1
  <2>5. CASE Leaf(e)
    <3>1. e.path \notin Parents(f.path) /\ e.kind # "whiteout"
      BY <1>1, <2>5 DEF Fits, Leaf
    <3> QED BY <1>0, <2>2, <3>1
  <2> QED BY <2>3, <2>4, <2>5 DEF Hides
<1>2. \A f \in E : ~Owns(f, p) /\ ~Implies(f, p)
  BY <1>1 DEF Owns, Implies, Leaf
<1>3. ~Owns(e, p)
  <2>1. e.kind # "whiteout" => e.path # p
    BY <1>0, ParentsArePaths
  <2> QED BY <2>1 DEF Owns, Leaf
<1>4. ~Implies(e, p)
  <2>1. e.kind # "whiteout" => e.path # p /\ p \notin Parents(e.path)
    BY <1>0, NoCycle
  <2> QED BY <2>1 DEF Implies
<1> QED
  BY <1>2, <1>3, <1>4

\* The tree after an entry that is not refused.
LEMMA OverWhiteout ==
    ASSUME NEW fs, NEW E, NEW t, NEW e, Over(fs, E, t), Fits(E, e), e.kind = "whiteout"
    PROVE  Over(fs, E \cup {e}, RemoveAll(t, e.path))
<1> DEFINE u == RemoveAll(t, e.path)
<1>1. IsTree(u) /\ \A p \in Paths : u[p] = IF p = e.path \/ e.path \in Parents(p) THEN Nothing ELSE t[p]
  BY RemoveAllIs
<1> HIDE DEF u
<1>2. ASSUME NEW p \in Paths PROVE OverAt(fs, E \cup {e}, p, u[p])
  <2>1. ~Owns(e, p) /\ ~Implies(e, p)
    BY DEF Owns, Implies, Leaf
  <2>2. Hides(e, p) <=> p = e.path \/ e.path \in Parents(p)
    BY DEF Hides, Leaf
  <2>3. CASE Hides(e, p)
    <3>1. u[p] = Nothing
      BY <1>1, <2>2, <2>3
    <3> QED BY <2>3, <3>1, HidesFits, OverHidden
  <2>4. CASE ~Hides(e, p)
    <3>1. u[p] = t[p] /\ OverAt(fs, E, p, t[p])
      BY <1>1, <2>2, <2>4 DEF Over
    <3> QED BY <2>1, <2>4, <3>1, OverElsewhere
  <2> QED BY <2>3, <2>4
<1> QED
  BY <1>1, <1>2 DEF Over, u

LEMMA OverDir ==
    ASSUME NEW fs, NEW E, NEW t, NEW e, Over(fs, E, t), Fits(E, e), Proper(t),
           e.kind = "dir" \/ (e.kind = "opaque" /\ t[e.path] = Nothing)
    PROVE  Over(fs, E \cup {e}, MadeDirs(t, Parents(e.path) \cup {e.path}))
<1> DEFINE u == MadeDirs(t, Parents(e.path) \cup {e.path})
<1>0. IsEntry(e) /\ e.path \in Paths
  BY DEF Fits, IsEntry
<1>1. IsTree(u) /\ \A p \in Paths : u[p] = IF p \in Parents(e.path) \/ p = e.path THEN Dir ELSE t[p]
  BY DEF MadeDirs, IsTree
<1> HIDE DEF u
<1>2. ASSUME NEW p \in Paths PROVE OverAt(fs, E \cup {e}, p, u[p])
  <2>1. Needs(e, p) <=> p \in Parents(e.path) \/ p = e.path
    BY <1>0, NeedsIs
  <2>2. CASE Needs(e, p)
    <3>1. u[p] = Dir
      BY <1>1, <2>1, <2>2
    <3> QED BY <2>2, <3>1, OverNeeded
  <2>3. CASE ~Needs(e, p)
    <3>1. ~Implies(e, p) /\ ~Owns(e, p) /\ u[p] = t[p] /\ OverAt(fs, E, p, t[p])
      BY <1>1, <2>1, <2>3 DEF Needs, Over, Owns
    <3>2. CASE Hides(e, p)
      <4>1. e.kind = "opaque" /\ e.path \in Parents(p)
        BY <3>2 DEF Hides, Leaf
      <4>2. t[e.path] = Nothing
        BY <4>1
      <4>3. t[p] = Nothing
        BY <4>1, <4>2, PathsAssumption DEF Proper
      <4> QED BY <3>1, <3>2, <4>3, HidesFits, OverHidden
    <3>3. CASE ~Hides(e, p)
      BY <3>1, <3>3, OverElsewhere
    <3> QED BY <3>2, <3>3
  <2> QED BY <2>2, <2>3
<1> QED
  BY <1>1, <1>2 DEF Over, u

LEMMA OverOpaque ==
    ASSUME NEW fs, NEW E, NEW t, NEW e, Over(fs, E, t), Fits(E, e), Proper(t),
           e.kind = "opaque", t[e.path] = Dir
    PROVE  Over(fs, E \cup {e}, PutTree(t, e.path, Dir))
<1> DEFINE u == PutTree(t, e.path, Dir)
<1>0. IsEntry(e) /\ e.path \in Paths
  BY DEF Fits, IsEntry
<1>1. IsTree(u) /\ \A p \in Paths : u[p] = IF p = e.path THEN Dir ELSE IF e.path \in Parents(p) THEN Nothing ELSE t[p]
  BY DEF PutTree, IsTree
<1> HIDE DEF u
<1>2. ASSUME NEW p \in Paths PROVE OverAt(fs, E \cup {e}, p, u[p])
  <2>1. Needs(e, p) <=> p \in Parents(e.path) \/ p = e.path
    BY <1>0, NeedsIs
  <2>2. CASE Needs(e, p)
    <3>1. p \in Parents(e.path) => t[p] = Dir /\ p # e.path /\ e.path \notin Parents(p)
      BY <1>0, NoCycle, PathsAssumption DEF Proper
    <3>2. u[p] = Dir
      BY <1>1, <2>1, <2>2, <3>1
    <3> QED BY <2>2, <3>2, OverNeeded
  <2>3. CASE ~Needs(e, p)
    <3>1. ~Implies(e, p) /\ ~Owns(e, p) /\ p # e.path /\ OverAt(fs, E, p, t[p])
      BY <2>1, <2>3 DEF Needs, Over, Owns
    <3>2. Hides(e, p) <=> e.path \in Parents(p)
      BY DEF Hides, Leaf
    <3>3. CASE Hides(e, p)
      <4>1. u[p] = Nothing
        BY <1>1, <3>1, <3>2, <3>3
      <4> QED BY <3>3, <4>1, HidesFits, OverHidden
    <3>4. CASE ~Hides(e, p)
      <4>1. u[p] = t[p]
        BY <1>1, <3>1, <3>2, <3>4
      <4> QED BY <3>1, <3>4, <4>1, OverElsewhere
    <3> QED BY <3>3, <3>4
  <2> QED BY <2>2, <2>3
<1> QED
  BY <1>1, <1>2 DEF Over, u

LEMMA OverLeaf ==
    ASSUME NEW fs, NEW E, NEW t, NEW e, Over(fs, E, t), Fits(E, e), Leaf(e),
           NEW node, NodeOf(E, e, node)
    PROVE  Over(fs, E \cup {e}, PutTree(MadeDirs(t, Parents(e.path)), e.path, node))
<1> DEFINE u == PutTree(MadeDirs(t, Parents(e.path)), e.path, node)
<1>0. IsEntry(e) /\ e.path \in Paths
  BY DEF Fits, IsEntry
<1>1. IsTree(u) /\ \A p \in Paths : u[p] = IF p = e.path THEN node ELSE IF e.path \in Parents(p) THEN Nothing
                                       ELSE IF p \in Parents(e.path) THEN Dir ELSE t[p]
  BY DEF PutTree, MadeDirs, IsTree
<1> HIDE DEF u
<1>2. ASSUME NEW p \in Paths PROVE OverAt(fs, E \cup {e}, p, u[p])
  <2>1. Needs(e, p) <=> p \in Parents(e.path)
    BY <1>0, NeedsIs
  <2>2. CASE Needs(e, p)
    <3>1. p # e.path /\ e.path \notin Parents(p)
      BY <1>0, <2>1, <2>2, NoCycle
    <3>2. u[p] = Dir
      BY <1>1, <2>1, <2>2, <3>1
    <3> QED BY <2>2, <3>2, OverNeeded
  <2>3. CASE ~Needs(e, p) /\ p = e.path
    <3>1. u[p] = node /\ Owns(e, p) /\ ~Marker(e)
      BY <1>1, <2>3 DEF Owns, Marker, Leaf
    <3>2. \A f \in E : ~Owns(f, p)
      BY <2>3, <3>1 DEF Owns, Fits, Marker, Leaf
    <3>3. NodeOf(E \cup {e}, e, node)
      BY DEF NodeOf
    <3> QED BY <3>1, <3>2, <3>3 DEF OverAt
  <2>4. CASE ~Needs(e, p) /\ p # e.path
    <3>1. ~Implies(e, p) /\ ~Owns(e, p) /\ OverAt(fs, E, p, t[p])
      BY <2>1, <2>4 DEF Needs, Over, Owns
    <3>2. Hides(e, p) <=> e.path \in Parents(p)
      BY DEF Hides, Leaf
    <3>3. CASE Hides(e, p)
      <4>1. u[p] = Nothing
        BY <1>1, <2>4, <3>2, <3>3
      <4> QED BY <3>3, <4>1, HidesFits, OverHidden
    <3>4. CASE ~Hides(e, p)
      <4>1. u[p] = t[p]
        BY <1>1, <2>1, <2>4, <3>2, <3>4
      <4> QED BY <3>1, <3>4, <4>1, OverElsewhere
    <3> QED BY <3>3, <3>4
  <2> QED BY <2>2, <2>3, <2>4
<1> QED
  BY <1>1, <1>2 DEF Over, u

\* The state of an extraction after a set of entries.
Extracted(fs, E, st) ==
    /\ IsState(st)
    /\ Refused(fs, E) => ~st.ok
    /\ ~Refused(fs, E) => st.ok /\ Over(fs, E, st.fs) /\ Proper(st.fs)

LEMMA ExtractStep ==
    ASSUME NEW fs, NEW E, NEW st, Extracted(fs, E, st), NEW e, Fits(E, e)
    PROVE  Extracted(fs, E \cup {e}, applyEntry(st, e))
<1> DEFINE r == applyEntry(st, e)
           t == st.fs
<1>0. IsState(st) /\ IsEntry(e) /\ e.path \in Paths
      /\ e.kind \in {"whiteout", "opaque", "dir", "file", "hardlink", "device"}
  BY DEF Extracted, Fits, IsEntry
<1>1. IsState(r)
  BY <1>0, EntryIs
<1>2. CASE Refused(fs, E)
  <2>1. r = st /\ ~st.ok
    BY <1>0, <1>2, EntryIs DEF Extracted
  <2>2. Refused(fs, E \cup {e})
    BY <1>2, RefusedStays
  <2> HIDE DEF r
  <2> QED BY <1>1, <2>1, <2>2 DEF Extracted, r
<1>3. CASE ~Refused(fs, E)
  <2>0. st.ok /\ Over(fs, E, t) /\ Proper(t)
    BY <1>3 DEF Extracted
  <2>1. CASE e.kind = "device" /\ ~InDev(e.path)
    <3>1. ~r.ok
      BY <1>0, <2>0, <2>1, EntryIs
    <3>2. Refused(fs, E \cup {e})
      BY <2>1 DEF Refused
    <3> HIDE DEF r
    <3> QED BY <1>1, <3>1, <3>2 DEF Extracted, r
  <2>7. CASE e.kind = "device" /\ InDev(e.path)
    <3>1. r = st
      BY <1>0, <2>0, <2>7, EntryIs
    <3>2. \A p \in Paths : ~Owns(e, p) /\ ~Implies(e, p) /\ ~Hides(e, p) /\ ~Needs(e, p)
      BY <2>7 DEF Owns, Implies, Hides, Needs, Leaf
    <3>3. ASSUME NEW p \in Paths PROVE OverAt(fs, E \cup {e}, p, t[p])
      <4>1. OverAt(fs, E, p, t[p])
        BY <2>0 DEF Over
      <4> HIDE DEF t
      <4> QED BY <3>2, <4>1, OverElsewhere
    <3>4. Over(fs, E \cup {e}, t)
      BY <2>0, <3>3 DEF Over
    <3>5. ~Refused(fs, E \cup {e})
      BY <1>3, <2>7, <3>2 DEF Refused
    <3> HIDE DEF r
    <3> QED BY <1>0, <2>0, <3>1, <3>4, <3>5 DEF Extracted, r
  <2>2. ASSUME e.kind # "device", \E p \in Paths : Needs(e, p) /\ IsFile(t[p]) PROVE ~r.ok
    <3>1. PICK p \in Paths : Needs(e, p) /\ IsFile(t[p])
      BY <2>2
    <3>2. e.kind # "whiteout"
      BY <1>0, <3>1, NeedsIs
    <3>3. CASE e.kind = "dir"
      <4>1. p \in Parents(e.path) \cup {e.path}
        BY <1>0, <3>1, <3>3, NeedsIs
      <4>2. r = MkdirAll(st, Parents(e.path) \cup {e.path})
        BY <1>0, <2>0, <3>3, EntryIs
      <4> HIDE DEF r
      <4> QED BY <1>0, <3>1, <4>1, <4>2, MkdirAllIs
    <3>4. CASE e.kind = "opaque"
      <4>1. p \in Parents(e.path) \cup {e.path}
        BY <1>0, <3>1, <3>4, NeedsIs
      <4>2. r = removeAllChildren(st, e.path)
        BY <1>0, <2>0, <3>4, EntryIs
      <4> HIDE DEF r
      <4>3. CASE t[e.path] = Nothing
        <5>1. r = MkdirAll(st, Parents(e.path) \cup {e.path})
          BY <1>0, <4>2, <4>3, OpaqueIs
        <5> QED BY <1>0, <3>1, <4>1, <5>1, MkdirAllIs
      <4>4. CASE t[e.path] = Dir
        <5>1. t[p] = Dir
          BY <1>0, <2>0, <4>1, <4>4, PathsAssumption DEF Proper
        <5> QED BY <3>1, <5>1 DEF IsFile
      <4>5. CASE IsFile(t[e.path])
        BY <1>0, <4>2, <4>5, OpaqueIs
      <4> QED BY <4>3, <4>4, <4>5 DEF IsFile
    <3>5. CASE Leaf(e)
      <4>1. p \in Parents(e.path)
        BY <1>0, <3>1, <3>5, NeedsIs
      <4>2. EntryFiles(st, e, r)
        BY <1>0, <2>0, <3>5, EntryIs
      <4> HIDE DEF r
      <4> QED BY <3>1, <4>1, <4>2 DEF EntryFiles
    <3> QED BY <1>0, <2>2, <3>2, <3>3, <3>4, <3>5 DEF Leaf
  <2>3. ASSUME e.kind # "device", ~\E p \in Paths : Needs(e, p) /\ IsFile(t[p])
        PROVE  r.ok /\ Over(fs, E \cup {e}, r.fs)
    <3>1. CASE e.kind = "whiteout"
      <4>1. r.ok /\ r.fs = RemoveAll(t, e.path)
        BY <1>0, <2>0, <3>1, EntryIs
      <4> HIDE DEF r, t
      <4> QED BY <2>0, <3>1, <4>1, OverWhiteout
    <3>2. ASSUME e.kind = "dir" \/ (e.kind = "opaque" /\ t[e.path] = Nothing),
                 r = MkdirAll(st, Parents(e.path) \cup {e.path})
          PROVE  r.ok /\ Over(fs, E \cup {e}, r.fs)
      <4>1. Parents(e.path) \cup {e.path} \subseteq Paths
        BY <1>0, ParentsArePaths
      <4>2. \A p \in Parents(e.path) \cup {e.path} : Needs(e, p)
        BY <1>0, <3>2, <4>1, NeedsIs
      <4>3. ~\E p \in Parents(e.path) \cup {e.path} : IsFile(t[p])
        BY <2>3, <4>1, <4>2
      <4>4. r.ok = st.ok /\ r.fs = MadeDirs(t, Parents(e.path) \cup {e.path})
        <5> HIDE DEF r
        <5> QED BY <1>0, <3>2, <4>3, MkdirAllIs
      <4> HIDE DEF r, t
      <4>5. Over(fs, E \cup {e}, r.fs)
        BY <1>3, <2>0, <3>2, <4>4, OverDir
      <4> QED BY <2>0, <4>4, <4>5
    <3>3. CASE e.kind = "dir"
      <4>1. r = MkdirAll(st, Parents(e.path) \cup {e.path})
        BY <1>0, <2>0, <3>3, EntryIs
      <4> HIDE DEF r, t
      <4> QED BY <3>2, <3>3, <4>1
    <3>4. CASE e.kind = "opaque"
      <4>1. r = removeAllChildren(st, e.path)
        BY <1>0, <2>0, <3>4, EntryIs
      <4>2. CASE t[e.path] = Nothing
        <5>1. r = MkdirAll(st, Parents(e.path) \cup {e.path})
          <6> HIDE DEF r
          <6> QED BY <1>0, <4>1, <4>2, OpaqueIs
        <5> HIDE DEF r, t
        <5> QED BY <3>2, <3>4, <4>2, <5>1
      <4>3. CASE t[e.path] = Dir
        <5>1. r.ok = st.ok /\ r.fs = PutTree(t, e.path, Dir)
          <6> HIDE DEF r
          <6> QED BY <1>0, <4>1, <4>3, OpaqueIs
        <5> HIDE DEF r, t
        <5>2. Over(fs, E \cup {e}, r.fs)
          BY <1>3, <2>0, <3>4, <4>3, <5>1, OverOpaque
        <5> QED BY <2>0, <5>1, <5>2
      <4>4. CASE IsFile(t[e.path])
        <5>1. Needs(e, e.path)
          BY <1>0, <3>4, NeedsIs
        <5> QED BY <1>0, <2>3, <4>4, <5>1
      <4> QED BY <4>2, <4>3, <4>4 DEF IsFile
    <3>5. CASE Leaf(e)
      <4>0. Parents(e.path) \subseteq Paths
        BY <1>0, ParentsArePaths
      <4>1. ~\E p \in Parents(e.path) : IsFile(t[p])
        BY <1>0, <2>3, <3>5, <4>0, NeedsIs
      <4>2. EntryFiles(st, e, r)
        BY <1>0, <2>0, <3>5, EntryIs
      <4> HIDE DEF r
      <4>3. CASE e.kind = "file"
        <5>1. r.ok /\ r.fs = PutTree(MadeDirs(t, Parents(e.path)), e.path, e.data)
          BY <4>1, <4>2, <4>3 DEF EntryFiles
        <5>2. NodeOf(E, e, e.data)
          BY <4>3 DEF NodeOf
        <5> HIDE DEF t
        <5> DEFINE node == e.data
                   u == PutTree(MadeDirs(t, Parents(e.path)), e.path, node)
        <5>4. NodeOf(E, e, node) /\ r.fs = u
          BY <5>1, <5>2
        <5> HIDE DEF node
        <5>5. Over(fs, E \cup {e}, u)
          BY <1>3, <2>0, <3>5, <5>4, OverLeaf
        <5>3. Over(fs, E \cup {e}, r.fs)
          BY <5>4, <5>5
        <5> QED BY <5>1, <5>3
      <4>4. CASE e.kind = "hardlink"
        <5>1. PICK f \in E : f.kind = "file" /\ f.path = e.data
          BY <4>4 DEF Fits
        <5>2. e.data \in Paths /\ IsEntry(f) /\ IsFile(f.data)
          BY <1>0, <4>4, <5>1 DEF IsEntry, Fits
        <5>3. Owns(f, e.data) /\ ~Marker(f) /\ ~Marker(e)
          BY <4>4, <5>1 DEF Owns, Marker, Leaf
        <5>4. t[e.data] = f.data
          BY <2>0, <5>1, <5>2, <5>3 DEF Over, OverAt, NodeOf
        <5>5. e.data # e.path /\ e.path \notin Parents(e.data)
          BY <3>5, <5>1, <5>3 DEF Fits
        <5>6. RemoveAll(t, e.path)[e.data] = t[e.data]
          BY <5>2, <5>5, RemoveAllIs
        <5>7. r.ok /\ r.fs = PutTree(MadeDirs(t, Parents(e.path)), e.path, t[e.data])
          BY <4>1, <4>2, <4>4, <5>2, <5>4, <5>6 DEF EntryFiles
        <5>8. NodeOf(E, e, t[e.data])
          BY <4>4, <5>1, <5>4 DEF NodeOf
        <5> HIDE DEF t
        <5> DEFINE node == t[e.data]
                   u == PutTree(MadeDirs(t, Parents(e.path)), e.path, node)
        <5>10. NodeOf(E, e, node) /\ r.fs = u
          BY <5>7, <5>8
        <5> HIDE DEF node
        <5>11. Over(fs, E \cup {e}, u)
          BY <1>3, <2>0, <3>5, <5>10, OverLeaf
        <5>9. Over(fs, E \cup {e}, r.fs)
          BY <5>10, <5>11
        <5> QED BY <5>7, <5>9
      <4> QED BY <3>5, <4>3, <4>4 DEF Leaf
    <3> QED BY <1>0, <2>3, <3>1, <3>3, <3>4, <3>5 DEF Leaf
  <2>4. r.ok => Proper(r.fs)
    <3> DEFINE V == {Nothing, Dir, e.data}
    <3>1. {Nothing, Dir} \subseteq V /\ (e.kind = "file" => e.data \in V)
      OBVIOUS
    <3> HIDE DEF V
    <3>2. r.ok => Call(t, r.fs, V)
      BY <1>0, <2>0, <3>1, EntryCall
    <3> HIDE DEF r, t
    <3> QED BY <3>2 DEF Call
  <2>5. e.kind # "device" => (Refused(fs, E \cup {e}) <=> \E p \in Paths : Needs(e, p) /\ IsFile(t[p]))
    <3> HIDE DEF r, t
    <3> QED BY <1>3, <2>0, RefusedStep
  <2> HIDE DEF r, t
  <2>6. CASE e.kind # "device"
    <3>1. Refused(fs, E \cup {e}) => ~r.ok
      BY <2>2, <2>5, <2>6
    <3>2. ~Refused(fs, E \cup {e}) => r.ok /\ Over(fs, E \cup {e}, r.fs)
      BY <2>3, <2>5, <2>6
    <3> QED BY <1>1, <2>4, <3>1, <3>2 DEF Extracted, r
  <2> QED BY <2>1, <2>6, <2>7
<1> QED
  BY <1>2, <1>3

-----------------------------------------------------------------------------
\* A whole archive.
Prefix(layer, m) == {layer[i] : i \in 1..m}

LEMMA ArchiveIs ==
    ASSUME NEW layer, IsArchive(layer)
    PROVE  /\ layer \in Seq(ToSet(layer)) /\ Len(layer) \in Nat /\ DOMAIN layer = 1..Len(layer)
           /\ Prefix(layer, 0) = {} /\ Prefix(layer, Len(layer)) = ToSet(layer)
           /\ \A m \in 0..(Len(layer) - 1) : Prefix(layer, m + 1) = Prefix(layer, m) \cup {layer[m + 1]}
           /\ \A i \in 1..Len(layer) : layer[i] \in ToSet(layer) /\ IsEntry(layer[i])
<1>1. layer \in Seq(ToSet(layer)) /\ \A e \in ToSet(layer) : IsEntry(e)
  BY DEF IsArchive
<1>2. Len(layer) \in Nat /\ DOMAIN layer = 1..Len(layer)
  BY <1>1
<1>3. Prefix(layer, 0) = {}
  BY DEF Prefix
<1>4. Prefix(layer, Len(layer)) = ToSet(layer)
  BY <1>2 DEF Prefix, ToSet
<1>5. ASSUME NEW m \in 0..(Len(layer) - 1) PROVE Prefix(layer, m + 1) = Prefix(layer, m) \cup {layer[m + 1]}
  <2>1. 1..(m + 1) = (1..m) \cup {m + 1}
    BY <1>2
  <2> QED BY <2>1 DEF Prefix
<1>6. \A i \in 1..Len(layer) : layer[i] \in ToSet(layer) /\ IsEntry(layer[i])
  BY <1>1, <1>2 DEF ToSet
<1> QED
  BY <1>1, <1>2, <1>3, <1>4, <1>5, <1>6

LEMMA PrefixFits ==
    ASSUME NEW layer, IsArchive(layer), WellFormed(layer), NEW m \in 0..(Len(layer) - 1)
    PROVE  Fits(Prefix(layer, m), layer[m + 1])
<1> DEFINE e == layer[m + 1]
           E == Prefix(layer, m)
<1>0. Len(layer) \in Nat /\ DOMAIN layer = 1..Len(layer) /\ m + 1 \in 1..Len(layer) /\ m \in Nat
  BY ArchiveIs
<1>1. \A f \in E : \E i \in 1..Len(layer) : i < m + 1 /\ f = layer[i]
  BY <1>0 DEF Prefix
<1>2. \A i \in 1..Len(layer) : layer[i] \in ToSet(layer) /\ IsEntry(layer[i])
  BY ArchiveIs
<1>3. \A f \in E \cup {e} : f \in ToSet(layer) /\ IsEntry(f)
  <2> HIDE DEF E
  <2> QED BY <1>0, <1>1, <1>2
<1>4. ASSUME NEW f \in E, Marker(e), f.kind # "whiteout"
      PROVE  e.path \notin Parents(f.path) /\ (e.kind = "whiteout" => e.path # f.path)
  <2>1. PICK i \in 1..Len(layer) : i < m + 1 /\ f = layer[i]
    BY <1>1
  <2> QED BY <1>0, <1>4, <2>1 DEF WellFormed
<1>5. ASSUME NEW f \in E, ~Marker(f), ~Marker(e) PROVE f.path # e.path
  <2>1. PICK i \in 1..Len(layer) : i < m + 1 /\ f = layer[i]
    BY <1>1
  <2>2. i # m + 1
    BY <1>0, <2>1
  <2> QED BY <1>0, <1>5, <2>1, <2>2 DEF WellFormed
<1>6. \A f, g \in E \cup {e} : Leaf(f) /\ g.kind # "whiteout" =>
          f.path \notin Parents(g.path) /\ (g.kind = "opaque" => f.path # g.path)
  <2> HIDE DEF E, e
  <2> QED BY <1>3 DEF WellFormed
<1>7. ASSUME e.kind = "hardlink" PROVE \E f \in E : f.kind = "file" /\ f.path = e.data
  <2>1. PICK i \in 1..Len(layer) : i < m + 1 /\ layer[i].kind = "file" /\ layer[i].path = e.data
    BY <1>0, <1>7 DEF WellFormed
  <2>2. i \in 1..m
    BY <1>0, <2>1
  <2>3. layer[i] \in E
    BY <2>2 DEF Prefix
  <2> QED BY <2>1, <2>3
<1> HIDE DEF e, E
<1>8. Fits(E, e)
  BY <1>3, <1>4, <1>5, <1>6, <1>7 DEF Fits
<1> QED
  BY <1>8 DEF E, e

LEMMA NothingExtracted ==
    ASSUME NEW fs, Proper(fs), NEW st, IsState(st), st.ok, st.fs = fs
    PROVE  Extracted(fs, {}, st)
<1>1. ~Refused(fs, {})
  BY DEF Refused
<1>2. Over(fs, {}, fs)
  BY DEF Over, OverAt, Proper
<1> QED
  BY <1>1, <1>2 DEF Extracted

LEMMA AllExtracted ==
    ASSUME NEW fs, Proper(fs), NEW layer, IsArchive(layer), WellFormed(layer)
    PROVE  Extracted(fs, ToSet(layer), applyOneLayer(fs, layer))
<1> DEFINE N == Len(layer)
           base == [ok |-> TRUE, fs |-> fs]
<1>0. layer \in Seq(ToSet(layer)) /\ N \in Nat
  BY ArchiveIs
<1>1. PICK r : IsRun("entry", base, layer, r) /\ r[N] = applyOneLayer(fs, layer)
  BY <1>0, LayerRuns
<1>2. \A st, x : Op("entry", st, x) = applyEntry(st, x)
  BY Zenon DEF Op
<1>3. r[0] = base /\ \A m \in 0..(N - 1) : r[m + 1] = applyEntry(r[m], layer[m + 1])
  <2> HIDE DEF base, N
  <2>1. N = Len(layer)
    BY DEF N
  <2> QED BY <1>1, <1>2, <2>1, Zenon DEF IsRun
<1> DEFINE T == {m \in Nat : Extracted(fs, Prefix(layer, m), r[m])}
<1>4. 0 \in T
  <2>1. Prefix(layer, 0) = {}
    BY ArchiveIs
  <2>2. IsState(r[0]) /\ r[0].ok /\ r[0].fs = fs
    BY <1>3, BaseIs
  <2>3. Extracted(fs, Prefix(layer, 0), r[0])
    <3> HIDE DEF base
    <3> QED BY <2>1, <2>2, NothingExtracted
  <2> QED BY <2>3
<1>5. ASSUME NEW m \in 0..(N - 1), m \in T PROVE m + 1 \in T
  <2>1. Extracted(fs, Prefix(layer, m), r[m]) /\ m + 1 \in Nat
    BY <1>0, <1>5
  <2>2. Fits(Prefix(layer, m), layer[m + 1])
    BY PrefixFits
  <2>3. Prefix(layer, m + 1) = Prefix(layer, m) \cup {layer[m + 1]}
    BY ArchiveIs
  <2>4. r[m + 1] = applyEntry(r[m], layer[m + 1])
    BY <1>3
  <2> HIDE DEF T, base
  <2>5. Extracted(fs, Prefix(layer, m + 1), r[m + 1])
    BY <2>1, <2>2, <2>3, <2>4, ExtractStep
  <2> QED BY <2>1, <2>5 DEF T
<1> HIDE DEF T
<1>6. N \in T
  <2> HIDE DEF N, base
  <2>1. \A m \in 0..(N - 1) : m \in T => m + 1 \in T
    BY <1>5
  <2>2. \A m \in 0..N : m \in T
    BY <1>0, <1>4, <2>1, UpTo
  <2> QED BY <1>0, <2>2
<1>7. Extracted(fs, Prefix(layer, N), r[N])
  BY <1>6 DEF T
<1> QED
  BY <1>1, <1>7, ArchiveIs

\* The meaning by entries is the meaning of the layer.
LEMMA LayerIs ==
    ASSUME NEW layer, NEW p
    PROVE  /\ Own(layer, p) = {e \in ToSet(layer) : Owns(e, p)}
           /\ Implied(layer, p) <=> \E e \in ToSet(layer) : Implies(e, p)
           /\ Hidden(layer, p) <=> \E e \in ToSet(layer) : Hides(e, p)
<1>1. Own(layer, p) = {e \in ToSet(layer) : Owns(e, p)}
  BY DEF Own, Owns
<1>2. Implied(layer, p) <=> \E e \in ToSet(layer) : Implies(e, p)
  BY DEF Implied, Implies, Marked
<1>3. Hidden(layer, p) <=> \E e \in ToSet(layer) : Hides(e, p)
  <2>1. \A q : q \in Marked(layer, "whiteout") <=> \E e \in ToSet(layer) : e.kind = "whiteout" /\ e.path = q
    BY DEF Marked
  <2>2. \A q : q \in Marked(layer, "opaque") <=> \E e \in ToSet(layer) : e.kind = "opaque" /\ e.path = q
    BY DEF Marked
  <2>3. \A q : (\E e \in Own(layer, q) : Leaf(e)) <=> \E e \in ToSet(layer) : Leaf(e) /\ e.path = q
    BY DEF Own
  <2> QED BY <2>1, <2>2, <2>3 DEF Hidden, Hides
<1> QED
  BY <1>1, <1>2, <1>3

LEMMA ConflictIs ==
    ASSUME NEW fs, NEW layer
    PROVE  Conflict(fs, layer) <=> Refused(fs, ToSet(layer))
<1>1. \A p : (\E e \in Own(layer, p) : e.kind = "dir") <=> \E e \in ToSet(layer) : Owns(e, p) /\ e.kind = "dir"
  BY LayerIs
<1>2. \A p : Hidden(layer, p) <=> \E e \in ToSet(layer) : Hides(e, p)
  BY LayerIs
<1>3. \A p : Implied(layer, p) <=> \E e \in ToSet(layer) : Implies(e, p)
  BY LayerIs
<1> QED
  BY <1>1, <1>2, <1>3 DEF Conflict, Refused, Needs

LEMMA OwnUnique ==
    ASSUME NEW layer, IsArchive(layer), WellFormed(layer), NEW p, NEW e \in Own(layer, p)
    PROVE  (CHOOSE f \in Own(layer, p) : TRUE) = e
<1>1. DOMAIN layer = 1..Len(layer)
  BY ArchiveIs
<1>2. ASSUME NEW f \in Own(layer, p) PROVE f = e
  <2>1. e \in ToSet(layer) /\ f \in ToSet(layer) /\ ~Marker(e) /\ ~Marker(f) /\ e.path = p /\ f.path = p
    BY <1>2 DEF Own, Leaf, Marker
  <2>2. PICK i \in DOMAIN layer, j \in DOMAIN layer : e = layer[i] /\ f = layer[j]
    BY <2>1 DEF ToSet
  <2>3. i = j
    BY <2>1, <2>2 DEF WellFormed
  <2> QED BY <2>2, <2>3
<1>3. (CHOOSE f \in Own(layer, p) : TRUE) \in Own(layer, p)
  BY Zenon
<1> QED
  BY <1>2, <1>3

LEMMA OverIsOverlay ==
    ASSUME NEW fs, NEW layer, IsArchive(layer), WellFormed(layer), NEW t, Over(fs, ToSet(layer), t)
    PROVE  t = Overlay(fs, layer)
<1> DEFINE u == Overlay(fs, layer)
<1>1. IsTree(u)
  BY DEF IsTree, Overlay
<1>2. ASSUME NEW p \in Paths PROVE t[p] = u[p]
  <2>0. u[p] = IF Own(layer, p) # {} THEN OwnNode(fs, layer, p)
               ELSE IF Implied(layer, p) THEN Dir
               ELSE IF Hidden(layer, p) THEN Nothing ELSE fs[p]
    BY DEF Overlay
  <2>1. OverAt(fs, ToSet(layer), p, t[p])
    BY DEF Over
  <2>2. CASE Own(layer, p) # {}
    <3>1. PICK e \in Own(layer, p) : TRUE
      BY <2>2
    <3>2. e \in ToSet(layer) /\ Owns(e, p)
      BY <3>1, LayerIs
    <3>3. (CHOOSE f \in Own(layer, p) : TRUE) = e
      BY <3>1, OwnUnique
    <3>4. NodeOf(ToSet(layer), e, t[p])
      BY <2>1, <3>2 DEF OverAt
    <3>5. CASE e.kind = "dir"
      <4>1. OwnNode(fs, layer, p) = Dir
        BY <3>3, <3>5 DEF OwnNode
      <4> QED BY <2>0, <2>2, <3>4, <3>5, <4>1 DEF NodeOf
    <3>6. CASE e.kind = "file"
      <4>1. OwnNode(fs, layer, p) = e.data
        BY <3>3, <3>6 DEF OwnNode
      <4> QED BY <2>0, <2>2, <3>4, <3>6, <4>1 DEF NodeOf
    <3>7. CASE e.kind = "hardlink"
      <4>1. OwnNode(fs, layer, p) = LinkedFile(fs, layer, e.data)
        BY <3>3, <3>7 DEF OwnNode
      <4>2. PICK f \in ToSet(layer) : f.kind = "file" /\ f.path = e.data /\ t[p] = f.data
        BY <3>4, <3>7 DEF NodeOf
      <4>3. f \in Own(layer, e.data)
        BY <4>2 DEF Own, Leaf
      <4>4. (CHOOSE g \in Own(layer, e.data) : TRUE) = f
        BY <4>3, OwnUnique
      <4>5. LinkedFile(fs, layer, e.data) = f.data
        BY <4>3, <4>4 DEF LinkedFile
      <4> QED BY <2>0, <2>2, <4>1, <4>2, <4>5
    <3> QED BY <3>2, <3>5, <3>6, <3>7 DEF Owns, Leaf
  <2>3. CASE Own(layer, p) = {}
    <3>1. \A e \in ToSet(layer) : ~Owns(e, p)
      BY <2>3, LayerIs
    <3>2. Implied(layer, p) <=> \E e \in ToSet(layer) : Implies(e, p)
      BY LayerIs
    <3>3. Hidden(layer, p) <=> \E e \in ToSet(layer) : Hides(e, p)
      BY LayerIs
    <3> QED BY <2>0, <2>1, <2>3, <3>1, <3>2, <3>3 DEF OverAt
  <2> QED BY <2>2, <2>3
<1> HIDE DEF u
<1>3. t = [p \in Paths |-> t[p]] /\ u = [p \in Paths |-> u[p]]
  BY <1>1 DEF Over, IsTree
<1>4. [p \in Paths |-> t[p]] = [p \in Paths |-> u[p]]
  BY <1>2
<1>5. t = u
  BY <1>3, <1>4
<1> QED
  BY <1>5 DEF u

\* For every tree and every archive as image builders write them, the extraction
\* gives what the layer means over the tree that was there, and it fails exactly
\* on a conflict.  Module Layers describes it for layers that cross no link.
LEMMA ExtractionIs ==
    ASSUME NEW fs, Proper(fs), NEW layer, IsArchive(layer), WellFormed(layer)
    PROVE  LET st == applyOneLayer(fs, layer) IN
           IF Conflict(fs, layer) THEN ~st.ok ELSE st.ok /\ st.fs = Overlay(fs, layer)
<1> DEFINE st == applyOneLayer(fs, layer)
<1>1. Extracted(fs, ToSet(layer), st)
  BY AllExtracted
<1>2. Conflict(fs, layer) <=> Refused(fs, ToSet(layer))
  BY ConflictIs
<1> HIDE DEF st
<1>3. Conflict(fs, layer) => ~st.ok
  BY <1>1, <1>2 DEF Extracted
<1>4. ~Conflict(fs, layer) => st.ok /\ st.fs = Overlay(fs, layer)
  BY <1>1, <1>2, OverIsOverlay DEF Extracted
<1> QED
  BY <1>3, <1>4 DEF st

\* applyOneLayer, for every tree and every archive as image builders write them
\* that goes through no symbolic link: the extraction, entry by entry, of
\* whiteouts, opaque markers, directories, files and links gives what the layer
\* means over the tree that was there.  It skips a device below dev/, and it
\* fails exactly when the layer has a device elsewhere or a directory in the place
\* of a file that stays.
THEOREM ExtractionIsOverlay ==
    ASSUME NEW fs, Proper(fs), NEW layer, IsArchive(layer), WellFormed(layer)
    PROVE  ExtractionSound(fs, layer)
BY ExtractionIs DEF ExtractionSound

-----------------------------------------------------------------------------
\* The trees of images.
Nodes == {Nothing, Dir} \cup Contents
GoodTree(t) == Proper(t) /\ Valued(t, Nodes)

LEMMA TreeIs ==
    ASSUME NEW t
    PROVE  /\ t \in Trees <=> IsTree(t) /\ Valued(t, Nodes)
           /\ GoodTree(t) => t \in Trees
BY DEF Trees, Nodes, IsTree, Valued, GoodTree, Proper

LEMMA EmptyGood == GoodTree(Empty)
<1>1. Valued(Empty, Nodes)
  BY DEF Valued, Nodes, Empty
<1> QED
  BY <1>1, EmptyProper DEF GoodTree

LEMMA ContentIs ==
    /\ \A l \in Archives : IsArchive(l) /\ \A e \in ToSet(l) : e.kind = "file" => e.data \in Contents
    /\ \A c \in Contents : IsFile(c)
    /\ CopyData \in Contents /\ Contents \subseteq Nodes /\ {Nothing, Dir} \subseteq Nodes
<1>1. \A l \in Archives : IsArchive(l)
  BY ImageAssumption DEF Archives
<1>2. \A l \in Archives : \A e \in ToSet(l) : e.kind = "file" => e.data \in Contents
  BY DEF Contents
<1>3. ASSUME NEW c \in Contents PROVE IsFile(c)
  <2>1. CASE c = CopyData
    BY <2>1, ImageAssumption
  <2>2. CASE c # CopyData
    <3>0. PICK l \in Archives : \E e \in ToSet(l) : e.kind = "file" /\ c = e.data
      BY <2>2 DEF Contents
    <3>1. PICK e \in ToSet(l) : e.kind = "file" /\ c = e.data
      BY <3>0
    <3>2. IsEntry(e)
      BY <1>1, <3>1 DEF IsArchive
    <3> QED BY <3>1, <3>2 DEF IsEntry
  <2> QED BY <2>1, <2>2
<1> QED
  BY <1>1, <1>2, <1>3 DEF Contents, Nodes

LEMMA OverlayTyped ==
    ASSUME NEW fs, Valued(fs, Nodes), NEW layer \in Archives, WellFormed(layer)
    PROVE  IsTree(Overlay(fs, layer)) /\ Valued(Overlay(fs, layer), Nodes)
<1> DEFINE u == Overlay(fs, layer)
<1>0. IsArchive(layer)
  BY ContentIs
<1>1. IsTree(u)
  BY DEF IsTree, Overlay
<1>2. ASSUME NEW p \in Paths PROVE u[p] \in Nodes
  <2>0. u[p] = IF Own(layer, p) # {} THEN OwnNode(fs, layer, p)
               ELSE IF Implied(layer, p) THEN Dir
               ELSE IF Hidden(layer, p) THEN Nothing ELSE fs[p]
    BY DEF Overlay
  <2>1. CASE Own(layer, p) # {}
    <3>1. PICK e \in Own(layer, p) : TRUE
      BY <2>1
    <3>2. e \in ToSet(layer) /\ e.kind \in {"dir", "file", "hardlink"}
      BY <3>1 DEF Own, Leaf
    <3>4. (CHOOSE f \in Own(layer, p) : TRUE) = e
      BY <1>0, <3>1, OwnUnique
    <3>5. CASE e.kind = "dir"
      <4>1. OwnNode(fs, layer, p) = Dir
        BY <3>4, <3>5 DEF OwnNode
      <4> QED BY <2>0, <2>1, <4>1 DEF Nodes
    <3>6. CASE e.kind = "file"
      <4>1. OwnNode(fs, layer, p) = e.data
        BY <3>4, <3>6 DEF OwnNode
      <4> QED BY <2>0, <2>1, <3>2, <3>6, <4>1, ContentIs DEF Nodes
    <3>7. CASE e.kind = "hardlink"
      <4>1. OwnNode(fs, layer, p) = LinkedFile(fs, layer, e.data)
        BY <3>4, <3>7 DEF OwnNode
      <4>2. PICK j \in DOMAIN layer : layer[j] = e
        BY <3>2 DEF ToSet
      <4>3. PICK i \in DOMAIN layer : layer[i].kind = "file" /\ layer[i].path = e.data
        BY <3>7, <4>2 DEF WellFormed
      <4>4. layer[i] \in ToSet(layer) /\ layer[i] \in Own(layer, e.data)
        BY <4>3 DEF Own, Leaf, ToSet
      <4>5. (CHOOSE g \in Own(layer, e.data) : TRUE) = layer[i]
        BY <1>0, <4>4, OwnUnique
      <4>6. LinkedFile(fs, layer, e.data) = layer[i].data
        BY <4>4, <4>5 DEF LinkedFile
      <4> QED BY <2>0, <2>1, <4>1, <4>3, <4>4, <4>6, ContentIs DEF Nodes
    <3> QED BY <3>2, <3>5, <3>6, <3>7
  <2>2. CASE Own(layer, p) = {}
    BY <2>0, <2>2 DEF Valued, Nodes
  <2> QED BY <2>1, <2>2
<1> HIDE DEF u
<1>3. Valued(u, Nodes)
  BY <1>2 DEF Valued
<1> QED
  BY <1>1, <1>3 DEF u

\* What a layer means has its paths in directories, also when its extraction is
\* refused.
LEMMA OverlayProper ==
    ASSUME NEW fs, Proper(fs), NEW layer, IsArchive(layer), WellFormed(layer)
    PROVE  Proper(Overlay(fs, layer))
<1> DEFINE u == Overlay(fs, layer)
<1>0. \A p \in Paths : u[p] = IF Own(layer, p) # {} THEN OwnNode(fs, layer, p)
                              ELSE IF Implied(layer, p) THEN Dir
                              ELSE IF Hidden(layer, p) THEN Nothing ELSE fs[p]
  BY DEF Overlay
<1>1. IsTree(u)
  BY DEF IsTree, Overlay
<1> HIDE DEF u
<1>2. ASSUME NEW p \in Paths, u[p] # Nothing, NEW q \in Parents(p) PROVE u[q] = Dir
  <2>0. q \in Paths
    BY <1>2, ParentsArePaths
  <2>1. ASSUME NEW e \in Own(layer, q), Leaf(e) PROVE Own(layer, p) = {} /\ ~Implied(layer, p) /\ Hidden(layer, p)
    <3>1. e \in ToSet(layer) /\ e.path = q
      BY DEF Own
    <3>2. \A f \in ToSet(layer) : f.kind # "whiteout" => q \notin Parents(f.path)
      BY <2>1, <3>1 DEF WellFormed
    <3>3. Own(layer, p) = {}
      BY <1>2, <3>2 DEF Own, Leaf
    <3>4. \A f \in ToSet(layer) : p \in Parents(f.path) => q \in Parents(f.path)
      <4> SUFFICES ASSUME NEW f \in ToSet(layer), p \in Parents(f.path) PROVE q \in Parents(f.path)
        OBVIOUS
      <4>1. f.path \in Paths
        BY DEF IsArchive, IsEntry
      <4> QED BY <1>2, <4>1, ParentsTransitive
    <3>5. p \notin Marked(layer, "opaque")
      BY <1>2, <3>2 DEF Marked
    <3>6. ~Implied(layer, p)
      BY <3>2, <3>4, <3>5 DEF Implied
    <3>7. Hidden(layer, p)
      BY <1>2, <2>1 DEF Hidden
    <3> QED BY <3>3, <3>6, <3>7
  <2>2. ASSUME NEW e \in Own(layer, q) PROVE u[q] = Dir
    <3>1. ~Leaf(e)
      BY <1>0, <1>2, <2>1
    <3>2. e.kind = "dir"
      BY <3>1 DEF Own
    <3>3. (CHOOSE f \in Own(layer, q) : TRUE) = e
      BY OwnUnique
    <3>4. OwnNode(fs, layer, q) = Dir
      BY <3>2, <3>3 DEF OwnNode
    <3> QED BY <1>0, <2>0, <3>4
  <2>3. CASE Own(layer, q) = {} /\ Implied(layer, q)
    BY <1>0, <2>0, <2>3
  <2>4. CASE Own(layer, q) = {} /\ ~Implied(layer, q)
    <3>1. Own(layer, p) = {}
      BY <1>2, <2>4 DEF Own, Leaf, Implied
    <3>2. \A f \in ToSet(layer) : p \in Parents(f.path) => q \in Parents(f.path)
      <4> SUFFICES ASSUME NEW f \in ToSet(layer), p \in Parents(f.path) PROVE q \in Parents(f.path)
        OBVIOUS
      <4>1. f.path \in Paths
        BY DEF IsArchive, IsEntry
      <4> QED BY <1>2, <4>1, ParentsTransitive
    <3>3. ~Implied(layer, p)
      <4>1. \A f \in ToSet(layer) : f.kind \notin {"whiteout", "device"} => q \notin Parents(f.path)
        BY <2>4 DEF Implied
      <4>2. p \notin Marked(layer, "opaque")
        BY <1>2, <4>1 DEF Marked
      <4> QED BY <3>2, <4>1, <4>2 DEF Implied
    <3>4. ~Hidden(layer, p) /\ fs[p] # Nothing
      BY <1>0, <1>2, <3>1, <3>3
    <3>5. fs[q] = Dir
      BY <1>2, <3>4 DEF Proper
    <3>6. Parents(q) \cup {q} \subseteq Parents(p)
      BY <1>2, ParentsTransitive
    <3>7. ~Hidden(layer, q)
      BY <3>4, <3>6 DEF Hidden
    <3> QED BY <1>0, <2>0, <2>4, <3>5, <3>7
  <2> QED BY <2>2, <2>3, <2>4
<1>3. Proper(u)
  BY <1>1, <1>2 DEF Proper
<1> QED
  BY <1>3 DEF u

\* A layer of a version, over a tree.
LEMMA LayerGood ==
    ASSUME NEW fs, GoodTree(fs), NEW layer \in Archives, WellFormed(layer), applyOneLayer(fs, layer).ok
    PROVE  GoodTree(applyOneLayer(fs, layer).fs) /\ applyOneLayer(fs, layer).fs = Overlay(fs, layer)
<1> DEFINE st == applyOneLayer(fs, layer)
<1>0. IsArchive(layer) /\ Proper(fs) /\ Valued(fs, Nodes)
  BY ContentIs DEF GoodTree
<1>1. Extracted(fs, ToSet(layer), st)
  BY <1>0, AllExtracted
<1>2. st.fs = Overlay(fs, layer)
  BY <1>0, ExtractionIs
<1> HIDE DEF st
<1>3. Proper(st.fs)
  BY <1>1 DEF Extracted, st
<1>4. Valued(st.fs, Nodes)
  BY <1>0, <1>2, OverlayTyped
<1> QED
  BY <1>2, <1>3, <1>4 DEF GoodTree, st

\* The trees that the layers of a version mean, one over the other.
IsMeaning(v, r) ==
    /\ r[0] = Empty /\ r[Len(LayersOf[v])] = Meaning(v)
    /\ \A m \in 0..(Len(LayersOf[v]) - 1) : r[m + 1] = Overlay(r[m], LayersOf[v][m + 1])
    /\ \A m \in 0..Len(LayersOf[v]) : IsTree(r[m]) /\ Valued(r[m], Nodes) /\ Proper(r[m])

LEMMA MeaningIs ==
    ASSUME NEW v \in Versions
    PROVE  \E r : IsMeaning(v, r)
<1> DEFINE L == LayersOf[v]
           N == Len(L)
<1>0. N \in Nat /\ \A k \in 1..N : IsArchive(L[k]) /\ WellFormed(L[k]) /\ L[k] \in Archives
  BY VersionIsSeq
<1>1. PICK r : IsRun("overlay", Empty, L, r) /\ r[N] = Meaning(v)
  BY MeaningRuns
<1>2. \A st, x : Op("overlay", st, x) = Overlay(st, x)
  BY Zenon DEF Op
<1>3. r[0] = Empty /\ \A m \in 0..(N - 1) : r[m + 1] = Overlay(r[m], L[m + 1])
  BY <1>1, <1>2 DEF IsRun
<1> DEFINE T == {m \in Nat : IsTree(r[m]) /\ Valued(r[m], Nodes) /\ Proper(r[m])}
<1>4. 0 \in T
  BY <1>3, EmptyGood DEF GoodTree, Proper
<1>5. ASSUME NEW m \in 0..(N - 1), m \in T PROVE m + 1 \in T
  <2>1. m + 1 \in 1..N /\ m + 1 \in Nat
    BY <1>0
  <2>2. L[m + 1] \in Archives /\ WellFormed(L[m + 1])
    BY <1>0, <2>1
  <2>3. IsTree(r[m + 1]) /\ Valued(r[m + 1], Nodes) /\ Proper(r[m + 1])
    BY <1>0, <1>3, <1>5, <2>1, <2>2, OverlayTyped, OverlayProper
  <2> QED BY <2>1, <2>3
<1> HIDE DEF T, N
<1>6. \A m \in 0..(N - 1) : m \in T => m + 1 \in T
  BY <1>5
<1>7. \A m \in 0..N : m \in T
  BY <1>0, <1>4, <1>6, UpTo
<1>8. \A m \in 0..N : IsTree(r[m]) /\ Valued(r[m], Nodes) /\ Proper(r[m])
  BY <1>7 DEF T
<1> QED
  BY <1>1, <1>3, <1>8 DEF IsMeaning, N

LEMMA MeaningTyped ==
    ASSUME NEW v \in Versions
    PROVE  Meaning(v) \in Trees /\ GoodTree(Meaning(v))
<1>1. PICK r : IsMeaning(v, r)
  BY MeaningIs
<1>2. Len(LayersOf[v]) \in 0..Len(LayersOf[v])
  BY VersionIsSeq
<1>3. Proper(Meaning(v)) /\ Valued(Meaning(v), Nodes)
  BY <1>1, <1>2 DEF IsMeaning
<1> QED
  BY <1>3, TreeIs DEF GoodTree

\* The upper directory of a command, over a tree.
LEMMA UpperGood ==
    ASSUME NEW fs, GoodTree(fs), NEW upper \in Archives \cup {<<>>}, applyOverlayUpper(fs, upper).ok
    PROVE  GoodTree(applyOverlayUpper(fs, upper).fs)
<1> DEFINE N == Len(upper)
           base == [ok |-> TRUE, fs |-> fs]
           Fine(st) == IsState(st) /\ (st.ok => GoodTree(st.fs))
<1>0. upper \in Seq(ToSet(upper)) /\ N \in Nat
      /\ \A i \in 1..N : IsEntry(upper[i]) /\ (upper[i].kind = "file" => upper[i].data \in Nodes)
  <2>1. CASE upper \in Archives
    BY <2>1, ContentIs, ArchiveIs
  <2>2. CASE upper = <<>>
    BY <2>2
  <2> QED BY <2>1, <2>2
<1>1. PICK r : IsRun("upper", base, upper, r) /\ r[N] = applyOverlayUpper(fs, upper)
  BY <1>0, UpperRuns
<1>2. \A st, x : Op("upper", st, x) = applyUpperEntry(st, x)
  BY Zenon DEF Op
<1>3. r[0] = base /\ \A m \in 0..(N - 1) : r[m + 1] = applyUpperEntry(r[m], upper[m + 1])
  <2> HIDE DEF base, N
  <2>1. N = Len(upper)
    BY DEF N
  <2> QED BY <1>1, <1>2, <2>1, Zenon DEF IsRun
<1> DEFINE T == {m \in Nat : Fine(r[m])}
<1>4. 0 \in T
  <2>1. IsState(r[0]) /\ r[0].fs = fs
    BY <1>3, BaseIs
  <2> HIDE DEF base
  <2> QED BY <2>1
<1>5. ASSUME NEW m \in 0..(N - 1), m \in T PROVE m + 1 \in T
  <2>1. m + 1 \in 1..N /\ m + 1 \in Nat
    BY <1>0
  <2>2. Fine(r[m]) /\ r[m + 1] = applyUpperEntry(r[m], upper[m + 1])
    BY <1>3, <1>5
  <2> DEFINE st == r[m]
             e == upper[m + 1]
  <2>3. IsEntry(e) /\ (e.kind = "file" => e.data \in Nodes)
    BY <1>0, <2>1
  <2>4. IsState(st) /\ (st.ok => GoodTree(st.fs)) /\ r[m + 1] = applyUpperEntry(st, e)
    BY <2>2
  <2> HIDE DEF st, e, base, T
  <2>5. CASE st.ok
    <3>1. Proper(st.fs) /\ Valued(st.fs, Nodes)
      BY <2>4, <2>5 DEF GoodTree
    <3>2. /\ IsState(applyUpperEntry(st, e))
          /\ applyUpperEntry(st, e).ok => Call(st.fs, applyUpperEntry(st, e).fs, Nodes)
      BY <2>3, <2>4, <2>5, <3>1, ContentIs, UpperIs
    <3>3. Fine(r[m + 1])
      BY <2>4, <3>1, <3>2 DEF Call, GoodTree
    <3> QED BY <2>1, <3>3 DEF T
  <2>6. CASE ~st.ok
    <3>1. r[m + 1] = st
      BY <2>3, <2>4, <2>6, UpperStuck
    <3>2. Fine(r[m + 1])
      BY <2>4, <2>6, <3>1
    <3> QED BY <2>1, <3>2 DEF T
  <2> QED BY <2>5, <2>6
<1> HIDE DEF T, N
<1>6. \A m \in 0..(N - 1) : m \in T => m + 1 \in T
  BY <1>5
<1>7. N \in T
  <2> HIDE DEF base
  <2>1. \A m \in 0..N : m \in T
    BY <1>0, <1>4, <1>6, UpTo
  <2> QED BY <1>0, <2>1
<1>8. Fine(r[N])
  BY <1>7 DEF T
<1> HIDE DEF base
<1> QED
  BY <1>1, <1>8

\* WORKDIR and COPY.
LEMMA InstructedGood ==
    ASSUME NEW t, GoodTree(t), Instructed(t).ok
    PROVE  GoodTree(Instructed(t).fs)
<1> DEFINE base == [ok |-> TRUE, fs |-> t]
           dirs == Parents(Workdir) \cup {Workdir}
           inDir == MkdirAll(base, dirs)
           res == Instructed(t)
<1>0. Workdir \in Paths /\ Append(Workdir, CopyName) \in Paths /\ CopyData \in Nodes
  BY ImageAssumption, ContentIs
<1>1. res = IF inDir.ok THEN applyCopy(inDir, Workdir, CopyName, CopyData) ELSE inDir
  BY Zenon DEF Instructed
<1>2. IsState(base) /\ base.ok /\ base.fs = t
  BY BaseIs
<1>3. Closed(dirs)
  BY <1>0, ParentsClosed
<1> HIDE DEF base, dirs
<1>4. IsState(inDir)
  BY <1>2, MkdirAllIs
<1>5. inDir.ok => Call(t, inDir.fs, Nodes)
  <2>1. Proper(t)
    BY DEF GoodTree
  <2> QED BY <1>2, <1>3, <2>1, ContentIs, DirsCall
<1> HIDE DEF inDir
<1>6. inDir.ok /\ res = applyCopy(inDir, Workdir, CopyName, CopyData)
  BY <1>1 DEF res
<1>7. GoodTree(inDir.fs)
  BY <1>5, <1>6 DEF Call, GoodTree
<1> DEFINE target == IF inDir.fs[Workdir] = Dir THEN Append(Workdir, CopyName) ELSE Workdir
           up == MkdirAll(inDir, Parents(target))
<1>8. target \in Paths
  BY <1>0
<1>9. res = IF up.ok /\ inDir.fs[target] # Dir THEN Put(up, target, CopyData) ELSE Failed(inDir)
  BY <1>6, Zenon DEF applyCopy
<1> HIDE DEF target, up, res
<1>10. IsState(up)
  BY <1>4, MkdirAllIs DEF up
<1>11. res.ok
  BY DEF res
<1>12. up.ok /\ res = Put(up, target, CopyData)
  BY <1>4, <1>9, <1>11, FailedIs
<1>13. /\ Call(inDir.fs, up.fs, Nodes)
       /\ up.fs = MadeDirs(inDir.fs, Parents(target)) /\ ~\E q \in Parents(target) : IsFile(inDir.fs[q])
  <2>1. Closed(Parents(target)) /\ Proper(inDir.fs)
    BY <1>7, <1>8, ParentsClosed DEF GoodTree
  <2>2. Call(inDir.fs, up.fs, Nodes) /\ ~\E q \in Parents(target) : IsFile(inDir.fs[q])
    BY <1>4, <1>6, <1>12, <2>1, ContentIs, DirsCall DEF up
  <2>3. up.fs = MadeDirs(inDir.fs, Parents(target))
    BY <1>4, <2>2, MkdirAllIs DEF up
  <2> QED BY <2>2, <2>3
<1>14. Proper(up.fs) /\ Valued(up.fs, Nodes) /\ \A q \in Parents(target) : up.fs[q] = Dir
  <2>1. Closed(Parents(target)) /\ Proper(inDir.fs)
    BY <1>7, <1>8, ParentsClosed DEF GoodTree
  <2>2. \A q \in Parents(target) : up.fs[q] = Dir
    BY <1>13, <2>1, MadeDirsProper
  <2> QED BY <1>7, <1>13, <2>2 DEF Call, GoodTree
<1>15. res.fs = PutTree(up.fs, target, CopyData)
  BY <1>8, <1>10, <1>12, PutIs
<1>16. Proper(res.fs)
  BY <1>8, <1>14, <1>15, PutTreeProper
<1>17. Valued(res.fs, Nodes)
  BY <1>0, <1>14, <1>15, ContentIs DEF Valued, PutTree
<1> QED
  BY <1>16, <1>17 DEF GoodTree, res

LEMMA CopyGood ==
    ASSUME NEW t, GoodTree(t), NEW from, GoodTree(from), copyDir(t, from).ok
    PROVE  /\ GoodTree(copyDir(t, from).fs)
           /\ \A p \in Paths : copyDir(t, from).fs[p] = IF from[p] = Nothing THEN t[p] ELSE from[p]
<1> DEFINE u == copyDir(t, from).fs
<1>1. IsTree(u) /\ \A p \in Paths : u[p] = IF from[p] = Nothing THEN t[p] ELSE from[p]
  BY DEF copyDir, IsTree
<1>2. \A p \in Paths : (from[p] = Dir => ~IsFile(t[p])) /\ (IsFile(from[p]) => t[p] # Dir)
  BY DEF copyDir
<1> HIDE DEF u
<1>3. ASSUME NEW p \in Paths, u[p] # Nothing, NEW q \in Parents(p) PROVE u[q] = Dir
  <2>0. q \in Paths /\ Nothing # Dir
    BY ParentsArePaths, PathsAssumption
  <2>1. CASE from[p] # Nothing
    <3>1. from[q] = Dir
      BY <2>1 DEF GoodTree, Proper
    <3> QED BY <1>1, <2>0, <3>1
  <2>2. CASE from[p] = Nothing
    <3>1. t[q] = Dir
      BY <1>1, <1>3, <2>2 DEF GoodTree, Proper
    <3>2. ~IsFile(from[q])
      BY <1>2, <2>0, <3>1
    <3> QED BY <1>1, <2>0, <3>1, <3>2 DEF IsFile
  <2> QED BY <2>1, <2>2
<1>4. Proper(u)
  BY <1>1, <1>3 DEF Proper
<1>5. Valued(u, Nodes)
  BY <1>1 DEF GoodTree, Valued
<1> QED
  BY <1>1, <1>4, <1>5 DEF GoodTree, u

-----------------------------------------------------------------------------
\* The archives of LayersSound.
LEMMA SmallLayersAre ==
    ASSUME NEW data, IsFile(data), NEW layer \in SmallLayers(data)
    PROVE  IsArchive(layer) /\ WellFormed(layer)
<1>1. ASSUME NEW e \in Entries(data) PROVE IsEntry(e)
  <2>1. CASE e \in [kind : {"file"}, path : Paths, data : {data}]
    BY <2>1 DEF IsEntry
  <2>2. CASE e \in [kind : {"hardlink"}, path : Paths, data : Paths]
    BY <2>2 DEF IsEntry
  <2>3. CASE e \in [kind : {"dir", "whiteout", "device"}, path : Paths, data : {Nothing}]
    BY <2>3 DEF IsEntry
  <2>4. CASE e \in [kind : {"opaque"}, path : {p \in Paths : Below(p) # {}}, data : {Nothing}]
    BY <2>4 DEF IsEntry
  <2> QED BY <2>1, <2>2, <2>3, <2>4 DEF Entries
<1> DEFINE E == Entries(data)
<1>a. layer \in {<<>>} \cup {<<e>> : e \in E} \cup (E \X E) /\ WellFormed(layer)
  BY Zenon DEF SmallLayers
<1> HIDE DEF E
<1>2. layer \in Seq(E) /\ WellFormed(layer)
  <2>1. CASE layer \in {<<e>> : e \in E}
    <3>1. PICK e \in E : layer = <<e>>
      BY <2>1
    <3>2. <<e>> \in Seq(E)
      OBVIOUS
    <3> QED BY <1>a, <3>1, <3>2
  <2>2. CASE layer \in E \X E
    <3>1. PICK e \in E, f \in E : layer = <<e, f>>
      BY <2>2
    <3>2. <<e, f>> \in Seq(E)
      OBVIOUS
    <3> QED BY <1>a, <3>1, <3>2
  <2>3. CASE layer = <<>>
    BY <1>a, <2>3
  <2> QED BY <1>a, <2>1, <2>2, <2>3
<1>3. Len(layer) \in Nat /\ DOMAIN layer = 1..Len(layer) /\ \A k \in 1..Len(layer) : layer[k] \in E
  BY <1>2
<1>4. ToSet(layer) \subseteq E
  BY <1>3 DEF ToSet
<1>5. layer \in Seq(ToSet(layer))
  <2>1. \A k \in 1..Len(layer) : layer[k] \in ToSet(layer)
    BY <1>3 DEF ToSet
  <2>2. layer = [k \in 1..Len(layer) |-> layer[k]]
    BY <1>2
  <2>3. layer \in [1..Len(layer) -> ToSet(layer)]
    BY <2>1, <2>2
  <2> QED BY <1>3, <2>3, SeqDef, Zenon
<1>6. \A e \in ToSet(layer) : IsEntry(e)
  BY <1>1, <1>4 DEF E
<1> QED
  BY <1>2, <1>5, <1>6 DEF IsArchive

LEMMA SmallLayersSound == LayersSound
<1> SUFFICES ASSUME NEW low \in {CopyData} \cup Links, NEW data \in {CopyData} \cup Links,
                    NEW lower \in SmallLayers(low)
             PROVE  LET one == applyOneLayer(Empty, lower) IN
                    /\ ExtractionSound(Empty, lower)
                    /\ one.ok => \A upper \in SmallLayers(data) : ExtractionSound(one.fs, upper)
  BY Zenon DEF LayersSound
<1> DEFINE one == applyOneLayer(Empty, lower)
<1>0. IsFile(data) /\ IsFile(low)
  BY ContentIs, PathsAssumption DEF IsFile
<1>1. IsArchive(lower) /\ WellFormed(lower)
  BY <1>0, SmallLayersAre
<1>2. ExtractionSound(Empty, lower) /\ Extracted(Empty, ToSet(lower), one)
  BY <1>1, EmptyProper, ExtractionIsOverlay, AllExtracted
<1> HIDE DEF one
<1>3. ASSUME one.ok, NEW upper \in SmallLayers(data) PROVE ExtractionSound(one.fs, upper)
  <2>1. Proper(one.fs)
    BY <1>2, <1>3 DEF Extracted
  <2>2. IsArchive(upper) /\ WellFormed(upper)
    BY <1>0, SmallLayersAre
  <2> QED BY <2>1, <2>2, ExtractionIsOverlay
<1> QED
  BY <1>2, <1>3 DEF one

\* What the image run evaluates for archives of up to two entries over each other
\* holds in every state and for any set of paths: applyOneLayer gives the upper
\* archive over what it leaves of the lower one, or refuses it, as long as neither
\* goes through a symbolic link.
THEOREM LayersAreSound == Spec => []LayersSound
<1> QED
  BY SmallLayersSound, PTL

-----------------------------------------------------------------------------
\* What the layers of a version leave at one path is what the last layer that
\* touches it puts there, whatever was there before.
Touches(layer, p) == Own(layer, p) # {} \/ Implied(layer, p) \/ Hidden(layer, p)

LEMMA UntouchedStays ==
    ASSUME NEW layer, NEW fs, NEW p \in Paths, ~Touches(layer, p)
    PROVE  Overlay(fs, layer)[p] = fs[p]
BY DEF Touches, Overlay

LEMMA TouchedIsNew ==
    ASSUME NEW layer, IsArchive(layer), WellFormed(layer), NEW p \in Paths, Touches(layer, p), NEW fs, NEW gs
    PROVE  Overlay(fs, layer)[p] = Overlay(gs, layer)[p]
<1>1. \A t : Overlay(t, layer)[p] = IF Own(layer, p) # {} THEN OwnNode(t, layer, p)
                                   ELSE IF Implied(layer, p) THEN Dir
                                   ELSE IF Hidden(layer, p) THEN Nothing ELSE t[p]
  BY DEF Overlay
<1>2. CASE Own(layer, p) = {}
  BY <1>1, <1>2 DEF Touches
<1>3. CASE Own(layer, p) # {}
  <2>1. PICK e \in Own(layer, p) : TRUE
    BY <1>3
  <2>2. e \in ToSet(layer) /\ e.kind \in {"dir", "file", "hardlink"}
    BY <2>1 DEF Own, Leaf
  <2>3. (CHOOSE f \in Own(layer, p) : TRUE) = e
    BY <2>1, OwnUnique
  <2>4. ASSUME e.kind = "hardlink" PROVE \A t : LinkedFile(t, layer, e.data) = (CHOOSE g \in Own(layer, e.data) : TRUE).data
    <3>2. PICK j \in DOMAIN layer : layer[j] = e
      BY <2>2 DEF ToSet
    <3>3. PICK i \in DOMAIN layer : layer[i].kind = "file" /\ layer[i].path = e.data
      BY <2>4, <3>2 DEF WellFormed
    <3>4. layer[i] \in Own(layer, e.data)
      BY <3>3 DEF Own, Leaf, ToSet
    <3> QED BY <3>4 DEF LinkedFile
  <2>6. \A t : OwnNode(t, layer, p) = CASE e.kind = "dir" -> Dir
                                        [] e.kind = "file" -> e.data
                                        [] e.kind = "hardlink" -> LinkedFile(t, layer, e.data)
    BY <2>3 DEF OwnNode
  <2>8. OwnNode(fs, layer, p) = OwnNode(gs, layer, p)
    BY <2>2, <2>4, <2>6
  <2> QED BY <1>1, <1>3, <2>8
<1> QED BY <1>2, <1>3

LEMMA LastTouch ==
    ASSUME NEW v \in Versions, NEW k \in 1..Len(LayersOf[v]), NEW p \in Paths, Touches(LayersOf[v][k], p),
           \A j \in (k + 1)..Len(LayersOf[v]) : ~Touches(LayersOf[v][j], p), NEW fs
    PROVE  Overlay(fs, LayersOf[v][k])[p] = Meaning(v)[p]
<1> DEFINE L == LayersOf[v]
           N == Len(L)
<1>0. N \in Nat /\ \A m \in 1..N : IsArchive(L[m]) /\ WellFormed(L[m])
  BY VersionIsSeq
<1>1. PICK r : IsMeaning(v, r)
  BY MeaningIs
<1>2. r[N] = Meaning(v) /\ \A m \in 0..(N - 1) : r[m + 1] = Overlay(r[m], L[m + 1])
  BY <1>1 DEF IsMeaning
<1> HIDE DEF N, L
<1>a. k \in 1..N /\ Touches(L[k], p) /\ \A j \in (k + 1)..N : ~Touches(L[j], p)
  BY DEF N, L
<1> DEFINE T == {m \in Nat : m >= k => r[m][p] = Overlay(fs, L[k])[p]}
<1>3. 0 \in T
  BY <1>a
<1>4. ASSUME NEW m \in 0..(N - 1), m \in T PROVE m + 1 \in T
  <2>1. m + 1 \in Nat /\ m + 1 \in 1..N /\ r[m + 1] = Overlay(r[m], L[m + 1])
    BY <1>0, <1>2
  <2>2. CASE m + 1 < k
    BY <2>1, <2>2, <1>a
  <2>3. CASE m + 1 = k
    <3>1. Overlay(r[m], L[k])[p] = Overlay(fs, L[k])[p]
      BY <1>0, <1>a, TouchedIsNew
    <3> QED BY <2>1, <2>3, <3>1
  <2>4. CASE m + 1 > k
    <3>1. m + 1 \in (k + 1)..N /\ m >= k
      BY <1>a, <2>1, <2>4
    <3>2. ~Touches(L[m + 1], p)
      BY <1>a, <3>1
    <3>3. r[m + 1][p] = r[m][p]
      BY <2>1, <3>2, UntouchedStays
    <3> QED BY <1>4, <2>1, <3>1, <3>3
  <2> QED BY <1>a, <2>1, <2>2, <2>3, <2>4
<1> HIDE DEF T
<1>5. \A m \in 0..N : m \in T
  <2>1. \A m \in 0..(N - 1) : m \in T => m + 1 \in T
    BY <1>4
  <2> QED BY <1>0, <1>3, <2>1, UpTo
<1>6. N \in T /\ N >= k
  BY <1>0, <1>5, <1>a
<1>7. r[N][p] = Overlay(fs, L[k])[p]
  BY <1>6 DEF T
<1> QED
  BY <1>2, <1>7 DEF L

LEMMA ThereIsTouched ==
    ASSUME NEW v \in Versions, NEW p \in Paths, Meaning(v)[p] # Nothing
    PROVE  \E j \in 1..Len(LayersOf[v]) : Touches(LayersOf[v][j], p)
<1> DEFINE L == LayersOf[v]
           N == Len(L)
<1> SUFFICES ASSUME \A j \in 1..N : ~Touches(L[j], p) PROVE FALSE
  OBVIOUS
<1>0. N \in Nat
  BY VersionIsSeq
<1>1. PICK r : IsMeaning(v, r)
  BY MeaningIs
<1>2. r[0] = Empty /\ r[N] = Meaning(v) /\ \A m \in 0..(N - 1) : r[m + 1] = Overlay(r[m], L[m + 1])
  BY <1>1 DEF IsMeaning
<1> HIDE DEF N, L
<1> DEFINE T == {m \in Nat : r[m][p] = Nothing}
<1>3. 0 \in T
  BY <1>2 DEF Empty
<1>4. ASSUME NEW m \in 0..(N - 1), m \in T PROVE m + 1 \in T
  <2>1. m + 1 \in Nat /\ m + 1 \in 1..N /\ r[m + 1] = Overlay(r[m], L[m + 1])
    BY <1>0, <1>2
  <2>2. r[m + 1][p] = r[m][p]
    BY <2>1, UntouchedStays
  <2> QED BY <1>4, <2>1, <2>2
<1> HIDE DEF T
<1>5. \A m \in 0..N : m \in T
  <2>1. \A m \in 0..(N - 1) : m \in T => m + 1 \in T
    BY <1>4
  <2> QED BY <1>0, <1>3, <2>1, UpTo
<1>6. N \in T
  BY <1>0, <1>5
<1> QED
  BY <1>2, <1>6 DEF T

-----------------------------------------------------------------------------
Fields == {"pc", "image", "dir", "version", "k", "base", "tree", "at", "runs", "held", "flags"}
RunFields == {"process", "state", "code", "down", "hook", "monitor", "told"}

\* Steps before the first thing is taken.
BarePcs == {"idle", "pull", "manifest", "blobs", "config", "layers", "index", "remove", "remove files", "remove entry",
            "status", "forget", "forget files", "from", "base", "copy base", "undo pull", "remove rest", "forget rest"}

\* Steps at which the flags of buildRollback name all that is held, and the
\* build has no container.
FlaggedPcs == {"instructions", "address", "mkdir", "cgroup", "entry", "run over", "check", "forget old", "remove old",
               "old rest", "copy", "copy rest", "built config", "built index", "over"}

\* Steps at which the runtime's container is held without a flag.
RuntimePcs == {"start", "wait", "delete"}

\* What is held and flagged by a request at each step.
HeldInv(q) ==
    /\ q.pc \in BarePcs \cup FlaggedPcs \cup RuntimePcs \cup {"create", "upper"}
    /\ q.held \subseteq Things
    /\ q.flags \subseteq q.held
    /\ q.held \ q.flags \subseteq {"runtime"} /\ "runtime" \notin q.flags
    /\ q.pc \notin RuntimePcs => q.held = q.flags
    /\ q.pc \in BarePcs => q.held = {}

\* The container of a build waiting for its command: the entry says stopped only
\* when the process has ended, and the code of a command that failed is there from
\* the hook's second report until the monitor's.
WaitInv(c) ==
    /\ c.process \in {"running", "done", "failed"}
    /\ c.hook \in {0, 1, 2} /\ c.monitor \in {0, 1, 2}
    /\ c.process = "running" => c.hook = 0 /\ c.monitor = 0 /\ c.state # "stopped"
    /\ (c.process = "failed" /\ c.hook = 2 /\ c.monitor # 2) => c.code = 1 /\ c.down = FALSE

\* The container of a request at each step.
RunInv(pc, c) ==
    /\ DOMAIN c = RunFields
    /\ pc \in BarePcs \cup FlaggedPcs => c = NoRun
    /\ pc \in {"create", "start"} => c.process = "none" /\ c.hook = 0 /\ c.monitor = 0
    /\ pc = "wait" => WaitInv(c)
    /\ pc \in {"delete", "upper"} => c.process \in {"done", "failed"} /\ ~(c.process = "failed" /\ c.told)

Allowed == {<<"tmp", "copy base">>, <<"address", "address">>, <<"directory", "mkdir">>, <<"process", "wait">>}
               \cup ({"runtime"} \X {"start", "wait", "delete"})
               \cup ({"cgroup"} \X {"start", "wait"})
               \cup ((Things \ {"runtime"}) \X {"deferred"})
               \cup ((Things \cup {"process"}) \X {"crash"})

RequestInv(q, c) == DOMAIN q = Fields /\ HeldInv(q) /\ RunInv(q.pc, c)

BuildInv ==
    /\ DOMAIN proc = Procs /\ DOMAIN run = Procs
    /\ \A r \in Procs : RequestInv(proc[r], run[r])
    /\ litter \subseteq Allowed

-----------------------------------------------------------------------------
LEMMA IdleInv == RequestInv(Idle, NoRun)
BY DEF RequestInv, Fields, HeldInv, RunInv, RunFields, NoRun, Idle, BarePcs, FlaggedPcs, RuntimePcs, Things

LEMMA BuildInit == Init => BuildInv
BY IdleInv DEF Init, BuildInv

\* A step of one request disturbs that request alone.
OnlyOf(r) ==
    /\ DOMAIN proc' = Procs /\ DOMAIN run' = Procs
    /\ \A s \in Procs \ {r} : proc'[s] = proc[s] /\ run'[s] = run[s]

LEMMA OneRequest ==
    ASSUME BuildInv, NEW r \in Procs, OnlyOf(r), RequestInv(proc'[r], run'[r]), litter' \subseteq Allowed
    PROVE  BuildInv'
BY DEF BuildInv, OnlyOf

\* The command of RUN runs only while the build waits for it.
LEMMA RunningOnlyInWait ==
    ASSUME BuildInv, NEW r \in Procs, run[r].process = "running"
    PROVE  proc[r].pc = "wait"
<1>1. RequestInv(proc[r], run[r])
  BY DEF BuildInv
<1>2. NoRun.process = "none"
  BY DEF NoRun
<1>3. proc[r].pc \in BarePcs \cup FlaggedPcs \cup {"start", "wait", "delete"} \cup {"create", "upper"}
  BY <1>1 DEF RequestInv, HeldInv, RuntimePcs
<1>4. proc[r].pc \in BarePcs \cup FlaggedPcs => run[r].process = "none"
  BY <1>1, <1>2 DEF RequestInv, RunInv
<1> QED
  BY <1>1, <1>3, <1>4 DEF RequestInv, RunInv

\* What the deferred functions do not give back is allowed to stay.
LEMMA LeftByAllowed ==
    ASSUME BuildInv, NEW r \in Procs
    PROVE  LeftBy(r) \subseteq Allowed
<1>1. RequestInv(proc[r], run[r])
  BY DEF BuildInv
<1>2. run[r].process = "running" => proc[r].pc = "wait"
  BY RunningOnlyInWait
<1>3. \A x \in proc[r].held \ proc[r].flags : x = "runtime" /\ proc[r].pc \in RuntimePcs
  BY <1>1 DEF RequestInv, HeldInv
<1>4. \A x \in proc[r].held \ proc[r].flags : <<x, proc[r].pc>> \in {"runtime"} \X {"start", "wait", "delete"}
  BY <1>3 DEF RuntimePcs
<1>5. run[r].process = "running" => <<"process", proc[r].pc>> = <<"process", "wait">>
  BY <1>2
<1>7. "runtime" \in proc[r].held /\ ~Ended(r) => proc[r].pc \in {"start", "wait"}
  <2>1. "runtime" \in proc[r].held => proc[r].pc \in RuntimePcs
    BY <1>1 DEF RequestInv, HeldInv
  <2>2. proc[r].pc = "delete" => Ended(r)
    BY <1>1 DEF RequestInv, RunInv, Ended
  <2> QED BY <2>1, <2>2 DEF RuntimePcs
<1>8. "runtime" \in proc[r].held /\ ~Ended(r) => <<"cgroup", proc[r].pc>> \in {"cgroup"} \X {"start", "wait"}
  BY <1>7
<1>6. ASSUME NEW e \in LeftBy(r) PROVE e \in Allowed
  <2>1. \/ e \in {<<x, proc[r].pc>> : x \in proc[r].held \ proc[r].flags}
        \/ run[r].process = "running" /\ e = <<"process", proc[r].pc>>
        \/ "runtime" \in proc[r].held /\ ~Ended(r) /\ e = <<"cgroup", proc[r].pc>>
    BY <1>6 DEF LeftBy
  <2> QED
    BY <2>1, <1>4, <1>5, <1>8 DEF Allowed
<1> QED
  BY <1>6

\* The end of a build.
LEMMA EndBuildInv ==
    ASSUME BuildInv, NEW r \in Procs, NEW left, left \subseteq Allowed, EndBuild(r, left)
    PROVE  BuildInv'
<1> DEFINE f == proc[r].flags
           q == [Idle EXCEPT !.pc = "over", !.held = f, !.flags = f]
<1>0. f \subseteq Things \ {"runtime"}
  BY DEF BuildInv, RequestInv, HeldInv
<1>1. DOMAIN q = Fields /\ q.pc = "over" /\ q.held = f /\ q.flags = f
  BY DEF Idle, Fields
<1>2. proc' = [proc EXCEPT ![r] = q] /\ run' = [run EXCEPT ![r] = NoRun]
  BY DEF EndBuild
<1> HIDE DEF q, f
<1>3. OnlyOf(r) /\ proc'[r] = q /\ run'[r] = NoRun
  BY <1>2 DEF OnlyOf, BuildInv
<1>4. HeldInv(q)
  BY <1>0, <1>1 DEF HeldInv, BarePcs, FlaggedPcs, RuntimePcs
<1>5. RunInv("over", NoRun)
  BY DEF RunInv, NoRun, RunFields, BarePcs, FlaggedPcs
<1>6. litter' \subseteq Allowed
  BY DEF EndBuild, BuildInv
<1> QED
  BY <1>1, <1>3, <1>4, <1>5, <1>6, OneRequest DEF RequestInv

\* What a deferred call that fails does not give back is allowed to stay.
LEMMA GiveBackAllowed ==
    ASSUME BuildInv, NEW r \in Procs, NEW things, things \subseteq proc[r].flags, GiveBack(r, things)
    PROVE  litter' \subseteq Allowed
<1>1. proc[r].flags \subseteq Things \ {"runtime"} /\ litter \subseteq Allowed
  BY DEF BuildInv, RequestInv, HeldInv
<1>2. CASE UNCHANGED litter
  BY <1>1, <1>2
<1>3. CASE ~UNCHANGED litter
  <2>1. PICK x \in things : litter' = litter \cup {<<x, "deferred">>}
    BY <1>3 DEF GiveBack
  <2>2. <<x, "deferred">> \in (Things \ {"runtime"}) \X {"deferred"}
    BY <1>1
  <2> QED BY <1>1, <2>1, <2>2 DEF Allowed
<1> QED
  BY <1>2, <1>3

LEMMA BuildOverInv ==
    ASSUME BuildInv, NEW r \in Procs, BuildOver(r)
    PROVE  BuildInv'
<1>1. proc[r].pc = "over" /\ GiveBack(r, proc[r].flags) /\ End(r) /\ UNCHANGED run
  BY DEF BuildOver
<1>2. run[r] = NoRun
  BY <1>1 DEF BuildInv, RequestInv, RunInv, FlaggedPcs
<1>3. OnlyOf(r) /\ proc'[r] = Idle /\ run'[r] = NoRun
  BY <1>1, <1>2 DEF End, OnlyOf, BuildInv
<1>4. litter' \subseteq Allowed
  BY <1>1, GiveBackAllowed
<1> QED
  BY <1>3, <1>4, IdleInv, OneRequest

\* The end of a request that has taken nothing.
LEMMA EndInv ==
    ASSUME BuildInv, NEW r \in Procs, End(r), UNCHANGED <<run, litter>>, proc[r].pc \in BarePcs
    PROVE  BuildInv'
<1>1. run[r] = NoRun
  BY DEF BuildInv, RequestInv, RunInv
<1>2. OnlyOf(r) /\ proc'[r] = Idle /\ run'[r] = NoRun
  BY <1>1 DEF End, OnlyOf, BuildInv
<1>3. litter' \subseteq Allowed
  BY DEF BuildInv
<1> QED
  BY <1>2, <1>3, IdleInv, OneRequest

\* A step between two steps at which the same is held, with no container.
LEMMA MoveInv ==
    ASSUME BuildInv, NEW r \in Procs, UNCHANGED <<run, litter>>, NEW q, proc' = [proc EXCEPT ![r] = q],
           DOMAIN q = Fields, q.held = proc[r].held, q.flags = proc[r].flags,
           \/ proc[r].pc \in BarePcs /\ q.pc \in BarePcs
           \/ proc[r].pc \in FlaggedPcs /\ q.pc \in FlaggedPcs
    PROVE  BuildInv'
<1>1. OnlyOf(r) /\ proc'[r] = q /\ run'[r] = run[r]
  BY DEF OnlyOf, BuildInv
<1>2. RequestInv(proc[r], run[r])
  BY DEF BuildInv
<1>3. HeldInv(q)
  BY <1>2 DEF RequestInv, HeldInv, BarePcs, FlaggedPcs, RuntimePcs
<1>4. RunInv(q.pc, run[r])
  BY <1>2 DEF RequestInv, RunInv, BarePcs, FlaggedPcs
<1>5. litter' \subseteq Allowed
  BY DEF BuildInv
<1> QED
  BY <1>1, <1>3, <1>4, <1>5, OneRequest DEF RequestInv

-----------------------------------------------------------------------------
\* A request's first step.
LEMMA AcceptInv ==
    ASSUME BuildInv, NEW r \in Procs, Accept(r), NEW q, proc' = [proc EXCEPT ![r] = q],
           DOMAIN q = Fields, q.held = {}, q.flags = {}, q.pc \in BarePcs
    PROVE  BuildInv'
<1>1. proc[r].pc \in BarePcs /\ UNCHANGED <<run, litter>>
  BY DEF Accept, BarePcs
<1>2. proc[r].held = {} /\ proc[r].flags = {}
  BY <1>1 DEF BuildInv, RequestInv, HeldInv
<1> QED
  BY <1>1, <1>2, MoveInv

LEMMA RequestsInv ==
    ASSUME BuildInv, NEW r \in Procs,
           PullImage(r) \/ RemoveImage(r) \/ GetImageStatus(r) \/ BuildImage(r)
    PROVE  BuildInv'
<1>1. CASE PullImage(r) \/ RemoveImage(r) \/ GetImageStatus(r)
  <2>1. PICK i \in Images, pc \in {"pull", "remove", "status"} :
           proc' = [proc EXCEPT ![r] = [Idle EXCEPT !.pc = pc, !.image = i]]
    BY <1>1, ImageAssumption DEF PullImage, RemoveImage, GetImageStatus
  <2> DEFINE q == [Idle EXCEPT !.pc = pc, !.image = i]
  <2>2. DOMAIN q = Fields /\ q.held = {} /\ q.flags = {} /\ q.pc = pc
    BY DEF Idle, Fields
  <2>3. Accept(r) /\ proc' = [proc EXCEPT ![r] = q]
    BY <1>1, <2>1 DEF PullImage, RemoveImage, GetImageStatus
  <2> HIDE DEF q
  <2> QED
    BY <2>2, <2>3, AcceptInv DEF BarePcs
<1>2. CASE BuildImage(r)
  <2>1. PICK i \in Named, b \in Named, runs \in BOOLEAN :
           proc' = [proc EXCEPT ![r] = [Idle EXCEPT !.pc = "from", !.image = i, !.base = b, !.runs = runs]]
    BY <1>2 DEF BuildImage
  <2> DEFINE q == [Idle EXCEPT !.pc = "from", !.image = i, !.base = b, !.runs = runs]
  <2>2. DOMAIN q = Fields /\ q.held = {} /\ q.flags = {} /\ q.pc = "from"
    BY DEF Idle, Fields
  <2>3. Accept(r) /\ proc' = [proc EXCEPT ![r] = q]
    BY <1>2, <2>1 DEF BuildImage
  <2> HIDE DEF q
  <2> QED
    BY <2>2, <2>3, AcceptInv DEF BarePcs
<1> QED
  BY <1>1, <1>2

\* A new step and nothing else: Go.
LEMMA GoInv ==
    ASSUME BuildInv, NEW r \in Procs, NEW pc, Go(r, pc), UNCHANGED <<run, litter>>,
           \/ proc[r].pc \in BarePcs /\ pc \in BarePcs
           \/ proc[r].pc \in FlaggedPcs /\ pc \in FlaggedPcs
    PROVE  BuildInv'
<1> DEFINE q == [proc[r] EXCEPT !.pc = pc]
<1>1. DOMAIN proc[r] = Fields
  BY DEF BuildInv, RequestInv
<1>2. DOMAIN q = Fields /\ q.held = proc[r].held /\ q.flags = proc[r].flags /\ q.pc = pc
  BY <1>1 DEF Fields
<1>3. proc' = [proc EXCEPT ![r] = q]
  BY DEF Go
<1> HIDE DEF q
<1> QED
  BY <1>2, <1>3, MoveInv

\* The next blob or layer, or the next step after the last one.
LEMMA CountInv ==
    ASSUME BuildInv, NEW r \in Procs, UNCHANGED <<run, litter>>, proc[r].pc \in BarePcs,
           NEW k, NEW pc \in BarePcs,
           \/ proc' = [proc EXCEPT ![r].pc = pc, ![r].k = k]
           \/ proc' = [proc EXCEPT ![r].k = k]
    PROVE  BuildInv'
<1>0. DOMAIN proc[r] = Fields
  BY DEF BuildInv, RequestInv
<1>1. CASE proc' = [proc EXCEPT ![r].pc = pc, ![r].k = k]
  <2> DEFINE q == [[proc[r] EXCEPT !.pc = pc] EXCEPT !.k = k]
  <2>1. DOMAIN q = Fields /\ q.held = proc[r].held /\ q.flags = proc[r].flags /\ q.pc = pc
    BY <1>0 DEF Fields
  <2>2. proc' = [proc EXCEPT ![r] = q]
    BY <1>1 DEF BuildInv
  <2> HIDE DEF q
  <2> QED
    BY <2>1, <2>2, MoveInv
<1>2. CASE proc' = [proc EXCEPT ![r].k = k]
  <2> DEFINE q == [proc[r] EXCEPT !.k = k]
  <2>1. DOMAIN q = Fields /\ q.held = proc[r].held /\ q.flags = proc[r].flags /\ q.pc = proc[r].pc
    BY <1>0 DEF Fields
  <2>2. proc' = [proc EXCEPT ![r] = q]
    BY <1>2 DEF BuildInv
  <2> HIDE DEF q
  <2> QED
    BY <2>1, <2>2, MoveInv
<1> QED
  BY <1>1, <1>2

\* Pull, removal and status, and the steps of a build up to the copy of its base.
LEMMA PullInv ==
    ASSUME BuildInv, NEW r \in Procs,
           \/ createOutputDirectory(r) \/ fetchManifest(r) \/ downloadBlobVerified(r) \/ CopyConfig(r)
           \/ applyLayers(r) \/ StorePulled(r)
    PROVE  BuildInv'
<1>0. DOMAIN proc[r] = Fields /\ (proc[r].pc \in BarePcs => proc[r].held = {} /\ proc[r].flags = {})
  BY DEF BuildInv, RequestInv, HeldInv
<1>1. CASE createOutputDirectory(r)
  <2> DEFINE d == PullDir[Pulled(r)]
             q == [[proc[r] EXCEPT !.pc = "manifest"] EXCEPT !.dir = d]
  <2>1. DOMAIN q = Fields /\ q.held = proc[r].held /\ q.flags = proc[r].flags /\ q.pc = "manifest"
    BY <1>0 DEF Fields
  <2>2. proc' = [proc EXCEPT ![r] = q] /\ UNCHANGED <<run, litter>> /\ proc[r].pc = "pull"
    BY <1>1 DEF createOutputDirectory, BuildInv
  <2> HIDE DEF q
  <2> QED
    BY <2>1, <2>2, MoveInv DEF BarePcs
<1>2. CASE fetchManifest(r)
  <2>1. PICK v \in Versions : proc' = [proc EXCEPT ![r].pc = "blobs", ![r].version = v]
    BY <1>2 DEF fetchManifest
  <2> DEFINE q == [[proc[r] EXCEPT !.pc = "blobs"] EXCEPT !.version = v]
  <2>2. DOMAIN q = Fields /\ q.held = proc[r].held /\ q.flags = proc[r].flags /\ q.pc = "blobs"
    BY <1>0 DEF Fields
  <2>3. proc' = [proc EXCEPT ![r] = q] /\ UNCHANGED <<run, litter>> /\ proc[r].pc = "manifest"
    BY <1>2, <2>1 DEF fetchManifest, BuildInv
  <2> HIDE DEF q
  <2> QED
    BY <2>2, <2>3, MoveInv DEF BarePcs
<1>3. CASE downloadBlobVerified(r)
  <2> DEFINE n == proc[r].k + 1
  <2>1. UNCHANGED <<run, litter>> /\ proc[r].pc = "blobs"
    BY <1>3 DEF downloadBlobVerified, Download
  <2>2. \/ proc' = [proc EXCEPT ![r].pc = "config", ![r].k = 1]
        \/ proc' = [proc EXCEPT ![r].k = n]
    BY <1>3, Zenon DEF downloadBlobVerified, Download
  <2> HIDE DEF n
  <2> QED
    BY <2>1, <2>2, CountInv DEF BarePcs
<1>6. CASE applyLayers(r)
  <2> DEFINE n == proc[r].k + 1
  <2>1. UNCHANGED <<run, litter>> /\ proc[r].pc = "layers"
    BY <1>6 DEF applyLayers
  <2>2. \/ proc' = [proc EXCEPT ![r].pc = "index", ![r].k = 0]
        \/ proc' = [proc EXCEPT ![r].k = n]
    BY <1>6, Zenon DEF applyLayers
  <2> HIDE DEF n
  <2> QED
    BY <2>1, <2>2, CountInv DEF BarePcs
<1>4. CASE CopyConfig(r)
  BY <1>4, GoInv DEF CopyConfig, BarePcs
<1>5. CASE StorePulled(r)
  <2>1. UNCHANGED <<run, litter>> /\ proc[r].pc \in BarePcs
    BY <1>5 DEF StorePulled, BarePcs
  <2>2. CASE proc[r].base = None
    <3>1. End(r)
      BY <1>5, <2>2 DEF StorePulled, AfterPull, End, BuildInv
    <3> QED
      BY <2>1, <3>1, EndInv
  <2>3. CASE proc[r].base # None
    <3> DEFINE q == [proc[r] EXCEPT !.pc = "base", !.dir = None, !.version = None, !.k = 0]
    <3>1. DOMAIN q = Fields /\ q.held = proc[r].held /\ q.flags = proc[r].flags /\ q.pc = "base"
      BY <1>0 DEF Fields
    <3>2. proc' = [proc EXCEPT ![r] = q]
      BY <1>5, <2>3 DEF StorePulled, AfterPull, BuildInv
    <3> HIDE DEF q
    <3> QED
      BY <2>1, <3>1, <3>2, MoveInv DEF BarePcs
  <2> QED
    BY <2>2, <2>3
<1> QED
  BY <1>1, <1>2, <1>3, <1>4, <1>5, <1>6

\* A request that looks at the index, takes down the directory that it finds
\* there, or ends.
LEMMA LookInv ==
    ASSUME BuildInv, NEW r \in Procs, UNCHANGED <<run, litter>>, proc[r].pc \in BarePcs,
           NEW d, NEW pc \in BarePcs,
           \/ proc' = [proc EXCEPT ![r] = Idle]
           \/ proc' = [proc EXCEPT ![r].pc = pc, ![r].dir = d]
    PROVE  BuildInv'
<1>1. CASE proc' = [proc EXCEPT ![r] = Idle]
  BY <1>1, EndInv DEF End
<1>2. CASE proc' = [proc EXCEPT ![r].pc = pc, ![r].dir = d]
  <2> DEFINE q == [[proc[r] EXCEPT !.pc = pc] EXCEPT !.dir = d]
  <2>0. DOMAIN proc[r] = Fields
    BY DEF BuildInv, RequestInv
  <2>1. DOMAIN q = Fields /\ q.held = proc[r].held /\ q.flags = proc[r].flags /\ q.pc = pc
    BY <2>0 DEF Fields
  <2>2. proc' = [proc EXCEPT ![r] = q]
    BY <1>2 DEF BuildInv
  <2> HIDE DEF q
  <2> QED
    BY <2>1, <2>2, MoveInv
<1> QED
  BY <1>1, <1>2

LEMMA RemoveInv ==
    ASSUME BuildInv, NEW r \in Procs,
           \/ PullFails(r) \/ UndoPull(r) \/ PullFailsOutside(r)
           \/ RemoveLooksUp(r) \/ RemoveFiles(r) \/ RemoveRest(r) \/ RemoveEntry(r) \/ RemoveFails(r)
           \/ StatusReads(r) \/ StatusForgets(r) \/ StatusRemovesFiles(r) \/ StatusRemovesRest(r)
    PROVE  BuildInv'
<1>1. CASE PullFails(r)
  <2>1. proc[r].pc \in {"manifest", "blobs", "config", "layers"} /\ Go(r, "undo pull") /\ UNCHANGED <<run, litter>>
    BY <1>1 DEF PullFails, PullCannotGoOn, RemovalBegins
  <2> QED
    BY <2>1, GoInv DEF BarePcs
<1>2. CASE UndoPull(r) \/ PullFailsOutside(r) \/ RemoveEntry(r) \/ RemoveFails(r) \/ StatusRemovesRest(r)
  <2>1. /\ proc[r].pc \in {"undo pull", "pull", "index", "remove files", "remove entry", "forget rest"}
        /\ End(r) /\ UNCHANGED <<run, litter>>
    BY <1>2 DEF UndoPull, PullFailsOutside, RemoveEntry, RemoveFails, StatusRemovesRest
  <2> QED
    BY <2>1, EndInv DEF BarePcs
<1>3. CASE RemoveFiles(r) \/ StatusForgets(r) \/ StatusRemovesFiles(r)
  <2>1. PICK pc \in {"remove rest", "forget files", "forget rest"} : Go(r, pc)
    BY <1>3 DEF RemoveFiles, StatusForgets, StatusRemovesFiles, RemovalBegins
  <2>2. UNCHANGED <<run, litter>> /\ proc[r].pc \in {"remove files", "forget", "forget files"}
    BY <1>3 DEF RemoveFiles, StatusForgets, StatusRemovesFiles
  <2> QED
    BY <2>1, <2>2, GoInv DEF BarePcs
<1>6. CASE RemoveRest(r)
  <2>1. proc[r].pc = "remove rest" /\ UNCHANGED <<run, litter>> /\ (Go(r, "remove entry") \/ End(r))
    BY <1>6 DEF RemoveRest
  <2> QED
    BY <2>1, GoInv, EndInv DEF BarePcs
<1>4. CASE RemoveLooksUp(r)
  <2> DEFINE d == ilm[proc[r].image]
  <2>1. \/ proc' = [proc EXCEPT ![r] = Idle]
        \/ proc' = [proc EXCEPT ![r].pc = "remove files", ![r].dir = d]
    BY <1>4, Zenon DEF RemoveLooksUp
  <2>2. UNCHANGED <<run, litter>> /\ proc[r].pc = "remove"
    BY <1>4 DEF RemoveLooksUp
  <2> HIDE DEF d
  <2> QED
    BY <2>1, <2>2, LookInv DEF BarePcs
<1>5. CASE StatusReads(r)
  <2> DEFINE d == ilm[proc[r].image]
  <2>1. \/ proc' = [proc EXCEPT ![r] = Idle]
        \/ proc' = [proc EXCEPT ![r].pc = "forget", ![r].dir = d]
    BY <1>5, Zenon DEF StatusReads
  <2>2. UNCHANGED <<run, litter>> /\ proc[r].pc = "status"
    BY <1>5 DEF StatusReads
  <2> HIDE DEF d
  <2> QED
    BY <2>1, <2>2, LookInv DEF BarePcs
<1> QED
  BY <1>1, <1>2, <1>3, <1>4, <1>5, <1>6

-----------------------------------------------------------------------------
\* A step of a build that has no container takes a thing with its flag, or
\* writes the tree or the directory.
LEMMA FlaggedInv ==
    ASSUME BuildInv, NEW r \in Procs, UNCHANGED litter, OnlyOf(r),
           NEW q, proc'[r] = q, RunInv(q.pc, run'[r]),
           DOMAIN q = Fields, q.pc \in FlaggedPcs \cup {"create", "upper"},
           q.held = q.flags, q.held \subseteq Things \ {"runtime"}
    PROVE  BuildInv'
<1>2. HeldInv(q)
  BY DEF HeldInv, BarePcs, FlaggedPcs, RuntimePcs
<1>3. litter' \subseteq Allowed
  BY DEF BuildInv
<1> QED
  BY <1>2, <1>3, OneRequest DEF RequestInv

LEMMA TakeInv ==
    ASSUME BuildInv, NEW r \in Procs, NEW thing \in Things \ {"runtime"}, NEW pc \in FlaggedPcs, Take(r, thing, pc),
           proc[r].pc \in FlaggedPcs, UNCHANGED <<run, litter>>
    PROVE  BuildInv'
<1> DEFINE h == proc[r].held \cup {thing}
           f == proc[r].flags \cup {thing}
           q == [[[proc[r] EXCEPT !.pc = pc] EXCEPT !.held = h] EXCEPT !.flags = f]
<1>1. /\ DOMAIN proc[r] = Fields /\ run[r] = NoRun
      /\ proc[r].held = proc[r].flags /\ proc[r].held \subseteq Things \ {"runtime"}
  BY DEF BuildInv, RequestInv, HeldInv, RunInv, FlaggedPcs, RuntimePcs
<1>2. DOMAIN q = Fields /\ q.held = h /\ q.flags = f /\ q.pc = pc
  BY <1>1 DEF Fields
<1>3. proc' = [proc EXCEPT ![r] = q]
  BY <1>1 DEF Take, Fields, BuildInv
<1>7. OnlyOf(r) /\ proc'[r] = q
  BY <1>3 DEF OnlyOf, BuildInv
<1>4. h = f /\ h \subseteq Things \ {"runtime"}
  BY <1>1
<1>6. RunInv(pc, run'[r])
  BY <1>1 DEF RunInv, FlaggedPcs, BuildInv, RequestInv
<1> HIDE DEF q, h, f
<1> QED
  BY <1>2, <1>7, <1>4, <1>6, FlaggedInv

\* The base of a build, its instructions, and what it takes for its container.
LEMMA BuildStartsInv ==
    ASSUME BuildInv, NEW r \in Procs,
           \/ applyFrom(r) \/ ReadBaseConfig(r) \/ CopyBase(r) \/ ApplyInstructions(r)
           \/ allocateBuildAddress(r) \/ setupBuildContainerDirectory(r) \/ setupBuildCgroup(r) \/ StoreContainer(r)
    PROVE  BuildInv'
<1>0. DOMAIN proc[r] = Fields /\ RunInv(proc[r].pc, run[r]) /\ HeldInv(proc[r])
  BY DEF BuildInv, RequestInv
<1>1. CASE applyFrom(r)
  <2>1. PICK pc \in {"base", "pull"} : Go(r, pc)
    BY <1>1 DEF applyFrom
  <2> QED
    BY <1>1, <2>1, GoInv DEF applyFrom, BarePcs
<1>2. CASE ReadBaseConfig(r)
  <2>1. UNCHANGED <<run, litter>> /\ proc[r].pc \in BarePcs
    BY <1>2 DEF ReadBaseConfig, BarePcs
  <2>2. Go(r, "copy base") \/ End(r)
    BY <1>2 DEF ReadBaseConfig, Go, End
  <2> QED
    BY <2>1, <2>2, GoInv, EndInv DEF BarePcs
<1>3. CASE CopyBase(r)
  <2>1. CASE EndBuild(r, {}) \/ EndBuild(r, {<<"tmp", "copy base">>})
    <3>1. {} \subseteq Allowed /\ {<<"tmp", "copy base">>} \subseteq Allowed
      BY DEF Allowed
    <3> QED
      BY <2>1, <3>1, EndBuildInv
  <2>2. CASE ~(EndBuild(r, {}) \/ EndBuild(r, {<<"tmp", "copy base">>}))
    <3> DEFINE t == bundle[ilm[proc[r].base]].rootfs
               q == [[[[proc[r] EXCEPT !.pc = "instructions"] EXCEPT !.tree = t]
                         EXCEPT !.held = {"tmp"}] EXCEPT !.flags = {"tmp"}]
    <3>1. proc' = [proc EXCEPT ![r] = q]
      BY <1>0, <1>3, <2>2 DEF CopyBase, BuildInv
    <3>2. UNCHANGED <<run, litter>> /\ proc[r].pc = "copy base"
      BY <1>3, <2>2 DEF CopyBase
    <3>3. DOMAIN q = Fields /\ q.held = {"tmp"} /\ q.flags = {"tmp"} /\ q.pc = "instructions"
      BY <1>0 DEF Fields
    <3>4. OnlyOf(r) /\ proc'[r] = q
      BY <3>1, <3>2 DEF OnlyOf, BuildInv
    <3>5. RunInv("instructions", run'[r])
      BY <1>0, <3>2 DEF RunInv, BarePcs, FlaggedPcs
    <3> HIDE DEF q
    <3> QED
      BY <3>2, <3>3, <3>4, <3>5, FlaggedInv DEF FlaggedPcs, Things
  <2> QED
    BY <2>1, <2>2
<1>4. CASE ApplyInstructions(r)
  <2> DEFINE st == Instructed(proc[r].tree)
  <2>1. CASE ~st.ok
    BY <1>4, <2>1, LeftByAllowed, EndBuildInv DEF ApplyInstructions
  <2>2. CASE st.ok
    <3> DEFINE pc == IF proc[r].runs THEN "address" ELSE "check"
               t == st.fs
               q == [[proc[r] EXCEPT !.pc = pc] EXCEPT !.tree = t]
    <3>1. proc' = [proc EXCEPT ![r] = q]
      BY <1>0, <1>4, <2>2 DEF ApplyInstructions, BuildInv
    <3>2. UNCHANGED <<run, litter>> /\ proc[r].pc = "instructions"
      BY <1>4, <2>2 DEF ApplyInstructions
    <3>3. DOMAIN q = Fields /\ q.held = proc[r].held /\ q.flags = proc[r].flags /\ q.pc = pc
      BY <1>0 DEF Fields
    <3>4. pc \in FlaggedPcs
      BY DEF FlaggedPcs
    <3> HIDE DEF q, pc
    <3> QED
      BY <3>1, <3>2, <3>3, <3>4, MoveInv DEF FlaggedPcs
  <2> QED
    BY <2>1, <2>2
<1>5. CASE allocateBuildAddress(r)
  BY <1>5, TakeInv DEF allocateBuildAddress, FlaggedPcs, Things
<1>6. CASE setupBuildContainerDirectory(r)
  BY <1>6, TakeInv DEF setupBuildContainerDirectory, FlaggedPcs, Things
<1>7. CASE setupBuildCgroup(r)
  BY <1>7, TakeInv DEF setupBuildCgroup, FlaggedPcs, Things
<1>8. CASE StoreContainer(r)
  <2> DEFINE h == proc[r].held \cup {"entry"}
             f == proc[r].flags \cup {"entry"}
             q == [[[proc[r] EXCEPT !.pc = "create"] EXCEPT !.held = h] EXCEPT !.flags = f]
             c == [run[r] EXCEPT !.state = "creating"]
  <2>1. proc[r].pc = "entry" /\ UNCHANGED litter
    BY <1>8 DEF StoreContainer
  <2>2. run[r] = NoRun /\ proc[r].held = proc[r].flags /\ proc[r].held \subseteq Things \ {"runtime"}
    BY <1>0, <2>1 DEF RunInv, HeldInv, FlaggedPcs, RuntimePcs
  <2>3. proc' = [proc EXCEPT ![r] = q]
    BY <1>0, <1>8 DEF StoreContainer, Take, BuildInv, Fields
  <2>4. run' = [run EXCEPT ![r] = c]
    BY <1>8 DEF StoreContainer
  <2>5. DOMAIN q = Fields /\ q.held = h /\ q.flags = f /\ q.pc = "create"
    BY <1>0 DEF Fields
  <2>6. h = f /\ h \subseteq Things \ {"runtime"}
    BY <2>2 DEF Things
  <2>7. RunInv("create", c)
    BY <2>2 DEF RunInv, NoRun, RunFields, BarePcs, FlaggedPcs
  <2> HIDE DEF q, c, h, f
  <2>8. OnlyOf(r) /\ proc'[r] = q /\ run'[r] = c
    BY <2>3, <2>4 DEF OnlyOf, BuildInv
  <2> QED
    BY <2>1, <2>5, <2>6, <2>7, <2>8, FlaggedInv
<1> QED
  BY <1>1, <1>2, <1>3, <1>4, <1>5, <1>6, <1>7, <1>8

-----------------------------------------------------------------------------
\* The container of RUN.
LEMMA RuntimeInv ==
    ASSUME BuildInv, NEW r \in Procs, RuntimeCreate(r) \/ RuntimeStart(r) \/ RuntimeDelete(r)
    PROVE  BuildInv'
<1>0. DOMAIN proc[r] = Fields /\ RunInv(proc[r].pc, run[r]) /\ HeldInv(proc[r])
  BY DEF BuildInv, RequestInv
<1>00. DOMAIN run[r] = RunFields
  BY <1>0 DEF RunInv
<1>l. UNCHANGED litter /\ litter' \subseteq Allowed
  BY DEF RuntimeCreate, RuntimeStart, RuntimeDelete, BuildInv
<1>1. CASE RuntimeCreate(r)
  <2> DEFINE h == proc[r].held \cup {"runtime"}
             q == [[proc[r] EXCEPT !.pc = "start"] EXCEPT !.held = h]
             c == [run[r] EXCEPT !.state = "created"]
  <2>1. proc[r].pc = "create"
    BY <1>1 DEF RuntimeCreate
  <2>2. proc[r].held = proc[r].flags /\ proc[r].held \subseteq Things \ {"runtime"}
    BY <1>0, <2>1 DEF HeldInv, RuntimePcs
  <2>3. proc' = [proc EXCEPT ![r] = q]
    BY <1>0, <1>1 DEF RuntimeCreate, BuildInv, Fields
  <2>4. run' = [run EXCEPT ![r] = c]
    BY <1>1 DEF RuntimeCreate
  <2>5. DOMAIN q = Fields /\ q.held = h /\ q.flags = proc[r].flags /\ q.pc = "start"
    BY <1>0 DEF Fields
  <2>6. HeldInv(q)
    <3> HIDE DEF q
    <3> QED
      BY <2>2, <2>5 DEF HeldInv, RuntimePcs, BarePcs, Things
  <2>7. RunInv("start", c)
    BY <1>0, <1>00, <2>1 DEF RunInv, RunFields, BarePcs, FlaggedPcs
  <2> HIDE DEF q, c
  <2>8. OnlyOf(r) /\ proc'[r] = q /\ run'[r] = c
    BY <2>3, <2>4 DEF OnlyOf, BuildInv
  <2> QED
    BY <1>l, <2>5, <2>6, <2>7, <2>8, OneRequest DEF RequestInv
<1>2. CASE RuntimeStart(r)
  <2> DEFINE q == [proc[r] EXCEPT !.pc = "wait"]
             c == [[run[r] EXCEPT !.state = "running"] EXCEPT !.process = "running"]
  <2>1. proc[r].pc = "start"
    BY <1>2 DEF RuntimeStart
  <2>3. proc' = [proc EXCEPT ![r] = q]
    BY <1>0, <1>2 DEF RuntimeStart, Go, BuildInv, Fields
  <2>4. run' = [run EXCEPT ![r] = c]
    BY <1>2, <1>00 DEF RuntimeStart, BuildInv, RunFields
  <2>5. DOMAIN q = Fields /\ q.held = proc[r].held /\ q.flags = proc[r].flags /\ q.pc = "wait"
    BY <1>0 DEF Fields
  <2>6. HeldInv(q)
    <3> HIDE DEF q
    <3> QED
      BY <1>0, <2>1, <2>5 DEF HeldInv, RuntimePcs, BarePcs
  <2>9. run[r].hook = 0 /\ run[r].monitor = 0
    BY <1>0, <2>1 DEF RunInv
  <2>10. DOMAIN c = RunFields /\ c.process = "running" /\ c.state = "running" /\ c.hook = 0 /\ c.monitor = 0
    BY <1>00, <2>9 DEF RunFields
  <2>7. RunInv("wait", c)
    <3> HIDE DEF c
    <3> QED
      BY <2>10 DEF RunInv, WaitInv, BarePcs, FlaggedPcs
  <2> HIDE DEF q, c
  <2>8. OnlyOf(r) /\ proc'[r] = q /\ run'[r] = c
    BY <2>3, <2>4 DEF OnlyOf, BuildInv
  <2> QED
    BY <1>l, <2>5, <2>6, <2>7, <2>8, OneRequest DEF RequestInv
<1>3. CASE RuntimeDelete(r)
  <2> DEFINE h == proc[r].held \ {"runtime"}
             q == [[proc[r] EXCEPT !.pc = "upper"] EXCEPT !.held = h]
  <2>1. proc[r].pc = "delete" /\ UNCHANGED run
    BY <1>3 DEF RuntimeDelete
  <2>3. proc' = [proc EXCEPT ![r] = q]
    BY <1>0, <1>3 DEF RuntimeDelete, BuildInv, Fields
  <2>5. DOMAIN q = Fields /\ q.held = h /\ q.flags = proc[r].flags /\ q.pc = "upper"
    BY <1>0 DEF Fields
  <2>6. h = proc[r].flags /\ h \subseteq Things \ {"runtime"}
    BY <1>0 DEF HeldInv
  <2>7. RunInv("upper", run'[r])
    BY <1>0, <2>1 DEF RunInv, BarePcs, FlaggedPcs
  <2> HIDE DEF q, h
  <2>8. OnlyOf(r) /\ proc'[r] = q
    BY <2>1, <2>3 DEF OnlyOf, BuildInv
  <2> QED
    BY <1>l, <2>5, <2>6, <2>7, <2>8, FlaggedInv
<1> QED
  BY <1>1, <1>2, <1>3

\* The command ends, and the hook and the monitor report so, in any order.
LEMMA ReportsInv ==
    ASSUME BuildInv, NEW r \in Procs,
           ProcessExits(r) \/ HookStops(r) \/ HookReportsExit(r) \/ MonitorStops(r) \/ MonitorReports(r)
    PROVE  BuildInv'
<1>1. DOMAIN proc[r] = Fields /\ RunInv(proc[r].pc, run[r]) /\ HeldInv(proc[r])
  BY DEF BuildInv, RequestInv
<1>2. DOMAIN run[r] = RunFields /\ (proc[r].pc = "wait" => WaitInv(run[r]))
  BY <1>1 DEF RunInv
<1>3. UNCHANGED <<proc, litter>> /\ litter' \subseteq Allowed
  BY DEF ProcessExits, HookStops, HookReportsExit, MonitorStops, MonitorReports, BuildInv
<1>4. proc[r].pc = "wait"
  <2>1. CASE ProcessExits(r)
    BY <2>1, RunningOnlyInWait DEF ProcessExits
  <2>2. CASE ~ProcessExits(r)
    BY <2>2 DEF HookStops, HookReportsExit, MonitorStops, MonitorReports
  <2> QED
    BY <2>1, <2>2
<1>5. ASSUME NEW c, run' = [run EXCEPT ![r] = c], DOMAIN c = RunFields, WaitInv(c) PROVE BuildInv'
  <2>1. OnlyOf(r) /\ proc'[r] = proc[r] /\ run'[r] = c
    BY <1>3, <1>5 DEF OnlyOf, BuildInv
  <2>2. RunInv("wait", c)
    BY <1>5 DEF RunInv, BarePcs, FlaggedPcs
  <2> QED
    BY <1>1, <1>3, <1>4, <2>1, <2>2, OneRequest DEF RequestInv
<1>6. WaitInv(run[r])
  BY <1>2, <1>4
<1>7. CASE ProcessExits(r)
  <2>1. PICK how \in {"done", "failed"} : run' = [run EXCEPT ![r].process = how]
    BY <1>7 DEF ProcessExits
  <2> DEFINE c == [run[r] EXCEPT !.process = how]
  <2>2. /\ DOMAIN c = RunFields /\ c.process = how /\ c.hook = run[r].hook /\ c.monitor = run[r].monitor
    BY <1>2 DEF RunFields
  <2>3. run[r].hook = 0 /\ run[r].monitor = 0
    BY <1>6, <1>7 DEF ProcessExits, WaitInv
  <2>4. run' = [run EXCEPT ![r] = c]
    BY <2>1
  <2> HIDE DEF c
  <2>5. WaitInv(c)
    BY <2>2, <2>3 DEF WaitInv
  <2> QED
    BY <1>5, <2>2, <2>4, <2>5
<1>8. CASE HookStops(r)
  <2> DEFINE c == [[run[r] EXCEPT !.state = "stopped"] EXCEPT !.hook = 1]
  <2>1. /\ DOMAIN c = RunFields /\ c.process = run[r].process /\ c.hook = 1 /\ c.monitor = run[r].monitor
    BY <1>2 DEF RunFields
  <2>2. run' = [run EXCEPT ![r] = c]
    BY <1>2, <1>8 DEF HookStops, BuildInv
  <2>3. run[r].process \in {"done", "failed"}
    BY <1>8 DEF HookStops, Ended
  <2> HIDE DEF c
  <2>4. WaitInv(c)
    BY <1>6, <2>1, <2>3 DEF WaitInv
  <2> QED
    BY <1>5, <2>1, <2>2, <2>4
<1>9. CASE HookReportsExit(r)
  <2> DEFINE x == IF run[r].process = "failed" THEN 1 ELSE 0
             c == [[[run[r] EXCEPT !.code = x] EXCEPT !.down = FALSE] EXCEPT !.hook = 2]
  <2>1. /\ DOMAIN c = RunFields /\ c.process = run[r].process /\ c.hook = 2 /\ c.monitor = run[r].monitor
        /\ c.code = x /\ c.down = FALSE
    BY <1>2 DEF RunFields
  <2>2. run' = [run EXCEPT ![r] = c]
    BY <1>2, <1>9 DEF HookReportsExit, BuildInv
  <2>3. run[r].process # "running"
    BY <1>6, <1>9 DEF HookReportsExit, WaitInv
  <2>4. run[r].process = "failed" => x = 1
    OBVIOUS
  <2> HIDE DEF c, x
  <2>5. WaitInv(c)
    BY <1>6, <2>1, <2>3, <2>4 DEF WaitInv
  <2> QED
    BY <1>5, <2>1, <2>2, <2>5
<1>10. CASE MonitorStops(r)
  <2> DEFINE c == [[run[r] EXCEPT !.state = "stopped"] EXCEPT !.monitor = 1]
  <2>1. /\ DOMAIN c = RunFields /\ c.process = run[r].process /\ c.hook = run[r].hook /\ c.monitor = 1
        /\ c.code = run[r].code /\ c.down = run[r].down
    BY <1>2 DEF RunFields
  <2>2. run' = [run EXCEPT ![r] = c]
    BY <1>2, <1>10 DEF MonitorStops, BuildInv
  <2>3. run[r].process \in {"done", "failed"} /\ run[r].monitor = 0
    BY <1>10 DEF MonitorStops, Ended
  <2> HIDE DEF c
  <2>4. WaitInv(c)
    BY <1>6, <2>1, <2>3 DEF WaitInv
  <2> QED
    BY <1>5, <2>1, <2>2, <2>4
<1>11. CASE MonitorReports(r)
  <2> DEFINE x == -1
             c == [[[run[r] EXCEPT !.code = x] EXCEPT !.down = TRUE] EXCEPT !.monitor = 2]
  <2>1. DOMAIN c = RunFields /\ c.process = run[r].process /\ c.hook = run[r].hook /\ c.monitor = 2
    BY <1>2 DEF RunFields
  <2>2. run' = [run EXCEPT ![r] = c]
    BY <1>2, <1>11 DEF MonitorReports, BuildInv
  <2>3. run[r].process # "running"
    BY <1>6, <1>11 DEF MonitorReports, WaitInv
  <2> HIDE DEF c, x
  <2>4. WaitInv(c)
    BY <1>6, <2>1, <2>3 DEF WaitInv
  <2> QED
    BY <1>5, <2>1, <2>2, <2>4
<1> QED
  BY <1>7, <1>8, <1>9, <1>10, <1>11

\* The build looks at the entry: it ends, or goes on to the deletion of the
\* container.
LEMMA WaitEndsInv ==
    ASSUME BuildInv, NEW r \in Procs, waitBuildContainerStopped(r) \/ WaitTimesOut(r)
    PROVE  BuildInv'
<1>1. CASE EndBuild(r, LeftBy(r))
  BY <1>1, EndBuildInv, LeftByAllowed
<1>2. CASE ~EndBuild(r, LeftBy(r))
  <2>1. proc[r].pc = "wait" /\ run[r].state = "stopped" /\ ~(run[r].code # 0 /\ ~run[r].down) /\ GoOn(r)
    BY <1>2 DEF waitBuildContainerStopped, WaitTimesOut, RunFailed
  <2>2. DOMAIN proc[r] = Fields /\ HeldInv(proc[r]) /\ DOMAIN run[r] = RunFields /\ WaitInv(run[r])
    BY <2>1 DEF BuildInv, RequestInv, RunInv
  <2> DEFINE told == run[r].hook = 2 /\ run[r].monitor < 2
             q == [proc[r] EXCEPT !.pc = "delete"]
             c == [NoRun EXCEPT !.process = run[r].process, !.told = told]
  <2>3. run[r].process \in {"done", "failed"} /\ ~(run[r].process = "failed" /\ told)
    <3>1. run[r].process # "running"
      BY <2>1, <2>2 DEF WaitInv
    <3>2. run[r].monitor < 2 => run[r].monitor # 2
      BY <2>2 DEF WaitInv
    <3> QED
      BY <2>1, <2>2, <3>1, <3>2 DEF WaitInv
  <2>4. DOMAIN q = Fields /\ q.held = proc[r].held /\ q.flags = proc[r].flags /\ q.pc = "delete"
    BY <2>2 DEF Fields
  <2>5. DOMAIN c = RunFields /\ c.process = run[r].process /\ c.told = told
    BY DEF NoRun, RunFields
  <2>6. proc' = [proc EXCEPT ![r] = q] /\ run' = [run EXCEPT ![r] = c] /\ UNCHANGED litter
    BY <2>1 DEF GoOn, Go, BuildInv
  <2> HIDE DEF q, c, told
  <2>7. OnlyOf(r) /\ proc'[r] = q /\ run'[r] = c
    BY <2>6 DEF OnlyOf, BuildInv
  <2>8. HeldInv(q)
    BY <2>1, <2>2, <2>4 DEF HeldInv, RuntimePcs, BarePcs
  <2>9. RunInv("delete", c)
    BY <2>3, <2>5 DEF RunInv, BarePcs, FlaggedPcs
  <2>10. litter' \subseteq Allowed
    BY <2>6 DEF BuildInv
  <2> QED
    BY <2>4, <2>7, <2>8, <2>9, <2>10, OneRequest DEF RequestInv
<1> QED
  BY <1>1, <1>2

\* What the command wrote is merged, and what the container held is given back.
LEMMA ApplyUpperInv ==
    ASSUME BuildInv, NEW r \in Procs, ApplyUpper(r)
    PROVE  BuildInv'
<1>1. CASE EndBuild(r, LeftBy(r))
  BY <1>1, EndBuildInv, LeftByAllowed
<1>2. CASE ~EndBuild(r, LeftBy(r))
  <2>0. DOMAIN proc[r] = Fields /\ HeldInv(proc[r]) /\ proc[r].pc = "upper"
    BY DEF BuildInv, RequestInv, ApplyUpper
  <2>1. PICK t : /\ proc' = [proc EXCEPT ![r].pc = "run over", ![r].tree = t]
                 /\ run' = [run EXCEPT ![r] = NoRun]
                 /\ litter' = litter
    BY <1>2, Zenon DEF ApplyUpper
  <2> DEFINE q == [[proc[r] EXCEPT !.pc = "run over"] EXCEPT !.tree = t]
  <2>2. DOMAIN q = Fields /\ q.held = proc[r].held /\ q.flags = proc[r].flags /\ q.pc = "run over"
    BY <2>0 DEF Fields
  <2>3. proc' = [proc EXCEPT ![r] = q]
    BY <2>0, <2>1 DEF BuildInv
  <2> HIDE DEF q
  <2>4. OnlyOf(r) /\ proc'[r] = q /\ run'[r] = NoRun
    BY <2>1, <2>3 DEF OnlyOf, BuildInv
  <2>5. q.held = q.flags /\ q.held \subseteq Things \ {"runtime"}
    BY <2>0, <2>2 DEF HeldInv, RuntimePcs
  <2>6. RunInv("run over", NoRun)
    BY DEF RunInv, NoRun, RunFields, BarePcs, FlaggedPcs
  <2> QED
    BY <2>1, <2>2, <2>4, <2>5, <2>6, FlaggedInv DEF FlaggedPcs
<1> QED
  BY <1>1, <1>2

LEMMA RunOverInv ==
    ASSUME BuildInv, NEW r \in Procs, RunOver(r)
    PROVE  BuildInv'
<1>0. /\ proc[r].pc = "run over" /\ GiveBack(r, proc[r].flags \ {"tmp"}) /\ UNCHANGED run
      /\ proc' = [proc EXCEPT ![r].pc = "check", ![r].held = {"tmp"}, ![r].flags = {"tmp"}]
  BY DEF RunOver
<1>1. DOMAIN proc[r] = Fields /\ run[r] = NoRun
  BY <1>0 DEF BuildInv, RequestInv, RunInv, FlaggedPcs
<1> DEFINE q == [[[proc[r] EXCEPT !.pc = "check"] EXCEPT !.held = {"tmp"}] EXCEPT !.flags = {"tmp"}]
<1>2. DOMAIN q = Fields /\ q.held = {"tmp"} /\ q.flags = {"tmp"} /\ q.pc = "check"
  BY <1>1 DEF Fields
<1>3. proc' = [proc EXCEPT ![r] = q]
  BY <1>0, <1>1 DEF BuildInv
<1> HIDE DEF q
<1>4. OnlyOf(r) /\ proc'[r] = q /\ run'[r] = NoRun
  BY <1>0, <1>1, <1>3 DEF OnlyOf, BuildInv
<1>5. HeldInv(q)
  BY <1>2 DEF HeldInv, FlaggedPcs, RuntimePcs, BarePcs, Things
<1>6. RunInv("check", NoRun)
  BY DEF RunInv, NoRun, RunFields, BarePcs, FlaggedPcs
<1>7. litter' \subseteq Allowed
  BY <1>0, GiveBackAllowed
<1> QED
  BY <1>2, <1>4, <1>5, <1>6, <1>7, OneRequest DEF RequestInv

\* A part of the built tree is copied.
LEMMA CopiesInv ==
    ASSUME BuildInv, NEW r \in Procs, NEW part, NEW pc \in FlaggedPcs, NEW p, Copies(r, part, pc, p),
           proc[r].pc \in FlaggedPcs
    PROVE  BuildInv'
<1>1. CASE EndBuild(r, LeftBy(r))
  BY <1>1, EndBuildInv, LeftByAllowed
<1>2. CASE ~EndBuild(r, LeftBy(r))
  <2> DEFINE q == [[proc[r] EXCEPT !.pc = pc] EXCEPT !.at = p]
  <2>0. DOMAIN proc[r] = Fields
    BY DEF BuildInv, RequestInv
  <2>1. DOMAIN q = Fields /\ q.held = proc[r].held /\ q.flags = proc[r].flags /\ q.pc = pc
    BY <2>0 DEF Fields
  <2>2. proc' = [proc EXCEPT ![r].pc = pc, ![r].at = p] /\ UNCHANGED <<run, litter>>
    BY <1>2, Zenon DEF Copies
  <2>3. proc' = [proc EXCEPT ![r] = q]
    BY <2>0, <2>2 DEF BuildInv
  <2> HIDE DEF q
  <2> QED
    BY <2>1, <2>2, <2>3, MoveInv
<1> QED
  BY <1>1, <1>2

\* storeBuiltImage, and the ends of a build that fails.
LEMMA StoreInv ==
    ASSUME BuildInv, NEW r \in Procs,
           \/ CheckBuiltExists(r) \/ ForgetOld(r) \/ RemoveOld(r) \/ RemoveOldRest(r) \/ CopyBuilt(r)
           \/ CopyBuiltRest(r) \/ WriteBuiltConfig(r) \/ StoreBuilt(r) \/ BuildFails(r)
    PROVE  BuildInv'
<1>1. CASE EndBuild(r, LeftBy(r))
  BY <1>1, EndBuildInv, LeftByAllowed
<1>2. CASE CheckBuiltExists(r)
  <2> DEFINE pc == IF IsImageExist(proc[r].image) THEN "forget old" ELSE "copy"
             d == BuildDir[proc[r].image]
             q == [[proc[r] EXCEPT !.pc = pc] EXCEPT !.dir = d]
  <2>0. DOMAIN proc[r] = Fields
    BY DEF BuildInv, RequestInv
  <2>1. DOMAIN q = Fields /\ q.held = proc[r].held /\ q.flags = proc[r].flags /\ q.pc = pc
    BY <2>0 DEF Fields
  <2>2. proc' = [proc EXCEPT ![r] = q] /\ UNCHANGED <<run, litter>> /\ proc[r].pc = "check"
    BY <1>2, <2>0 DEF CheckBuiltExists, BuildInv
  <2>3. pc \in FlaggedPcs
    BY DEF FlaggedPcs
  <2> HIDE DEF q, pc
  <2> QED
    BY <2>1, <2>2, <2>3, MoveInv DEF FlaggedPcs
<1>3. CASE ~EndBuild(r, LeftBy(r)) /\ (ForgetOld(r) \/ RemoveOld(r) \/ RemoveOldRest(r) \/ WriteBuiltConfig(r))
  <2>1. PICK pc \in {"remove old", "old rest", "copy", "built index"} : Go(r, pc)
    BY <1>3 DEF ForgetOld, RemoveOld, RemoveOldRest, WriteBuiltConfig, RemovalBegins
  <2>2. UNCHANGED <<run, litter>> /\ proc[r].pc \in {"forget old", "remove old", "old rest", "built config"}
    BY <1>3 DEF ForgetOld, RemoveOld, RemoveOldRest, WriteBuiltConfig
  <2> QED
    BY <2>1, <2>2, GoInv DEF FlaggedPcs
<1>6. CASE CopyBuilt(r)
  <2>1. PICK p \in Paths : Copies(r, Branch(proc[r].tree, Paths \ {p}), "copy rest", p)
    BY <1>6, Zenon DEF CopyBuilt
  <2> QED
    BY <1>6, <2>1, CopiesInv DEF CopyBuilt, FlaggedPcs
<1>7. CASE CopyBuiltRest(r)
  <2> DEFINE p == proc[r].at
  <2>1. Copies(r, Branch(proc[r].tree, {p} \cup Parents(p)), "built config", None)
    BY <1>7, Zenon DEF CopyBuiltRest
  <2> QED
    BY <1>7, <2>1, CopiesInv DEF CopyBuiltRest, FlaggedPcs
<1>4. CASE StoreBuilt(r)
  BY <1>1, <1>4 DEF StoreBuilt
<1>5. CASE BuildFails(r)
  <2>1. {<<"address", "address">>} \subseteq Allowed /\ {<<"directory", "mkdir">>} \subseteq Allowed
    BY DEF Allowed
  <2> DEFINE one == LeftBy(r) \cup {<<"address", "address">>}
             two == LeftBy(r) \cup {<<"directory", "mkdir">>}
  <2>2. one \subseteq Allowed /\ two \subseteq Allowed
    BY <2>1, LeftByAllowed
  <2>3. EndBuild(r, LeftBy(r)) \/ EndBuild(r, one) \/ EndBuild(r, two)
    BY <1>5 DEF BuildFails
  <2> HIDE DEF one, two
  <2> QED
    BY <1>1, <2>2, <2>3, EndBuildInv
<1> QED
  BY <1>1, <1>2, <1>3, <1>4, <1>5, <1>6, <1>7

\* The daemon ends.
LEMMA CrashInv == ASSUME BuildInv, Crash PROVE BuildInv'
<1>1. \A r \in Procs : RequestInv(proc'[r], run'[r])
  BY IdleInv DEF Crash
<1>2. DOMAIN proc' = Procs /\ DOMAIN run' = Procs
  BY DEF Crash
<1>3. \A r \in Procs : proc[r].held \subseteq Things
  BY DEF BuildInv, RequestInv, HeldInv
<1> DEFINE held == UNION {{<<x, "crash">> : x \in proc[r].held} : r \in Procs}
           running == {<<"process", "crash">> : r \in {s \in Procs : run[s].process = "running"}}
<1>0. (Things \cup {"process"}) \X {"crash"} \subseteq Allowed
  BY DEF Allowed
<1>4. held \subseteq Allowed
  <2>1. ASSUME NEW e \in held PROVE e \in Allowed
    <3>1. PICK r \in Procs : e \in {<<x, "crash">> : x \in proc[r].held}
      BY <2>1
    <3>2. PICK x \in proc[r].held : e = <<x, "crash">>
      BY <3>1
    <3>3. x \in Things
      BY <1>3
    <3> QED
      BY <1>0, <3>2, <3>3
  <2> QED
    BY <2>1
<1>5. running \subseteq Allowed
  <2>1. <<"process", "crash">> \in Allowed
    BY <1>0
  <2> QED
    BY <2>1, Zenon
<1>6. litter' \subseteq Allowed
  <2>1. litter' = litter \cup held \cup running
    BY Zenon DEF Crash
  <2>2. litter \subseteq Allowed
    BY DEF BuildInv
  <2> HIDE DEF held, running
  <2> QED
    BY <1>4, <1>5, <2>1, <2>2
<1> QED
  BY <1>1, <1>2, <1>6 DEF BuildInv

LEMMA BuildStep == BuildInv /\ [Next]_vars => BuildInv'
<1> SUFFICES ASSUME BuildInv, [Next]_vars PROVE BuildInv'
  OBVIOUS
<1>1. CASE UNCHANGED vars
  BY <1>1 DEF vars, BuildInv
<1>2. CASE Crash
  BY <1>2, CrashInv
<1>3. CASE Done
  BY <1>1, <1>3 DEF Done
<1>4. ASSUME NEW r \in Procs, Step(r) PROVE BuildInv'
  BY <1>4, RequestsInv, PullInv, RemoveInv, BuildStartsInv, RuntimeInv, ReportsInv, WaitEndsInv, ApplyUpperInv,
     RunOverInv, StoreInv, BuildOverInv DEF Step
<1> QED
  BY <1>1, <1>2, <1>3, <1>4 DEF Next

\* At every step of every request of the image service: what buildRollback flags is
\* what the build holds, but for the runtime's container between its creation and
\* its deletion; the command of RUN runs only while waitBuildContainerStopped
\* waits; and what ended builds have left is on the list of BuildReclaims.
THEOREM BuildInvariant == Spec => []BuildInv
<1> QED
  BY BuildInit, BuildStep, PTL DEF Spec

\* A build that ends at any of its steps, by an error, a timeout or success, next to
\* any number of other requests, leaves only what BuildReclaims lists: what has no
\* flag yet, the runtime's container and its control group as long as the command
\* lives, and what a deferred call fails to give back.
THEOREM BuildsReclaim == Spec => []BuildReclaims
<1>1. BuildInv => BuildReclaims
  BY DEF BuildInv, BuildReclaims, Allowed
<1> QED
  BY <1>1, BuildInvariant, PTL

\* A build goes on after RUN only when the command has ended, and not after a
\* command that failed and whose exit code the hook had reported and the monitor
\* had not overwritten when waitBuildContainerStopped looked.
THEOREM RunsHaveEnded == Spec => []RunEnded
<1>1. BuildInv => RunEnded
  BY DEF BuildInv, RequestInv, RunInv, RunEnded, Ended
<1> QED
  BY <1>1, BuildInvariant, PTL

-----------------------------------------------------------------------------
\* Where a request is: the directory that it works on, the version that it pulls
\* and how far it is, and the tree that it builds and the path that it copies last.
WritingPcs == {"blobs", "config", "layers", "index", "copy rest", "built config", "built index",
               "undo pull", "remove rest", "forget rest", "old rest"}

\* Steps with a directory, and steps of a build.
DirPcs == {"remove files", "forget", "forget files", "manifest", "forget old", "remove old", "copy"} \cup WritingPcs

NamedPcs == {"from", "base", "copy base", "instructions", "address", "mkdir", "cgroup", "entry", "create", "start",
             "wait", "delete", "upper", "run over", "check", "forget old", "remove old", "old rest", "copy",
             "copy rest", "built config", "built index"}

PlaceInv(q) ==
    /\ DOMAIN q = Fields /\ q.pc \in Pcs
    /\ q.pc \notin {"idle", "over"} => q.image \in Images
    /\ q.pc \in NamedPcs \/ q.base # None => q.image \in Named
    /\ q.base \in Images \cup {None} /\ (q.pc \in {"from", "base", "copy base"} => q.base \in Images)
    /\ q.dir \in Dirs \cup {None} /\ (q.pc \in DirPcs => q.dir \in Dirs)
    /\ q.pc = "copy rest" => q.at \in Paths
    /\ q.pc \in {"from", "pull", "manifest"} => q.k = 0
    /\ q.pc \in {"blobs", "config", "layers", "index"} => q.version \in Versions
    /\ q.pc = "blobs" => q.k \in 0..Len(LayersOf[q.version])
    /\ q.pc = "config" => q.k = 1
    /\ q.pc = "layers" => q.k \in 1..Len(LayersOf[q.version])
    /\ GoodTree(q.tree)

BundleInv(b) ==
    /\ DOMAIN b = {"there", "manifest", "blobs", "config", "rootfs"}
    /\ b.there \in BOOLEAN /\ b.manifest \in BOOLEAN
    /\ \A x \in b.blobs : x[1] \in Versions /\ x[2] \in 0..Len(LayersOf[x[1]])
    /\ b.config = None \/ b.config \in Trees
    /\ GoodTree(b.rootfs)
    /\ ~b.there => b.blobs = {} /\ b.config = None

TypeInv ==
    /\ ilm \in [Images -> Dirs \cup {None}]
    /\ DOMAIN bundle = Dirs /\ \A d \in Dirs : BundleInv(bundle[d])
    /\ DOMAIN proc = Procs /\ \A r \in Procs : PlaceInv(proc[r])
    /\ spoilt \subseteq Dirs
    /\ requests \in 0..MaxRequests /\ faults \in 0..MaxFaults

\* Steps of a build that ask for nothing but an image.
FreePcs == {"instructions", "address", "mkdir", "cgroup", "entry", "create", "start", "wait", "delete", "upper",
            "run over", "check"}

LEMMA IdlePlace == PlaceInv(Idle) /\ Idle.pc = "idle"
BY EmptyGood DEF PlaceInv, Idle, Fields, Pcs, NamedPcs, DirPcs, WritingPcs

LEMMA NoBundleTyped == BundleInv(NoBundle)
BY EmptyGood DEF BundleInv, NoBundle

LEMMA CompleteIs ==
    ASSUME NEW i, NEW d, NEW v \in Versions
    PROVE  /\ BundleInv(Complete(i, d, v))
           /\ Complete(i, d, v).config = Meaning(v) /\ Complete(i, d, v).rootfs = Meaning(v)
<1> DEFINE c == Complete(i, d, v)
<1>1. /\ DOMAIN c = {"there", "manifest", "blobs", "config", "rootfs"}
      /\ c.there = TRUE /\ c.manifest = (d = PullDir[i]) /\ c.config = Meaning(v) /\ c.rootfs = Meaning(v)
      /\ c.blobs = IF d = PullDir[i] THEN {<<v, k>> : k \in 0..Len(LayersOf[v])} ELSE {}
  BY DEF Complete, NoBundle
<1>2. \A x \in c.blobs : x[1] \in Versions /\ x[2] \in 0..Len(LayersOf[x[1]])
  BY <1>1
<1> HIDE DEF c
<1>3. BundleInv(c)
  BY <1>1, <1>2, MeaningTyped DEF BundleInv
<1> QED
  BY <1>1, <1>3 DEF c

\* The two kinds of initial states.
LEMMA InitIs ==
    ASSUME Init
    PROVE  /\ ilm \in [Images -> Dirs \cup {None}]
           /\ DOMAIN bundle = Dirs
           /\ \A d \in Dirs : \/ bundle[d] = NoBundle
                             \/ \E i, v : v \in Versions /\ bundle[d] = Complete(i, d, v)
<1>1. CASE ilm = [i \in Images |-> None] /\ bundle = [d \in Dirs |-> NoBundle]
  BY <1>1
<1>2. ASSUME NEW e \in Earlier,
             ilm = [i \in Images |-> IF i = e.image THEN e.dir ELSE None],
             bundle = [d \in Dirs |-> IF d = e.dir THEN Complete(e.image, d, e.version) ELSE NoBundle]
      PROVE  /\ ilm \in [Images -> Dirs \cup {None}]
             /\ DOMAIN bundle = Dirs
             /\ \A d \in Dirs : \/ bundle[d] = NoBundle
                               \/ \E i, v : v \in Versions /\ bundle[d] = Complete(i, d, v)
  <2>1. e.dir \in Dirs /\ e.version \in Versions
    BY ImageAssumption
  <2> QED BY <1>2, <2>1
<1> QED
  BY <1>1, <1>2 DEF Init

LEMMA TypeInit == Init => TypeInv
<1> SUFFICES ASSUME Init PROVE TypeInv
  OBVIOUS
<1>1. \A d \in Dirs : BundleInv(bundle[d])
  BY InitIs, CompleteIs, NoBundleTyped
<1>2. DOMAIN proc = Procs /\ \A r \in Procs : PlaceInv(proc[r])
  BY IdlePlace DEF Init
<1>3. spoilt \subseteq Dirs /\ requests \in 0..MaxRequests /\ faults \in 0..MaxFaults
  BY ImageAssumption DEF Init
<1> QED
  BY <1>1, <1>2, <1>3, InitIs DEF TypeInv

LEMMA NamesAre ==
    /\ Named \subseteq Images
    /\ (\A i \in Images : PullDir[i] \in Dirs) /\ \A i \in Named : BuildDir[i] \in Dirs
BY ImageAssumption

LEMMA FreePlace ==
    ASSUME NEW q, PlaceInv(q), q.pc \in NamedPcs, NEW n, DOMAIN n = Fields, n.pc \in FreePcs,
           n.image = q.image, n.base = q.base, n.dir = q.dir, GoodTree(n.tree)
    PROVE  PlaceInv(n)
<1>1. q.image \in Images
  BY NamesAre DEF PlaceInv
<1> QED
  BY <1>1 DEF PlaceInv, FreePcs, Pcs, BuildPcs, RemovingPcs, NamedPcs, DirPcs, WritingPcs

\* The index and the counters.
LEMMA IndexTyped ==
    ASSUME TypeInv, NEW r \in Procs, Step(r)
    PROVE  /\ ilm' \in [Images -> Dirs \cup {None}]
           /\ requests' \in 0..MaxRequests /\ faults' \in 0..MaxFaults
<1>1. requests' \in 0..MaxRequests
  <2>1. UNCHANGED requests \/ (requests < MaxRequests /\ requests' = requests + 1)
    BY DEF Step, PullImage, RemoveImage, GetImageStatus, BuildImage, Accept, createOutputDirectory, fetchManifest,
       downloadBlobVerified, Download, CopyConfig, applyLayers, StorePulled, PullFails, UndoPull, PullFailsOutside, RemovalEnds, RemovalFails,
       RemoveLooksUp, RemoveFiles, RemoveRest, RemoveEntry, RemoveFails, StatusReads, StatusForgets, StatusRemovesFiles,
       StatusRemovesRest, RunOver, GiveBack, BuildOver,
       applyFrom, ReadBaseConfig, CopyBase, ApplyInstructions, allocateBuildAddress, setupBuildContainerDirectory,
       setupBuildCgroup, StoreContainer, RuntimeCreate, RuntimeStart, ProcessExits, HookStops, HookReportsExit,
       MonitorStops, MonitorReports, waitBuildContainerStopped, WaitTimesOut, RuntimeDelete, ApplyUpper,
       CheckBuiltExists, ForgetOld, RemoveOld, RemoveOldRest, CopyBuilt, CopyBuiltRest, WriteBuiltConfig, StoreBuilt, BuildFails
  <2> QED
    BY <2>1, ImageAssumption DEF TypeInv
<1>2. faults' \in 0..MaxFaults
  <2>1. UNCHANGED faults \/ Fault
    BY DEF Step, PullImage, RemoveImage, GetImageStatus, BuildImage, Accept, createOutputDirectory, fetchManifest,
       downloadBlobVerified, Download, CopyConfig, applyLayers, StorePulled, PullFails, UndoPull, PullFailsOutside, RemovalEnds, RemovalFails,
       RemoveLooksUp, RemoveFiles, RemoveRest, RemoveEntry, RemoveFails, StatusReads, StatusForgets, StatusRemovesFiles,
       StatusRemovesRest, RunOver, GiveBack, BuildOver,
       applyFrom, ReadBaseConfig, CopyBase, ApplyInstructions, allocateBuildAddress, setupBuildContainerDirectory,
       setupBuildCgroup, StoreContainer, RuntimeCreate, RuntimeStart, ProcessExits, HookStops, HookReportsExit,
       MonitorStops, MonitorReports, waitBuildContainerStopped, WaitTimesOut, RuntimeDelete, ApplyUpper,
       CheckBuiltExists, ForgetOld, RemoveOld, RemoveOldRest, CopyBuilt, CopyBuiltRest, WriteBuiltConfig, StoreBuilt, BuildFails
  <2> QED
    BY <2>1, ImageAssumption DEF TypeInv, Fault
<1>3. ilm' \in [Images -> Dirs \cup {None}]
  <2>1. ilm \in [Images -> Dirs \cup {None}] /\ PlaceInv(proc[r])
    BY DEF TypeInv
  <2>2. CASE StorePulled(r)
    <3>1. ilm' = [ilm EXCEPT ![Pulled(r)] = proc[r].dir] /\ proc[r].pc = "index"
      BY <2>2 DEF StorePulled
    <3>2. proc[r].dir \in Dirs
      BY <2>1, <3>1, NamesAre DEF PlaceInv, DirPcs, WritingPcs
    <3> QED BY <2>1, <3>1, <3>2
  <2>3. CASE StoreBuilt(r)
    <3>1. ilm' = [ilm EXCEPT ![proc[r].image] = proc[r].dir] /\ proc[r].pc = "built index"
      BY <2>3 DEF StoreBuilt
    <3>2. proc[r].dir \in Dirs
      BY <2>1, <3>1, NamesAre DEF PlaceInv, DirPcs, WritingPcs
    <3> QED BY <2>1, <3>1, <3>2
  <2>4. CASE ~StorePulled(r) /\ ~StoreBuilt(r)
    <3>1. UNCHANGED ilm \/ ilm' = [ilm EXCEPT ![proc[r].image] = None]
      BY <2>4 DEF Step, PullImage, RemoveImage, GetImageStatus, BuildImage, Accept, createOutputDirectory, fetchManifest,
       downloadBlobVerified, Download, CopyConfig, applyLayers, PullFails, UndoPull, PullFailsOutside, RemovalEnds, RemovalFails,
       RemoveLooksUp, RemoveFiles, RemoveRest, RemoveEntry, RemoveFails, StatusReads, StatusForgets, StatusRemovesFiles,
       StatusRemovesRest, RunOver, GiveBack, BuildOver,
       applyFrom, ReadBaseConfig, CopyBase, ApplyInstructions, allocateBuildAddress, setupBuildContainerDirectory,
       setupBuildCgroup, StoreContainer, RuntimeCreate, RuntimeStart, ProcessExits, HookStops, HookReportsExit,
       MonitorStops, MonitorReports, waitBuildContainerStopped, WaitTimesOut, RuntimeDelete, ApplyUpper,
       CheckBuiltExists, ForgetOld, RemoveOld, RemoveOldRest, CopyBuilt, CopyBuiltRest, WriteBuiltConfig, BuildFails
    <3> QED BY <2>1, <3>1
  <2> QED BY <2>2, <2>3, <2>4
<1> QED
  BY <1>1, <1>2, <1>3

-----------------------------------------------------------------------------
\* A step after which its request writes no directory, and which touches none: a
\* request that was writing one has brought it to its end, or leaves one that is
\* gone or spoilt.
Only(r) == DOMAIN proc' = Procs /\ \A s \in Procs \ {r} : proc'[s] = proc[s]

Rest(r) ==
    /\ Only(r) /\ PlaceInv(proc'[r]) /\ proc'[r].pc \notin WritingPcs
    /\ UNCHANGED bundle
    /\ spoilt \subseteq spoilt' /\ spoilt' \subseteq Dirs
    /\ proc[r].pc \in WritingPcs /\ proc[r].dir \notin spoilt' =>
           proc[r].pc \in {"index", "built index"} \/ ~bundle[proc[r].dir].there

LEMMA FreeRest ==
    ASSUME TypeInv, NEW r \in Procs, UNCHANGED <<bundle, spoilt>>, proc[r].pc \in NamedPcs \ WritingPcs,
           Only(r), DOMAIN proc'[r] = Fields, proc'[r].pc \in FreePcs,
           proc'[r].image = proc[r].image, proc'[r].base = proc[r].base, proc'[r].dir = proc[r].dir,
           GoodTree(proc'[r].tree)
    PROVE  Rest(r)
<1>1. PlaceInv(proc[r]) /\ spoilt \subseteq Dirs
  BY DEF TypeInv
<1> DEFINE n == proc'[r]
<1>2. DOMAIN n = Fields /\ n.pc \in FreePcs /\ n.image = proc[r].image /\ n.base = proc[r].base /\ n.dir = proc[r].dir
      /\ GoodTree(n.tree)
  OBVIOUS
<1> HIDE DEF n
<1>3. PlaceInv(n)
  BY <1>1, <1>2, FreePlace
<1>4. n.pc \notin WritingPcs
  BY <1>2 DEF FreePcs, WritingPcs
<1> QED
  BY <1>1, <1>3, <1>4 DEF Rest, n

\* The end of a request, or of all of a build but its deferred functions.
Leaves(r) == Only(r) /\ PlaceInv(proc'[r]) /\ proc'[r].pc \in {"idle", "over"}

LEMMA EndLeaves == ASSUME TypeInv, NEW r \in Procs, End(r) PROVE Leaves(r)
<1>1. Only(r) /\ proc'[r] = Idle
  BY DEF TypeInv, End, Only
<1> QED
  BY <1>1, IdlePlace DEF Leaves

LEMMA OverLeaves == ASSUME TypeInv, NEW r \in Procs, NEW left, EndBuild(r, left) PROVE Leaves(r)
<1> DEFINE f == proc[r].flags
           q == [Idle EXCEPT !.pc = "over", !.held = f, !.flags = f]
<1>1. Only(r) /\ proc'[r] = q
  BY DEF TypeInv, EndBuild, Only
<1>2. /\ DOMAIN q = Fields /\ q.pc = "over" /\ q.base = None /\ q.dir = None /\ q.tree = Empty
  BY DEF Idle, Fields
<1> HIDE DEF q
<1>3. PlaceInv(q)
  BY <1>2, EmptyGood DEF PlaceInv, Pcs, BuildPcs, RemovingPcs, NamedPcs, DirPcs, WritingPcs
<1> QED
  BY <1>1, <1>2, <1>3 DEF Leaves

LEMMA EndRest ==
    ASSUME TypeInv, NEW r \in Procs, Leaves(r), UNCHANGED bundle, spoilt \subseteq spoilt', spoilt' \subseteq Dirs,
           proc[r].pc \in WritingPcs /\ proc[r].dir \notin spoilt' =>
               proc[r].pc \in {"index", "built index"} \/ ~bundle[proc[r].dir].there
    PROVE  Rest(r)
BY DEF Leaves, Rest, WritingPcs

\* The first step of a request.
LEMMA RequestsRest ==
    ASSUME TypeInv, NEW r \in Procs, PullImage(r) \/ RemoveImage(r) \/ GetImageStatus(r) \/ BuildImage(r)
    PROVE  Rest(r)
<1>0. proc[r].pc = "idle" /\ UNCHANGED <<bundle, spoilt>> /\ spoilt \subseteq Dirs /\ DOMAIN proc = Procs
  BY DEF PullImage, RemoveImage, GetImageStatus, BuildImage, Accept, TypeInv
<1>1. ASSUME NEW q, proc' = [proc EXCEPT ![r] = q], PlaceInv(q), q.pc \notin WritingPcs PROVE Rest(r)
  <2>1. Only(r) /\ proc'[r] = q
    BY <1>0, <1>1 DEF Only
  <2> QED BY <1>0, <1>1, <2>1 DEF Rest, WritingPcs
<1>2. CASE PullImage(r) \/ RemoveImage(r) \/ GetImageStatus(r)
  <2>1. PICK i \in Images, pc \in {"pull", "remove", "status"} :
           proc' = [proc EXCEPT ![r] = [Idle EXCEPT !.pc = pc, !.image = i]]
    BY <1>2, NamesAre DEF PullImage, RemoveImage, GetImageStatus
  <2> DEFINE q == [Idle EXCEPT !.pc = pc, !.image = i]
  <2>2. DOMAIN q = Fields /\ q.pc = pc /\ q.image = i /\ q.base = None /\ q.dir = None /\ q.k = 0 /\ q.tree = Empty
    BY DEF Idle, Fields
  <2>3. proc' = [proc EXCEPT ![r] = q]
    BY <2>1
  <2> HIDE DEF q
  <2>4. PlaceInv(q) /\ q.pc \notin WritingPcs
    BY <2>2, EmptyGood DEF PlaceInv, Pcs, BuildPcs, RemovingPcs, NamedPcs, DirPcs, WritingPcs
  <2> QED BY <1>1, <2>3, <2>4
<1>3. CASE BuildImage(r)
  <2>1. PICK i \in Named, b \in Named, runs \in BOOLEAN :
           proc' = [proc EXCEPT ![r] = [Idle EXCEPT !.pc = "from", !.image = i, !.base = b, !.runs = runs]]
    BY <1>3 DEF BuildImage
  <2> DEFINE q == [Idle EXCEPT !.pc = "from", !.image = i, !.base = b, !.runs = runs]
  <2>2. DOMAIN q = Fields /\ q.pc = "from" /\ q.image = i /\ q.base = b /\ q.dir = None /\ q.k = 0 /\ q.tree = Empty
    BY DEF Idle, Fields
  <2>3. proc' = [proc EXCEPT ![r] = q]
    BY <2>1
  <2> HIDE DEF q
  <2>4. PlaceInv(q) /\ q.pc \notin WritingPcs
    BY <2>2, NamesAre, EmptyGood DEF PlaceInv, Pcs, BuildPcs, RemovingPcs, NamedPcs, DirPcs, WritingPcs
  <2> QED BY <1>1, <2>3, <2>4
<1> QED
  BY <1>2, <1>3

\* A new step and nothing else.
LEMMA GoIs ==
    ASSUME TypeInv, NEW r \in Procs, NEW pc, Go(r, pc)
    PROVE  /\ Only(r) /\ DOMAIN proc'[r] = Fields /\ proc'[r].pc = pc
           /\ proc'[r].image = proc[r].image /\ proc'[r].base = proc[r].base /\ proc'[r].dir = proc[r].dir
           /\ proc'[r].tree = proc[r].tree /\ proc'[r].k = proc[r].k /\ proc'[r].version = proc[r].version
<1>1. DOMAIN proc = Procs /\ DOMAIN proc[r] = Fields
  BY DEF TypeInv, PlaceInv
<1>2. Only(r) /\ proc'[r] = [proc[r] EXCEPT !.pc = pc]
  BY <1>1 DEF Go, Only
<1> QED
  BY <1>1, <1>2 DEF Fields

\* A new step and a directory.
Looks(r, pc, d) == proc' = [proc EXCEPT ![r].pc = pc, ![r].dir = d]

LEMMA LookIs ==
    ASSUME TypeInv, NEW r \in Procs, NEW pc, NEW d, Looks(r, pc, d)
    PROVE  /\ Only(r) /\ DOMAIN proc'[r] = Fields /\ proc'[r].pc = pc
           /\ proc'[r].image = proc[r].image /\ proc'[r].base = proc[r].base /\ proc'[r].dir = d
           /\ proc'[r].tree = proc[r].tree /\ proc'[r].k = proc[r].k
<1>1. DOMAIN proc = Procs /\ DOMAIN proc[r] = Fields
  BY DEF TypeInv, PlaceInv
<1>2. Only(r) /\ proc'[r] = [[proc[r] EXCEPT !.pc = pc] EXCEPT !.dir = d]
  BY <1>1 DEF Only, Looks
<1> QED
  BY <1>1, <1>2 DEF Fields

\* A step that ends in one of the other places.
LEMMA PlaceRest ==
    ASSUME TypeInv, NEW r \in Procs, UNCHANGED <<bundle, spoilt>>, proc[r].pc \notin WritingPcs,
           Only(r), PlaceInv(proc'[r]), proc'[r].pc \notin WritingPcs
    PROVE  Rest(r)
BY DEF Rest, TypeInv

\* Requests that look into the index.
LEMMA LooksRest ==
    ASSUME TypeInv, NEW r \in Procs,
           \/ RemoveLooksUp(r) \/ RemoveEntry(r) \/ RemoveFails(r) \/ StatusReads(r) \/ StatusForgets(r)
           \/ applyFrom(r) \/ ReadBaseConfig(r) \/ CheckBuiltExists(r) \/ ForgetOld(r) \/ PullFailsOutside(r)
    PROVE  Rest(r)
<1>0. PlaceInv(proc[r]) /\ spoilt \subseteq Dirs /\ ilm \in [Images -> Dirs \cup {None}]
  BY DEF TypeInv
<1>1. /\ UNCHANGED <<bundle, spoilt>>
      /\ proc[r].pc \in {"remove", "remove files", "remove entry", "status", "forget", "from", "base", "check",
                         "forget old", "pull", "index"}
  BY DEF RemoveLooksUp, RemoveEntry, RemoveFails, StatusReads, StatusForgets, applyFrom, ReadBaseConfig,
         CheckBuiltExists, ForgetOld, PullFailsOutside
<1>2. ASSUME Leaves(r) PROVE Rest(r)
  BY <1>0, <1>1, <1>2, EndRest DEF WritingPcs
<1>3. CASE RemoveEntry(r) \/ RemoveFails(r) \/ PullFailsOutside(r)
  BY <1>2, <1>3, EndLeaves DEF RemoveEntry, RemoveFails, PullFailsOutside
<1>4. CASE RemoveLooksUp(r) \/ StatusReads(r)
  <2> DEFINE d == ilm[proc[r].image]
  <2>1. \/ End(r)
        \/ /\ d # None
           /\ Looks(r, "remove files", d) \/ Looks(r, "forget", d)
    BY <1>4, Zenon DEF RemoveLooksUp, StatusReads, End, Looks
  <2>2. proc[r].pc \in {"remove", "status"}
    BY <1>4 DEF RemoveLooksUp, StatusReads
  <2>3. d \in Dirs \cup {None} /\ proc[r].image \in Images
    BY <1>0, <2>2 DEF PlaceInv
  <2> HIDE DEF d
  <2>4. CASE ~End(r)
    <3>1. PICK pc \in {"remove files", "forget"} : Looks(r, pc, d)
      BY <2>1, <2>4
    <3>2. /\ Only(r) /\ DOMAIN proc'[r] = Fields /\ proc'[r].pc = pc /\ proc'[r].image = proc[r].image
          /\ proc'[r].base = proc[r].base /\ proc'[r].dir = d /\ proc'[r].tree = proc[r].tree
      BY <3>1, LookIs
    <3>3. d \in Dirs
      BY <2>1, <2>3, <2>4
    <3>4. PlaceInv(proc'[r]) /\ proc'[r].pc \notin WritingPcs
      BY <1>0, <2>2, <3>2, <3>3 DEF PlaceInv, Pcs, BuildPcs, RemovingPcs, NamedPcs, DirPcs, WritingPcs
    <3> QED BY <1>1, <2>2, <3>2, <3>4, PlaceRest DEF WritingPcs
  <2> QED BY <1>2, <2>4, EndLeaves
<1>5. CASE StatusForgets(r)
  <2>1. Go(r, "forget files") /\ proc[r].pc = "forget"
    BY <1>5 DEF StatusForgets
  <2>2. /\ Only(r) /\ DOMAIN proc'[r] = Fields /\ proc'[r].pc = "forget files" /\ proc'[r].image = proc[r].image
        /\ proc'[r].base = proc[r].base /\ proc'[r].dir = proc[r].dir /\ proc'[r].tree = proc[r].tree
    BY <2>1, GoIs
  <2>3. PlaceInv(proc'[r]) /\ proc'[r].pc \notin WritingPcs
    BY <1>0, <2>1, <2>2 DEF PlaceInv, Pcs, BuildPcs, RemovingPcs, NamedPcs, DirPcs, WritingPcs
  <2> QED BY <1>1, <2>1, <2>2, <2>3, PlaceRest DEF WritingPcs
<1>6. CASE applyFrom(r) \/ ReadBaseConfig(r)
  <2>1. proc[r].pc \in {"from", "base"}
    BY <1>6 DEF applyFrom, ReadBaseConfig
  <2>2. CASE ~End(r)
    <3>1. PICK pc \in {"base", "pull", "copy base"} : Go(r, pc) /\ (pc = "pull" => proc[r].pc = "from")
      BY <1>6, <2>2 DEF applyFrom, ReadBaseConfig, End, Go
    <3>2. /\ Only(r) /\ DOMAIN proc'[r] = Fields /\ proc'[r].pc = pc /\ proc'[r].image = proc[r].image
          /\ proc'[r].base = proc[r].base /\ proc'[r].dir = proc[r].dir /\ proc'[r].tree = proc[r].tree
          /\ proc'[r].k = proc[r].k
      BY <3>1, GoIs
    <3>3. PlaceInv(proc'[r]) /\ proc'[r].pc \notin WritingPcs
      BY <1>0, <2>1, <3>1, <3>2 DEF PlaceInv, Pcs, BuildPcs, RemovingPcs, NamedPcs, DirPcs, WritingPcs
    <3> QED BY <1>1, <2>1, <3>2, <3>3, PlaceRest DEF WritingPcs
  <2> QED BY <1>2, <2>2, EndLeaves
<1>7. CASE CheckBuiltExists(r)
  <2>1. PICK pc \in {"forget old", "copy"} : Looks(r, pc, BuildDir[proc[r].image])
    BY <1>7 DEF CheckBuiltExists, Looks
  <2> DEFINE d == BuildDir[proc[r].image]
  <2>2. proc[r].pc = "check"
    BY <1>7 DEF CheckBuiltExists
  <2>3. d \in Dirs
    BY <1>0, <2>2, NamesAre DEF PlaceInv, NamedPcs
  <2>4. Looks(r, pc, d)
    BY <2>1
  <2> HIDE DEF d
  <2>5. /\ Only(r) /\ DOMAIN proc'[r] = Fields /\ proc'[r].pc = pc /\ proc'[r].image = proc[r].image
        /\ proc'[r].base = proc[r].base /\ proc'[r].dir = d /\ proc'[r].tree = proc[r].tree
    BY <2>4, LookIs
  <2>6. PlaceInv(proc'[r]) /\ proc'[r].pc \notin WritingPcs
    BY <1>0, <2>2, <2>3, <2>5 DEF PlaceInv, Pcs, BuildPcs, RemovingPcs, NamedPcs, DirPcs, WritingPcs
  <2> QED BY <1>1, <2>2, <2>5, <2>6, PlaceRest DEF WritingPcs
<1>8. CASE ForgetOld(r)
  <2>1. Leaves(r) \/ (Go(r, "remove old") /\ proc[r].pc = "forget old")
    BY <1>8, OverLeaves DEF ForgetOld
  <2>2. CASE ~Leaves(r)
    <3>1. /\ Only(r) /\ DOMAIN proc'[r] = Fields /\ proc'[r].pc = "remove old" /\ proc'[r].image = proc[r].image
          /\ proc'[r].base = proc[r].base /\ proc'[r].dir = proc[r].dir /\ proc'[r].tree = proc[r].tree
      BY <2>1, <2>2, GoIs
    <3>2. PlaceInv(proc'[r]) /\ proc'[r].pc \notin WritingPcs
      BY <1>0, <2>1, <2>2, <3>1 DEF PlaceInv, Pcs, BuildPcs, RemovingPcs, NamedPcs, DirPcs, WritingPcs
    <3> QED BY <1>1, <2>1, <2>2, <3>1, <3>2, PlaceRest DEF WritingPcs
  <2> QED BY <1>2, <2>2
<1> QED
  BY <1>3, <1>4, <1>5, <1>6, <1>7, <1>8

\* The steps of a build between its base and the store of what it has built.
LEMMA TakeIs ==
    ASSUME TypeInv, NEW r \in Procs, NEW thing, NEW pc, Take(r, thing, pc)
    PROVE  /\ Only(r) /\ DOMAIN proc'[r] = Fields /\ proc'[r].pc = pc
           /\ proc'[r].image = proc[r].image /\ proc'[r].base = proc[r].base /\ proc'[r].dir = proc[r].dir
           /\ proc'[r].tree = proc[r].tree
<1> DEFINE h == proc[r].held \cup {thing}
           f == proc[r].flags \cup {thing}
<1>1. DOMAIN proc = Procs /\ DOMAIN proc[r] = Fields
  BY DEF TypeInv, PlaceInv
<1>2. Only(r) /\ proc'[r] = [[[proc[r] EXCEPT !.pc = pc] EXCEPT !.held = h] EXCEPT !.flags = f]
  BY <1>1 DEF Take, Only, Fields
<1> HIDE DEF h, f
<1> QED
  BY <1>1, <1>2 DEF Fields

LEMMA TakesRest ==
    ASSUME TypeInv, NEW r \in Procs,
           \/ allocateBuildAddress(r) \/ setupBuildContainerDirectory(r) \/ setupBuildCgroup(r) \/ StoreContainer(r)
    PROVE  Rest(r)
<1>1. PICK thing \in Things, pc \in {"mkdir", "cgroup", "entry", "create"} : Take(r, thing, pc)
  BY DEF allocateBuildAddress, setupBuildContainerDirectory, setupBuildCgroup, StoreContainer, Things
<1>2. UNCHANGED <<bundle, spoilt>> /\ proc[r].pc \in {"address", "mkdir", "cgroup", "entry"}
  BY DEF allocateBuildAddress, setupBuildContainerDirectory, setupBuildCgroup, StoreContainer
<1>3. /\ Only(r) /\ DOMAIN proc'[r] = Fields /\ proc'[r].pc = pc
      /\ proc'[r].image = proc[r].image /\ proc'[r].base = proc[r].base /\ proc'[r].dir = proc[r].dir
      /\ proc'[r].tree = proc[r].tree
  BY <1>1, TakeIs
<1>4. GoodTree(proc[r].tree)
  BY DEF TypeInv, PlaceInv
<1> QED
  BY <1>2, <1>3, <1>4, FreeRest DEF NamedPcs, WritingPcs, FreePcs

LEMMA RunsRest ==
    ASSUME TypeInv, NEW r \in Procs,
           \/ RuntimeCreate(r) \/ RuntimeStart(r) \/ RuntimeDelete(r) \/ waitBuildContainerStopped(r) \/ WaitTimesOut(r)
           \/ RunOver(r)
    PROVE  Rest(r)
<1>0. DOMAIN proc = Procs /\ DOMAIN proc[r] = Fields /\ GoodTree(proc[r].tree) /\ spoilt \subseteq Dirs
  BY DEF TypeInv, PlaceInv
<1>1. UNCHANGED <<bundle, spoilt>> /\ proc[r].pc \in {"create", "start", "delete", "wait", "run over"}
  BY DEF RuntimeCreate, RuntimeStart, RuntimeDelete, waitBuildContainerStopped, WaitTimesOut, RunOver
<1>2. CASE RuntimeStart(r) \/ waitBuildContainerStopped(r) \/ WaitTimesOut(r)
  <2>1. Leaves(r) \/ Go(r, "wait") \/ Go(r, "delete")
    BY <1>2, OverLeaves DEF RuntimeStart, waitBuildContainerStopped, WaitTimesOut, GoOn
  <2>2. CASE Leaves(r)
    BY <1>0, <1>1, <2>2, EndRest DEF WritingPcs
  <2>3. ASSUME NEW pc \in {"wait", "delete"}, Go(r, pc) PROVE Rest(r)
    <3>1. /\ Only(r) /\ DOMAIN proc'[r] = Fields /\ proc'[r].pc = pc
          /\ proc'[r].image = proc[r].image /\ proc'[r].base = proc[r].base /\ proc'[r].dir = proc[r].dir
          /\ proc'[r].tree = proc[r].tree
      BY <2>3, GoIs
    <3> QED BY <1>0, <1>1, <3>1, FreeRest DEF NamedPcs, WritingPcs, FreePcs
  <2> QED BY <2>1, <2>2, <2>3
<1>3. CASE RuntimeCreate(r) \/ RuntimeDelete(r)
  <2>1. PICK pc \in {"start", "upper"}, h \in {proc[r].held \cup {"runtime"}, proc[r].held \ {"runtime"}} :
            proc' = [proc EXCEPT ![r].pc = pc, ![r].held = h]
    <3>1. CASE RuntimeCreate(r)
      <4> DEFINE h == proc[r].held \cup {"runtime"}
      <4>1. proc' = [proc EXCEPT ![r].pc = "start", ![r].held = h]
        BY <1>0, <3>1 DEF RuntimeCreate, Fields
      <4> QED BY <4>1
    <3>2. CASE RuntimeDelete(r)
      <4> DEFINE h == proc[r].held \ {"runtime"}
      <4>1. proc' = [proc EXCEPT ![r].pc = "upper", ![r].held = h]
        BY <1>0, <3>2 DEF RuntimeDelete, Fields
      <4> QED BY <4>1
    <3> QED BY <1>3, <3>1, <3>2
  <2>2. Only(r) /\ proc'[r] = [[proc[r] EXCEPT !.pc = pc] EXCEPT !.held = h]
    BY <1>0, <2>1 DEF Only
  <2>3. /\ DOMAIN proc'[r] = Fields /\ proc'[r].pc = pc
        /\ proc'[r].image = proc[r].image /\ proc'[r].base = proc[r].base /\ proc'[r].dir = proc[r].dir
        /\ proc'[r].tree = proc[r].tree
    BY <1>0, <2>2 DEF Fields
  <2> QED BY <1>0, <1>1, <2>2, <2>3, FreeRest DEF NamedPcs, WritingPcs, FreePcs
<1>4. CASE RunOver(r)
  <2>1. proc' = [proc EXCEPT ![r].pc = "check", ![r].held = {"tmp"}, ![r].flags = {"tmp"}]
    BY <1>4 DEF RunOver
  <2>2. Only(r) /\ proc'[r] = [[[proc[r] EXCEPT !.pc = "check"] EXCEPT !.held = {"tmp"}] EXCEPT !.flags = {"tmp"}]
    BY <1>0, <2>1 DEF Only
  <2>3. /\ DOMAIN proc'[r] = Fields /\ proc'[r].pc = "check"
        /\ proc'[r].image = proc[r].image /\ proc'[r].base = proc[r].base /\ proc'[r].dir = proc[r].dir
        /\ proc'[r].tree = proc[r].tree
    BY <1>0, <2>2 DEF Fields
  <2> QED BY <1>0, <1>1, <2>2, <2>3, FreeRest DEF NamedPcs, WritingPcs, FreePcs
<1> QED
  BY <1>2, <1>3, <1>4

\* A new tree.
Grows(r, pc, t) ==
    \/ proc' = [proc EXCEPT ![r].pc = pc, ![r].tree = t]
    \/ proc' = [proc EXCEPT ![r].pc = pc, ![r].tree = t, ![r].held = {"tmp"}, ![r].flags = {"tmp"}]

LEMMA GrowsRest ==
    ASSUME TypeInv, NEW r \in Procs, UNCHANGED <<bundle, spoilt>>, proc[r].pc \in NamedPcs \ WritingPcs,
           NEW pc \in FreePcs, NEW t, GoodTree(t), Grows(r, pc, t)
    PROVE  Rest(r)
<1>0. DOMAIN proc = Procs /\ DOMAIN proc[r] = Fields
  BY DEF TypeInv, PlaceInv
<1>1. /\ Only(r)
      /\ \/ proc'[r] = [[proc[r] EXCEPT !.pc = pc] EXCEPT !.tree = t]
         \/ proc'[r] = [[[[proc[r] EXCEPT !.pc = pc] EXCEPT !.tree = t] EXCEPT !.held = {"tmp"}] EXCEPT !.flags = {"tmp"}]
  BY <1>0 DEF Grows, Only
<1>2. /\ DOMAIN proc'[r] = Fields /\ proc'[r].pc = pc
      /\ proc'[r].image = proc[r].image /\ proc'[r].base = proc[r].base /\ proc'[r].dir = proc[r].dir
      /\ proc'[r].tree = t
  BY <1>0, <1>1 DEF Fields
<1> QED
  BY <1>1, <1>2, FreeRest

LEMMA TreesRest ==
    ASSUME TypeInv, NEW r \in Procs, CopyBase(r) \/ ApplyInstructions(r) \/ ApplyUpper(r)
    PROVE  Rest(r)
<1>0. PlaceInv(proc[r]) /\ GoodTree(proc[r].tree) /\ spoilt \subseteq Dirs /\ ilm \in [Images -> Dirs \cup {None}]
  BY DEF TypeInv, PlaceInv
<1>1. UNCHANGED <<bundle, spoilt>> /\ proc[r].pc \in {"copy base", "instructions", "upper"}
  BY DEF CopyBase, ApplyInstructions, ApplyUpper
<1>2. CASE Leaves(r)
  BY <1>0, <1>1, <1>2, EndRest DEF WritingPcs
<1>3. CASE ~Leaves(r) /\ CopyBase(r)
  <2> DEFINE t == bundle[ilm[proc[r].base]].rootfs
  <2>1. Grows(r, "instructions", t) /\ ilm[proc[r].base] # None /\ proc[r].pc = "copy base"
    BY <1>3, OverLeaves DEF CopyBase, Grows
  <2>2. ilm[proc[r].base] \in Dirs
    BY <1>0, <2>1 DEF PlaceInv
  <2>3. GoodTree(t)
    BY <2>2 DEF TypeInv, BundleInv
  <2> HIDE DEF t
  <2> QED BY <1>1, <2>1, <2>3, GrowsRest DEF NamedPcs, WritingPcs, FreePcs
<1>4. CASE ~Leaves(r) /\ ApplyInstructions(r)
  <2> DEFINE st == Instructed(proc[r].tree)
             t == st.fs
             pc == IF proc[r].runs THEN "address" ELSE "check"
  <2>1. Grows(r, pc, t) /\ st.ok
    BY <1>4, OverLeaves, Zenon DEF ApplyInstructions, Grows
  <2>2. GoodTree(t)
    BY <1>0, <2>1, InstructedGood
  <2>3. pc \in FreePcs
    BY DEF FreePcs
  <2> HIDE DEF t, pc
  <2> QED BY <1>1, <2>1, <2>2, <2>3, GrowsRest DEF NamedPcs, WritingPcs
<1>5. CASE ~Leaves(r) /\ ApplyUpper(r)
  <2>1. PICK upper \in RunUppers \cup {<<>>} :
            applyOverlayUpper(proc[r].tree, upper).ok /\ Grows(r, "run over", applyOverlayUpper(proc[r].tree, upper).fs)
    <3>1. PICK upper \in RunUppers \cup (IF run[r].process = "failed" THEN {<<>>} ELSE {}) :
            applyOverlayUpper(proc[r].tree, upper).ok /\ Grows(r, "run over", applyOverlayUpper(proc[r].tree, upper).fs)
      BY <1>5, OverLeaves, Zenon DEF ApplyUpper, Grows
    <3>2. upper \in RunUppers \cup {<<>>}
      OBVIOUS
    <3> QED BY <3>1, <3>2
  <2> DEFINE t == applyOverlayUpper(proc[r].tree, upper).fs
  <2>2. upper \in Archives \cup {<<>>}
    BY DEF Archives
  <2>3. GoodTree(t)
    BY <1>0, <2>1, <2>2, UpperGood
  <2>4. Grows(r, "run over", t)
    BY <2>1
  <2> HIDE DEF t
  <2> QED BY <1>1, <2>3, <2>4, GrowsRest DEF NamedPcs, WritingPcs, FreePcs
<1> QED
  BY <1>2, <1>3, <1>4, <1>5

\* The ends of writes.
LEMMA EndsRest ==
    ASSUME TypeInv, NEW r \in Procs, StoreBuilt(r) \/ BuildFails(r) \/ StorePulled(r) \/ BuildOver(r)
    PROVE  Rest(r)
<1>0. PlaceInv(proc[r]) /\ spoilt \subseteq Dirs /\ DOMAIN proc = Procs /\ DOMAIN proc[r] = Fields
  BY DEF TypeInv, PlaceInv
<1>1. CASE StoreBuilt(r)
  BY <1>0, <1>1, OverLeaves, EndRest DEF StoreBuilt
<1>2. CASE BuildFails(r)
  <2>1. Leaves(r) /\ UNCHANGED bundle /\ proc[r].pc \in BuildPcs
    BY <1>2, OverLeaves DEF BuildFails
  <2>2. spoilt' = IF proc[r].pc \in {"copy", "copy rest", "built config"} THEN spoilt \cup {proc[r].dir} ELSE spoilt
    BY <1>2 DEF BuildFails
  <2>3. proc[r].pc \in {"copy", "copy rest", "built config"} => proc[r].dir \in Dirs
    BY <1>0, NamesAre DEF PlaceInv, DirPcs, WritingPcs
  <2>4. spoilt \subseteq spoilt' /\ spoilt' \subseteq Dirs /\ (proc[r].pc \in {"copy rest", "built config"} => proc[r].dir \in spoilt')
    BY <1>0, <2>2, <2>3
  <2>5. proc[r].pc \in WritingPcs => proc[r].pc \in {"copy rest", "built config", "built index"}
    BY <2>1 DEF WritingPcs, BuildPcs
  <2> QED BY <2>1, <2>4, <2>5, EndRest
<1>3. CASE StorePulled(r)
  <2>1. UNCHANGED <<bundle, spoilt>> /\ proc[r].pc = "index" /\ AfterPull(r)
    BY <1>3 DEF StorePulled
  <2>2. CASE proc[r].base = None
    <3>1. End(r)
      BY <1>0, <2>1, <2>2 DEF AfterPull, End
    <3> QED BY <1>0, <2>1, <3>1, EndLeaves, EndRest
  <2>3. CASE proc[r].base # None
    <3> DEFINE q == [proc[r] EXCEPT !.pc = "base", !.dir = None, !.version = None, !.k = 0]
    <3>1. /\ DOMAIN q = Fields /\ q.pc = "base" /\ q.image = proc[r].image /\ q.base = proc[r].base
          /\ q.dir = None /\ q.tree = proc[r].tree
      BY <1>0 DEF Fields
    <3>2. proc' = [proc EXCEPT ![r] = q]
      BY <1>0, <2>1, <2>3 DEF AfterPull
    <3> HIDE DEF q
    <3>3. Only(r) /\ proc'[r] = q
      BY <1>0, <3>2 DEF Only
    <3>4. PlaceInv(q) /\ q.pc \notin WritingPcs
      BY <1>0, <2>1, <2>3, <3>1 DEF PlaceInv, Pcs, BuildPcs, RemovingPcs, NamedPcs, DirPcs, WritingPcs
    <3> QED BY <1>0, <2>1, <3>3, <3>4 DEF Rest
  <2> QED BY <2>2, <2>3
<1>4. CASE BuildOver(r)
  BY <1>0, <1>4, EndLeaves, EndRest DEF BuildOver, WritingPcs
<1> QED
  BY <1>1, <1>2, <1>3, <1>4

\* A step that changes one directory.
OnlyDir(d) == DOMAIN bundle' = Dirs /\ \A e \in Dirs \ {d} : bundle'[e] = bundle[e]

BundleFields == {"there", "manifest", "blobs", "config", "rootfs"}

LEMMA BundleThere ==
    ASSUME NEW b, BundleInv(b), NEW c, c = [b EXCEPT !.there = TRUE]
    PROVE  BundleInv(c) /\ c.there /\ c.config = b.config /\ c.rootfs = b.rootfs
<1>1. DOMAIN b = BundleFields
  BY DEF BundleInv, BundleFields
<1>2. DOMAIN c = BundleFields /\ c.there = TRUE /\ c.manifest = b.manifest /\ c.blobs = b.blobs /\ c.config = b.config
      /\ c.rootfs = b.rootfs
  BY <1>1 DEF BundleFields
<1> QED
  BY <1>2 DEF BundleInv, BundleFields

LEMMA BundleManifest ==
    ASSUME NEW b, BundleInv(b), NEW c, c = [b EXCEPT !.manifest = TRUE]
    PROVE  BundleInv(c) /\ c.config = b.config /\ c.rootfs = b.rootfs
<1>1. DOMAIN b = BundleFields
  BY DEF BundleInv, BundleFields
<1>2. DOMAIN c = BundleFields /\ c.there = b.there /\ c.manifest = TRUE /\ c.blobs = b.blobs /\ c.config = b.config
      /\ c.rootfs = b.rootfs
  BY <1>1 DEF BundleFields
<1> QED
  BY <1>2 DEF BundleInv, BundleFields

WithBlob(b, v, k) == [[b EXCEPT !.there = TRUE] EXCEPT !.blobs = b.blobs \cup {<<v, k>>}]

LEMMA BundleBlob ==
    ASSUME NEW b, BundleInv(b), NEW v \in Versions, NEW k \in 0..Len(LayersOf[v]), NEW c, c = WithBlob(b, v, k)
    PROVE  BundleInv(c) /\ c.there /\ c.config = b.config /\ c.rootfs = b.rootfs
<1>1. DOMAIN b = BundleFields
  BY DEF BundleInv, BundleFields
<1> DEFINE bl == b.blobs \cup {<<v, k>>}
<1>2. \A x \in bl : x[1] \in Versions /\ x[2] \in 0..Len(LayersOf[x[1]])
  BY DEF BundleInv
<1>3. c = [[b EXCEPT !.there = TRUE] EXCEPT !.blobs = bl]
  BY DEF WithBlob
<1> HIDE DEF bl
<1>4. DOMAIN c = BundleFields /\ c.there = TRUE /\ c.manifest = b.manifest /\ c.blobs = bl /\ c.config = b.config
      /\ c.rootfs = b.rootfs
  BY <1>1, <1>3 DEF BundleFields
<1> QED
  BY <1>2, <1>4 DEF BundleInv, BundleFields

LEMMA BundleConfig ==
    ASSUME NEW b, BundleInv(b), b.there, NEW t \in Trees, NEW c, c = [b EXCEPT !.config = t]
    PROVE  BundleInv(c) /\ c.there /\ c.config = t /\ c.rootfs = b.rootfs
<1>1. DOMAIN b = BundleFields
  BY DEF BundleInv, BundleFields
<1>2. DOMAIN c = BundleFields /\ c.there = b.there /\ c.manifest = b.manifest /\ c.blobs = b.blobs /\ c.config = t
      /\ c.rootfs = b.rootfs
  BY <1>1 DEF BundleFields
<1> QED
  BY <1>2 DEF BundleInv, BundleFields

LEMMA BundleTree ==
    ASSUME NEW b, BundleInv(b), NEW t, GoodTree(t), NEW c, c = [b EXCEPT !.rootfs = t]
    PROVE  BundleInv(c) /\ c.config = b.config /\ c.rootfs = t
<1>1. DOMAIN b = BundleFields
  BY DEF BundleInv, BundleFields
<1>2. DOMAIN c = BundleFields /\ c.there = b.there /\ c.manifest = b.manifest /\ c.blobs = b.blobs
      /\ c.config = b.config /\ c.rootfs = t
  BY <1>1 DEF BundleFields
<1> QED
  BY <1>2 DEF BundleInv, BundleFields

LEMMA RemainsTyped ==
    ASSUME NEW b, BundleInv(b), NEW c \in Remains(b)
    PROVE  BundleInv(c)
<1>1. DOMAIN b = BundleFields
  BY DEF BundleInv, BundleFields
<1>2. CASE c = [b EXCEPT !.rootfs = Empty]
  BY <1>2, EmptyGood, BundleTree
<1>3. CASE c = [b EXCEPT !.manifest = FALSE, !.blobs = {}, !.config = None]
  <2>1. DOMAIN c = BundleFields /\ c.there = b.there /\ c.manifest = FALSE /\ c.blobs = {} /\ c.config = None
        /\ c.rootfs = b.rootfs
    BY <1>1, <1>3 DEF BundleFields
  <2> QED BY <2>1 DEF BundleInv, BundleFields
<1> QED
  BY <1>2, <1>3, NoBundleTyped DEF Remains

-----------------------------------------------------------------------------
\* The steps of a pull.
LEMMA createOutputDirectoryIs ==
    ASSUME TypeInv, NEW r \in Procs, createOutputDirectory(r)
    PROVE  LET d == PullDir[Pulled(r)] IN
           /\ d \in Dirs /\ spoilt \subseteq spoilt' /\ spoilt' \subseteq Dirs
           /\ proc[r].pc = "pull" /\ Only(r) /\ PlaceInv(proc'[r]) /\ proc'[r].pc = "manifest"
           /\ OnlyDir(d) /\ BundleInv(bundle'[d])
           /\ bundle'[d].config = bundle[d].config /\ bundle'[d].rootfs = bundle[d].rootfs
<1> DEFINE d == PullDir[Pulled(r)]
<1>0. PlaceInv(proc[r]) /\ DOMAIN bundle = Dirs /\ \A e \in Dirs : BundleInv(bundle[e])
  BY DEF TypeInv
<1>1. proc[r].pc = "pull" /\ Looks(r, "manifest", d) /\ bundle' = [bundle EXCEPT ![d].there = TRUE]
  BY Zenon DEF createOutputDirectory, Looks
<1>8. spoilt' \in {spoilt, spoilt \cup {d}} /\ spoilt \subseteq Dirs
  BY DEF createOutputDirectory, TypeInv
<1>2. Pulled(r) \in Images
  BY <1>0, <1>1 DEF Pulled, PlaceInv
<1>3. d \in Dirs
  BY <1>2, NamesAre
<1> HIDE DEF d
<1>4. OnlyDir(d) /\ bundle'[d] = [bundle[d] EXCEPT !.there = TRUE]
  BY <1>0, <1>1, <1>3 DEF OnlyDir
<1>5. BundleInv(bundle'[d]) /\ bundle'[d].config = bundle[d].config /\ bundle'[d].rootfs = bundle[d].rootfs
  BY <1>0, <1>3, <1>4, BundleThere
<1>6. /\ Only(r) /\ DOMAIN proc'[r] = Fields /\ proc'[r].pc = "manifest"
      /\ proc'[r].image = proc[r].image /\ proc'[r].base = proc[r].base /\ proc'[r].dir = d
      /\ proc'[r].tree = proc[r].tree /\ proc'[r].k = proc[r].k
  BY <1>1, LookIs
<1>7. PlaceInv(proc'[r])
  BY <1>0, <1>1, <1>3, <1>6 DEF PlaceInv, Pcs, BuildPcs, RemovingPcs, NamedPcs, DirPcs, WritingPcs
<1> QED
  BY <1>1, <1>3, <1>4, <1>5, <1>6, <1>7, <1>8 DEF d

LEMMA fetchManifestIs ==
    ASSUME TypeInv, NEW r \in Procs, fetchManifest(r)
    PROVE  LET d == proc[r].dir IN
           /\ d \in Dirs
           /\ proc[r].pc = "manifest" /\ Only(r) /\ PlaceInv(proc'[r]) /\ proc'[r].pc = "blobs" /\ proc'[r].dir = d
           /\ Mix(r, d, <<"pulled", Meaning(proc'[r].version)>>)
           /\ OnlyDir(d) /\ BundleInv(bundle'[d])
           /\ bundle'[d].config = bundle[d].config /\ bundle'[d].rootfs = bundle[d].rootfs
<1> DEFINE d == proc[r].dir
<1>0. PlaceInv(proc[r]) /\ DOMAIN proc = Procs /\ DOMAIN proc[r] = Fields
      /\ DOMAIN bundle = Dirs /\ \A e \in Dirs : BundleInv(bundle[e])
  BY DEF TypeInv, PlaceInv
<1>1. PICK v \in Versions : /\ bundle' = [bundle EXCEPT ![d].manifest = TRUE]
                            /\ proc' = [proc EXCEPT ![r].pc = "blobs", ![r].version = v]
                            /\ Mix(r, d, <<"pulled", Meaning(v)>>)
  BY Zenon DEF fetchManifest
<1>2. proc[r].pc = "manifest"
  BY DEF fetchManifest
<1>3. d \in Dirs
  BY <1>0, <1>2, NamesAre DEF PlaceInv, DirPcs, WritingPcs
<1>6. Only(r) /\ proc'[r] = [[proc[r] EXCEPT !.pc = "blobs"] EXCEPT !.version = v]
  BY <1>0, <1>1 DEF Only
<1>7. /\ DOMAIN proc'[r] = Fields /\ proc'[r].pc = "blobs"
      /\ proc'[r].image = proc[r].image /\ proc'[r].base = proc[r].base /\ proc'[r].dir = d
      /\ proc'[r].tree = proc[r].tree /\ proc'[r].k = proc[r].k /\ proc'[r].version = v
  BY <1>0, <1>6 DEF Fields
<1> HIDE DEF d
<1>4. OnlyDir(d) /\ bundle'[d] = [bundle[d] EXCEPT !.manifest = TRUE]
  BY <1>0, <1>1, <1>3 DEF OnlyDir
<1>5. BundleInv(bundle'[d]) /\ bundle'[d].config = bundle[d].config /\ bundle'[d].rootfs = bundle[d].rootfs
  BY <1>0, <1>3, <1>4, BundleManifest
<1>8. Len(LayersOf[v]) \in Nat /\ 0 \in 0..Len(LayersOf[v])
  BY VersionIsSeq
<1>9. PlaceInv(proc'[r])
  <2>1. proc'[r].k = 0
    BY <1>0, <1>2, <1>7 DEF PlaceInv
  <2> QED BY <1>0, <1>2, <1>3, <1>7, <1>8, <2>1 DEF PlaceInv, Pcs, BuildPcs, RemovingPcs, NamedPcs, DirPcs, WritingPcs
<1> QED
  BY <1>1, <1>2, <1>3, <1>4, <1>5, <1>6, <1>7, <1>9 DEF d

\* A step that counts blobs or layers.
Counts(r, pc, k) ==
    \/ proc' = [proc EXCEPT ![r].pc = pc, ![r].k = k]
    \/ pc = proc[r].pc /\ proc' = [proc EXCEPT ![r].k = k]

LEMMA CountIs ==
    ASSUME TypeInv, NEW r \in Procs, NEW pc, NEW k, Counts(r, pc, k)
    PROVE  /\ Only(r) /\ DOMAIN proc'[r] = Fields /\ proc'[r].pc = pc
           /\ proc'[r].image = proc[r].image /\ proc'[r].base = proc[r].base /\ proc'[r].dir = proc[r].dir
           /\ proc'[r].tree = proc[r].tree /\ proc'[r].k = k /\ proc'[r].version = proc[r].version
<1>1. DOMAIN proc = Procs /\ DOMAIN proc[r] = Fields
  BY DEF TypeInv, PlaceInv
<1>2. CASE proc' = [proc EXCEPT ![r].pc = pc, ![r].k = k]
  <2>1. Only(r) /\ proc'[r] = [[proc[r] EXCEPT !.pc = pc] EXCEPT !.k = k]
    BY <1>1, <1>2 DEF Only
  <2> QED BY <1>1, <2>1 DEF Fields
<1>3. CASE pc = proc[r].pc /\ proc' = [proc EXCEPT ![r].k = k]
  <2>1. Only(r) /\ proc'[r] = [proc[r] EXCEPT !.k = k]
    BY <1>1, <1>3 DEF Only
  <2> QED BY <1>1, <1>3, <2>1 DEF Fields
<1> QED
  BY <1>2, <1>3 DEF Counts

LEMMA downloadIs ==
    ASSUME TypeInv, NEW r \in Procs, downloadBlobVerified(r)
    PROVE  LET d == proc[r].dir IN
           /\ d \in Dirs /\ UNCHANGED spoilt
           /\ proc[r].pc = "blobs" /\ Only(r) /\ PlaceInv(proc'[r]) /\ proc'[r].pc \in {"blobs", "config"}
           /\ proc'[r].dir = d /\ proc'[r].version = proc[r].version
           /\ OnlyDir(d) /\ BundleInv(bundle'[d])
           /\ bundle'[d].config = bundle[d].config /\ bundle'[d].rootfs = bundle[d].rootfs
<1> DEFINE d == proc[r].dir
           v == proc[r].version
           k == proc[r].k
           n == k + 1
<1>0. PlaceInv(proc[r]) /\ DOMAIN bundle = Dirs /\ \A e \in Dirs : BundleInv(bundle[e])
  BY DEF TypeInv
<1>1. proc[r].pc = "blobs" /\ UNCHANGED spoilt
  BY DEF downloadBlobVerified, Download
<1>2. d \in Dirs /\ v \in Versions /\ k \in 0..Len(LayersOf[v])
  BY <1>0, <1>1, NamesAre DEF PlaceInv, DirPcs, WritingPcs
<1>3. bundle' = [bundle EXCEPT ![d].there = TRUE, ![d].blobs = @ \cup {<<v, k>>}]
  BY Zenon DEF downloadBlobVerified, Download
<1>4. \/ k = Len(LayersOf[v]) /\ Counts(r, "config", 1)
      \/ k # Len(LayersOf[v]) /\ Counts(r, "blobs", n)
  BY <1>1, Zenon DEF downloadBlobVerified, Download, Counts
<1>5. Len(LayersOf[v]) \in Nat /\ Len(LayersOf[v]) > 0
  BY <1>2, VersionIsSeq
<1>6. k # Len(LayersOf[v]) => n \in 0..Len(LayersOf[v])
  BY <1>2, <1>5
<1>7. Only(r) /\ DOMAIN proc'[r] = Fields /\ PlaceInv(proc'[r]) /\ proc'[r].pc \in {"blobs", "config"}
      /\ proc'[r].dir = proc[r].dir /\ proc'[r].version = proc[r].version
  <2> HIDE DEF d, v, k, n
  <2>0. d = proc[r].dir /\ v = proc[r].version
    BY DEF d, v
  <2>1. CASE k = Len(LayersOf[v]) /\ Counts(r, "config", 1)
    <3>1. /\ Only(r) /\ DOMAIN proc'[r] = Fields /\ proc'[r].pc = "config"
          /\ proc'[r].image = proc[r].image /\ proc'[r].base = proc[r].base /\ proc'[r].dir = proc[r].dir
          /\ proc'[r].tree = proc[r].tree /\ proc'[r].k = 1 /\ proc'[r].version = proc[r].version
      BY <2>1, CountIs
    <3>2. PlaceInv(proc'[r])
      BY <1>0, <1>1, <1>2, <2>0, <3>1 DEF PlaceInv, Pcs, BuildPcs, RemovingPcs, NamedPcs, DirPcs, WritingPcs
    <3> QED BY <3>1, <3>2
  <2>2. CASE k # Len(LayersOf[v]) /\ Counts(r, "blobs", n)
    <3>1. /\ Only(r) /\ DOMAIN proc'[r] = Fields /\ proc'[r].pc = "blobs"
          /\ proc'[r].image = proc[r].image /\ proc'[r].base = proc[r].base /\ proc'[r].dir = proc[r].dir
          /\ proc'[r].tree = proc[r].tree /\ proc'[r].k = n /\ proc'[r].version = proc[r].version
      BY <2>2, CountIs
    <3>2. PlaceInv(proc'[r])
      BY <1>0, <1>1, <1>2, <1>6, <2>0, <2>2, <3>1 DEF PlaceInv, Pcs, BuildPcs, RemovingPcs, NamedPcs, DirPcs, WritingPcs
    <3> QED BY <3>1, <3>2
  <2> QED BY <1>4, <2>1, <2>2
<1> HIDE DEF d, v, k, n
<1>8. BundleInv(bundle[d]) /\ DOMAIN bundle[d] = BundleFields
  BY <1>0, <1>2 DEF BundleInv, BundleFields
<1>9. OnlyDir(d) /\ bundle'[d] = WithBlob(bundle[d], v, k)
  BY <1>0, <1>2, <1>3, <1>8 DEF OnlyDir, BundleFields, WithBlob
<1>10. BundleInv(bundle'[d]) /\ bundle'[d].config = bundle[d].config /\ bundle'[d].rootfs = bundle[d].rootfs
  BY <1>2, <1>8, <1>9, BundleBlob
<1> QED
  BY <1>1, <1>2, <1>7, <1>9, <1>10 DEF d

LEMMA CopyConfigIs ==
    ASSUME TypeInv, NEW r \in Procs, CopyConfig(r)
    PROVE  LET d == proc[r].dir IN
           /\ d \in Dirs /\ UNCHANGED spoilt /\ proc[r].version \in Versions
           /\ proc[r].pc = "config" /\ Only(r) /\ PlaceInv(proc'[r]) /\ proc'[r].pc = "layers" /\ proc'[r].k = 1
           /\ proc'[r].dir = d /\ proc'[r].version = proc[r].version
           /\ OnlyDir(d) /\ BundleInv(bundle'[d])
           /\ bundle'[d].config = Meaning(proc[r].version) /\ bundle'[d].rootfs = bundle[d].rootfs
<1> DEFINE d == proc[r].dir
           v == proc[r].version
           t == Meaning(v)
<1>0. PlaceInv(proc[r]) /\ DOMAIN bundle = Dirs /\ \A e \in Dirs : BundleInv(bundle[e])
  BY DEF TypeInv
<1>1. /\ proc[r].pc = "config" /\ UNCHANGED spoilt /\ Go(r, "layers") /\ <<v, 0>> \in bundle[d].blobs
      /\ bundle' = [bundle EXCEPT ![d].config = t]
  BY Zenon DEF CopyConfig
<1>2. d \in Dirs /\ v \in Versions /\ proc[r].k = 1
  BY <1>0, <1>1, NamesAre DEF PlaceInv, DirPcs, WritingPcs
<1>3. Len(LayersOf[v]) \in Nat /\ Len(LayersOf[v]) > 0 /\ t \in Trees
  BY <1>2, VersionIsSeq, MeaningTyped
<1>4. /\ Only(r) /\ DOMAIN proc'[r] = Fields /\ proc'[r].pc = "layers"
      /\ proc'[r].image = proc[r].image /\ proc'[r].base = proc[r].base /\ proc'[r].dir = proc[r].dir
      /\ proc'[r].tree = proc[r].tree /\ proc'[r].k = proc[r].k /\ proc'[r].version = proc[r].version
  BY <1>1, GoIs
<1>5. PlaceInv(proc'[r])
  <2>1. 1 \in 1..Len(LayersOf[v])
    BY <1>3
  <2> QED BY <1>0, <1>1, <1>2, <1>4, <2>1 DEF PlaceInv, Pcs, BuildPcs, RemovingPcs, NamedPcs, DirPcs, WritingPcs
<1>6. BundleInv(bundle[d]) /\ bundle[d].there
  BY <1>0, <1>1, <1>2 DEF BundleInv
<1> HIDE DEF d, t
<1>7. OnlyDir(d) /\ bundle'[d] = [bundle[d] EXCEPT !.config = t]
  BY <1>0, <1>1, <1>2 DEF OnlyDir
<1>8. BundleInv(bundle'[d]) /\ bundle'[d].config = t /\ bundle'[d].rootfs = bundle[d].rootfs
  BY <1>3, <1>6, <1>7, BundleConfig
<1> QED
  BY <1>1, <1>2, <1>4, <1>5, <1>7, <1>8 DEF d, t

LEMMA applyLayersIs ==
    ASSUME TypeInv, NEW r \in Procs, applyLayers(r)
    PROVE  LET d == proc[r].dir
               v == proc[r].version
               k == proc[r].k
           IN  /\ d \in Dirs /\ UNCHANGED spoilt /\ v \in Versions /\ k \in 1..Len(LayersOf[v])
               /\ proc[r].pc = "layers" /\ Only(r) /\ PlaceInv(proc'[r])
               /\ proc'[r].dir = d /\ proc'[r].version = v
               /\ \/ k = Len(LayersOf[v]) /\ proc'[r].pc = "index"
                  \/ k # Len(LayersOf[v]) /\ proc'[r].pc = "layers" /\ proc'[r].k = k + 1
               /\ OnlyDir(d) /\ BundleInv(bundle'[d])
               /\ bundle'[d].config = bundle[d].config /\ bundle'[d].rootfs = Overlay(bundle[d].rootfs, LayersOf[v][k])
<1> DEFINE d == proc[r].dir
           v == proc[r].version
           k == proc[r].k
           n == k + 1
           t == applyOneLayer(bundle[d].rootfs, LayersOf[v][k]).fs
<1>0. PlaceInv(proc[r]) /\ DOMAIN bundle = Dirs /\ \A e \in Dirs : BundleInv(bundle[e])
  BY DEF TypeInv
<1>1. proc[r].pc = "layers" /\ UNCHANGED spoilt /\ applyOneLayer(bundle[d].rootfs, LayersOf[v][k]).ok
  BY DEF applyLayers, LayerApplies, Layer
<1>2. d \in Dirs /\ v \in Versions /\ k \in 1..Len(LayersOf[v])
  BY <1>0, <1>1, NamesAre DEF PlaceInv, DirPcs, WritingPcs
<1>3. bundle' = [bundle EXCEPT ![d].rootfs = t]
  <2>1. BundleInv(bundle[d]) /\ DOMAIN bundle[d] = BundleFields
    BY <1>0, <1>2 DEF BundleInv, BundleFields
  <2>2. bundle' = [bundle EXCEPT ![d].rootfs = applyOneLayer(@, LayersOf[v][k]).fs]
    BY Zenon DEF applyLayers, Layer
  <2> HIDE DEF d, v, k
  <2> QED BY <1>0, <1>2, <2>1, <2>2 DEF BundleFields
<1>4. \/ k = Len(LayersOf[v]) /\ Counts(r, "index", 0)
      \/ k # Len(LayersOf[v]) /\ Counts(r, "layers", n)
  BY <1>1, Zenon DEF applyLayers, Counts
<1>5. Len(LayersOf[v]) \in Nat /\ LayersOf[v][k] \in Archives /\ WellFormed(LayersOf[v][k])
  BY <1>2, VersionIsSeq
<1>6. k # Len(LayersOf[v]) => n \in 1..Len(LayersOf[v])
  BY <1>2, <1>5
<1>7. /\ Only(r) /\ PlaceInv(proc'[r]) /\ proc'[r].dir = proc[r].dir /\ proc'[r].version = proc[r].version
      /\ \/ k = Len(LayersOf[v]) /\ proc'[r].pc = "index"
         \/ k # Len(LayersOf[v]) /\ proc'[r].pc = "layers" /\ proc'[r].k = n
  <2> HIDE DEF d, v, k, n, t
  <2>0. d = proc[r].dir /\ v = proc[r].version
    BY DEF d, v
  <2>1. CASE k = Len(LayersOf[v]) /\ Counts(r, "index", 0)
    <3>1. /\ Only(r) /\ DOMAIN proc'[r] = Fields /\ proc'[r].pc = "index"
          /\ proc'[r].image = proc[r].image /\ proc'[r].base = proc[r].base /\ proc'[r].dir = proc[r].dir
          /\ proc'[r].tree = proc[r].tree /\ proc'[r].version = proc[r].version
      BY <2>1, CountIs
    <3>2. PlaceInv(proc'[r])
      BY <1>0, <1>1, <1>2, <2>0, <3>1 DEF PlaceInv, Pcs, BuildPcs, RemovingPcs, NamedPcs, DirPcs, WritingPcs
    <3> QED BY <2>1, <3>1, <3>2
  <2>2. CASE k # Len(LayersOf[v]) /\ Counts(r, "layers", n)
    <3>1. /\ Only(r) /\ DOMAIN proc'[r] = Fields /\ proc'[r].pc = "layers"
          /\ proc'[r].image = proc[r].image /\ proc'[r].base = proc[r].base /\ proc'[r].dir = proc[r].dir
          /\ proc'[r].tree = proc[r].tree /\ proc'[r].k = n /\ proc'[r].version = proc[r].version
      BY <2>2, CountIs
    <3>2. PlaceInv(proc'[r])
      BY <1>0, <1>1, <1>2, <1>6, <2>0, <2>2, <3>1 DEF PlaceInv, Pcs, BuildPcs, RemovingPcs, NamedPcs, DirPcs, WritingPcs
    <3> QED BY <2>2, <3>1, <3>2
  <2> QED BY <1>4, <2>1, <2>2
<1>8. BundleInv(bundle[d]) /\ GoodTree(bundle[d].rootfs)
  BY <1>0, <1>2 DEF BundleInv
<1>9. GoodTree(t) /\ t = Overlay(bundle[d].rootfs, LayersOf[v][k])
  BY <1>1, <1>5, <1>8, LayerGood
<1> HIDE DEF d, t
<1>10. OnlyDir(d) /\ bundle'[d] = [bundle[d] EXCEPT !.rootfs = t]
  BY <1>0, <1>2, <1>3 DEF OnlyDir
<1>11. BundleInv(bundle'[d]) /\ bundle'[d].config = bundle[d].config /\ bundle'[d].rootfs = t
  BY <1>8, <1>9, <1>10, BundleTree
<1> QED
  BY <1>1, <1>2, <1>7, <1>9, <1>10, <1>11 DEF d

-----------------------------------------------------------------------------
\* The steps of storeBuiltImage.
WithFiles(b, t) == [[b EXCEPT !.there = TRUE] EXCEPT !.rootfs = t]

LEMMA BundleFiles ==
    ASSUME NEW b, BundleInv(b), NEW t, GoodTree(t), NEW c, c = WithFiles(b, t)
    PROVE  BundleInv(c) /\ c.config = b.config /\ c.rootfs = t
<1>1. DOMAIN b = BundleFields
  BY DEF BundleInv, BundleFields
<1>2. DOMAIN c = BundleFields /\ c.there = TRUE /\ c.manifest = b.manifest /\ c.blobs = b.blobs
      /\ c.config = b.config /\ c.rootfs = t
  BY <1>1 DEF BundleFields, WithFiles
<1> QED
  BY <1>2 DEF BundleInv, BundleFields

\* Parts of a tree: all but one path with nothing below it, and one path with the
\* directories that it is in.
LEMMA BranchIs ==
    ASSUME NEW t, GoodTree(t), NEW ps,
           \A p \in Paths : p \in ps /\ t[p] # Nothing => \A q \in Parents(p) : q \in ps
    PROVE  /\ GoodTree(Branch(t, ps))
           /\ \A p \in Paths : Branch(t, ps)[p] = IF p \in ps THEN t[p] ELSE Nothing
<1> DEFINE u == Branch(t, ps)
<1>1. IsTree(u) /\ \A p \in Paths : u[p] = IF p \in ps THEN t[p] ELSE Nothing
  BY DEF Branch, IsTree
<1> HIDE DEF u
<1>2. ASSUME NEW p \in Paths, u[p] # Nothing, NEW q \in Parents(p) PROVE u[q] = Dir
  <2>1. p \in ps /\ t[p] # Nothing
    BY <1>1, <1>2
  <2>2. q \in Paths /\ q \in ps /\ t[q] = Dir
    BY <1>2, <2>1, ParentsArePaths DEF GoodTree, Proper
  <2> QED BY <1>1, <2>2
<1>3. Proper(u)
  BY <1>1, <1>2 DEF Proper
<1>4. Valued(u, Nodes)
  BY <1>1 DEF GoodTree, Valued, Nodes
<1> QED
  BY <1>1, <1>3, <1>4 DEF GoodTree, u

Copied(r, part, pc, at) ==
    LET d == proc[r].dir IN
    /\ d \in Dirs
    /\ Only(r) /\ PlaceInv(proc'[r]) /\ proc'[r].pc = pc /\ proc'[r].at = at
    /\ proc'[r].dir = d /\ proc'[r].tree = proc[r].tree /\ Mix(r, d, <<"built", proc[r].tree>>)
    /\ OnlyDir(d) /\ BundleInv(bundle'[d]) /\ bundle'[d].config = bundle[d].config
    /\ \A p \in Paths : bundle'[d].rootfs[p] = IF part[p] = Nothing THEN bundle[d].rootfs[p] ELSE part[p]

LEMMA CopiesIs ==
    ASSUME TypeInv, NEW r \in Procs, NEW part, GoodTree(part), NEW pc, NEW at, Copies(r, part, pc, at),
           \/ proc[r].pc = "copy" /\ pc = "copy rest" /\ at \in Paths
           \/ proc[r].pc = "copy rest" /\ pc = "built config"
    PROVE  Rest(r) \/ Copied(r, part, pc, at)
<1> DEFINE d == proc[r].dir
           st == copyDir(bundle[d].rootfs, part)
           t == st.fs
<1>0. PlaceInv(proc[r]) /\ DOMAIN bundle = Dirs /\ (\A e \in Dirs : BundleInv(bundle[e])) /\ spoilt \subseteq Dirs
  BY DEF TypeInv
<1>1. DOMAIN proc = Procs /\ DOMAIN proc[r] = Fields
  BY DEF TypeInv, PlaceInv
<1>2. d \in Dirs
  BY <1>0, NamesAre DEF PlaceInv, DirPcs, WritingPcs
<1>3. CASE ~st.ok
  <2>1. Leaves(r) /\ UNCHANGED bundle /\ spoilt' = spoilt \cup {d}
    BY <1>3, OverLeaves DEF Copies
  <2>2. spoilt \subseteq spoilt' /\ spoilt' \subseteq Dirs /\ d \in spoilt'
    BY <1>0, <1>2, <2>1
  <2> QED BY <2>1, <2>2, EndRest
<1>4. CASE st.ok
  <2>1. /\ proc' = [proc EXCEPT ![r].pc = pc, ![r].at = at] /\ Mix(r, d, <<"built", proc[r].tree>>)
        /\ bundle' = [bundle EXCEPT ![d].there = TRUE, ![d].rootfs = t]
    BY <1>4, Zenon DEF Copies
  <2>2. BundleInv(bundle[d]) /\ GoodTree(bundle[d].rootfs)
    BY <1>0, <1>2 DEF BundleInv
  <2>3. GoodTree(t) /\ \A p \in Paths : t[p] = IF part[p] = Nothing THEN bundle[d].rootfs[p] ELSE part[p]
    <3> DEFINE fs == bundle[d].rootfs
    <3>1. GoodTree(fs) /\ copyDir(fs, part).ok /\ t = copyDir(fs, part).fs
      BY <1>4, <2>2
    <3> HIDE DEF fs, t
    <3>2. GoodTree(copyDir(fs, part).fs)
      BY <3>1, CopyGood
    <3>3. \A p \in Paths : copyDir(fs, part).fs[p] = IF part[p] = Nothing THEN fs[p] ELSE part[p]
      BY <3>1, CopyGood
    <3> QED BY <3>1, <3>2, <3>3 DEF fs
  <2>9. GoodTree(t)
    BY <2>3
  <2>4. Only(r) /\ proc'[r] = [[proc[r] EXCEPT !.pc = pc] EXCEPT !.at = at]
    BY <1>1, <2>1 DEF Only
  <2>5. /\ DOMAIN proc'[r] = Fields /\ proc'[r].pc = pc /\ proc'[r].at = at
        /\ proc'[r].image = proc[r].image /\ proc'[r].base = proc[r].base /\ proc'[r].dir = proc[r].dir
        /\ proc'[r].tree = proc[r].tree
    BY <1>1, <2>4 DEF Fields
  <2>6. PlaceInv(proc'[r])
    BY <1>0, <1>2, <2>5, NamesAre DEF PlaceInv, Pcs, BuildPcs, RemovingPcs, NamedPcs, DirPcs, WritingPcs
  <2> HIDE DEF d, t, st
  <2>7. OnlyDir(d) /\ bundle'[d] = WithFiles(bundle[d], t)
    <3>1. DOMAIN bundle[d] = BundleFields
      BY <2>2 DEF BundleInv, BundleFields
    <3> QED BY <1>0, <1>2, <2>1, <3>1 DEF OnlyDir, WithFiles, BundleFields
  <2>8. BundleInv(bundle'[d]) /\ bundle'[d].config = bundle[d].config /\ bundle'[d].rootfs = t
    <3> DEFINE b == bundle[d]
               c == bundle'[d]
    <3>1. BundleInv(b) /\ c = WithFiles(b, t)
      BY <2>2, <2>7
    <3> HIDE DEF b, c
    <3>2. BundleInv(c) /\ c.config = b.config /\ c.rootfs = t
      BY <2>9, <3>1, BundleFiles
    <3> QED BY <3>2 DEF b, c
  <2> QED BY <1>2, <2>1, <2>3, <2>4, <2>5, <2>6, <2>7, <2>8 DEF d, Copied
<1> QED
  BY <1>3, <1>4

\* A step that copies a part of the tree: what it copies is there, and what was
\* there of the tree stays.
Adds(r) ==
    LET d == proc[r].dir
        t == proc[r].tree
    IN  /\ d \in Dirs /\ OnlyDir(d) /\ BundleInv(bundle'[d]) /\ bundle'[d].config = bundle[d].config
        /\ Only(r) /\ PlaceInv(proc'[r]) /\ proc'[r].dir = d /\ proc'[r].tree = t /\ Mix(r, d, <<"built", t>>)
        /\ \/ proc[r].pc = "copy" /\ proc'[r].pc = "copy rest"
           \/ proc[r].pc = "copy rest" /\ proc'[r].pc = "built config"
        /\ \A p \in Paths : t[p] # Nothing =>
              /\ bundle'[d].rootfs[p] \in {bundle[d].rootfs[p], t[p]}
              /\ proc'[r].pc = "copy rest" /\ p # proc'[r].at => bundle'[d].rootfs[p] = t[p]
              /\ proc'[r].pc = "built config" /\ p = proc[r].at => bundle'[d].rootfs[p] = t[p]

LEMMA CopyBuiltIs ==
    ASSUME TypeInv, NEW r \in Procs, CopyBuilt(r) \/ CopyBuiltRest(r)
    PROVE  Rest(r) \/ Adds(r)
<1> DEFINE t == proc[r].tree
           d == proc[r].dir
<1>0. PlaceInv(proc[r]) /\ GoodTree(t)
  BY DEF TypeInv, PlaceInv
<1>1. CASE CopyBuilt(r)
  <2>1. proc[r].pc = "copy"
    BY <1>1 DEF CopyBuilt
  <2>2. PICK p \in Paths : /\ t[p] # Nothing /\ \A q \in Below(p) : t[q] = Nothing
                           /\ Copies(r, Branch(t, Paths \ {p}), "copy rest", p)
    BY <1>1, Zenon DEF CopyBuilt
  <2> DEFINE ps == Paths \ {p}
             part == Branch(t, ps)
  <2>3. ASSUME NEW q \in Paths, q \in ps, t[q] # Nothing, NEW a \in Parents(q) PROVE a \in ps
    BY <2>2, <2>3, ParentsArePaths DEF Below
  <2>4. GoodTree(part) /\ \A q \in Paths : part[q] = IF q \in ps THEN t[q] ELSE Nothing
    <3> HIDE DEF ps, t
    <3> QED BY <1>0, <2>3, BranchIs
  <2>5. Copies(r, part, "copy rest", p)
    BY <2>2
  <2> HIDE DEF part
  <2>6. Rest(r) \/ Copied(r, part, "copy rest", p)
    BY <2>1, <2>4, <2>5, CopiesIs
  <2> QED BY <2>1, <2>4, <2>6 DEF Adds, Copied
<1>2. CASE CopyBuiltRest(r)
  <2> DEFINE p == proc[r].at
             ps == {p} \cup Parents(p)
             part == Branch(t, ps)
  <2>1. proc[r].pc = "copy rest" /\ Copies(r, part, "built config", None)
    BY <1>2, Zenon DEF CopyBuiltRest
  <2>2. p \in Paths
    BY <1>0, <2>1 DEF PlaceInv
  <2>3. ASSUME NEW q \in Paths, q \in ps, NEW a \in Parents(q) PROVE a \in ps
    <3> HIDE DEF p
    <3> QED BY <2>2, <2>3, ParentsTransitive
  <2>4. GoodTree(part) /\ \A q \in Paths : part[q] = IF q \in ps THEN t[q] ELSE Nothing
    <3> HIDE DEF ps, t
    <3> QED BY <1>0, <2>3, BranchIs
  <2> HIDE DEF part
  <2>5. GoodTree(part)
    BY <2>4
  <2>6. Rest(r) \/ Copied(r, part, "built config", None)
    BY <2>1, <2>5, CopiesIs
  <2> QED BY <2>1, <2>2, <2>4, <2>6 DEF Adds, Copied
<1> QED
  BY <1>1, <1>2

LEMMA WriteBuiltConfigIs ==
    ASSUME TypeInv, NEW r \in Procs, WriteBuiltConfig(r)
    PROVE  LET d == proc[r].dir IN
           \/ Rest(r)
           \/ /\ d \in Dirs /\ bundle[d].there /\ UNCHANGED spoilt
              /\ proc[r].pc = "built config" /\ Only(r) /\ PlaceInv(proc'[r]) /\ proc'[r].pc = "built index"
              /\ proc'[r].dir = d /\ proc'[r].tree = proc[r].tree
              /\ OnlyDir(d) /\ BundleInv(bundle'[d])
              /\ bundle'[d].config = proc[r].tree /\ bundle'[d].rootfs = bundle[d].rootfs
<1> DEFINE d == proc[r].dir
           t == proc[r].tree
<1>0. PlaceInv(proc[r]) /\ DOMAIN bundle = Dirs /\ (\A e \in Dirs : BundleInv(bundle[e])) /\ spoilt \subseteq Dirs
  BY DEF TypeInv
<1>1. proc[r].pc = "built config" /\ UNCHANGED spoilt
  BY DEF WriteBuiltConfig
<1>2. d \in Dirs /\ GoodTree(t)
  BY <1>0, <1>1, NamesAre DEF PlaceInv, DirPcs, WritingPcs
<1>3. CASE ~bundle[d].there
  <2>1. Leaves(r) /\ UNCHANGED bundle
    BY <1>3, OverLeaves DEF WriteBuiltConfig
  <2> QED BY <1>0, <1>1, <1>3, <2>1, EndRest
<1>4. CASE bundle[d].there
  <2>1. Go(r, "built index") /\ bundle' = [bundle EXCEPT ![d].config = t]
    BY <1>4, Zenon DEF WriteBuiltConfig
  <2>2. BundleInv(bundle[d]) /\ t \in Trees
    BY <1>0, <1>2, TreeIs
  <2>4. /\ Only(r) /\ DOMAIN proc'[r] = Fields /\ proc'[r].pc = "built index"
        /\ proc'[r].image = proc[r].image /\ proc'[r].base = proc[r].base /\ proc'[r].dir = proc[r].dir
        /\ proc'[r].tree = proc[r].tree
    BY <2>1, GoIs
  <2>5. PlaceInv(proc'[r])
    BY <1>0, <1>1, <1>2, <2>4 DEF PlaceInv, Pcs, BuildPcs, RemovingPcs, NamedPcs, DirPcs, WritingPcs
  <2> HIDE DEF d, t
  <2>6. OnlyDir(d) /\ bundle'[d] = [bundle[d] EXCEPT !.config = t]
    BY <1>0, <1>2, <2>1 DEF OnlyDir
  <2>7. BundleInv(bundle'[d]) /\ bundle'[d].config = t /\ bundle'[d].rootfs = bundle[d].rootfs
    BY <1>4, <2>2, <2>6, BundleConfig
  <2> QED BY <1>1, <1>2, <1>4, <2>4, <2>5, <2>6, <2>7 DEF d, t
<1> QED
  BY <1>3, <1>4

-----------------------------------------------------------------------------
\* The two steps of a removal, when no call fails.
Begins(r) ==
    LET d == proc[r].dir IN
    /\ d \in Dirs /\ \E pc : RemovalBegins(r, pc)
    /\ Only(r) /\ PlaceInv(proc'[r]) /\ proc'[r].pc \in RemovingPcs /\ proc'[r].dir = d

Clears(r) ==
    LET d == proc[r].dir IN
    /\ d \in Dirs /\ RemovalEnds(r)
    /\ proc[r].pc \in RemovingPcs
    /\ Only(r) /\ PlaceInv(proc'[r]) /\ proc'[r].pc \notin WritingPcs

LEMMA BeginsIs ==
    ASSUME TypeInv, NEW r \in Procs, PullFails(r) \/ RemoveFiles(r) \/ StatusRemovesFiles(r) \/ RemoveOld(r)
    PROVE  Begins(r)
<1>0. PlaceInv(proc[r])
  BY DEF TypeInv
<1>1. PICK pc \in RemovingPcs : RemovalBegins(r, pc) /\ (pc = "old rest" => proc[r].pc = "remove old")
  BY DEF PullFails, RemoveFiles, StatusRemovesFiles, RemoveOld, RemovingPcs
<1>2. proc[r].pc \in {"manifest", "blobs", "config", "layers", "remove files", "forget files", "remove old"}
  BY DEF PullFails, PullCannotGoOn, RemoveFiles, StatusRemovesFiles, RemoveOld
<1>3. proc[r].dir \in Dirs
  BY <1>0, <1>2 DEF PlaceInv, DirPcs, WritingPcs
<1>4. Go(r, pc)
  BY <1>1 DEF RemovalBegins
<1>5. /\ Only(r) /\ DOMAIN proc'[r] = Fields /\ proc'[r].pc = pc
      /\ proc'[r].image = proc[r].image /\ proc'[r].base = proc[r].base /\ proc'[r].dir = proc[r].dir
      /\ proc'[r].tree = proc[r].tree
  BY <1>4, GoIs
<1>6. PlaceInv(proc'[r])
  BY <1>0, <1>1, <1>2, <1>3, <1>5 DEF PlaceInv, Pcs, BuildPcs, RemovingPcs, NamedPcs, DirPcs, WritingPcs
<1> QED
  BY <1>1, <1>3, <1>5, <1>6 DEF Begins

LEMMA ClearsIs ==
    ASSUME TypeInv, NEW r \in Procs, UndoPull(r) \/ RemoveRest(r) \/ StatusRemovesRest(r) \/ RemoveOldRest(r)
    PROVE  Rest(r) \/ Clears(r)
<1>0. PlaceInv(proc[r]) /\ spoilt \subseteq Dirs
  BY DEF TypeInv
<1>1. proc[r].pc \in RemovingPcs /\ (RemovalEnds(r) \/ RemovalFails(r))
  BY DEF UndoPull, RemoveRest, StatusRemovesRest, RemoveOldRest, RemovingPcs
<1>2. proc[r].dir \in Dirs
  BY <1>0, <1>1 DEF PlaceInv, DirPcs, WritingPcs, RemovingPcs
<1>3. \/ Leaves(r)
      \/ Go(r, "remove entry") /\ proc[r].pc = "remove rest"
      \/ Go(r, "copy") /\ proc[r].pc = "old rest"
  BY EndLeaves DEF UndoPull, RemoveRest, StatusRemovesRest, RemoveOldRest
<1>4. Only(r) /\ PlaceInv(proc'[r]) /\ proc'[r].pc \notin WritingPcs
  <2>1. CASE Leaves(r)
    BY <2>1 DEF Leaves, WritingPcs
  <2>2. ASSUME NEW pc \in {"remove entry", "copy"}, Go(r, pc), pc = "remove entry" => proc[r].pc = "remove rest",
               pc = "copy" => proc[r].pc = "old rest"
        PROVE  Only(r) /\ PlaceInv(proc'[r]) /\ proc'[r].pc \notin WritingPcs
    <3>1. /\ Only(r) /\ DOMAIN proc'[r] = Fields /\ proc'[r].pc = pc
          /\ proc'[r].image = proc[r].image /\ proc'[r].base = proc[r].base /\ proc'[r].dir = proc[r].dir
          /\ proc'[r].tree = proc[r].tree
      BY <2>2, GoIs
    <3> QED BY <1>0, <1>1, <1>2, <2>2, <3>1
            DEF PlaceInv, Pcs, BuildPcs, RemovingPcs, NamedPcs, DirPcs, WritingPcs
  <2> QED BY <1>3, <2>1, <2>2
<1>5. CASE RemovalEnds(r)
  BY <1>1, <1>2, <1>4, <1>5 DEF Clears
<1>6. CASE RemovalFails(r)
  <2>1. UNCHANGED bundle /\ spoilt' = spoilt \cup {proc[r].dir}
    BY <1>6 DEF RemovalFails
  <2>2. spoilt \subseteq spoilt' /\ spoilt' \subseteq Dirs /\ proc[r].dir \in spoilt'
    BY <1>0, <1>2, <2>1
  <2> QED BY <1>4, <2>1, <2>2 DEF Rest
<1> QED
  BY <1>1, <1>5, <1>6

\* The steps of a request, by what they do to directories.
Still == UNCHANGED <<proc, bundle, spoilt>>

LEMMA StepIs ==
    ASSUME TypeInv, NEW r \in Procs, Step(r)
    PROVE  \/ Rest(r) \/ Still \/ Begins(r) \/ Clears(r) \/ Adds(r)
           \/ createOutputDirectory(r) \/ fetchManifest(r) \/ downloadBlobVerified(r) \/ CopyConfig(r) \/ applyLayers(r)
           \/ WriteBuiltConfig(r)
<1>1. CASE ProcessExits(r) \/ HookStops(r) \/ HookReportsExit(r) \/ MonitorStops(r) \/ MonitorReports(r)
  BY <1>1 DEF ProcessExits, HookStops, HookReportsExit, MonitorStops, MonitorReports, Still
<1> QED
  BY <1>1, RequestsRest, LooksRest, TakesRest, RunsRest, TreesRest, EndsRest, BeginsIs, ClearsIs, CopyBuiltIs DEF Step

LEMMA OneDirTyped ==
    ASSUME TypeInv, NEW r \in Procs, Only(r), PlaceInv(proc'[r]), NEW d \in Dirs, OnlyDir(d), BundleInv(bundle'[d]),
           spoilt' \subseteq Dirs, Step(r)
    PROVE  TypeInv'
<1>1. \A e \in Dirs : BundleInv(bundle'[e])
  BY DEF TypeInv, OnlyDir
<1>2. \A s \in Procs : PlaceInv(proc'[s])
  BY DEF TypeInv, Only
<1> QED
  BY <1>1, <1>2, IndexTyped DEF TypeInv, Only, OnlyDir

LEMMA MixTyped ==
    ASSUME TypeInv, NEW r, NEW d \in Dirs, NEW content, Mix(r, d, content)
    PROVE  spoilt' \subseteq Dirs
BY DEF Mix, TypeInv

\* What a removal leaves of a directory.
LEMMA RemovalIs ==
    ASSUME TypeInv, NEW r \in Procs, Begins(r) \/ Clears(r)
    PROVE  LET d == proc[r].dir IN
           /\ OnlyDir(d) /\ BundleInv(bundle'[d]) /\ spoilt' \subseteq Dirs /\ spoilt \subseteq spoilt' \cup {d}
           /\ Clears(r) /\ d \notin spoilt' => bundle'[d] = NoBundle
<1> DEFINE d == proc[r].dir
<1>0. DOMAIN bundle = Dirs /\ (\A e \in Dirs : BundleInv(bundle[e])) /\ spoilt \subseteq Dirs /\ d \in Dirs
  BY DEF TypeInv, Begins, Clears
<1>1. PICK b \in Remains(bundle[d]) : bundle' = [bundle EXCEPT ![d] = b]
  BY DEF Begins, Clears, RemovalBegins, RemovalEnds, Remains
<1>2. BundleInv(b)
  BY <1>0, RemainsTyped
<1>3. OnlyDir(d) /\ bundle'[d] = b
  BY <1>0, <1>1 DEF OnlyDir
<1>4. spoilt' \subseteq Dirs /\ spoilt \subseteq spoilt' \cup {d}
  BY <1>0 DEF Begins, Clears, RemovalBegins, RemovalEnds, Mix
<1>5. ASSUME Clears(r), d \notin spoilt' PROVE bundle'[d] = NoBundle
  BY <1>0, <1>5 DEF Clears, RemovalEnds
<1> QED
  BY <1>2, <1>3, <1>4, <1>5

LEMMA RequestTyped == ASSUME TypeInv, NEW r \in Procs, Step(r) PROVE TypeInv'
<1>1. CASE Rest(r)
  <2>1. \A s \in Procs : PlaceInv(proc'[s])
    BY <1>1 DEF TypeInv, Rest, Only
  <2> QED BY <1>1, <2>1, IndexTyped DEF TypeInv, Rest, Only
<1>2. CASE Still
  BY <1>2, IndexTyped DEF TypeInv, Still
<1>3. CASE Begins(r) \/ Clears(r)
  <2>1. proc[r].dir \in Dirs /\ Only(r) /\ PlaceInv(proc'[r])
    BY <1>3 DEF Begins, Clears
  <2> QED BY <1>3, <2>1, RemovalIs, OneDirTyped
<1>4. CASE createOutputDirectory(r)
  BY <1>4, createOutputDirectoryIs, OneDirTyped DEF TypeInv
<1>5. CASE fetchManifest(r)
  BY <1>5, fetchManifestIs, OneDirTyped, MixTyped
<1>6. CASE downloadBlobVerified(r)
  BY <1>6, downloadIs, OneDirTyped DEF TypeInv
<1>7. CASE CopyConfig(r)
  BY <1>7, CopyConfigIs, OneDirTyped DEF TypeInv
<1>8. CASE applyLayers(r)
  BY <1>8, applyLayersIs, OneDirTyped DEF TypeInv
<1>9. CASE Adds(r)
  BY <1>9, OneDirTyped, MixTyped DEF Adds
<1>10. CASE WriteBuiltConfig(r)
  BY <1>1, <1>10, WriteBuiltConfigIs, OneDirTyped DEF TypeInv
<1> QED
  BY <1>1, <1>2, <1>3, <1>4, <1>5, <1>6, <1>7, <1>8, <1>9, <1>10, StepIs

LEMMA TypeStep == TypeInv /\ [Next]_vars => TypeInv'
<1> SUFFICES ASSUME TypeInv, [Next]_vars PROVE TypeInv'
  OBVIOUS
<1>1. CASE UNCHANGED vars
  BY <1>1 DEF vars, TypeInv
<1>2. CASE Crash
  <2>1. faults' \in 0..MaxFaults
    BY <1>2, ImageAssumption DEF TypeInv, Crash, Fault
  <2>2. \A s \in Procs : PlaceInv(proc'[s])
    BY <1>2, IdlePlace DEF Crash
  <2>3. DOMAIN proc' = Procs /\ UNCHANGED <<ilm, bundle, requests>>
    BY <1>2 DEF Crash
  <2>4. spoilt' \subseteq Dirs
    BY <1>2 DEF Crash, TypeInv
  <2> QED BY <2>1, <2>2, <2>3, <2>4 DEF TypeInv
<1>3. CASE Done
  BY <1>1, <1>3 DEF Done
<1> QED
  BY <1>1, <1>2, <1>3, RequestTyped DEF Next

\* At every step of every request: the index names directories, a request that
\* writes or removes files has a directory, a build has a name that parseImageRef
\* gives, a pull counts the blobs and the layers of its version, every tree is
\* one of the contents that the registry, COPY and RUN bring, in which what is
\* there is in directories, half copied or half removed as it may be, and a
\* directory that is not there has neither blobs nor a configuration.
THEOREM TypeInvariant == Spec => []TypeInv
BY TypeInit, TypeStep, PTL DEF Spec

\* The types of the whole state: what TypeInv says, and of what a build holds and
\* flags, what BuildInv says.
THEOREM ImageTyped == Spec => []TypeOK
<1>1. TypeInv /\ BuildInv => TypeOK
  <2> SUFFICES ASSUME TypeInv, BuildInv PROVE TypeOK
    OBVIOUS
  <2>1. \A d \in Dirs : /\ bundle[d].there \in BOOLEAN /\ bundle[d].manifest \in BOOLEAN
                        /\ \A b \in bundle[d].blobs : b[1] \in Versions /\ b[2] \in 0..Len(LayersOf[b[1]])
                        /\ bundle[d].config = None \/ bundle[d].config \in Trees
                        /\ bundle[d].rootfs \in Trees
    BY TreeIs DEF TypeInv, BundleInv
  <2>2. \A r \in Procs : proc[r].pc \in Pcs /\ proc[r].dir \in Dirs \cup {None} /\ proc[r].tree \in Trees
    BY TreeIs DEF TypeInv, PlaceInv
  <2>3. \A r \in Procs : proc[r].flags \subseteq proc[r].held /\ proc[r].held \subseteq Things
    BY DEF BuildInv, RequestInv, HeldInv
  <2>4. /\ ilm \in [Images -> Dirs \cup {None}] /\ spoilt \subseteq Dirs
        /\ requests \in 0..MaxRequests /\ faults \in 0..MaxFaults
    BY DEF TypeInv
  <2> QED BY <2>1, <2>2, <2>3, <2>4 DEF TypeOK
<1> QED
  BY <1>1, TypeInvariant, BuildInvariant, PTL

-----------------------------------------------------------------------------
\* What a writer has still to do to a path.
Writes(q, d) == q.dir = d /\ q.pc \in WritingPcs

ContentOf(q) ==
    CASE q.pc \in RemovingPcs -> <<"removed">>
      [] q.pc \in BuiltPcs -> <<"built", q.tree>>
      [] OTHER -> <<"pulled", Meaning(q.version)>>

Owes(q, p) ==
    \/ q.pc \in RemovingPcs \cup {"copy rest", "built config"}
    \/ q.pc = "layers" /\ \E j \in q.k..Len(LayersOf[q.version]) : Touches(LayersOf[q.version][j], p)

Agree(ps, d) == \A r, s \in Procs : Writes(ps[r], d) /\ Writes(ps[s], d) => ContentOf(ps[r]) = ContentOf(ps[s])

ConfigOfWriters(b, ps, d) ==
    \A r \in Procs : Writes(ps[r], d) /\ ps[r].pc \in {"layers", "index", "built index"} =>
        b.config \in {None, ContentOf(ps[r])[2]}

TreeOfConfig(b, ps, d) ==
    b.config # None => \A p \in Paths : b.config[p] # Nothing =>
        b.rootfs[p] = b.config[p] \/ \E r \in Procs : Writes(ps[r], d) /\ Owes(ps[r], p)

\* What a build has copied of its tree.
HasCopied(q, p) == q.pc = "built config" \/ (q.pc = "copy rest" /\ p # q.at)

TreeOfBuild(b, ps, d) ==
    \A r \in Procs : Writes(ps[r], d) => \A p \in Paths : HasCopied(ps[r], p) /\ ps[r].tree[p] # Nothing =>
        b.rootfs[p] = ps[r].tree[p]

DirInv(b, ps, d) == Agree(ps, d) /\ ConfigOfWriters(b, ps, d) /\ TreeOfConfig(b, ps, d) /\ TreeOfBuild(b, ps, d)

FilesInv == \A d \in Dirs : d \notin spoilt => DirInv(bundle[d], proc, d)

LEMMA WritersAre ==
    ASSUME NEW r, NEW d
    PROVE  (Writing(r, d) <=> Writes(proc[r], d)) /\ Content(r) = ContentOf(proc[r])
BY DEF Writing, Writes, Content, ContentOf, WritingPcs, BuiltPcs, RemovingPcs

\* Contents of different kinds differ.
LEMMA TagsAre ==
    ASSUME NEW q
    PROVE  /\ q.pc \in RemovingPcs => ContentOf(q) = <<"removed">> /\ ContentOf(q)[1] = "removed"
           /\ q.pc \in BuiltPcs => ContentOf(q)[1] = "built" /\ ContentOf(q)[2] = q.tree
           /\ q.pc \in {"blobs", "config", "layers", "index"} =>
                  ContentOf(q)[1] = "pulled" /\ ContentOf(q)[2] = Meaning(q.version)
BY DEF ContentOf, RemovingPcs, BuiltPcs

LEMMA KindsAre ==
    ASSUME NEW q, NEW d, Writes(q, d)
    PROVE  q.pc \in RemovingPcs \/ q.pc \in BuiltPcs \/ q.pc \in {"blobs", "config", "layers", "index"}
BY DEF Writes, WritingPcs, RemovingPcs, BuiltPcs

\* Requests that stop writing a directory without owing it anything.
LEMMA FewerWriters ==
    ASSUME NEW b, NEW ps, NEW qs, NEW d, DirInv(b, ps, d),
           \A s \in Procs : Writes(qs[s], d) => qs[s] = ps[s],
           \A s \in Procs : Writes(ps[s], d) /\ ~Writes(qs[s], d) => b.config = None \/ \A p \in Paths : ~Owes(ps[s], p)
    PROVE  DirInv(b, qs, d)
<1>1. Agree(qs, d)
  BY DEF DirInv, Agree
<1>2. ConfigOfWriters(b, qs, d)
  BY DEF DirInv, ConfigOfWriters
<1>3. TreeOfBuild(b, qs, d)
  BY DEF DirInv, TreeOfBuild
<1>4. ASSUME b.config # None, NEW p \in Paths, b.config[p] # Nothing
      PROVE  b.rootfs[p] = b.config[p] \/ \E s \in Procs : Writes(qs[s], d) /\ Owes(qs[s], p)
  <2>1. CASE b.rootfs[p] # b.config[p]
    <3>1. PICK s \in Procs : Writes(ps[s], d) /\ Owes(ps[s], p)
      BY <1>4, <2>1 DEF DirInv, TreeOfConfig
    <3>2. Writes(qs[s], d)
      BY <1>4, <3>1
    <3>3. qs[s] = ps[s]
      BY <3>2
    <3> QED BY <3>1, <3>2, <3>3
  <2> QED BY <2>1
<1>5. TreeOfConfig(b, qs, d)
  BY <1>4 DEF TreeOfConfig
<1> QED
  BY <1>1, <1>2, <1>3, <1>5 DEF DirInv

\* A step of one request that changes one directory, which is the only one that
\* the request writes before or after it.
LEMMA OneDirFiles ==
    ASSUME FilesInv, NEW r \in Procs, Only(r), NEW d \in Dirs, OnlyDir(d), spoilt \subseteq spoilt' \cup {d},
           \A e : e # d => ~Writes(proc[r], e) /\ ~Writes(proc'[r], e),
           d \notin spoilt' => DirInv(bundle'[d], proc', d)
    PROVE  FilesInv'
<1>1. ASSUME NEW e \in Dirs, e # d, e \notin spoilt' PROVE DirInv(bundle'[e], proc', e)
  <2>1. DirInv(bundle[e], proc, e) /\ bundle'[e] = bundle[e]
    BY <1>1 DEF FilesInv, OnlyDir
  <2>2. \A s \in Procs : (Writes(proc'[s], e) => proc'[s] = proc[s]) /\ (Writes(proc[s], e) => Writes(proc'[s], e))
    BY <1>1 DEF Only
  <2> DEFINE b == bundle[e]
             qs == proc'
  <2>3. DirInv(b, proc, e) /\ \A s \in Procs : (Writes(qs[s], e) => qs[s] = proc[s]) /\ (Writes(proc[s], e) => Writes(qs[s], e))
    BY <2>1, <2>2
  <2> HIDE DEF b, qs
  <2>4. DirInv(b, qs, e)
    BY <2>3, FewerWriters
  <2> QED BY <2>1, <2>4 DEF b, qs
<1> QED
  BY <1>1 DEF FilesInv

LEMMA RestFiles ==
    ASSUME TypeInv, FilesInv, NEW r \in Procs, Rest(r)
    PROVE  FilesInv'
<1>1. ASSUME NEW d \in Dirs, d \notin spoilt' PROVE DirInv(bundle'[d], proc', d)
  <2> DEFINE b == bundle[d]
             qs == proc'
  <2>1. d \notin spoilt /\ DirInv(b, proc, d) /\ bundle'[d] = b
    BY <1>1 DEF FilesInv, Rest
  <2>2. \A s \in Procs : (Writes(qs[s], d) => qs[s] = proc[s]) /\ (Writes(proc[s], d) /\ ~Writes(qs[s], d) => s = r)
    BY DEF Rest, Only, Writes
  <2>3. Writes(proc[r], d) => b.config = None \/ \A p \in Paths : ~Owes(proc[r], p)
    <3>1. SUFFICES ASSUME Writes(proc[r], d) PROVE b.config = None \/ \A p \in Paths : ~Owes(proc[r], p)
      OBVIOUS
    <3>2. proc[r].pc \in {"index", "built index"} \/ ~b.there
      BY <1>1, <3>1 DEF Rest, Writes
    <3>3. ~b.there => b.config = None
      BY DEF TypeInv, BundleInv
    <3> QED BY <3>2, <3>3 DEF Owes, RemovingPcs
  <2> HIDE DEF b, qs
  <2>4. DirInv(b, qs, d)
    BY <2>1, <2>2, <2>3, FewerWriters
  <2> QED BY <2>1, <2>4 DEF qs
<1> QED
  BY <1>1 DEF FilesInv

\* A directory that requests do nothing but remove.
LEMMA RemoversFiles ==
    ASSUME NEW b, NEW ps, NEW d, \A s \in Procs : Writes(ps[s], d) => ps[s].pc \in RemovingPcs,
           b.config = None \/ \E s \in Procs : Writes(ps[s], d)
    PROVE  DirInv(b, ps, d)
<1>1. Agree(ps, d)
  BY TagsAre DEF Agree
<1>2. ConfigOfWriters(b, ps, d)
  BY DEF ConfigOfWriters, RemovingPcs
<1>3. TreeOfConfig(b, ps, d)
  BY DEF TreeOfConfig, Owes
<1>4. TreeOfBuild(b, ps, d)
  BY DEF TreeOfBuild, HasCopied, RemovingPcs
<1> QED
  BY <1>1, <1>2, <1>3, <1>4 DEF DirInv

LEMMA RemovesFiles ==
    ASSUME TypeInv, FilesInv, NEW r \in Procs, Begins(r) \/ Clears(r)
    PROVE  FilesInv'
<1> DEFINE d == proc[r].dir
           qs == proc'
<1>1. /\ d \in Dirs /\ OnlyDir(d) /\ spoilt \subseteq spoilt' \cup {d} /\ Only(r)
      /\ Clears(r) /\ d \notin spoilt' => bundle'[d] = NoBundle
  BY RemovalIs DEF Begins, Clears
<1>2. \A e : e # d => ~Writes(proc[r], e) /\ ~Writes(qs[r], e)
  BY DEF Begins, Clears, Writes
<1>3. ASSUME d \notin spoilt' PROVE DirInv(bundle'[d], qs, d)
  <2>1. ASSUME NEW s \in Procs, s # r, Writes(proc[s], d) PROVE proc[s].pc \in RemovingPcs
    <3>1. ContentOf(proc[s])[1] = "removed"
      <4>1. CASE Begins(r)
        <5>1. Writing(s, d)
          BY <2>1, WritersAre
        <5>2. Mix(r, d, <<"removed">>)
          BY <2>1, <4>1, <5>1 DEF Begins, RemovalBegins
        <5>3. Content(s) = <<"removed">>
          BY <1>3, <2>1, <5>1, <5>2 DEF Mix
        <5> QED BY <5>3, WritersAre
      <4>2. CASE Clears(r)
        <5>1. Agree(proc, d) /\ Writes(proc[r], d) /\ proc[r].pc \in RemovingPcs
          BY <1>1, <1>3, <4>2 DEF Clears, RemovalEnds, FilesInv, DirInv, Writes, WritingPcs, RemovingPcs
        <5>2. ContentOf(proc[s]) = ContentOf(proc[r])
          BY <2>1, <5>1 DEF Agree
        <5> QED BY <5>1, <5>2, TagsAre
      <4> QED BY <4>1, <4>2
    <3> QED BY <2>1, <3>1, TagsAre, KindsAre
  <2>2. \A s \in Procs : Writes(qs[s], d) => qs[s].pc \in RemovingPcs
    <3>1. Writes(qs[r], d) => qs[r].pc \in RemovingPcs
      BY DEF Begins, Clears, Writes
    <3> QED BY <1>1, <2>1, <3>1 DEF Only
  <2>3. bundle'[d].config = None \/ \E s \in Procs : Writes(qs[s], d)
    <3>1. CASE Begins(r)
      <4>1. Writes(qs[r], d)
        BY <3>1 DEF Begins, Writes, WritingPcs, RemovingPcs
      <4> QED BY <4>1
    <3>2. CASE Clears(r)
      BY <1>1, <1>3, <3>2 DEF NoBundle
    <3> QED BY <3>1, <3>2
  <2> DEFINE b == bundle'[d]
  <2>4. b.config = None \/ \E s \in Procs : Writes(qs[s], d)
    BY <2>3
  <2> HIDE DEF b, qs, d
  <2>5. DirInv(b, qs, d)
    BY <2>2, <2>4, RemoversFiles
  <2> QED BY <2>5 DEF b
<1> HIDE DEF d
<1> QED
  BY <1>1, <1>2, <1>3, OneDirFiles

\* The writers of a directory agree after a step of one of them.
LEMMA AgreeWith ==
    ASSUME NEW ps, NEW qs, NEW d, Agree(ps, d), NEW r \in Procs, \A s \in Procs \ {r} : qs[s] = ps[s],
           \A s \in Procs \ {r} : Writes(ps[s], d) => ContentOf(ps[s]) = ContentOf(qs[r])
    PROVE  Agree(qs, d)
BY DEF Agree

LEMMA MixAgrees ==
    ASSUME NEW r, NEW d, NEW content, Mix(r, d, content), d \notin spoilt'
    PROVE  d \notin spoilt /\ \A s \in Procs \ {r} : Writes(proc[s], d) => ContentOf(proc[s]) = content
<1>1. ~\E s \in Procs \ {r} : Writing(s, d) /\ Content(s) # content
  BY DEF Mix
<1>2. d \notin spoilt
  BY <1>1 DEF Mix
<1> QED
  BY <1>1, <1>2, WritersAre

LEMMA SpoiltGrows ==
    ASSUME NEW r, NEW d, NEW content, Mix(r, d, content)
    PROVE  spoilt \subseteq spoilt'
BY DEF Mix

\* A pull up to its configuration: it owes nothing yet.
LEMMA EarlyFiles ==
    ASSUME NEW ps, NEW qs, NEW d, NEW b, NEW c,
           c.config = b.config, c.rootfs = b.rootfs, DirInv(b, ps, d),
           NEW r \in Procs, \A s \in Procs \ {r} : qs[s] = ps[s],
           ps[r].pc \in {"pull", "manifest", "blobs"}, qs[r].pc \in {"manifest", "blobs", "config"},
           Writes(qs[r], d) => \A s \in Procs \ {r} : Writes(ps[s], d) => ContentOf(ps[s]) = ContentOf(qs[r])
    PROVE  DirInv(c, qs, d)
<1>1. Agree(qs, d)
  <2>1. CASE Writes(qs[r], d)
    BY <2>1, AgreeWith DEF DirInv
  <2>2. CASE ~Writes(qs[r], d)
    BY <2>2 DEF DirInv, Agree
  <2> QED BY <2>1, <2>2
<1>2. ConfigOfWriters(c, qs, d)
  <2>1. ASSUME NEW s \in Procs, Writes(qs[s], d), qs[s].pc \in {"layers", "index", "built index"}
        PROVE  c.config \in {None, ContentOf(qs[s])[2]}
    <3>1. s # r
      BY <2>1
    <3> QED BY <2>1, <3>1 DEF DirInv, ConfigOfWriters
  <2> QED BY <2>1 DEF ConfigOfWriters
<1>3. TreeOfConfig(c, qs, d)
  <2>1. ASSUME c.config # None, NEW p \in Paths, c.config[p] # Nothing, c.rootfs[p] # c.config[p]
        PROVE  \E s \in Procs : Writes(qs[s], d) /\ Owes(qs[s], p)
    <3>1. PICK s \in Procs : Writes(ps[s], d) /\ Owes(ps[s], p)
      BY <2>1 DEF DirInv, TreeOfConfig
    <3>2. s # r
      BY <3>1 DEF Owes, RemovingPcs
    <3> QED BY <3>1, <3>2
  <2> QED BY <2>1 DEF TreeOfConfig
<1>4. TreeOfBuild(c, qs, d)
  <2>1. ASSUME NEW s \in Procs, Writes(qs[s], d), NEW p \in Paths, HasCopied(qs[s], p), qs[s].tree[p] # Nothing
        PROVE  c.rootfs[p] = qs[s].tree[p]
    <3>1. s # r
      BY <2>1 DEF HasCopied
    <3> QED BY <2>1, <3>1 DEF DirInv, TreeOfBuild
  <2> QED BY <2>1 DEF TreeOfBuild
<1> QED
  BY <1>1, <1>2, <1>3, <1>4 DEF DirInv

LEMMA EarlyPull ==
    ASSUME TypeInv, FilesInv, NEW r \in Procs,
           createOutputDirectory(r) \/ fetchManifest(r) \/ downloadBlobVerified(r)
    PROVE  FilesInv'
<1> DEFINE d == IF proc[r].pc = "pull" THEN PullDir[Pulled(r)] ELSE proc[r].dir
           qs == proc'
<1>1. /\ d \in Dirs /\ Only(r) /\ OnlyDir(d) /\ spoilt \subseteq spoilt'
      /\ proc[r].pc \in {"pull", "manifest", "blobs"} /\ proc'[r].pc \in {"manifest", "blobs", "config"}
      /\ bundle'[d].config = bundle[d].config /\ bundle'[d].rootfs = bundle[d].rootfs
      /\ \A e : e # d => ~Writes(proc[r], e) /\ ~Writes(proc'[r], e)
      /\ d \notin spoilt' =>
            (Writes(qs[r], d) => \A s \in Procs \ {r} : Writes(proc[s], d) => ContentOf(proc[s]) = ContentOf(qs[r]))
  <2>1. CASE createOutputDirectory(r)
    <3>1. proc[r].pc = "pull" /\ proc'[r].pc = "manifest"
      BY <2>1, createOutputDirectoryIs
    <3>2. d = PullDir[Pulled(r)]
      BY <3>1
    <3> HIDE DEF d
    <3> QED BY <2>1, <3>1, <3>2, createOutputDirectoryIs DEF Writes, WritingPcs
  <2>2. CASE fetchManifest(r)
    <3>1. proc[r].pc = "manifest" /\ proc'[r].pc = "blobs" /\ proc'[r].dir = proc[r].dir
          /\ Mix(r, proc[r].dir, <<"pulled", Meaning(proc'[r].version)>>)
      BY <2>2, fetchManifestIs
    <3>2. d = proc[r].dir /\ ContentOf(proc'[r]) = <<"pulled", Meaning(proc'[r].version)>>
      BY <3>1 DEF ContentOf, RemovingPcs, BuiltPcs
    <3> HIDE DEF d
    <3>3. /\ spoilt \subseteq spoilt'
          /\ d \notin spoilt' => \A s \in Procs \ {r} : Writes(proc[s], d) => ContentOf(proc[s]) = ContentOf(proc'[r])
      BY <3>1, <3>2, MixAgrees, SpoiltGrows
    <3> QED BY <2>2, <3>1, <3>2, <3>3, fetchManifestIs DEF Writes, WritingPcs
  <2>3. CASE downloadBlobVerified(r)
    <3>1. proc[r].pc = "blobs" /\ proc'[r].pc \in {"blobs", "config"} /\ proc'[r].dir = proc[r].dir
          /\ proc'[r].version = proc[r].version /\ UNCHANGED spoilt
      BY <2>3, downloadIs
    <3>2. d = proc[r].dir /\ ContentOf(proc'[r]) = ContentOf(proc[r]) /\ Writes(proc[r], d)
      BY <3>1 DEF ContentOf, RemovingPcs, BuiltPcs, Writes, WritingPcs
    <3>4. d \in Dirs
      BY <2>3, <3>2, downloadIs
    <3> HIDE DEF d
    <3>3. d \notin spoilt' => \A s \in Procs \ {r} : Writes(proc[s], d) => ContentOf(proc[s]) = ContentOf(proc'[r])
      BY <3>1, <3>2, <3>4 DEF FilesInv, DirInv, Agree
    <3> QED BY <2>3, <3>1, <3>2, <3>3, downloadIs DEF Writes
  <2> QED BY <2>1, <2>2, <2>3
<1> DEFINE c == bundle'[d]
<1>2. ASSUME d \notin spoilt' PROVE DirInv(c, qs, d)
  <2>1. DirInv(bundle[d], proc, d)
    BY <1>1, <1>2 DEF FilesInv
  <2>3. \A s \in Procs \ {r} : qs[s] = proc[s]
    BY <1>1 DEF Only
  <2>4. c.config = bundle[d].config /\ c.rootfs = bundle[d].rootfs /\ qs[r].pc \in {"manifest", "blobs", "config"}
    BY <1>1
  <2> HIDE DEF c, d, qs
  <2> QED BY <1>1, <1>2, <2>1, <2>3, <2>4, EarlyFiles
<1>3. d \notin spoilt' => DirInv(bundle'[d], proc', d)
  BY <1>2
<1> HIDE DEF d
<1> QED
  BY <1>1, <1>3, OneDirFiles

LEMMA CopyConfigFiles ==
    ASSUME TypeInv, FilesInv, NEW r \in Procs, CopyConfig(r)
    PROVE  FilesInv'
<1> DEFINE d == proc[r].dir
           v == proc[r].version
           qs == proc'
           b == bundle[d]
           c == bundle'[d]
<1>1. /\ d \in Dirs /\ UNCHANGED spoilt /\ v \in Versions
      /\ proc[r].pc = "config" /\ Only(r) /\ qs[r].pc = "layers" /\ qs[r].k = 1
      /\ qs[r].dir = d /\ qs[r].version = v /\ OnlyDir(d) /\ c.config = Meaning(v) /\ c.rootfs = b.rootfs
  BY CopyConfigIs
<1>2. /\ Writes(proc[r], d) /\ Writes(qs[r], d) /\ ContentOf(proc[r]) = ContentOf(qs[r]) /\ ContentOf(qs[r])[2] = Meaning(v)
      /\ \A e : e # d => ~Writes(proc[r], e) /\ ~Writes(qs[r], e)
  BY <1>1 DEF Writes, WritingPcs, ContentOf, RemovingPcs, BuiltPcs
<1>3. ASSUME d \notin spoilt' PROVE DirInv(c, qs, d)
  <2>1. Agree(proc, d) /\ TreeOfBuild(b, proc, d)
    BY <1>1, <1>3 DEF FilesInv, DirInv
  <2>2. \A s \in Procs \ {r} : qs[s] = proc[s]
    BY <1>1 DEF Only
  <2> HIDE DEF b, c, d, qs, v
  <2>3. Agree(qs, d)
    <3>1. \A s \in Procs \ {r} : Writes(proc[s], d) => ContentOf(proc[s]) = ContentOf(qs[r])
      BY <1>2, <2>1 DEF Agree
    <3> QED BY <2>1, <2>2, <3>1, AgreeWith
  <2>4. ConfigOfWriters(c, qs, d)
    BY <1>1, <1>2, <2>3 DEF Agree, ConfigOfWriters
  <2>5. ASSUME NEW p \in Paths, c.config[p] # Nothing PROVE Owes(qs[r], p)
    <3>1. \E j \in 1..Len(LayersOf[v]) : Touches(LayersOf[v][j], p)
      BY <1>1, <2>5, ThereIsTouched
    <3> QED BY <1>1, <3>1 DEF Owes
  <2>6. TreeOfConfig(c, qs, d)
    BY <1>2, <2>5 DEF TreeOfConfig
  <2>7. TreeOfBuild(c, qs, d)
    <3>1. ASSUME NEW s \in Procs, Writes(qs[s], d), NEW p \in Paths, HasCopied(qs[s], p), qs[s].tree[p] # Nothing
          PROVE  c.rootfs[p] = qs[s].tree[p]
      <4>1. s # r
        BY <1>1, <3>1 DEF HasCopied
      <4> QED BY <1>1, <2>1, <2>2, <3>1, <4>1 DEF TreeOfBuild
    <3> QED BY <3>1 DEF TreeOfBuild
  <2> QED BY <2>3, <2>4, <2>6, <2>7 DEF DirInv
<1>4. d \notin spoilt' => DirInv(bundle'[d], proc', d)
  BY <1>3
<1> HIDE DEF d
<1> QED
  BY <1>1, <1>2, <1>4, OneDirFiles

LEMMA applyLayersFiles ==
    ASSUME TypeInv, FilesInv, NEW r \in Procs, applyLayers(r)
    PROVE  FilesInv'
<1> DEFINE d == proc[r].dir
           v == proc[r].version
           k == proc[r].k
           N == Len(LayersOf[v])
           b == bundle[d]
           qs == proc'
           c == bundle'[d]
<1>1. /\ d \in Dirs /\ UNCHANGED spoilt /\ v \in Versions /\ k \in 1..N
      /\ proc[r].pc = "layers" /\ Only(r) /\ qs[r].pc \in {"layers", "index"}
      /\ qs[r].pc = "layers" => k # N /\ qs[r].k = k + 1
      /\ qs[r].pc = "index" => k = N
      /\ qs[r].dir = d /\ qs[r].version = v /\ OnlyDir(d)
      /\ c.config = b.config /\ c.rootfs = Overlay(b.rootfs, LayersOf[v][k])
  BY applyLayersIs
<1>2. /\ Writes(proc[r], d) /\ Writes(qs[r], d) /\ ContentOf(proc[r]) = ContentOf(qs[r])
      /\ ContentOf(qs[r])[1] = "pulled" /\ ContentOf(qs[r])[2] = Meaning(v)
      /\ \A e : e # d => ~Writes(proc[r], e) /\ ~Writes(qs[r], e)
  BY <1>1 DEF Writes, WritingPcs, ContentOf, RemovingPcs, BuiltPcs
<1>0. N \in Nat
  BY <1>1, VersionIsSeq
<1>3. ASSUME d \notin spoilt' PROVE DirInv(c, qs, d)
  <2>1. DirInv(b, proc, d)
    BY <1>1, <1>3 DEF FilesInv
  <2>2. \A s \in Procs \ {r} : qs[s] = proc[s]
    BY <1>1 DEF Only
  <2>0. k = proc[r].k /\ v = proc[r].version /\ N = Len(LayersOf[v])
    OBVIOUS
  <2> HIDE DEF b, c, d, qs, v, k, N
  <2>3. Agree(qs, d)
    <3>1. \A s \in Procs \ {r} : Writes(proc[s], d) => ContentOf(proc[s]) = ContentOf(qs[r])
      BY <1>2, <2>1 DEF Agree, DirInv
    <3> QED BY <2>1, <2>2, <3>1, AgreeWith DEF DirInv
  <2>4. b.config \in {None, Meaning(v)}
    BY <1>1, <1>2, <2>1 DEF DirInv, ConfigOfWriters
  <2>5. ConfigOfWriters(c, qs, d)
    BY <1>1, <1>2, <2>3, <2>4 DEF Agree, ConfigOfWriters
  <2>6. ASSUME c.config # None, NEW p \in Paths, c.config[p] # Nothing
        PROVE  c.rootfs[p] = c.config[p] \/ \E s \in Procs : Writes(qs[s], d) /\ Owes(qs[s], p)
    <3>1. b.config # None /\ b.config = Meaning(v) /\ b.config[p] # Nothing
      BY <1>1, <2>4, <2>6
    <3>2. CASE \E j \in (k + 1)..N : Touches(LayersOf[v][j], p)
      <4>1. k # N
        BY <1>0, <1>1, <3>2
      <4>2. qs[r].pc = "layers" /\ qs[r].k = k + 1
        BY <1>1, <4>1
      <4>3. Owes(qs[r], p)
        BY <1>1, <2>0, <3>2, <4>2 DEF Owes
      <4> QED BY <1>2, <4>3
    <3>3. CASE ~(\E j \in (k + 1)..N : Touches(LayersOf[v][j], p)) /\ Touches(LayersOf[v][k], p)
      <4>1. Overlay(b.rootfs, LayersOf[v][k])[p] = Meaning(v)[p]
        <5>1. v \in Versions /\ k \in 1..Len(LayersOf[v]) /\ Touches(LayersOf[v][k], p)
          BY <1>1, <2>0, <3>3
        <5>2. \A j \in (k + 1)..Len(LayersOf[v]) : ~Touches(LayersOf[v][j], p)
          BY <2>0, <3>3
        <5> QED BY <5>1, <5>2, LastTouch
      <4> QED BY <1>1, <3>1, <4>1
    <3>4. CASE ~(\E j \in (k + 1)..N : Touches(LayersOf[v][j], p)) /\ ~Touches(LayersOf[v][k], p)
      <4>1. c.rootfs[p] = b.rootfs[p]
        BY <1>1, <3>4, UntouchedStays
      <4>2. ~Owes(proc[r], p)
        <5>1. \A j \in k..N : j = k \/ j \in (k + 1)..N
          BY <1>0, <1>1
        <5>2. ~\E j \in k..N : Touches(LayersOf[v][j], p)
          BY <3>4, <5>1
        <5> QED BY <1>1, <2>0, <5>2 DEF Owes, RemovingPcs
      <4>3. CASE b.rootfs[p] # b.config[p]
        <5>1. PICK s \in Procs : Writes(proc[s], d) /\ Owes(proc[s], p)
          BY <2>1, <3>1, <4>3 DEF DirInv, TreeOfConfig
        <5>2. s # r
          BY <4>2, <5>1
        <5> QED BY <2>2, <5>1, <5>2
      <4> QED BY <1>1, <4>1, <4>3
    <3> QED BY <3>2, <3>3, <3>4
  <2>7. TreeOfConfig(c, qs, d)
    BY <2>6 DEF TreeOfConfig
  <2>8. TreeOfBuild(c, qs, d)
    <3>1. ASSUME NEW s \in Procs, Writes(qs[s], d) PROVE qs[s].pc \notin BuiltPcs
      <4>1. ContentOf(qs[s]) = ContentOf(qs[r])
        BY <1>2, <2>3, <3>1 DEF Agree
      <4> QED BY <1>2, <4>1, TagsAre
    <3> QED BY <3>1 DEF TreeOfBuild, HasCopied, BuiltPcs
  <2> QED BY <2>3, <2>5, <2>7, <2>8 DEF DirInv
<1>4. d \notin spoilt' => DirInv(bundle'[d], proc', d)
  BY <1>3
<1> HIDE DEF d
<1> QED
  BY <1>1, <1>2, <1>4, OneDirFiles

LEMMA CopyBuiltFiles ==
    ASSUME TypeInv, FilesInv, NEW r \in Procs, Adds(r)
    PROVE  FilesInv'
<1> DEFINE d == proc[r].dir
           t == proc[r].tree
           b == bundle[d]
           qs == proc'
           c == bundle'[d]
<1>1. /\ d \in Dirs /\ Only(r) /\ qs[r].dir = d /\ qs[r].tree = t /\ Mix(r, d, <<"built", t>>)
      /\ \/ proc[r].pc = "copy" /\ qs[r].pc = "copy rest"
         \/ proc[r].pc = "copy rest" /\ qs[r].pc = "built config"
      /\ OnlyDir(d) /\ c.config = b.config
      /\ \A p \in Paths : t[p] # Nothing =>
            /\ c.rootfs[p] \in {b.rootfs[p], t[p]}
            /\ qs[r].pc = "copy rest" /\ p # qs[r].at => c.rootfs[p] = t[p]
            /\ qs[r].pc = "built config" /\ p = proc[r].at => c.rootfs[p] = t[p]
  BY DEF Adds
<1>2. /\ Writes(qs[r], d) /\ ContentOf(qs[r]) = <<"built", t>>
      /\ \A e : e # d => ~Writes(proc[r], e) /\ ~Writes(qs[r], e)
  BY <1>1 DEF Writes, WritingPcs, ContentOf, BuiltPcs, RemovingPcs
<1>0. spoilt \subseteq spoilt'
  BY <1>1, SpoiltGrows
<1>3. ASSUME d \notin spoilt' PROVE DirInv(c, qs, d)
  <2>0. \A s \in Procs \ {r} : Writes(proc[s], d) => ContentOf(proc[s]) = <<"built", t>>
    BY <1>1, <1>3, MixAgrees
  <2>1. DirInv(b, proc, d)
    BY <1>0, <1>1, <1>3 DEF FilesInv
  <2>2. \A s \in Procs \ {r} : qs[s] = proc[s]
    BY <1>1 DEF Only
  <2>7. t = proc[r].tree /\ d = proc[r].dir
    OBVIOUS
  <2> HIDE DEF b, c, d, qs, t
  <2>3. Agree(qs, d)
    BY <1>2, <2>0, <2>1, <2>2, AgreeWith DEF DirInv
  <2>4. ConfigOfWriters(c, qs, d)
    <3>1. ASSUME NEW s \in Procs, Writes(qs[s], d), qs[s].pc \in {"layers", "index", "built index"}
          PROVE  c.config \in {None, ContentOf(qs[s])[2]}
      <4>1. s # r
        BY <1>1, <3>1
      <4> QED BY <1>1, <2>1, <2>2, <3>1, <4>1 DEF DirInv, ConfigOfWriters
    <3> QED BY <3>1 DEF ConfigOfWriters
  <2>5. TreeOfConfig(c, qs, d)
    BY <1>1, <1>2 DEF TreeOfConfig, Owes
  <2>6. TreeOfBuild(c, qs, d)
    <3>1. ASSUME NEW s \in Procs, Writes(qs[s], d), NEW p \in Paths, HasCopied(qs[s], p), qs[s].tree[p] # Nothing
          PROVE  c.rootfs[p] = qs[s].tree[p]
      <4>1. qs[s].pc \in BuiltPcs
        BY <3>1 DEF HasCopied, BuiltPcs
      <4>2. ContentOf(qs[s]) = <<"built", t>>
        BY <1>2, <2>3, <3>1 DEF Agree
      <4>3. qs[s].tree = t
        BY <4>1, <4>2, TagsAre
      <4>4. c.rootfs[p] \in {b.rootfs[p], t[p]}
        BY <1>1, <3>1, <4>3
      <4>5. CASE s # r
        <5>1. b.rootfs[p] = t[p]
          BY <2>1, <2>2, <3>1, <4>3, <4>5 DEF DirInv, TreeOfBuild
        <5> QED BY <4>3, <4>4, <5>1
      <4>6. CASE s = r /\ qs[r].pc = "copy rest"
        BY <1>1, <3>1, <4>3, <4>6 DEF HasCopied
      <4>7. CASE s = r /\ qs[r].pc = "built config"
        <5>1. proc[r].pc = "copy rest"
          BY <1>1, <4>7
        <5>2. CASE p = proc[r].at
          BY <1>1, <3>1, <4>3, <4>7, <5>2
        <5>3. CASE p # proc[r].at
          <6>1. Writes(proc[r], d) /\ HasCopied(proc[r], p)
            BY <2>7, <5>1, <5>3 DEF Writes, WritingPcs, HasCopied
          <6>2. b.rootfs[p] = t[p]
            BY <2>1, <2>7, <3>1, <4>3, <6>1 DEF DirInv, TreeOfBuild
          <6> QED BY <4>3, <4>4, <6>2
        <5> QED BY <5>2, <5>3
      <4> QED BY <1>1, <4>5, <4>6, <4>7
    <3> QED BY <3>1 DEF TreeOfBuild
  <2> QED BY <2>3, <2>4, <2>5, <2>6 DEF DirInv
<1>4. d \notin spoilt' => DirInv(bundle'[d], proc', d)
  BY <1>3
<1> HIDE DEF d
<1> QED
  BY <1>0, <1>1, <1>2, <1>4, OneDirFiles

LEMMA WriteBuiltConfigFiles ==
    ASSUME TypeInv, FilesInv, NEW r \in Procs, WriteBuiltConfig(r), ~Rest(r)
    PROVE  FilesInv'
<1> DEFINE d == proc[r].dir
           t == proc[r].tree
           b == bundle[d]
           qs == proc'
           c == bundle'[d]
<1>1. /\ d \in Dirs /\ b.there /\ UNCHANGED spoilt
      /\ proc[r].pc = "built config" /\ Only(r) /\ qs[r].pc = "built index" /\ qs[r].dir = d /\ qs[r].tree = t
      /\ OnlyDir(d) /\ c.config = t /\ c.rootfs = b.rootfs
  BY WriteBuiltConfigIs
<1>2. /\ Writes(proc[r], d) /\ Writes(qs[r], d) /\ ContentOf(proc[r]) = ContentOf(qs[r]) /\ ContentOf(qs[r])[2] = t
      /\ \A e : e # d => ~Writes(proc[r], e) /\ ~Writes(qs[r], e)
  BY <1>1 DEF Writes, WritingPcs, ContentOf, RemovingPcs, BuiltPcs
<1>3. ASSUME d \notin spoilt' PROVE DirInv(c, qs, d)
  <2>1. DirInv(b, proc, d)
    BY <1>1, <1>3 DEF FilesInv
  <2>2. \A s \in Procs \ {r} : qs[s] = proc[s]
    BY <1>1 DEF Only
  <2>0. t = proc[r].tree
    OBVIOUS
  <2> HIDE DEF b, c, d, qs, t
  <2>3. Agree(qs, d)
    <3>1. \A s \in Procs \ {r} : Writes(proc[s], d) => ContentOf(proc[s]) = ContentOf(qs[r])
      BY <1>2, <2>1 DEF Agree, DirInv
    <3> QED BY <2>1, <2>2, <3>1, AgreeWith DEF DirInv
  <2>4. ConfigOfWriters(c, qs, d)
    BY <1>1, <1>2, <2>3 DEF Agree, ConfigOfWriters
  <2>5. \A p \in Paths : t[p] # Nothing => b.rootfs[p] = t[p]
    BY <1>1, <1>2, <2>0, <2>1 DEF DirInv, TreeOfBuild, HasCopied
  <2>6. TreeOfConfig(c, qs, d)
    BY <1>1, <2>5 DEF TreeOfConfig
  <2>7. TreeOfBuild(c, qs, d)
    <3>1. ASSUME NEW s \in Procs, Writes(qs[s], d), NEW p \in Paths, HasCopied(qs[s], p), qs[s].tree[p] # Nothing
          PROVE  c.rootfs[p] = qs[s].tree[p]
      <4>1. s # r
        BY <1>1, <3>1 DEF HasCopied
      <4> QED BY <1>1, <2>1, <2>2, <3>1, <4>1 DEF DirInv, TreeOfBuild
    <3> QED BY <3>1 DEF TreeOfBuild
  <2> QED BY <2>3, <2>4, <2>6, <2>7 DEF DirInv
<1>4. d \notin spoilt' => DirInv(bundle'[d], proc', d)
  BY <1>3
<1> HIDE DEF d
<1> QED
  BY <1>1, <1>2, <1>4, OneDirFiles

-----------------------------------------------------------------------------
LEMMA FilesInit == Init => FilesInv
<1> SUFFICES ASSUME Init, NEW d \in Dirs PROVE DirInv(bundle[d], proc, d)
  BY DEF FilesInv
<1>1. \A r \in Procs : ~Writes(proc[r], d)
  BY IdlePlace DEF Init, Writes, WritingPcs
<1>2. NoBundle.config = None
  BY DEF NoBundle
<1>3. bundle[d].config = None \/ bundle[d].rootfs = bundle[d].config
  BY <1>2, InitIs, CompleteIs
<1> QED
  BY <1>1, <1>3 DEF DirInv, Agree, ConfigOfWriters, TreeOfConfig, TreeOfBuild

LEMMA CrashFiles == ASSUME TypeInv, FilesInv, Crash PROVE FilesInv'
<1> SUFFICES ASSUME NEW d \in Dirs, d \notin spoilt' PROVE DirInv(bundle'[d], proc', d)
  BY DEF FilesInv
<1> DEFINE b == bundle[d]
           qs == proc'
<1>1. d \notin spoilt /\ ~\E r \in Procs : Writing(r, d)
  BY DEF Crash
<1>2. DirInv(b, proc, d) /\ bundle'[d] = b
  BY <1>1 DEF FilesInv, Crash
<1>3. \A s \in Procs : ~Writes(proc[s], d) /\ ~Writes(qs[s], d)
  BY <1>1, IdlePlace, WritersAre DEF Crash, Writes, WritingPcs
<1> HIDE DEF b, qs
<1>4. DirInv(b, qs, d)
  BY <1>2, <1>3, FewerWriters
<1> QED
  BY <1>2, <1>4 DEF qs

LEMMA FilesStep == TypeInv /\ FilesInv /\ [Next]_vars => FilesInv'
<1> SUFFICES ASSUME TypeInv, FilesInv, [Next]_vars PROVE FilesInv'
  OBVIOUS
<1>1. CASE Still
  BY <1>1 DEF Still, FilesInv
<1>2. CASE UNCHANGED vars
  BY <1>1, <1>2 DEF vars, Still
<1>3. CASE Crash
  BY <1>3, CrashFiles
<1>4. CASE Done
  BY <1>2, <1>4 DEF Done
<1>5. ASSUME NEW r \in Procs, Step(r) PROVE FilesInv'
  BY <1>1, <1>5, StepIs, RestFiles, RemovesFiles, EarlyPull, CopyConfigFiles, applyLayersFiles, CopyBuiltFiles,
     WriteBuiltConfigFiles
<1> QED
  BY <1>2, <1>3, <1>4, <1>5 DEF Next

\* Every directory that is not spoilt, at every step: the requests that write it
\* write one content, be it that of a pull, of a build, or nothing, as all remove
\* it; the configuration, when it is there, is of that content once a writer is
\* past it; a file of the configuration is in the tree, or a writer that extracts
\* a later layer or has copied a tree still brings it, or a removal under way has
\* taken it; and what copyDir has copied stays, half of it or all, until the
\* configuration is written.  Pulls and builds may share a directory.
THEOREM FilesInvariant == Spec => []FilesInv
BY TypeInvariant, FilesInit, FilesStep, PTL DEF Spec

\* An image that IsImageExist accepts, in a directory that no request is writing or
\* removing and that is not spoilt, has every file of its configuration: however
\* pulls, builds, removals and status requests interleave, half way through a copy
\* or a removal too, whichever calls fail, and whichever names share a directory.
THEOREM ImagesAreUsable == Spec => []UsableImage
<1>1. TypeInv /\ FilesInv => UsableImage
  <2> SUFFICES ASSUME TypeInv, FilesInv, NEW i \in Images, IsImageExist(i), ilm[i] \notin spoilt,
                      ~\E r \in Procs : Writing(r, ilm[i]), NEW p \in Paths, bundle[ilm[i]].config[p] # Nothing
               PROVE  bundle[ilm[i]].rootfs[p] = bundle[ilm[i]].config[p]
    BY DEF UsableImage
  <2>1. ilm[i] \in Dirs /\ bundle[ilm[i]].config # None
    BY DEF TypeInv, IsImageExist
  <2>2. ~\E r \in Procs : Writes(proc[r], ilm[i])
    BY WritersAre
  <2> QED BY <2>1, <2>2 DEF FilesInv, DirInv, TreeOfConfig
<1> QED
  BY <1>1, TypeInvariant, FilesInvariant, PTL

=============================================================================
