------------------------------ MODULE PodProofs ------------------------------
(***************************************************************************)
(* Proofs about pods and their controller, for any number of users, pods,  *)
(* templates, ReplicaSets, requests and deaths: the stores and the calls   *)
(* are well formed, and the controller leaves alone what a user stopped.   *)
(***************************************************************************)
EXTENDS Pod, FiniteSetTheorems, FunctionTheorems, TLAPS

-----------------------------------------------------------------------------
\* The inductive invariant.

SetInfo == [template: TemplateIds, name: BaseNames, Replicas: 0..MaxReplicas]
Listed == [pod: PodIds, info: PodInfo]

\* Steps of a call that work on a pod, and those that make one from a template.
PodSteps == {"remove", "drop", "forget", "start", "infra", "member", "run", "mark", "unflag",
             "stop", "stopped", "flag", "purge", "purge pod"}
MakeSteps == {"template", "lookup", "store", "store set"}
Steps == PodSteps \cup MakeSteps \cup {"idle", "unref", "untemplate", "next pod", "list pods"}

Call == [do: Steps, pod: PodIds \cup {None}, template: TemplateIds \cup {None},
         name: PodNames \cup BaseNames \cup {None}, uid: {"given", "fresh"},
         seen: SUBSET {"infra", "member"}, old: TemplateIds \cup {None},
         then: {"return", "start", "fill", "labels"}, removing: TemplateIds \cup {None},
         rest: SUBSET PodIds, n: 0..MaxReplicas]

\* A call has in hand what its step needs.  One that makes a pod has chosen the
\* name when it looks for pods that have it, and until it stores the pod.
Ready(c) ==
    /\ c.do \in PodSteps => c.pod \in PodIds
    /\ c.do \in MakeSteps => c.template \in TemplateIds
    /\ c.do = "template" => c.name \in PodNames \cup {None}
    /\ c.do = "store set" => c.name \in BaseNames
    /\ c.template # None /\ c.do \notin {"template", "store set", "purge", "purge pod"} =>
          c.name \in PodNames

Phases == {"idle", "templates", "pods", "sets", "grow", "shrink", "check", "walk templates",
           "walk pods"}
Loop == [phase: Phases, sets: SUBSET SetInfo, templates: SUBSET TemplateIds,
         pods: SUBSET Listed, list: SUBSET Listed, doomed: SUBSET Listed,
         set: SetInfo \cup {None}, n: 0..MaxReplicas, slot: Slots \cup {0},
         stopped: PodIds \cup {None}]

\* The controller has one copy of each pod and works on copies of one reading.
OneReading(l) ==
    /\ l.list \subseteq l.pods /\ l.doomed \subseteq l.pods
    /\ l.phase \in {"templates", "pods"} => l.list = {} /\ l.doomed = {} /\ l.stopped = None
    /\ l.phase = "grow" => l.set \in SetInfo
    /\ \A x, y \in l.pods : x.pod = y.pod => x = y
    /\ \A x \in l.pods : x.pod = l.stopped => ~x.info.StoppedByUser

\* The call c was not made for a pod that is stopped in the list l.
Restarts(c) == c.do = "start" \/ (c.do = "purge" /\ c.template # None)
Respects(c, l) ==
    \A x \in l.pods : c.pod = x.pod /\ Restarts(c) => ~x.info.StoppedByUser

CallsOK == call \in [Actors -> Call] /\ \A a \in Actors : Ready(call[a])
LoopOK == ctl \in Loop /\ OneReading(ctl) /\ Respects(call[Controller], ctl)
StoreOK ==
    /\ pods \in [PodIds -> PodInfo \cup {None}]
    /\ templates \in [TemplateIds -> BaseNames \cup {None}]
    /\ sets \in [SetIds -> SetInfo \cup {None}]
BoxesOK ==
    /\ infra \in [PodIds -> ContainerStates \ {"created"}]
    /\ member \in [PodIds -> ContainerStates]
    /\ late \subseteq PodIds
CountsOK == requests \in 0..MaxRequests /\ deaths \in 0..MaxDeaths

PodInv == StoreOK /\ BoxesOK /\ CallsOK /\ LoopOK /\ CountsOK

-----------------------------------------------------------------------------
\* What the assignments do to the record of a call.

Moves(a, c) == c \in Call /\ Ready(c) /\ call' = [call EXCEPT ![a] = c]

LEMMA Bounds ==
    /\ MaxReplicas \in Nat /\ 0 \in 0..MaxReplicas
    /\ None \notin PodIds /\ None \notin TemplateIds /\ None \notin SetIds
    /\ Controller \in Actors /\ Controller \notin Users /\ Users \subseteq Actors
<1>1. MaxReplicas \in Nat
  BY PodAssumption
<1> QED
  BY <1>1, PodAssumption DEF Actors

LEMMA NoCallIs ==
    /\ NoCall \in Call /\ Ready(NoCall) /\ NoCall.do = "idle" /\ NoCall.pod = None
    /\ NoCall.template = None /\ NoCall.name = None /\ NoCall.removing = None /\ NoCall.rest = {}
BY Bounds DEF NoCall, Call, Steps, PodSteps, MakeSteps, Ready

LEMMA AfterIs ==
    ASSUME CallsOK, NEW a \in Actors
    PROVE  After(a) \in Call /\ Ready(After(a)) /\ After(a).do \in {"idle", "next pod"}
<1> DEFINE c == [[[NoCall EXCEPT !.do = "next pod"] EXCEPT !.removing = call[a].removing]
                   EXCEPT !.rest = call[a].rest]
<1>1. call[a].removing \in TemplateIds \cup {None} /\ call[a].rest \in SUBSET PodIds
  BY DEF CallsOK, Call
<1>2. /\ c \in Call /\ c.do = "next pod" /\ c.template = NoCall.template
  BY <1>1, NoCallIs DEF Call, Steps
<1>3. Ready(c)
  BY <1>2, NoCallIs DEF Ready, PodSteps, MakeSteps
<1>4. After(a) = NoCall \/ After(a) = c
  BY DEF After
<1> HIDE DEF c
<1> QED
  BY <1>2, <1>3, <1>4, NoCallIs

LEMMA GotoMoves ==
    ASSUME CallsOK, NEW a \in Actors, NEW step \in Steps, Goto(a, step),
           step \in PodSteps => call[a].pod \in PodIds,
           step \in MakeSteps => call[a].template \in TemplateIds,
           step \notin {"template", "store set"},
           call[a].template # None => call[a].name \in PodNames
    PROVE  \E c : Moves(a, c) /\ c.do = step
<1> DEFINE c == [call[a] EXCEPT !.do = step]
<1>1. call[a] \in Call
  BY DEF CallsOK
<1>2. /\ c \in Call /\ c.do = step /\ c.pod = call[a].pod /\ c.template = call[a].template
      /\ c.name = call[a].name
  BY <1>1 DEF Call
<1>3. call' = [call EXCEPT ![a] = c]
  BY DEF Goto
<1> HIDE DEF c
<1>4. Ready(c)
  BY <1>2 DEF Ready
<1> QED
  BY <1>2, <1>3, <1>4 DEF Moves

\* Only a failing call of the controller touches its loop: it makes no more pods.
LoopKept(a) == ctl' = ctl \/ (a = Controller /\ ctl' = [ctl EXCEPT !.n = 0])

LEMMA FailMoves ==
    ASSUME CallsOK, NEW a \in Actors, Fail(a)
    PROVE  \E c : Moves(a, c) /\ c.do \in {"idle", "next pod", "remove"} /\ LoopKept(a)
<1> DEFINE c == IF call[a].then = "fill" /\ call[a].do \in {"infra", "member"}
                THEN [NoCall EXCEPT !.do = "remove", !.pod = call[a].pod]
                ELSE IF call[a].removing = None THEN NoCall ELSE After(a)
           r == [[NoCall EXCEPT !.do = "remove"] EXCEPT !.pod = call[a].pod]
<1>1. call' = [call EXCEPT ![a] = c] /\ LoopKept(a)
  BY DEF Fail, LoopKept
<1>2. CASE call[a].then = "fill" /\ call[a].do \in {"infra", "member"}
  <2>1. call[a].pod \in PodIds
    BY <1>2 DEF CallsOK, Ready, PodSteps
  <2>2. r \in Call /\ r.do = "remove" /\ r.pod = call[a].pod /\ r.template = NoCall.template
    BY <2>1, NoCallIs DEF Call, Steps, PodSteps
  <2>3. c = r
    BY <1>2
  <2> HIDE DEF r
  <2>4. Ready(r)
    BY <2>1, <2>2, NoCallIs DEF Ready, MakeSteps
  <2> QED
    BY <1>1, <2>2, <2>3, <2>4 DEF Moves
<1>3. CASE ~(call[a].then = "fill" /\ call[a].do \in {"infra", "member"})
  <2>1. c = NoCall \/ c = After(a)
    BY <1>3
  <2> HIDE DEF c
  <2> QED
    BY <1>1, <2>1, AfterIs, NoCallIs DEF Moves
<1> QED
  BY <1>2, <1>3

LEMMA ReturnMoves ==
    ASSUME CallsOK, NEW a \in Actors, Return(a)
    PROVE  \E c : Moves(a, c) /\ c.do \in {"idle", "next pod"} /\ LoopKept(a)
BY AfterIs DEF Return, Moves, LoopKept

\* A step of a call: it restarts no pod that the controller has listed.
Advances(a) ==
    \E c : /\ Moves(a, c) /\ LoopKept(a)
           /\ ~Restarts(c) \/ \A x \in ctl.pods : x.pod # c.pod

LEMMA MovesAdvance ==
    ASSUME NEW a, NEW c, Moves(a, c), LoopKept(a), c.do \notin {"start", "purge"}
    PROVE  Advances(a)
BY DEF Advances, Restarts

LEMMA AdvancesKeeps ==
    ASSUME PodInv, NEW a \in Actors, Advances(a)
    PROVE  CallsOK' /\ LoopOK'
<1>1. PICK c : /\ Moves(a, c) /\ LoopKept(a)
               /\ ~Restarts(c) \/ \A x \in ctl.pods : x.pod # c.pod
  BY DEF Advances
<1>2. CallsOK'
  BY <1>1 DEF PodInv, CallsOK, Moves
<1>3. ctl \in Loop /\ OneReading(ctl) /\ Respects(call[Controller], ctl)
  BY DEF PodInv, LoopOK
<1>4. ctl' \in Loop /\ OneReading(ctl') /\ ctl'.pods = ctl.pods
  <2>1. CASE ctl' = ctl
    BY <1>3, <2>1
  <2>2. CASE ctl' = [ctl EXCEPT !.n = 0]
    <3>1. /\ ctl' \in Loop /\ ctl'.pods = ctl.pods /\ ctl'.list = ctl.list
          /\ ctl'.doomed = ctl.doomed /\ ctl'.phase = ctl.phase /\ ctl'.set = ctl.set
          /\ ctl'.stopped = ctl.stopped
      BY <1>3, <2>2, Bounds DEF Loop
    <3> QED
      BY <1>3, <3>1 DEF OneReading
  <2> QED
    BY <1>1, <2>1, <2>2 DEF LoopKept
<1>5. Respects(call'[Controller], ctl)
  <2>1. CASE a = Controller
    <3>1. call'[Controller] = c
      BY <1>1, <2>1 DEF Moves, PodInv, CallsOK
    <3> QED
      BY <1>1, <3>1 DEF Respects
  <2>2. CASE a # Controller
    <3>1. call'[Controller] = call[Controller]
      BY <1>1, <2>2, Bounds DEF Moves, PodInv, CallsOK
    <3> QED
      BY <1>3, <3>1
  <2> QED
    BY <2>1, <2>2
<1>6. Respects(call'[Controller], ctl')
  BY <1>4, <1>5 DEF Respects
<1> QED
  BY <1>2, <1>4, <1>6 DEF LoopOK

-----------------------------------------------------------------------------
\* The steps of a call.

\* What is known of a call at its step.
LEMMA AtStep ==
    ASSUME CallsOK, NEW a \in Actors
    PROVE  /\ call[a] \in Call /\ Ready(call[a])
           /\ call[a].do \in PodSteps => call[a].pod \in PodIds
           /\ call[a].do \in MakeSteps => call[a].template \in TemplateIds
           /\ call[a].do = "template" => call[a].name \in PodNames \cup {None}
           /\ call[a].template # None
                /\ call[a].do \notin {"template", "store set", "purge", "purge pod"} =>
                 call[a].name \in PodNames
           /\ call[a].old \in TemplateIds \cup {None}
BY DEF CallsOK, Ready, Call

LEMMA GetPodTemplateAdvances ==
    ASSUME PodInv, NEW a \in Actors, GetPodTemplate(a)
    PROVE  Advances(a)
<1>0. CallsOK /\ templates \in [TemplateIds -> BaseNames \cup {None}]
  BY DEF PodInv, StoreOK
<1> DEFINE t == call[a].template
           name == IF call[a].name = None THEN <<templates[t], 0>> ELSE call[a].name
           c == [[call[a] EXCEPT !.do = "lookup"] EXCEPT !.name = name]
<1>1. t \in TemplateIds /\ call[a].name \in PodNames \cup {None} /\ call[a] \in Call
  BY <1>0, AtStep DEF GetPodTemplate, Do, MakeSteps
<1>2. CASE Fail(a)
  BY <1>0, <1>2, FailMoves, MovesAdvance
<1>3. CASE /\ templates[t] # None
           /\ call' = [call EXCEPT ![a].do = "lookup",
                                   ![a].name = IF @ = None THEN <<templates[t], 0>> ELSE @]
           /\ UNCHANGED ctl
  <2>1. name \in PodNames
    <3>1. templates[t] \in BaseNames
      BY <1>0, <1>1, <1>3
    <3>2. <<templates[t], 0>> \in PodNames
      BY <3>1 DEF PodNames
    <3> QED
      BY <1>1, <3>2
  <2>2. call' = [call EXCEPT ![a] = c]
    BY <1>0, <1>3 DEF CallsOK
  <2> HIDE DEF name
  <2>3. c \in Call /\ c.do = "lookup" /\ c.name = name /\ c.template = t
    BY <1>1, <2>1 DEF Call, Steps, MakeSteps
  <2>4. Ready(c)
    BY <1>1, <2>1, <2>3 DEF Ready, PodSteps
  <2> HIDE DEF c
  <2> QED
    BY <1>3, <2>2, <2>3, <2>4, MovesAdvance DEF Moves, LoopKept
<1> QED
  BY <1>2, <1>3 DEF GetPodTemplate

LEMMA LookupNameAdvances ==
    ASSUME PodInv, NEW a \in Actors, LookupName(a)
    PROVE  Advances(a)
<1>0. CallsOK
  BY DEF PodInv
<1>1. /\ call[a].do = "lookup" /\ call[a] \in Call /\ call[a].template \in TemplateIds
      /\ call[a].name \in PodNames
  BY <1>0, AtStep, Bounds DEF LookupName, Do, MakeSteps
<1>2. CASE Goto(a, "store") /\ UNCHANGED ctl
  <2>1. \E c : Moves(a, c) /\ c.do = "store"
    BY <1>0, <1>1, <1>2, GotoMoves DEF Steps, MakeSteps, PodSteps
  <2> QED
    BY <1>2, <2>1, MovesAdvance DEF LoopKept
<1>3. CASE Return(a)
  BY <1>0, <1>3, ReturnMoves, MovesAdvance
<1>4. ASSUME NEW p \in PodIds, call' = [call EXCEPT ![a].do = "remove", ![a].pod = p], UNCHANGED ctl
      PROVE  Advances(a)
  <2> DEFINE c == [[call[a] EXCEPT !.do = "remove"] EXCEPT !.pod = p]
  <2>1. call' = [call EXCEPT ![a] = c]
    BY <1>0, <1>4 DEF CallsOK
  <2>2. /\ c \in Call /\ c.do = "remove" /\ c.pod = p /\ c.name = call[a].name
        /\ c.template = call[a].template
    BY <1>1 DEF Call, Steps, PodSteps
  <2>3. Ready(c)
    BY <1>1, <2>2 DEF Ready, MakeSteps
  <2> HIDE DEF c
  <2> QED
    BY <1>4, <2>1, <2>2, <2>3, MovesAdvance DEF Moves, LoopKept
<1> QED
  BY <1>2, <1>3, <1>4 DEF LookupName, PodsNamed

\* The new pod is one that nobody has listed.
LEMMA StorePodAdvances ==
    ASSUME PodInv, NEW a \in Actors, StorePod(a)
    PROVE  /\ Advances(a)
           /\ \E p \in PodIds, x \in PodInfo : pods' = [pods EXCEPT ![p] = x]
<1>0. CallsOK
  BY DEF PodInv
<1>1. /\ call[a].do = "store" /\ call[a] \in Call /\ call[a].template \in TemplateIds
      /\ call[a].name \in PodNames /\ call[a].uid \in {"given", "fresh"}
  <2>1. call[a].do = "store"
    BY DEF StorePod, Do
  <2>2. call[a] \in Call /\ call[a].template \in TemplateIds
    BY <1>0, <2>1, AtStep DEF MakeSteps
  <2>3. call[a].name \in PodNames
    BY <1>0, <2>1, <2>2, AtStep, Bounds
  <2>4. call[a].uid \in {"given", "fresh"}
    BY <2>2 DEF Call
  <2> QED
    BY <2>1, <2>2, <2>3, <2>4
<1> DEFINE p == CHOOSE q \in PodIds : Unused(q)
           x == [template |-> call[a].template, name |-> call[a].name,
                 uid |-> call[a].uid, State |-> "created", StoppedByUser |-> FALSE]
           s == [[NoCall EXCEPT !.do = "start"] EXCEPT !.pod = p]
           f == [[[[NoCall EXCEPT !.do = "infra"] EXCEPT !.pod = p]
                     EXCEPT !.old = call[a].template] EXCEPT !.then = "fill"]
           c == CASE call[a].then = "start" -> s [] call[a].then = "fill" -> f [] OTHER -> NoCall
<1>2. /\ pods' = [pods EXCEPT ![p] = x] /\ call' = [call EXCEPT ![a] = c] /\ UNCHANGED ctl
      /\ \E q \in PodIds : Unused(q)
  BY Zenon DEF StorePod
<1>3. p \in PodIds /\ Unused(p)
  BY <1>2, Zenon
<1> HIDE DEF p
<1>4. x \in PodInfo
  BY <1>1 DEF PodInfo
<1>5. s \in Call /\ s.do = "start" /\ s.pod = p /\ s.template = NoCall.template
  BY <1>3, NoCallIs DEF Call, Steps, PodSteps
<1>6. f \in Call /\ f.do = "infra" /\ f.pod = p /\ f.template = NoCall.template
  BY <1>1, <1>3, NoCallIs DEF Call, Steps, PodSteps
<1>7. c = s \/ c = f \/ c = NoCall
  <2> HIDE DEF s, f
  <2> QED
    OBVIOUS
<1> HIDE DEF s, f, c, x
<1>8. Ready(s) /\ Ready(f)
  BY <1>3, <1>5, <1>6, NoCallIs DEF Ready, MakeSteps
<1>9. Moves(a, c)
  BY <1>2, <1>5, <1>6, <1>7, <1>8, NoCallIs DEF Moves
<1>10. ~Restarts(c) \/ \A y \in ctl.pods : y.pod # c.pod
  <2>1. \A y \in ctl.pods : y.pod # p
    BY <1>3 DEF Unused
  <2> QED
    BY <1>5, <1>6, <1>7, <2>1, NoCallIs DEF Restarts
<1>11. Advances(a)
  BY <1>2, <1>9, <1>10 DEF Advances, LoopKept
<1> QED
  BY <1>2, <1>3, <1>4, <1>11

LEMMA RemoveReadsAdvances ==
    ASSUME PodInv, NEW a \in Actors, RemoveReads(a)
    PROVE  Advances(a)
<1>0. CallsOK /\ pods \in [PodIds -> PodInfo \cup {None}]
  BY DEF PodInv, StoreOK
<1> DEFINE p == call[a].pod
           c == [[[call[a] EXCEPT !.do = "drop"] EXCEPT !.seen = Present(p)]
                   EXCEPT !.old = pods[p].template]
<1>1. /\ call[a] \in Call /\ p \in PodIds /\ Ready(call[a]) /\ call[a].do = "remove"
  BY <1>0, AtStep DEF RemoveReads, Do, PodSteps
<1>2. CASE Fail(a)
  BY <1>0, <1>2, FailMoves, MovesAdvance
<1>3. CASE /\ IsPodExist(p) /\ UNCHANGED ctl
           /\ call' = [call EXCEPT ![a].do = "drop", ![a].seen = Present(p),
                                   ![a].old = pods[p].template]
  <2>1. pods[p].template \in TemplateIds
    BY <1>0, <1>1, <1>3 DEF IsPodExist, PodInfo
  <2>2. Present(p) \in SUBSET {"infra", "member"}
    BY DEF Present
  <2>3. call' = [call EXCEPT ![a] = c]
    BY <1>0, <1>3 DEF CallsOK
  <2>4. /\ c \in Call /\ c.do = "drop" /\ c.pod = p /\ c.name = call[a].name
        /\ c.template = call[a].template
    <3> DEFINE S == Present(p)
               t == pods[p].template
    <3> HIDE DEF S, t
    <3>1. S \in SUBSET {"infra", "member"} /\ t \in TemplateIds
      BY <2>1, <2>2 DEF S, t
    <3>2. c = [[[call[a] EXCEPT !.do = "drop"] EXCEPT !.seen = S] EXCEPT !.old = t]
      BY DEF S, t
    <3> HIDE DEF c
    <3> QED
      BY <1>1, <3>1, <3>2 DEF Call, Steps, PodSteps
  <2> HIDE DEF c
  <2>5. Ready(c)
    BY <1>1, <2>4 DEF Ready, MakeSteps
  <2> QED
    BY <1>3, <2>3, <2>4, <2>5, MovesAdvance DEF Moves, LoopKept
<1> QED
  BY <1>2, <1>3 DEF RemoveReads

\* Steps that go on, or return, or fail.
Onward(from, step) ==
    /\ step \in Steps /\ from \notin {"template", "store set", "purge", "purge pod"}
    /\ step \notin {"template", "store set", "start", "purge"}
    /\ step \in PodSteps => from \in PodSteps

LEMMA OnwardAdvances ==
    ASSUME CallsOK, NEW a \in Actors, NEW step, Onward(call[a].do, step),
           step \in MakeSteps => call[a].template # None,
           \/ Goto(a, step) /\ UNCHANGED ctl
           \/ Return(a)
           \/ Fail(a)
    PROVE  Advances(a)
<1> USE DEF Onward
<1>1. CASE Goto(a, step) /\ UNCHANGED ctl
  <2>1. /\ step \in PodSteps => call[a].pod \in PodIds
        /\ step \in MakeSteps => call[a].template \in TemplateIds
        /\ call[a].template # None => call[a].name \in PodNames
    BY AtStep DEF Call
  <2>2. \E c : Moves(a, c) /\ c.do = step
    BY <1>1, <2>1, GotoMoves
  <2> QED
    BY <1>1, <2>2, MovesAdvance DEF LoopKept
<1>2. CASE Return(a)
  BY <1>2, ReturnMoves, MovesAdvance
<1>3. CASE Fail(a)
  BY <1>3, FailMoves, MovesAdvance
<1> QED
  BY <1>1, <1>2, <1>3

LEMMA RemoveAdvances ==
    ASSUME CallsOK, NEW a \in Actors,
           RemoveContainers(a) \/ RemovePod(a) \/ CheckTemplate(a) \/ RemovePodTemplate(a)
    PROVE  Advances(a)
<1>o. ASSUME NEW from, NEW step, call[a].do = from, Onward(from, step), step \notin MakeSteps,
             (Goto(a, step) /\ UNCHANGED ctl) \/ Return(a) \/ Fail(a)
      PROVE  Advances(a)
  BY <1>o, OnwardAdvances
<1>1. CASE RemoveContainers(a)
  <2>1. call[a].do = "drop" /\ ((Goto(a, "forget") /\ UNCHANGED ctl) \/ Fail(a))
    BY <1>1 DEF RemoveContainers, Do
  <2>2. Onward("drop", "forget") /\ "forget" \notin MakeSteps
    BY DEF Onward, Steps, PodSteps, MakeSteps
  <2> QED
    BY <1>o, <2>1, <2>2
<1>2. CASE RemovePod(a)
  <2>1. call[a].do = "forget" /\ ((Goto(a, "unref") /\ UNCHANGED ctl) \/ Fail(a))
    BY <1>2 DEF RemovePod, Do
  <2>2. Onward("forget", "unref") /\ "unref" \notin MakeSteps
    BY DEF Onward, Steps, PodSteps, MakeSteps
  <2> QED
    BY <1>o, <2>1, <2>2
<1>3. ASSUME call[a].do \in {"unref", "untemplate"}, Removed(a) PROVE Advances(a)
  <2>1. CASE call[a].template # None
    <3>1. Goto(a, "store") /\ UNCHANGED ctl
      BY <1>3, <2>1 DEF Removed
    <3>2. Onward("unref", "store") /\ Onward("untemplate", "store")
      BY DEF Onward, Steps, PodSteps, MakeSteps
    <3> QED
      BY <1>3, <2>1, <3>1, <3>2, OnwardAdvances
  <2>2. CASE call[a].template = None
    <3>1. Return(a)
      BY <1>3, <2>2 DEF Removed
    <3> QED
      BY <3>1, ReturnMoves, MovesAdvance
  <2> QED
    BY <2>1, <2>2
<1>4. CASE CheckTemplate(a)
  <2>1. call[a].do = "unref" /\ (Removed(a) \/ (Goto(a, "untemplate") /\ UNCHANGED ctl))
    BY <1>4 DEF CheckTemplate, Do
  <2>2. Onward("unref", "untemplate") /\ "untemplate" \notin MakeSteps
    BY DEF Onward, Steps, PodSteps, MakeSteps
  <2> QED
    BY <1>3, <1>o, <2>1, <2>2
<1>5. CASE RemovePodTemplate(a)
  BY <1>3, <1>5 DEF RemovePodTemplate, Do
<1> QED
  BY <1>1, <1>2, <1>4, <1>5

LEMMA StartReadsAdvances ==
    ASSUME PodInv, NEW a \in Actors, StartReads(a)
    PROVE  Advances(a)
<1>0. CallsOK /\ pods \in [PodIds -> PodInfo \cup {None}]
  BY DEF PodInv, StoreOK
<1> DEFINE p == call[a].pod
           t == pods[p].template
           c == [[call[a] EXCEPT !.do = "infra"] EXCEPT !.old = t]
<1>1. /\ call[a] \in Call /\ p \in PodIds /\ Ready(call[a]) /\ call[a].do = "start"
  BY <1>0, AtStep DEF StartReads, Do, PodSteps
<1>2. CASE Fail(a)
  BY <1>0, <1>2, FailMoves, MovesAdvance
<1>3. CASE /\ IsPodExist(p) /\ UNCHANGED ctl
           /\ call' = [call EXCEPT ![a].do = "infra", ![a].old = t]
  <2>1. t \in TemplateIds
    BY <1>0, <1>1, <1>3 DEF IsPodExist, PodInfo
  <2>2. call' = [call EXCEPT ![a] = c]
    BY <1>0, <1>3 DEF CallsOK
  <2> HIDE DEF t
  <2>3. /\ c \in Call /\ c.do = "infra" /\ c.pod = p /\ c.name = call[a].name
        /\ c.template = call[a].template
    BY <1>1, <2>1 DEF Call, Steps, PodSteps
  <2> HIDE DEF c
  <2>4. Ready(c)
    BY <1>1, <2>3 DEF Ready, MakeSteps
  <2> QED
    BY <1>3, <2>2, <2>3, <2>4, MovesAdvance DEF Moves, LoopKept
<1> QED
  BY <1>2, <1>3 DEF StartReads

LEMMA StartAdvances ==
    ASSUME CallsOK, NEW a \in Actors,
           \/ EnsurePodInfra(a) \/ CreateMember(a) \/ StartContainers(a)
           \/ MarkPod(a, "mark", "running", "unflag") \/ UpdatePodStoppedByUser(a, "unflag", FALSE)
           \/ StopMember(a) \/ MarkPod(a, "stopped", "stopped", "flag")
           \/ UpdatePodStoppedByUser(a, "flag", TRUE)
    PROVE  Advances(a)
<1>o. ASSUME NEW from, NEW step, call[a].do = from, Onward(from, step), step \notin MakeSteps,
             (Goto(a, step) /\ UNCHANGED ctl) \/ Return(a) \/ Fail(a)
      PROVE  Advances(a)
  BY <1>o, OnwardAdvances
<1>1. CASE EnsurePodInfra(a)
  <2>1. /\ call[a].do = "infra"
        /\ (Goto(a, "run") /\ UNCHANGED ctl) \/ (Goto(a, "member") /\ UNCHANGED ctl) \/ Fail(a)
    BY <1>1 DEF EnsurePodInfra, Do
  <2>2. Onward("infra", "run") /\ "run" \notin MakeSteps
    BY DEF Onward, Steps, PodSteps, MakeSteps
  <2>3. Onward("infra", "member") /\ "member" \notin MakeSteps
    BY DEF Onward, Steps, PodSteps, MakeSteps
  <2> QED
    BY <1>o, <2>1, <2>2, <2>3
<1>2. CASE CreateMember(a)
  <2>1. /\ call[a].do = "member"
        /\ (Goto(a, "run") /\ UNCHANGED ctl) \/ Return(a) \/ Fail(a)
    BY <1>2 DEF CreateMember, Do
  <2>2. Onward("member", "run") /\ "run" \notin MakeSteps
    BY DEF Onward, Steps, PodSteps, MakeSteps
  <2> QED
    BY <1>o, <2>1, <2>2
<1>3. CASE StartContainers(a)
  <2>1. call[a].do = "run" /\ Goto(a, "mark") /\ UNCHANGED ctl
    BY <1>3 DEF StartContainers, Do
  <2>2. Onward("run", "mark") /\ "mark" \notin MakeSteps
    BY DEF Onward, Steps, PodSteps, MakeSteps
  <2> QED
    BY <1>o, <2>1, <2>2
<1>4. CASE MarkPod(a, "mark", "running", "unflag")
  <2>1. call[a].do = "mark" /\ ((Goto(a, "unflag") /\ UNCHANGED ctl) \/ Fail(a))
    BY <1>4 DEF MarkPod, Do
  <2>2. Onward("mark", "unflag") /\ "unflag" \notin MakeSteps
    BY DEF Onward, Steps, PodSteps, MakeSteps
  <2> QED
    BY <1>o, <2>1, <2>2
<1>5. CASE UpdatePodStoppedByUser(a, "unflag", FALSE) \/ UpdatePodStoppedByUser(a, "flag", TRUE)
  <2>1. Return(a)
    BY <1>5 DEF UpdatePodStoppedByUser
  <2> QED
    BY <2>1, ReturnMoves, MovesAdvance
<1>6. CASE StopMember(a)
  <2>1. call[a].do = "stop" /\ ((Goto(a, "stopped") /\ UNCHANGED ctl) \/ Fail(a))
    BY <1>6 DEF StopMember, Do
  <2>2. Onward("stop", "stopped") /\ "stopped" \notin MakeSteps
    BY DEF Onward, Steps, PodSteps, MakeSteps
  <2> QED
    BY <1>o, <2>1, <2>2
<1>7. CASE MarkPod(a, "stopped", "stopped", "flag")
  <2>1. call[a].do = "stopped" /\ ((Goto(a, "flag") /\ UNCHANGED ctl) \/ Fail(a))
    BY <1>7 DEF MarkPod, Do
  <2>2. Onward("stopped", "flag") /\ "flag" \notin MakeSteps
    BY DEF Onward, Steps, PodSteps, MakeSteps
  <2> QED
    BY <1>o, <2>1, <2>2
<1> QED
  BY <1>1, <1>2, <1>3, <1>4, <1>5, <1>6, <1>7

LEMMA CallAdvances ==
    ASSUME PodInv, NEW a \in Actors, CallStep(a)
    PROVE  Advances(a)
<1>1. CallsOK
  BY DEF PodInv
<1> QED
  BY <1>1, GetPodTemplateAdvances, LookupNameAdvances, StorePodAdvances, RemoveReadsAdvances,
     RemoveAdvances, StartReadsAdvances, StartAdvances DEF CallStep

-----------------------------------------------------------------------------
\* The requests of the users.

\* A user's step leaves the controller's call and its loop alone.
LEMMA UserKeeps ==
    ASSUME PodInv, NEW u \in Users, UNCHANGED ctl,
           UNCHANGED call \/ \E c : Moves(u, c)
    PROVE  CallsOK' /\ LoopOK'
<1>0. u \in Actors /\ u # Controller
  BY Bounds
<1>1. CASE UNCHANGED call
  BY <1>1 DEF PodInv, CallsOK, LoopOK
<1>2. ASSUME NEW c, Moves(u, c) PROVE CallsOK' /\ LoopOK'
  <2>1. CallsOK'
    BY <1>0, <1>2 DEF PodInv, CallsOK, Moves
  <2>2. call'[Controller] = call[Controller]
    BY <1>0, <1>2, Bounds DEF PodInv, CallsOK, Moves
  <2> QED
    BY <2>1, <2>2 DEF PodInv, LoopOK
<1> QED
  BY <1>1, <1>2

LEMMA CreateRequests ==
    ASSUME PodInv, NEW u \in Users, NEW b \in BaseNames
    PROVE  /\ \A kind \in {"create", "apply"}, uid \in {"given", "fresh"} :
                 CreatePod(u, kind, b, uid) => \E c : Moves(u, c)
           /\ \A n \in 0..MaxReplicas : ApplyReplicaSet(u, b, n) => \E c : Moves(u, c)
<1>1. ASSUME NEW kind \in {"create", "apply"}, NEW uid \in {"given", "fresh"}, CreatePod(u, kind, b, uid)
      PROVE  \E c : Moves(u, c)
  <2>1. PICK t \in TemplateIds :
           UserCall(u, [NoCall EXCEPT
               !.do = "lookup", !.template = t, !.name = <<b, 0>>, !.uid = uid,
               !.then = IF kind = "apply" THEN "fill" ELSE "return"])
    BY <1>1 DEF CreatePod
  <2> DEFINE then == IF kind = "apply" THEN "fill" ELSE "return"
             name == <<b, 0>>
             q == [[[NoCall EXCEPT !.do = "lookup"] EXCEPT !.template = t] EXCEPT !.name = name]
             c == [[q EXCEPT !.uid = uid] EXCEPT !.then = then]
  <2>2. then \in {"return", "start", "fill", "labels"} /\ name \in PodNames
    BY DEF PodNames
  <2>3. call' = [call EXCEPT ![u] = c]
    BY <2>1 DEF UserCall
  <2> HIDE DEF then, name
  <2>4. q \in Call /\ q.do = "lookup" /\ q.template = t /\ q.name = name
    BY <2>2, NoCallIs DEF Call, Steps, MakeSteps
  <2> HIDE DEF q
  <2>5. c \in Call /\ c.do = q.do /\ c.template = q.template /\ c.name = q.name
    BY <2>2, <2>4 DEF Call
  <2> HIDE DEF c
  <2>6. Ready(c)
    BY <2>2, <2>4, <2>5 DEF Ready, PodSteps
  <2> QED
    BY <2>3, <2>5, <2>6 DEF Moves
<1>2. ASSUME NEW n \in 0..MaxReplicas, ApplyReplicaSet(u, b, n) PROVE \E c : Moves(u, c)
  <2>1. PICK t \in TemplateIds :
           UserCall(u, [NoCall EXCEPT !.do = "store set", !.template = t, !.name = b, !.n = n])
    BY <1>2 DEF ApplyReplicaSet
  <2> DEFINE q == [[NoCall EXCEPT !.do = "store set"] EXCEPT !.template = t]
             c == [[q EXCEPT !.name = b] EXCEPT !.n = n]
  <2>2. call' = [call EXCEPT ![u] = c]
    BY <2>1 DEF UserCall
  <2>3. q \in Call /\ q.do = "store set" /\ q.template = t
    BY NoCallIs DEF Call, Steps, MakeSteps
  <2> HIDE DEF q
  <2>4. c \in Call /\ c.do = q.do /\ c.template = q.template /\ c.name = b
    BY <2>3 DEF Call
  <2> HIDE DEF c
  <2>5. Ready(c)
    BY <2>3, <2>4 DEF Ready, PodSteps
  <2> QED
    BY <2>2, <2>4, <2>5 DEF Moves
<1> QED
  BY <1>1, <1>2

LEMMA OtherRequests ==
    ASSUME PodInv, NEW u \in Users
    PROVE  /\ \A s \in SetIds, how \in {"return", "labels"} :
                 removeReplicaSetById(u, s, how) => \E c : Moves(u, c)
           /\ DeleteResourceYaml(u) => \E c : Moves(u, c)
           /\ \A p \in PodIds, kind \in {"start", "stop", "remove"} :
                 PodRequest(u, kind, p) => \E c : Moves(u, c)
<1>0. sets \in [SetIds -> SetInfo \cup {None}]
  BY DEF PodInv, StoreOK
<1>1. ASSUME NEW s \in SetIds, NEW how \in {"return", "labels"}, removeReplicaSetById(u, s, how)
      PROVE  \E c : Moves(u, c)
  <2> DEFINE t == sets[s].template
             c == [[[NoCall EXCEPT !.do = "list pods"] EXCEPT !.removing = t] EXCEPT !.then = how]
  <2>1. t \in TemplateIds
    BY <1>0, <1>1 DEF removeReplicaSetById, SetInfo
  <2>2. call' = [call EXCEPT ![u] = c]
    BY <1>1 DEF removeReplicaSetById, UserCall
  <2> HIDE DEF t
  <2>3. c \in Call /\ c.do = "list pods" /\ c.template = NoCall.template
    BY <2>1, NoCallIs DEF Call, Steps
  <2> HIDE DEF c
  <2>4. Ready(c)
    BY <2>3, NoCallIs DEF Ready, PodSteps, MakeSteps
  <2> QED
    BY <2>2, <2>3, <2>4 DEF Moves
<1>2. ASSUME DeleteResourceYaml(u) PROVE \E c : Moves(u, c)
  <2>1. ASSUME NEW n \in PodNames, UserCall(u, [NoCall EXCEPT !.do = "next pod", !.rest = PodsNamed(n)])
        PROVE  \E c : Moves(u, c)
    <3> DEFINE R == PodsNamed(n)
               c == [[NoCall EXCEPT !.do = "next pod"] EXCEPT !.rest = R]
    <3>1. R \subseteq PodIds
      BY DEF PodsNamed
    <3>2. call' = [call EXCEPT ![u] = c]
      BY <2>1 DEF UserCall
    <3> HIDE DEF R
    <3>3. c \in Call /\ c.do = "next pod" /\ c.template = NoCall.template
      BY <3>1, NoCallIs DEF Call, Steps
    <3> HIDE DEF c
    <3>4. Ready(c)
      BY <3>3, NoCallIs DEF Ready, PodSteps, MakeSteps
    <3> QED
      BY <3>2, <3>3, <3>4 DEF Moves
  <2> QED
    BY <1>1, <1>2, <2>1 DEF DeleteResourceYaml
<1>3. ASSUME NEW p \in PodIds, NEW kind \in {"start", "stop", "remove"}, PodRequest(u, kind, p)
      PROVE  \E c : Moves(u, c)
  <2> DEFINE c == [[NoCall EXCEPT !.do = kind] EXCEPT !.pod = p]
  <2>1. call' = [call EXCEPT ![u] = c]
    BY <1>3 DEF PodRequest, UserCall
  <2>2. c \in Call /\ c.do = kind /\ c.pod = p /\ c.template = NoCall.template
    BY NoCallIs DEF Call, Steps, PodSteps
  <2> HIDE DEF c
  <2>3. Ready(c)
    BY <2>2, NoCallIs DEF Ready, MakeSteps
  <2> QED
    BY <2>1, <2>2, <2>3 DEF Moves
<1> QED
  BY <1>1, <1>2, <1>3

LEMMA HandlerSteps ==
    ASSUME PodInv, NEW u \in Users, StoreReplicaSet(u) \/ ListPods(u) \/ NextPod(u)
    PROVE  \E c : Moves(u, c)
<1>0. CallsOK /\ u \in Actors /\ call[u] \in Call /\ Ready(call[u])
  BY Bounds DEF PodInv, CallsOK
<1>1. CASE StoreReplicaSet(u)
  BY <1>1, NoCallIs DEF StoreReplicaSet, UserCall, Moves
<1>2. CASE ListPods(u)
  <2>1. PICK R \in SUBSET PodIds :
           UserCall(u, [call[u] EXCEPT !.do = "next pod", !.then = "return", !.rest = R])
    <3>1. PICK labelled \in SUBSET {p \in PodIds : IsPodExist(p)} :
             UserCall(u, [call[u] EXCEPT !.do = "next pod", !.then = "return",
                 !.rest = labelled \cup
                     {p \in PodIds : IsPodExist(p) /\ pods[p].template = call[u].removing}])
      BY <1>2 DEF ListPods
    <3>2. labelled \cup {p \in PodIds : IsPodExist(p) /\ pods[p].template = call[u].removing}
          \in SUBSET PodIds
      OBVIOUS
    <3> QED
      BY <3>1, <3>2
  <2> DEFINE c == [[[call[u] EXCEPT !.do = "next pod"] EXCEPT !.then = "return"] EXCEPT !.rest = R]
  <2>2. call' = [call EXCEPT ![u] = c]
    BY <2>1 DEF UserCall
  <2>3. c \in Call /\ c.do = "next pod" /\ c.template = call[u].template /\ c.name = call[u].name
    BY <1>0 DEF Call, Steps
  <2> HIDE DEF c
  <2>4. Ready(c)
    BY <1>0, <1>2, <2>3 DEF Ready, PodSteps, MakeSteps, ListPods, Do
  <2> QED
    BY <2>2, <2>3, <2>4 DEF Moves
<1>3. CASE NextPod(u)
  <2>1. ASSUME NEW p \in call[u].rest,
               UserCall(u, [call[u] EXCEPT !.do = "remove", !.pod = p, !.rest = call[u].rest \ {p}])
        PROVE  \E c : Moves(u, c)
    <3> DEFINE R == call[u].rest \ {p}
               c == [[[call[u] EXCEPT !.do = "remove"] EXCEPT !.pod = p] EXCEPT !.rest = R]
    <3>1. p \in PodIds /\ R \in SUBSET PodIds
      BY <1>0 DEF Call
    <3>2. call' = [call EXCEPT ![u] = c]
      BY <2>1 DEF UserCall
    <3> HIDE DEF R
    <3>3. /\ c \in Call /\ c.do = "remove" /\ c.pod = p /\ c.template = call[u].template
          /\ c.name = call[u].name
      BY <1>0, <3>1 DEF Call, Steps, PodSteps
    <3> HIDE DEF c
    <3>4. call[u].do = "next pod"
      BY <1>3 DEF NextPod, Do
    <3>5. call[u].template # None => call[u].name \in PodNames
      BY <1>0, <3>4 DEF Ready
    <3>6. Ready(c)
      BY <3>1, <3>3, <3>5 DEF Ready, MakeSteps
    <3> QED
      BY <3>2, <3>3, <3>6 DEF Moves
  <2>2. ASSUME UserCall(u, [NoCall EXCEPT !.do = "unref", !.old = call[u].removing])
        PROVE  \E c : Moves(u, c)
    <3> DEFINE c == [[NoCall EXCEPT !.do = "unref"] EXCEPT !.old = call[u].removing]
    <3>1. call' = [call EXCEPT ![u] = c]
      BY <2>2 DEF UserCall
    <3>2. call[u].removing \in TemplateIds \cup {None}
      BY <1>0 DEF Call
    <3>3. c \in Call /\ c.do = "unref" /\ c.template = NoCall.template
      BY <3>2, NoCallIs DEF Call, Steps
    <3> HIDE DEF c
    <3>4. Ready(c)
      BY <3>3, NoCallIs DEF Ready, PodSteps, MakeSteps
    <3> QED
      BY <3>1, <3>3, <3>4 DEF Moves
  <2> QED
    BY <1>3, <2>1, <2>2 DEF NextPod
<1> QED
  BY <1>1, <1>2, <1>3

LEMMA UserCalls ==
    ASSUME PodInv, NEW u \in Users, NewRequest(u) \/ UserStep(u)
    PROVE  CallsOK' /\ LoopOK'
<1>0. CallsOK /\ u \in Actors
  BY Bounds DEF PodInv
<1>1. CASE CallStep(u)
  BY <1>0, <1>1, CallAdvances, AdvancesKeeps
<1>2. CASE StopMember(u) \/ MarkPod(u, "stopped", "stopped", "flag")
           \/ UpdatePodStoppedByUser(u, "flag", TRUE)
  BY <1>0, <1>2, StartAdvances, AdvancesKeeps
<1>3. CASE StoreReplicaSet(u) \/ ListPods(u) \/ NextPod(u)
  <2>1. UNCHANGED ctl
    BY <1>3 DEF StoreReplicaSet, ListPods, NextPod
  <2> QED
    BY <1>3, <2>1, HandlerSteps, UserKeeps
<1>4. CASE NewRequest(u)
  <2>1. UNCHANGED ctl
    BY <1>4 DEF NewRequest, CreatePod, ApplyReplicaSet, ScaleReplicaSet, RemoveReplicaSet,
         removeReplicaSetById, DeleteResourceYaml, PodRequest
  <2>2. UNCHANGED call \/ \E c : Moves(u, c)
    <3>1. ASSUME NEW s \in SetIds, RemoveReplicaSet(u, s) PROVE \E c : Moves(u, c)
      BY <3>1, OtherRequests DEF RemoveReplicaSet
    <3>2. ASSUME NEW s \in SetIds, NEW n \in 0..MaxReplicas, ScaleReplicaSet(u, s, n) PROVE UNCHANGED call
      BY <3>2 DEF ScaleReplicaSet
    <3> QED
      BY <1>4, <3>1, <3>2, CreateRequests, OtherRequests DEF NewRequest
  <2> QED
    BY <2>1, <2>2, UserKeeps
<1> QED
  BY <1>1, <1>2, <1>3, <1>4 DEF UserStep

-----------------------------------------------------------------------------
\* The loop of the controller.

LEMMA NoLoopIs ==
    /\ NoLoop \in Loop /\ OneReading(NoLoop) /\ NoLoop.pods = {} /\ NoLoop.list = {}
    /\ NoLoop.doomed = {} /\ NoLoop.stopped = None
BY Bounds DEF NoLoop, Loop, Phases, OneReading

LEMMA CreateCallIs ==
    ASSUME NEW t \in TemplateIds, NEW n \in PodNames \cup {None},
           NEW next \in {"return", "start", "fill", "labels"}
    PROVE  /\ CreateCall(t, n, next) \in Call /\ Ready(CreateCall(t, n, next))
           /\ CreateCall(t, n, next).do = "template"
<1> DEFINE q == [[NoCall EXCEPT !.do = "template"] EXCEPT !.template = t]
           c == [[q EXCEPT !.name = n] EXCEPT !.then = next]
<1>1. CreateCall(t, n, next) = c
  BY DEF CreateCall
<1>2. q \in Call /\ q.do = "template" /\ q.template = t
  BY NoCallIs DEF Call, Steps, MakeSteps
<1> HIDE DEF q
<1>3. c \in Call /\ c.do = q.do /\ c.template = q.template /\ c.name = n
  BY <1>2 DEF Call
<1> HIDE DEF c
<1>4. Ready(c)
  BY <1>2, <1>3 DEF Ready, PodSteps
<1> QED
  BY <1>1, <1>2, <1>3, <1>4

LEMMA PodCallsAre ==
    ASSUME NEW p \in PodIds
    PROVE  /\ StartCall(p) \in Call /\ Ready(StartCall(p)) /\ StartCall(p).pod = p
           /\ DeleteCall(p) \in Call /\ Ready(DeleteCall(p)) /\ ~Restarts(DeleteCall(p))
<1>1. StartCall(p) \in Call /\ StartCall(p).pod = p /\ StartCall(p).do = "start"
      /\ StartCall(p).template = NoCall.template
  BY NoCallIs DEF StartCall, Call, Steps, PodSteps
<1>2. DeleteCall(p) \in Call /\ DeleteCall(p).pod = p /\ DeleteCall(p).do = "purge"
      /\ DeleteCall(p).template = NoCall.template
  BY NoCallIs DEF DeleteCall, Call, Steps, PodSteps
<1> QED
  BY <1>1, <1>2, NoCallIs DEF Ready, MakeSteps, Restarts

LEMMA RecreateCallIs ==
    ASSUME NEW x \in Listed
    PROVE  RecreateCall(x) \in Call /\ Ready(RecreateCall(x)) /\ RecreateCall(x).pod = x.pod
<1> DEFINE p == x.pod
           t == x.info.template
           q == [[NoCall EXCEPT !.do = "purge"] EXCEPT !.pod = p]
           c == [[q EXCEPT !.template = t] EXCEPT !.then = "start"]
<1>1. p \in PodIds /\ t \in TemplateIds
  BY DEF Listed, PodInfo
<1>2. RecreateCall(x) = c
  BY DEF RecreateCall
<1> HIDE DEF p, t
<1>3. q \in Call /\ q.do = "purge" /\ q.pod = p
  BY <1>1, NoCallIs DEF Call, Steps, PodSteps
<1> HIDE DEF q
<1>4. c \in Call /\ c.do = q.do /\ c.pod = q.pod
  BY <1>1, <1>3 DEF Call
<1> HIDE DEF c
<1>5. Ready(c)
  BY <1>1, <1>3, <1>4 DEF Ready, MakeSteps
<1> QED
  BY <1>2, <1>3, <1>4, <1>5 DEF p

\* A step of the loop: it begins a call, or the controller stays idle.
LEMMA LoopKeeps ==
    ASSUME PodInv, ctl' \in Loop, OneReading(ctl'),
           \/ UNCHANGED call /\ call[Controller].do = "idle"
           \/ \E c : Moves(Controller, c) /\ Respects(c, ctl')
    PROVE  CallsOK' /\ LoopOK'
<1>0. Controller \in Actors /\ CallsOK
  BY Bounds DEF PodInv
<1>1. CASE UNCHANGED call /\ call[Controller].do = "idle"
  BY <1>0, <1>1 DEF CallsOK, LoopOK, Respects, Restarts
<1>2. ASSUME NEW c, Moves(Controller, c), Respects(c, ctl') PROVE CallsOK' /\ LoopOK'
  <2>1. CallsOK' /\ call'[Controller] = c
    BY <1>0, <1>2 DEF CallsOK, Moves
  <2> QED
    BY <1>2, <2>1 DEF LoopOK
<1> QED
  BY <1>1, <1>2

LEMMA QuietCall ==
    ASSUME NEW c, NEW l, ~Restarts(c)
    PROVE  Respects(c, l)
BY DEF Respects

\* A call for a pod of the list that a user has not stopped.
LEMMA RestartRespects ==
    ASSUME NEW l, OneReading(l), NEW x \in l.pods, ~x.info.StoppedByUser, NEW c, c.pod = x.pod
    PROVE  Respects(c, l)
BY DEF OneReading, Respects

LEMMA ReadsKeep ==
    ASSUME PodInv, ReadReplicaSets \/ ReadTemplates \/ ReadPods
    PROVE  CallsOK' /\ LoopOK'
<1>0. /\ ctl \in Loop /\ OneReading(ctl) /\ sets \in [SetIds -> SetInfo \cup {None}]
      /\ pods \in [PodIds -> PodInfo \cup {None}]
  BY DEF PodInv, LoopOK, StoreOK
<1>a. UNCHANGED call /\ call[Controller].do = "idle"
  BY DEF ReadReplicaSets, ReadTemplates, ReadPods, InPhase, Do
<1>1. CASE ReadReplicaSets
  <2> DEFINE S == {sets[s] : s \in SetIds} \ {None}
  <2>1. S \subseteq SetInfo
    BY <1>0
  <2>2. ctl' = [[NoLoop EXCEPT !.phase = "templates"] EXCEPT !.sets = S]
    BY <1>1 DEF ReadReplicaSets
  <2> HIDE DEF S
  <2>3. /\ ctl' \in Loop /\ ctl'.pods = {} /\ ctl'.list = {} /\ ctl'.doomed = {}
        /\ ctl'.phase = "templates" /\ ctl'.stopped = None
    BY <2>1, <2>2, NoLoopIs DEF Loop, Phases
  <2>4. OneReading(ctl')
    BY <2>3 DEF OneReading
  <2> QED
    BY <1>a, <2>3, <2>4, LoopKeeps
<1>2. CASE ReadTemplates
  <2> DEFINE T == {t \in TemplateIds : templates[t] # None}
  <2>1. T \subseteq TemplateIds
    OBVIOUS
  <2>2. ctl' = NoLoop \/ ctl' = [[ctl EXCEPT !.phase = "pods"] EXCEPT !.templates = T]
    BY <1>2 DEF ReadTemplates
  <2> HIDE DEF T
  <2>3. CASE ctl' = [[ctl EXCEPT !.phase = "pods"] EXCEPT !.templates = T]
    <3>1. /\ ctl' \in Loop /\ ctl'.pods = ctl.pods /\ ctl'.list = ctl.list
          /\ ctl'.doomed = ctl.doomed /\ ctl'.phase = "pods" /\ ctl'.stopped = ctl.stopped
      BY <1>0, <2>1, <2>3 DEF Loop, Phases
    <3>2. OneReading(ctl')
      BY <1>0, <1>2, <3>1 DEF OneReading, ReadTemplates, InPhase
    <3> QED
      BY <1>a, <3>1, <3>2, LoopKeeps
  <2> QED
    BY <1>a, <2>2, <2>3, NoLoopIs, LoopKeeps
<1>3. CASE ReadPods
  <2> DEFINE L == {[pod |-> p, info |-> pods[p]] : p \in {q \in PodIds : IsPodExist(q)}}
  <2>1. L \subseteq Listed /\ \A x, y \in L : x.pod = y.pod => x = y
    BY <1>0 DEF Listed, IsPodExist
  <2>2. ctl' = [[ctl EXCEPT !.phase = "sets"] EXCEPT !.pods = L]
    BY <1>3 DEF ReadPods
  <2> HIDE DEF L
  <2>3. /\ ctl' \in Loop /\ ctl'.pods = L /\ ctl'.list = ctl.list
        /\ ctl'.doomed = ctl.doomed /\ ctl'.phase = "sets" /\ ctl'.stopped = ctl.stopped
    BY <1>0, <2>1, <2>2 DEF Loop, Phases
  <2>4. ctl.list = {} /\ ctl.doomed = {} /\ ctl.stopped = None
    BY <1>0, <1>3 DEF OneReading, ReadPods, InPhase
  <2>5. \A x \in L : x.pod # None
    BY <2>1, Bounds DEF Listed
  <2>6. OneReading(ctl')
    BY <2>1, <2>3, <2>4, <2>5 DEF OneReading
  <2> QED
    BY <1>a, <2>3, <2>6, LoopKeeps
<1> QED
  BY <1>1, <1>2, <1>3

\* More slots than pods: the suffix of a new name is free.
LEMMA SuffixesAreSlots ==
    ASSUME StoreOK, ctl \in Loop
    PROVE  Suffixes \subseteq Slots
<1>1. IsFiniteSet(PodIds) /\ Cardinality(PodIds) \in Nat
  BY PodAssumption, FS_CardinalityType
<1>2. IsFiniteSet(Slots) /\ Cardinality(Slots) = Cardinality(PodIds) + 1
  <2> DEFINE n == Cardinality(PodIds)
  <2> HIDE DEF n
  <2>1. n + 1 \in Int /\ 1 \in Int /\ n \in Nat
    BY <1>1 DEF n
  <2>2. /\ IsFiniteSet(1..(n + 1))
        /\ Cardinality(1..(n + 1)) = IF 1 > n + 1 THEN 0 ELSE (n + 1) - 1 + 1
    BY <2>1, FS_Interval
  <2>3. (IF 1 > n + 1 THEN 0 ELSE (n + 1) - 1 + 1) = n + 1
    BY <2>1
  <2>4. Slots = 1..(n + 1)
    BY DEF Slots, n
  <2> QED
    BY <2>2, <2>3, <2>4 DEF n
<1>3. FreeSlots # {}
  <2> SUFFICES ASSUME FreeSlots = {} PROVE FALSE
    OBVIOUS
  <2> DEFINE Taken(k, p) == \E b \in BaseNames : IsPodExist(p) /\ pods[p].name = <<b, k>>
             f == [k \in Slots |-> CHOOSE p \in PodIds : Taken(k, p)]
  <2>1. ASSUME NEW k \in Slots PROVE \E p \in PodIds : Taken(k, p)
    <3>1. k \notin FreeSlots
      OBVIOUS
    <3>2. PICK b \in BaseNames : PodsNamed(<<b, k>>) # {}
      BY <3>1 DEF FreeSlots
    <3> QED
      BY <3>2 DEF PodsNamed
  <2>2. \A k \in Slots : f[k] \in PodIds /\ Taken(k, f[k])
    <3> HIDE DEF Taken
    <3>1. ASSUME NEW k \in Slots
          PROVE  /\ (CHOOSE p \in PodIds : Taken(k, p)) \in PodIds
                 /\ Taken(k, CHOOSE p \in PodIds : Taken(k, p))
      BY <2>1, Zenon
    <3> QED
      BY <3>1
  <2>3. f \in [Slots -> PodIds]
    <3> HIDE DEF Taken
    <3>1. f = [k \in Slots |-> f[k]]
      OBVIOUS
    <3> HIDE DEF f
    <3> QED
      BY <2>2, <3>1
  <2> HIDE DEF f
  <2>4. Cardinality(PodIds) < Cardinality(Slots)
    BY <1>1, <1>2
  <2>5. PICK k, l \in Slots : k # l /\ f[k] = f[l]
    BY <1>1, <1>2, <2>3, <2>4, FS_PigeonHole
  <2>6. PICK b, d \in BaseNames : pods[f[k]].name = <<b, k>> /\ pods[f[l]].name = <<d, l>>
    BY <2>2
  <2> QED
    BY <2>5, <2>6
<1>4. (CHOOSE k \in Slots : k \in FreeSlots) \in Slots
  <2>1. \E k \in Slots : k \in FreeSlots
    BY <1>3 DEF FreeSlots
  <2> QED
    BY <2>1, Zenon
<1>5. ctl.slot \in Slots \cup {0}
  BY DEF Loop
<1> QED
  BY <1>4, <1>5 DEF Suffixes

LEMMA ReconcileSetKeeps ==
    ASSUME PodInv, ReconcileSet
    PROVE  CallsOK' /\ LoopOK'
<1>0. ctl \in Loop /\ OneReading(ctl)
  BY DEF PodInv, LoopOK
<1>a. UNCHANGED call /\ call[Controller].do = "idle"
  BY DEF ReconcileSet, InPhase, Do
<1>b. /\ ctl.pods \subseteq Listed /\ ctl.sets \subseteq SetInfo
      /\ \A x, y \in ctl.pods : x.pod = y.pod => x = y
      /\ \A x \in ctl.pods : x.pod = ctl.stopped => ~x.info.StoppedByUser
  BY <1>0 DEF Loop, OneReading
<1>1. ASSUME NEW rs \in ctl.sets, NEW list, list = PodsByTemplate(rs.template),
             NEW loop, loop = [[ctl EXCEPT !.sets = @ \ {rs}] EXCEPT !.list = list]
      PROVE  /\ list \subseteq ctl.pods /\ loop \in Loop /\ loop.list = list /\ loop.pods = ctl.pods
             /\ loop.doomed = ctl.doomed /\ loop.stopped = ctl.stopped /\ rs \in SetInfo
             /\ Cardinality(list) \in Nat
  <2>1. list \subseteq ctl.pods
    BY <1>1 DEF PodsByTemplate
  <2>2. list \in SUBSET Listed /\ ctl.sets \ {rs} \in SUBSET SetInfo
    BY <1>b, <2>1
  <2>3. /\ loop \in Loop /\ loop.list = list /\ loop.pods = ctl.pods
        /\ loop.doomed = ctl.doomed /\ loop.stopped = ctl.stopped
    BY <1>0, <1>1, <2>2 DEF Loop
  <2>4. IsFiniteSet(list)
    <3> DEFINE g == [x \in list |-> x.pod]
    <3>1. \A x \in list : x.pod \in PodIds
      BY <2>2 DEF Listed
    <3>2. g \in [list -> PodIds]
      BY <3>1
    <3>3. \A x, y \in list : g[x] = g[y] => x = y
      BY <1>b, <2>1
    <3> HIDE DEF g
    <3>4. g \in Injection(list, PodIds)
      BY <3>2, <3>3, Fun_IsInj
    <3>5. IsFiniteSet(PodIds)
      BY PodAssumption
    <3> QED
      BY <3>4, <3>5, FS_Injection DEF ExistsInjection
  <2> QED
    BY <1>b, <2>1, <2>3, <2>4, FS_CardinalityType
<1>2. CASE ctl.sets = {} /\ ctl' = [ctl EXCEPT !.phase = "walk templates"]
  <2>1. /\ ctl' \in Loop /\ ctl'.pods = ctl.pods /\ ctl'.list = ctl.list
        /\ ctl'.doomed = ctl.doomed /\ ctl'.phase = "walk templates" /\ ctl'.stopped = ctl.stopped
    BY <1>0, <1>2 DEF Loop, Phases
  <2>2. OneReading(ctl')
    BY <1>0, <2>1 DEF OneReading
  <2> QED
    BY <1>a, <2>1, <2>2, LoopKeeps
<1>3. ASSUME NEW rs \in ctl.sets
      PROVE  LET list == PodsByTemplate(rs.template)
                 current == Cardinality(list)
                 loop == [ctl EXCEPT !.sets = @ \ {rs}, !.list = list]
             IN  /\ (/\ current <= rs.Replicas
                     /\ ctl' = [loop EXCEPT !.phase = "grow", !.set = rs,
                                            !.n = rs.Replicas - current]) => CallsOK' /\ LoopOK'
                 /\ \A D \in SUBSET list :
                       ctl' = [loop EXCEPT !.phase = "shrink", !.doomed = D] => CallsOK' /\ LoopOK'
  <2> DEFINE list == PodsByTemplate(rs.template)
             n == rs.Replicas - Cardinality(list)
             loop == [[ctl EXCEPT !.sets = @ \ {rs}] EXCEPT !.list = list]
  <2>1. /\ list \subseteq ctl.pods /\ loop \in Loop /\ loop.list = list /\ loop.pods = ctl.pods
        /\ loop.doomed = ctl.doomed /\ loop.stopped = ctl.stopped /\ rs \in SetInfo
        /\ Cardinality(list) \in Nat
    BY <1>1
  <2> HIDE DEF list, loop
  <2>2. ASSUME Cardinality(list) <= rs.Replicas,
               ctl' = [[[loop EXCEPT !.phase = "grow"] EXCEPT !.set = rs] EXCEPT !.n = n]
        PROVE  CallsOK' /\ LoopOK'
    <3>1. n \in 0..MaxReplicas
      <4>1. rs.Replicas \in 0..MaxReplicas
        BY <2>1 DEF SetInfo
      <4> QED
        BY <2>1, <2>2, <4>1, Bounds
    <3> HIDE DEF n
    <3>2. /\ ctl' \in Loop /\ ctl'.pods = ctl.pods /\ ctl'.list = list /\ ctl'.set = rs
          /\ ctl'.doomed = ctl.doomed /\ ctl'.phase = "grow" /\ ctl'.stopped = ctl.stopped
      BY <2>1, <2>2, <3>1 DEF Loop, Phases
    <3>3. OneReading(ctl')
      BY <1>0, <2>1, <3>2 DEF OneReading
    <3> QED
      BY <1>a, <3>2, <3>3, LoopKeeps
  <2>3. ASSUME NEW D \in SUBSET list,
               ctl' = [[loop EXCEPT !.phase = "shrink"] EXCEPT !.doomed = D]
        PROVE  CallsOK' /\ LoopOK'
    <3>1. D \in SUBSET Listed /\ D \subseteq ctl.pods
      BY <1>b, <2>1
    <3>2. /\ ctl' \in Loop /\ ctl'.pods = ctl.pods /\ ctl'.list = list
          /\ ctl'.doomed = D /\ ctl'.phase = "shrink" /\ ctl'.stopped = ctl.stopped
      BY <2>1, <2>3, <3>1 DEF Loop, Phases
    <3>3. OneReading(ctl')
      BY <1>0, <2>1, <3>1, <3>2 DEF OneReading
    <3> QED
      BY <1>a, <3>2, <3>3, LoopKeeps
  <2> QED
    BY <2>2, <2>3 DEF list, loop, n
<1> QED
  BY <1>2, <1>3 DEF ReconcileSet

\* The loop goes on with the pods it has read.
LEMMA ReadingKept ==
    ASSUME ctl \in Loop, OneReading(ctl), NEW l \in Loop, l.pods = ctl.pods,
           l.list \subseteq ctl.pods, l.doomed \subseteq ctl.pods,
           l.phase \notin {"templates", "pods"}, l.phase = "grow" => l.set \in SetInfo,
           \/ l.stopped \in {None, ctl.stopped}
           \/ \E x \in ctl.pods : l.stopped = x.pod /\ ~x.info.StoppedByUser
    PROVE  OneReading(l)
<1>1. \A x \in ctl.pods : x.pod # None
  BY Bounds DEF Loop, Listed
<1>2. /\ \A x, y \in ctl.pods : x.pod = y.pod => x = y
      /\ \A x \in ctl.pods : x.pod = ctl.stopped => ~x.info.StoppedByUser
  BY DEF OneReading
<1> QED
  BY <1>1, <1>2 DEF OneReading

LEMMA CreateReplicaKeeps ==
    ASSUME PodInv, CreateReplica
    PROVE  CallsOK' /\ LoopOK'
<1>0. /\ ctl \in Loop /\ OneReading(ctl) /\ StoreOK /\ call[Controller].do = "idle"
      /\ ctl.phase = "grow"
  BY DEF PodInv, LoopOK, CreateReplica, InPhase, Do
<1>b. /\ ctl.list \subseteq ctl.pods /\ ctl.doomed \subseteq ctl.pods /\ ctl.set \in SetInfo
      /\ ctl.n \in 0..MaxReplicas
  BY <1>0 DEF Loop, OneReading
<1>1. ASSUME NEW k \in Suffixes, ctl.n > 0,
             Begin(CreateCall(ctl.set.template, <<ctl.set.name, k>>, "start")),
             ctl' = [[ctl EXCEPT !.n = @ - 1] EXCEPT !.slot = k]
      PROVE  CallsOK' /\ LoopOK'
  <2> DEFINE m == ctl.n - 1
             c == CreateCall(ctl.set.template, <<ctl.set.name, k>>, "start")
  <2>1. k \in Slots
    BY <1>0, SuffixesAreSlots
  <2>2. m \in 0..MaxReplicas
    BY <1>1, <1>b, Bounds
  <2>3. ctl' = [[ctl EXCEPT !.n = m] EXCEPT !.slot = k]
    BY <1>1
  <2> HIDE DEF m
  <2>4. /\ ctl' \in Loop /\ ctl'.pods = ctl.pods /\ ctl'.list = ctl.list /\ ctl'.set = ctl.set
        /\ ctl'.doomed = ctl.doomed /\ ctl'.phase = ctl.phase /\ ctl'.stopped = ctl.stopped
    BY <1>0, <2>1, <2>2, <2>3 DEF Loop
  <2>5. OneReading(ctl')
    BY <1>0, <1>b, <2>4, ReadingKept
  <2>6. ctl.set.template \in TemplateIds /\ <<ctl.set.name, k>> \in PodNames
    BY <1>b, <2>1 DEF SetInfo, PodNames
  <2>7. c \in Call /\ Ready(c) /\ c.do = "template"
    BY <2>6, CreateCallIs
  <2>8. Moves(Controller, c) /\ Respects(c, ctl')
    BY <1>1, <2>7, QuietCall DEF Moves, Begin, Restarts
  <2> QED
    BY <2>4, <2>5, <2>8, LoopKeeps
<1>2. CASE /\ ctl' = [[[ctl EXCEPT !.phase = "check"] EXCEPT !.set = None] EXCEPT !.slot = 0]
           /\ UNCHANGED call
  <2>1. /\ ctl' \in Loop /\ ctl'.pods = ctl.pods /\ ctl'.list = ctl.list
        /\ ctl'.doomed = ctl.doomed /\ ctl'.phase = "check" /\ ctl'.stopped = ctl.stopped
    BY <1>0, <1>2 DEF Loop, Phases
  <2>2. OneReading(ctl')
    BY <1>0, <1>b, <2>1, ReadingKept
  <2> QED
    BY <1>0, <1>2, <2>1, <2>2, LoopKeeps
<1> QED
  BY <1>1, <1>2 DEF CreateReplica

LEMMA DeleteExcessKeeps ==
    ASSUME PodInv, DeleteExcess
    PROVE  CallsOK' /\ LoopOK'
<1>0. ctl \in Loop /\ OneReading(ctl) /\ call[Controller].do = "idle" /\ ctl.phase = "shrink"
  BY DEF PodInv, LoopOK, DeleteExcess, InPhase, Do
<1>b. ctl.list \subseteq ctl.pods /\ ctl.doomed \subseteq ctl.pods /\ ctl.pods \subseteq Listed
  BY <1>0 DEF Loop, OneReading
<1>1. ASSUME NEW x \in ctl.doomed, Begin(DeleteCall(x.pod)),
             ctl' = [ctl EXCEPT !.doomed = @ \ {x}]
      PROVE  CallsOK' /\ LoopOK'
  <2>1. x.pod \in PodIds
    BY <1>b DEF Listed
  <2>2. /\ ctl' \in Loop /\ ctl'.pods = ctl.pods /\ ctl'.list = ctl.list
        /\ ctl'.doomed = ctl.doomed \ {x} /\ ctl'.phase = ctl.phase
        /\ ctl'.stopped = ctl.stopped
    BY <1>0, <1>b, <1>1 DEF Loop
  <2>3. OneReading(ctl')
    BY <1>0, <1>b, <2>2, ReadingKept
  <2>4. Moves(Controller, DeleteCall(x.pod)) /\ Respects(DeleteCall(x.pod), ctl')
    BY <1>1, <2>1, PodCallsAre, QuietCall DEF Moves, Begin
  <2> QED
    BY <2>2, <2>3, <2>4, LoopKeeps
<1>2. CASE ctl' = [ctl EXCEPT !.phase = "check"] /\ UNCHANGED call
  <2>1. /\ ctl' \in Loop /\ ctl'.pods = ctl.pods /\ ctl'.list = ctl.list
        /\ ctl'.doomed = ctl.doomed /\ ctl'.phase = "check" /\ ctl'.stopped = ctl.stopped
    BY <1>0, <1>2 DEF Loop, Phases
  <2>2. OneReading(ctl')
    BY <1>0, <1>b, <2>1, ReadingKept
  <2> QED
    BY <1>0, <1>2, <2>1, <2>2, LoopKeeps
<1> QED
  BY <1>1, <1>2 DEF DeleteExcess

\* What the controller begins for a pod it checks is nothing or a call for that
\* pod, and nothing when a user has stopped it.
LEMMA RemedyIs ==
    ASSUME NEW x \in Listed
    PROVE  \/ Remedy(x) = NoCall
           \/ ~x.info.StoppedByUser /\ Remedy(x) \in {StartCall(x.pod), RecreateCall(x)}
<1>1. CASE x.info.StoppedByUser
  BY <1>1 DEF Remedy, MayRestart
<1>2. CASE ~x.info.StoppedByUser
  BY <1>2 DEF Remedy, MayRestart
<1> QED
  BY <1>1, <1>2

\* Such a call can be made, with whatever list the loop goes on.
LEMMA RestartMoves ==
    ASSUME NEW x \in Listed, ~x.info.StoppedByUser, NEW c \in {StartCall(x.pod), RecreateCall(x)},
           NEW l, OneReading(l), x \in l.pods, Begin(c)
    PROVE  Moves(Controller, c) /\ Respects(c, l)
<1>1. x.pod \in PodIds
  BY DEF Listed
<1>2. c \in Call /\ Ready(c) /\ c.pod = x.pod
  BY <1>1, PodCallsAre, RecreateCallIs
<1> QED
  BY <1>2, RestartRespects DEF Moves, Begin

LEMMA CheckPodKeeps ==
    ASSUME PodInv, CheckPod
    PROVE  CallsOK' /\ LoopOK'
<1>0. ctl \in Loop /\ OneReading(ctl) /\ call[Controller].do = "idle" /\ ctl.phase = "check"
  BY DEF PodInv, LoopOK, CheckPod, InPhase, Do
<1>b. ctl.list \subseteq ctl.pods /\ ctl.doomed \subseteq ctl.pods /\ ctl.pods \subseteq Listed
  BY <1>0 DEF Loop, OneReading
<1>1. ASSUME NEW x \in ctl.list, Begin(Remedy(x)), ctl' = [ctl EXCEPT !.list = @ \ {x}]
      PROVE  CallsOK' /\ LoopOK'
  <2>1. x \in Listed
    BY <1>b
  <2>2. /\ ctl' \in Loop /\ ctl'.pods = ctl.pods /\ ctl'.list = ctl.list \ {x}
        /\ ctl'.doomed = ctl.doomed /\ ctl'.phase = ctl.phase /\ ctl'.stopped = ctl.stopped
    BY <1>0, <1>b, <1>1 DEF Loop
  <2>3. OneReading(ctl')
    BY <1>0, <1>b, <2>2, ReadingKept
  <2>4. CASE Remedy(x) = NoCall
    <3>1. Moves(Controller, NoCall) /\ Respects(NoCall, ctl')
      BY <1>1, <2>4, NoCallIs, QuietCall DEF Moves, Begin, Restarts
    <3> QED
      BY <2>2, <2>3, <3>1, LoopKeeps
  <2>5. CASE ~x.info.StoppedByUser /\ Remedy(x) \in {StartCall(x.pod), RecreateCall(x)}
    <3>1. x \in ctl'.pods
      BY <1>b, <2>2
    <3>2. Moves(Controller, Remedy(x)) /\ Respects(Remedy(x), ctl')
      BY <1>1, <2>1, <2>3, <2>5, <3>1, RestartMoves
    <3> QED
      BY <2>2, <2>3, <3>2, LoopKeeps
  <2> QED
    BY <2>1, <2>4, <2>5, RemedyIs
<1>2. CASE ctl' = [ctl EXCEPT !.phase = "sets"] /\ UNCHANGED call
  <2>1. /\ ctl' \in Loop /\ ctl'.pods = ctl.pods /\ ctl'.list = ctl.list
        /\ ctl'.doomed = ctl.doomed /\ ctl'.phase = "sets" /\ ctl'.stopped = ctl.stopped
    BY <1>0, <1>2 DEF Loop, Phases
  <2>2. OneReading(ctl')
    BY <1>0, <1>b, <2>1, ReadingKept
  <2> QED
    BY <1>0, <1>2, <2>1, <2>2, LoopKeeps
<1> QED
  BY <1>1, <1>2 DEF CheckPod

LEMMA WalkTemplatesKeeps ==
    ASSUME PodInv, WalkTemplates
    PROVE  CallsOK' /\ LoopOK'
<1>0. ctl \in Loop /\ OneReading(ctl) /\ call[Controller].do = "idle" /\ ctl.phase = "walk templates"
  BY DEF PodInv, LoopOK, WalkTemplates, InPhase, Do
<1>b. /\ ctl.list \subseteq ctl.pods /\ ctl.doomed \subseteq ctl.pods /\ ctl.pods \subseteq Listed
      /\ ctl.templates \subseteq TemplateIds
  BY <1>0 DEF Loop, OneReading
<1>1. ASSUME NEW t \in ctl.templates, NEW loop, loop = [ctl EXCEPT !.templates = @ \ {t}]
      PROVE  /\ loop \in Loop /\ loop.pods = ctl.pods /\ loop.list = ctl.list
             /\ loop.doomed = ctl.doomed /\ loop.phase = ctl.phase /\ loop.stopped = ctl.stopped
             /\ OneReading(loop)
  <2>1. /\ loop \in Loop /\ loop.pods = ctl.pods /\ loop.list = ctl.list
        /\ loop.doomed = ctl.doomed /\ loop.phase = ctl.phase /\ loop.stopped = ctl.stopped
    BY <1>0, <1>b, <1>1 DEF Loop
  <2> QED
    BY <1>0, <1>b, <2>1, ReadingKept
<1>2. ASSUME NEW t \in ctl.templates
      PROVE  LET loop == [ctl EXCEPT !.templates = @ \ {t}]
                 list == PodsByTemplate(t)
             IN  /\ ctl' = loop /\ UNCHANGED call => CallsOK' /\ LoopOK'
                 /\ (Begin(CreateCall(t, None, "return")) /\ ctl' = loop) => CallsOK' /\ LoopOK'
                 /\ (/\ ctl' = [loop EXCEPT !.phase = "walk pods", !.list = list,
                                            !.stopped = None]
                     /\ UNCHANGED call) => CallsOK' /\ LoopOK'
  <2> DEFINE loop == [ctl EXCEPT !.templates = @ \ {t}]
             list == PodsByTemplate(t)
  <2>1. /\ loop \in Loop /\ loop.pods = ctl.pods /\ loop.list = ctl.list
        /\ loop.doomed = ctl.doomed /\ loop.phase = ctl.phase /\ loop.stopped = ctl.stopped
        /\ OneReading(loop)
    BY <1>1
  <2>2. list \subseteq ctl.pods /\ list \in SUBSET Listed
    BY <1>b DEF PodsByTemplate
  <2> HIDE DEF loop, list
  <2>3. ASSUME ctl' = loop, UNCHANGED call PROVE CallsOK' /\ LoopOK'
    BY <1>0, <2>1, <2>3, LoopKeeps
  <2>4. ASSUME Begin(CreateCall(t, None, "return")), ctl' = loop PROVE CallsOK' /\ LoopOK'
    <3> DEFINE c == CreateCall(t, None, "return")
    <3>1. t \in TemplateIds
      BY <1>b
    <3>2. c \in Call /\ Ready(c) /\ c.do = "template"
      BY <3>1, CreateCallIs
    <3>3. Moves(Controller, c) /\ Respects(c, ctl')
      BY <2>4, <3>2, QuietCall DEF Moves, Begin, Restarts
    <3> QED
      BY <2>1, <2>4, <3>3, LoopKeeps
  <2>5. ASSUME ctl' = [[[loop EXCEPT !.phase = "walk pods"] EXCEPT !.list = list]
                         EXCEPT !.stopped = None], UNCHANGED call
        PROVE  CallsOK' /\ LoopOK'
    <3>1. /\ ctl' \in Loop /\ ctl'.pods = ctl.pods /\ ctl'.list = list
          /\ ctl'.doomed = ctl.doomed /\ ctl'.phase = "walk pods" /\ ctl'.stopped = None
      BY <2>1, <2>2, <2>5 DEF Loop, Phases
    <3>2. OneReading(ctl')
      BY <1>0, <1>b, <2>2, <3>1, ReadingKept
    <3> QED
      BY <1>0, <2>5, <3>1, <3>2, LoopKeeps
  <2> QED
    BY <2>3, <2>4, <2>5 DEF loop, list
<1>3. CASE ctl' = NoLoop /\ UNCHANGED call
  BY <1>0, <1>3, NoLoopIs, LoopKeeps
<1> QED
  BY <1>2, <1>3 DEF WalkTemplates

LEMMA WalkPodKeeps ==
    ASSUME PodInv, WalkPod
    PROVE  CallsOK' /\ LoopOK'
<1>0. ctl \in Loop /\ OneReading(ctl) /\ call[Controller].do = "idle" /\ ctl.phase = "walk pods"
  BY DEF PodInv, LoopOK, WalkPod, InPhase, Do
<1>b. /\ ctl.list \subseteq ctl.pods /\ ctl.doomed \subseteq ctl.pods /\ ctl.pods \subseteq Listed
      /\ ctl.stopped \in PodIds \cup {None}
      /\ \A x \in ctl.pods : x.pod = ctl.stopped => ~x.info.StoppedByUser
  BY <1>0 DEF Loop, OneReading
<1>1. ASSUME NEW back, back = [[[ctl EXCEPT !.phase = "walk templates"] EXCEPT !.list = {}]
                                 EXCEPT !.stopped = None]
      PROVE  back \in Loop /\ back.pods = ctl.pods /\ OneReading(back)
  <2>1. /\ back \in Loop /\ back.pods = ctl.pods /\ back.list = {}
        /\ back.doomed = ctl.doomed /\ back.phase = "walk templates" /\ back.stopped = None
    BY <1>0, <1>1 DEF Loop, Phases
  <2> QED
    BY <1>0, <1>b, <2>1, ReadingKept
<1>2. ASSUME NEW x \in ctl.list, NEW rest, rest = [ctl EXCEPT !.list = @ \ {x}]
      PROVE  /\ rest \in Loop /\ rest.pods = ctl.pods /\ rest.list = ctl.list \ {x}
             /\ rest.doomed = ctl.doomed /\ rest.phase = ctl.phase /\ rest.stopped = ctl.stopped
             /\ OneReading(rest)
  <2>1. /\ rest \in Loop /\ rest.pods = ctl.pods /\ rest.list = ctl.list \ {x}
        /\ rest.doomed = ctl.doomed /\ rest.phase = ctl.phase /\ rest.stopped = ctl.stopped
    BY <1>0, <1>b, <1>2 DEF Loop
  <2> QED
    BY <1>0, <1>b, <2>1, ReadingKept
<1>3. ASSUME NEW x \in ctl.list
      PROVE  LET back == [ctl EXCEPT !.phase = "walk templates", !.list = {}, !.stopped = None]
                 rest == [ctl EXCEPT !.list = @ \ {x}]
             IN  /\ \A c \in {StartCall(x.pod), RecreateCall(x)} :
                       (MayRestart(x) /\ Begin(c) /\ ctl' = back) => CallsOK' /\ LoopOK'
                 /\ (UNCHANGED call /\ ctl' = back) => CallsOK' /\ LoopOK'
                 /\ (UNCHANGED call /\ ctl' = rest) => CallsOK' /\ LoopOK'
                 /\ (UNCHANGED call /\ MayRestart(x) /\ ctl' = [rest EXCEPT !.stopped = x.pod]) =>
                       CallsOK' /\ LoopOK'
  <2> DEFINE back == [[[ctl EXCEPT !.phase = "walk templates"] EXCEPT !.list = {}]
                        EXCEPT !.stopped = None]
             rest == [ctl EXCEPT !.list = @ \ {x}]
  <2>1. back \in Loop /\ back.pods = ctl.pods /\ OneReading(back)
    BY <1>1
  <2>2. /\ rest \in Loop /\ rest.pods = ctl.pods /\ rest.list = ctl.list \ {x}
        /\ rest.doomed = ctl.doomed /\ rest.phase = ctl.phase /\ rest.stopped = ctl.stopped
        /\ OneReading(rest)
    BY <1>2
  <2>3. x \in Listed /\ x \in ctl.pods /\ x.pod \in PodIds
    BY <1>b DEF Listed
  <2> HIDE DEF back, rest
  <2>4. ASSUME NEW c \in {StartCall(x.pod), RecreateCall(x)}, MayRestart(x), Begin(c), ctl' = back
        PROVE  CallsOK' /\ LoopOK'
    <3>1. Moves(Controller, c) /\ Respects(c, ctl')
      BY <2>1, <2>3, <2>4, RestartMoves DEF MayRestart
    <3> QED
      BY <2>1, <2>4, <3>1, LoopKeeps
  <2>5. ASSUME UNCHANGED call, ctl' = back \/ ctl' = rest PROVE CallsOK' /\ LoopOK'
    BY <1>0, <2>1, <2>2, <2>5, LoopKeeps
  <2>6. ASSUME UNCHANGED call, MayRestart(x), ctl' = [rest EXCEPT !.stopped = x.pod]
        PROVE  CallsOK' /\ LoopOK'
    <3> DEFINE p == x.pod
    <3> HIDE DEF p
    <3>1. p \in PodIds /\ ctl' = [rest EXCEPT !.stopped = p]
      BY <2>3, <2>6 DEF p
    <3>2. /\ ctl' \in Loop /\ ctl'.pods = ctl.pods /\ ctl'.list = rest.list
          /\ ctl'.doomed = ctl.doomed /\ ctl'.phase = ctl.phase /\ ctl'.stopped = p
      BY <2>2, <3>1 DEF Loop
    <3>3. \E y \in ctl.pods : ctl'.stopped = y.pod /\ ~y.info.StoppedByUser
      BY <2>3, <2>6, <3>2 DEF MayRestart, p
    <3>4. OneReading(ctl')
      BY <1>0, <1>b, <2>2, <3>2, <3>3, ReadingKept
    <3> QED
      BY <1>0, <2>6, <3>2, <3>4, LoopKeeps
  <2> QED
    BY <2>4, <2>5, <2>6 DEF back, rest
<1>4. ASSUME ctl' = [[ctl EXCEPT !.phase = "walk templates"] EXCEPT !.stopped = None],
             IF ctl.stopped # None THEN Begin(StartCall(ctl.stopped)) ELSE UNCHANGED call
      PROVE  CallsOK' /\ LoopOK'
  <2>1. /\ ctl' \in Loop /\ ctl'.pods = ctl.pods /\ ctl'.list = ctl.list
        /\ ctl'.doomed = ctl.doomed /\ ctl'.phase = "walk templates" /\ ctl'.stopped = None
    BY <1>0, <1>4 DEF Loop, Phases
  <2>2. OneReading(ctl')
    BY <1>0, <1>b, <2>1, ReadingKept
  <2>3. CASE ctl.stopped = None
    BY <1>0, <1>4, <2>1, <2>2, <2>3, LoopKeeps
  <2>4. CASE ctl.stopped # None
    <3> DEFINE c == StartCall(ctl.stopped)
    <3>1. c \in Call /\ Ready(c) /\ c.pod = ctl.stopped
      BY <1>b, <2>4, PodCallsAre
    <3> HIDE DEF c
    <3>2. Respects(c, ctl')
      BY <1>b, <2>1, <3>1 DEF Respects
    <3>3. Moves(Controller, c)
      BY <1>4, <2>4, <3>1 DEF Moves, Begin, c
    <3> QED
      BY <2>1, <2>2, <3>2, <3>3, LoopKeeps
  <2> QED
    BY <2>3, <2>4
<1>5. ASSUME NEW x \in ctl.list,
             LET back == [ctl EXCEPT !.phase = "walk templates", !.list = {},
                                    !.stopped = None]
                 rest == [ctl EXCEPT !.list = @ \ {x}]
             IN  \/ /\ MayRestart(x) /\ infra[x.pod] \notin Up
                    /\ Begin(RecreateCall(x)) /\ ctl' = back
                 \/ /\ IF x.info.State = "degraded" /\ MayRestart(x)
                       THEN Begin(StartCall(x.pod)) ELSE UNCHANGED call
                    /\ ctl' = back
                 \/ /\ ctl' = IF ~MayRestart(x) \/ ctl.stopped # None
                              THEN rest ELSE [rest EXCEPT !.stopped = x.pod]
                    /\ UNCHANGED call
      PROVE  CallsOK' /\ LoopOK'
  BY <1>3, <1>5, Zenon
<1> QED
  BY <1>4, <1>5 DEF WalkPod

LEMMA PurgesKeep ==
    ASSUME PodInv, PurgeContainers \/ PurgePod
    PROVE  CallsOK' /\ LoopOK'
<1> DEFINE c == call[Controller]
<1>0. /\ CallsOK /\ ctl \in Loop /\ OneReading(ctl) /\ Controller \in Actors /\ UNCHANGED ctl
      /\ c \in Call /\ Ready(c) /\ c.do \in {"purge", "purge pod"}
  BY Bounds DEF PodInv, CallsOK, LoopOK, PurgeContainers, PurgePod, Do
<1>1. c.pod \in PodIds
  BY <1>0, AtStep DEF PodSteps
<1>2. CASE PurgeContainers
  <2> DEFINE q == [c EXCEPT !.do = "purge pod"]
  <2>1. q \in Call /\ q.do = "purge pod" /\ q.pod = c.pod
    BY <1>0 DEF Call, Steps, PodSteps
  <2>2. call' = [call EXCEPT ![Controller] = q]
    BY <1>2 DEF PurgeContainers, Goto
  <2> HIDE DEF q, c
  <2>3. Ready(q) /\ ~Restarts(q)
    BY <1>1, <2>1 DEF Ready, PodSteps, MakeSteps, Restarts
  <2> QED
    BY <1>0, <2>1, <2>2, <2>3, QuietCall, LoopKeeps DEF Moves
<1>3. CASE PurgePod
  <2>1. PICK q : /\ call' = [call EXCEPT ![Controller] = q]
                 /\ q = IF c.template = None THEN NoCall ELSE CreateCall(c.template, None, c.then)
    BY <1>3 DEF PurgePod, Begin
  <2>2. c.template \in TemplateIds \cup {None} /\ c.then \in {"return", "start", "fill", "labels"}
    BY <1>0 DEF Call
  <2> HIDE DEF c
  <2>3. q \in Call /\ Ready(q) /\ q.do \in {"idle", "template"}
    <3>1. CASE c.template = None
      BY <2>1, <3>1, NoCallIs
    <3>2. CASE c.template # None
      BY <2>1, <2>2, <3>2, CreateCallIs
    <3> QED
      BY <3>1, <3>2
  <2>4. Moves(Controller, q) /\ Respects(q, ctl')
    BY <2>1, <2>3, QuietCall DEF Moves, Restarts
  <2> QED
    BY <1>0, <2>4, LoopKeeps
<1> QED
  BY <1>2, <1>3

LEMMA ControllerCalls ==
    ASSUME PodInv, ControllerStep
    PROVE  CallsOK' /\ LoopOK'
<1>1. CASE CallStep(Controller)
  BY <1>1, Bounds, CallAdvances, AdvancesKeeps
<1> QED
  BY <1>1, ReadsKeep, ReconcileSetKeeps, CreateReplicaKeeps, DeleteExcessKeeps, CheckPodKeeps,
     WalkTemplatesKeeps, WalkPodKeeps, PurgesKeep DEF ControllerStep

-----------------------------------------------------------------------------
\* The stores and the containers.

LEMMA PodRecords ==
    ASSUME StoreOK, NEW p \in PodIds
    PROVE  /\ IsPodExist(p) =>
                 \A state \in {"created", "running", "stopped", "degraded"} :
                     [pods EXCEPT ![p].State = state] \in [PodIds -> PodInfo \cup {None}]
           /\ IsPodExist(p) =>
                 \A stopped \in BOOLEAN :
                     [pods EXCEPT ![p].StoppedByUser = stopped] \in [PodIds -> PodInfo \cup {None}]
           /\ \A x \in PodInfo \cup {None} :
                 [pods EXCEPT ![p] = x] \in [PodIds -> PodInfo \cup {None}]
<1>1. pods \in [PodIds -> PodInfo \cup {None}]
  BY DEF StoreOK
<1>2. ASSUME IsPodExist(p) PROVE pods[p] \in PodInfo
  BY <1>1, <1>2 DEF IsPodExist
<1>3. ASSUME IsPodExist(p), NEW state \in {"created", "running", "stopped", "degraded"}
      PROVE  [pods[p] EXCEPT !.State = state] \in PodInfo
  BY <1>2, <1>3 DEF PodInfo
<1>4. ASSUME IsPodExist(p), NEW stopped \in BOOLEAN
      PROVE  [pods[p] EXCEPT !.StoppedByUser = stopped] \in PodInfo
  BY <1>2, <1>4 DEF PodInfo
<1> QED
  BY <1>1, <1>3, <1>4

LEMMA MakePodStores ==
    ASSUME PodInv, NEW a \in Actors,
           \/ GetPodTemplate(a) \/ LookupName(a) \/ StorePod(a) \/ RemoveReads(a)
           \/ CheckTemplate(a) \/ StartReads(a)
    PROVE  StoreOK' /\ BoxesOK' /\ CountsOK'
<1>0. StoreOK /\ BoxesOK /\ CountsOK
  BY DEF PodInv
<1>1. CASE GetPodTemplate(a) \/ LookupName(a) \/ RemoveReads(a) \/ CheckTemplate(a) \/ StartReads(a)
  <2>1. UNCHANGED <<psm, boxes, requests, deaths>>
    BY <1>1 DEF GetPodTemplate, LookupName, RemoveReads, CheckTemplate, StartReads
  <2> QED
    BY <1>0, <2>1 DEF StoreOK, BoxesOK, CountsOK, psm, boxes
<1>2. CASE StorePod(a)
  <2>1. PICK p \in PodIds, x \in PodInfo : pods' = [pods EXCEPT ![p] = x]
    BY <1>2, StorePodAdvances
  <2>2. UNCHANGED <<templates, sets, boxes, requests, deaths>>
    BY <1>2 DEF StorePod
  <2>3. pods' \in [PodIds -> PodInfo \cup {None}]
    BY <1>0, <2>1, PodRecords
  <2> QED
    BY <1>0, <2>2, <2>3 DEF StoreOK, BoxesOK, CountsOK, boxes
<1> QED
  BY <1>1, <1>2

LEMMA StopContainersType ==
    ASSUME StoreOK, NEW p \in PodIds, NEW S, StopContainers(p, S)
    PROVE  pods' \in [PodIds -> PodInfo \cup {None}]
<1>1. UNCHANGED pods \/ (IsPodExist(p) /\ pods' = [pods EXCEPT ![p].State = "degraded"])
  BY DEF StopContainers
<1>2. IsPodExist(p) => [pods EXCEPT ![p].State = "degraded"] \in [PodIds -> PodInfo \cup {None}]
  BY PodRecords
<1>3. pods \in [PodIds -> PodInfo \cup {None}]
  BY DEF StoreOK
<1> QED
  BY <1>1, <1>2, <1>3, Zenon

LEMMA DeleteContainersType ==
    ASSUME BoxesOK, NEW p, NEW S, DeleteContainers(p, S)
    PROVE  BoxesOK'
BY DEF BoxesOK, DeleteContainers, ContainerStates

LEMMA RemoveStores ==
    ASSUME PodInv, NEW a \in Actors, RemoveContainers(a) \/ RemovePod(a) \/ RemovePodTemplate(a)
    PROVE  StoreOK' /\ BoxesOK' /\ CountsOK'
<1>0. StoreOK /\ BoxesOK /\ CountsOK /\ CallsOK
  BY DEF PodInv
<1>1. CASE RemoveContainers(a)
  <2>1. /\ UNCHANGED <<templates, sets, requests, deaths>>
        /\ UNCHANGED boxes \/ DeleteContainers(call[a].pod, call[a].seen)
        /\ UNCHANGED pods \/ StopContainers(call[a].pod, call[a].seen)
    BY <1>1 DEF RemoveContainers
  <2>2. BoxesOK'
    BY <1>0, <2>1, DeleteContainersType DEF BoxesOK, boxes
  <2>3. call[a].pod \in PodIds
    BY <1>0, <1>1, AtStep DEF RemoveContainers, Do, PodSteps
  <2>4. pods' \in [PodIds -> PodInfo \cup {None}]
    BY <1>0, <2>1, <2>3, StopContainersType DEF StoreOK
  <2> QED
    BY <1>0, <2>1, <2>2, <2>4 DEF StoreOK, CountsOK
<1>2. CASE RemovePod(a)
  <2>1. call[a].pod \in PodIds
    BY <1>0, <1>2, AtStep DEF RemovePod, Do, PodSteps
  <2>2. /\ UNCHANGED <<templates, sets, boxes, requests, deaths>>
        /\ UNCHANGED pods \/ pods' = [pods EXCEPT ![call[a].pod] = None]
    BY <1>2 DEF RemovePod
  <2>3. pods' \in [PodIds -> PodInfo \cup {None}]
    BY <1>0, <2>1, <2>2, PodRecords DEF StoreOK
  <2> QED
    BY <1>0, <2>2, <2>3 DEF StoreOK, BoxesOK, CountsOK, boxes
<1>3. CASE RemovePodTemplate(a)
  <2>1. /\ UNCHANGED <<pods, sets, boxes, requests, deaths>>
        /\ templates' = [templates EXCEPT ![call[a].old] = None]
    BY <1>3 DEF RemovePodTemplate
  <2> QED
    BY <1>0, <2>1 DEF StoreOK, BoxesOK, CountsOK, boxes
<1> QED
  BY <1>1, <1>2, <1>3

LEMMA StartStores ==
    ASSUME PodInv, NEW a \in Actors,
           EnsurePodInfra(a) \/ CreateMember(a) \/ StartContainers(a) \/ StopMember(a)
    PROVE  StoreOK' /\ BoxesOK' /\ CountsOK'
<1>0. StoreOK /\ BoxesOK /\ CountsOK /\ CallsOK
  BY DEF PodInv
<1>1. call[a].pod \in PodIds
  BY <1>0, AtStep DEF EnsurePodInfra, CreateMember, StartContainers, StopMember, Do, PodSteps
<1>2. /\ UNCHANGED <<templates, sets, requests, deaths>>
      /\ UNCHANGED pods \/ StopContainers(call[a].pod, {"member"})
  BY DEF EnsurePodInfra, CreateMember, StartContainers, StopMember, psm
<1>4. pods' \in [PodIds -> PodInfo \cup {None}]
  BY <1>0, <1>1, <1>2, StopContainersType DEF StoreOK
<1>3. BoxesOK'
  <2>1. CASE EnsurePodInfra(a)
    BY <1>0, <2>1 DEF EnsurePodInfra, BoxesOK, ContainerStates
  <2>2. CASE CreateMember(a)
    BY <1>0, <2>2 DEF CreateMember, BoxesOK, ContainerStates
  <2>3. CASE StartContainers(a)
    <3> DEFINE p == call[a].pod
               i == IF infra[p] \in Up \cup {"none"} THEN infra[p] ELSE "running"
               m == IF member[p] \in Up \cup {"none"} THEN member[p] ELSE "running"
    <3>1. /\ infra' = [infra EXCEPT ![p] = i] /\ member' = [member EXCEPT ![p] = m]
          /\ late' = late \ {p}
      BY <2>3 DEF StartContainers
    <3>2. i \in ContainerStates \ {"created"} /\ m \in ContainerStates
      BY <1>0, <1>1 DEF BoxesOK, ContainerStates
    <3> HIDE DEF i, m, p
    <3> QED
      BY <1>0, <3>1, <3>2 DEF BoxesOK
  <2>4. CASE StopMember(a)
    BY <1>0, <1>1, <2>4 DEF StopMember, BoxesOK, ContainerStates
  <2> QED
    BY <2>1, <2>2, <2>3, <2>4
<1> QED
  BY <1>0, <1>2, <1>3, <1>4 DEF StoreOK, CountsOK

LEMMA MarkStores ==
    ASSUME PodInv, NEW a \in Actors,
           \/ MarkPod(a, "mark", "running", "unflag") \/ MarkPod(a, "stopped", "stopped", "flag")
           \/ UpdatePodStoppedByUser(a, "unflag", FALSE) \/ UpdatePodStoppedByUser(a, "flag", TRUE)
    PROVE  StoreOK' /\ BoxesOK' /\ CountsOK'
<1>0. StoreOK /\ BoxesOK /\ CountsOK /\ CallsOK
  BY DEF PodInv
<1> DEFINE p == call[a].pod
<1>1. p \in PodIds
  BY <1>0, AtStep DEF MarkPod, UpdatePodStoppedByUser, Do, PodSteps
<1>2. UNCHANGED <<templates, sets, boxes, requests, deaths>>
  BY DEF MarkPod, UpdatePodStoppedByUser
<1>3. ASSUME NEW step, NEW state \in {"running", "stopped"}, NEW next, MarkPod(a, step, state, next)
      PROVE  pods' \in [PodIds -> PodInfo \cup {None}]
  <2>1. UNCHANGED pods \/ (IsPodExist(p) /\ pods' = [pods EXCEPT ![p].State = state])
    BY <1>3 DEF MarkPod, UpdatePod
  <2>2. IsPodExist(p) => [pods EXCEPT ![p].State = state] \in [PodIds -> PodInfo \cup {None}]
    BY <1>0, <1>1, PodRecords
  <2>3. pods \in [PodIds -> PodInfo \cup {None}]
    BY <1>0 DEF StoreOK
  <2> HIDE DEF p
  <2> QED
    BY <2>1, <2>2, <2>3, Zenon
<1>4. ASSUME NEW step, NEW stopped \in BOOLEAN, UpdatePodStoppedByUser(a, step, stopped)
      PROVE  pods' \in [PodIds -> PodInfo \cup {None}]
  <2>1. UNCHANGED pods \/ (IsPodExist(p) /\ pods' = [pods EXCEPT ![p].StoppedByUser = stopped])
    BY <1>4 DEF UpdatePodStoppedByUser
  <2>2. IsPodExist(p) => [pods EXCEPT ![p].StoppedByUser = stopped] \in [PodIds -> PodInfo \cup {None}]
    BY <1>0, <1>1, PodRecords
  <2>3. pods \in [PodIds -> PodInfo \cup {None}]
    BY <1>0 DEF StoreOK
  <2> HIDE DEF p
  <2> QED
    BY <2>1, <2>2, <2>3, Zenon
<1>5. pods' \in [PodIds -> PodInfo \cup {None}]
  BY <1>3, <1>4
<1> QED
  BY <1>0, <1>2, <1>5 DEF StoreOK, BoxesOK, CountsOK, boxes

LEMMA CallStores ==
    ASSUME PodInv, NEW a \in Actors, CallStep(a)
    PROVE  StoreOK' /\ BoxesOK' /\ CountsOK'
BY MakePodStores, RemoveStores, StartStores, MarkStores DEF CallStep

\* A request is counted.
LEMMA RequestCounts ==
    ASSUME CountsOK, NEW u, NEW kind, Request(u, kind), UNCHANGED deaths
    PROVE  CountsOK'
BY PodAssumption DEF CountsOK, Request

LEMMA RequestStores ==
    ASSUME PodInv, NEW u \in Users, NewRequest(u)
    PROVE  StoreOK' /\ BoxesOK' /\ CountsOK'
<1>0. StoreOK /\ BoxesOK /\ CountsOK
  BY DEF PodInv
<1>1. PICK what : Request(u, what) /\ UNCHANGED <<pods, boxes, deaths>>
  BY DEF NewRequest, CreatePod, ApplyReplicaSet, ScaleReplicaSet, RemoveReplicaSet,
     removeReplicaSetById, DeleteResourceYaml, PodRequest, psm
<1>2. CountsOK' /\ BoxesOK'
  BY <1>0, <1>1, RequestCounts DEF BoxesOK, boxes
<1>3. ASSUME NEW t, NEW b \in BaseNames, StorePodTemplate(t, b), UNCHANGED <<pods, sets>>
      PROVE  StoreOK'
  BY <1>0, <1>3 DEF StoreOK, StorePodTemplate
<1>4. ASSUME NEW s \in SetIds, NEW n \in 0..MaxReplicas, ScaleReplicaSet(u, s, n)
      PROVE  StoreOK'
  <2>1. sets[s] \in SetInfo
    BY <1>0, <1>4 DEF StoreOK, ScaleReplicaSet
  <2>2. [sets[s] EXCEPT !.Replicas = n] \in SetInfo
    BY <2>1 DEF SetInfo
  <2>3. /\ sets' = [sets EXCEPT ![s] = [sets[s] EXCEPT !.Replicas = n]]
        /\ UNCHANGED <<pods, templates>>
    BY <1>4 DEF ScaleReplicaSet
  <2> QED
    BY <1>0, <2>2, <2>3 DEF StoreOK
<1>5. ASSUME NEW s \in SetIds, NEW how, removeReplicaSetById(u, s, how)
      PROVE  StoreOK'
  BY <1>0, <1>5 DEF StoreOK, removeReplicaSetById
<1>6. ASSUME UNCHANGED psm PROVE StoreOK'
  BY <1>0, <1>6 DEF StoreOK, psm
<1>7. StoreOK'
  <2>1. ASSUME NEW b \in BaseNames, NEW kind, NEW uid, CreatePod(u, kind, b, uid) PROVE StoreOK'
    BY <1>3, <2>1 DEF CreatePod
  <2>2. ASSUME NEW b \in BaseNames, NEW n, ApplyReplicaSet(u, b, n) PROVE StoreOK'
    BY <1>3, <2>2 DEF ApplyReplicaSet
  <2>3. ASSUME NEW s \in SetIds, RemoveReplicaSet(u, s) PROVE StoreOK'
    BY <1>5, <2>3 DEF RemoveReplicaSet
  <2>4. CASE DeleteResourceYaml(u)
    BY <1>5, <1>6, <2>4 DEF DeleteResourceYaml
  <2>5. ASSUME NEW p, NEW kind, PodRequest(u, kind, p) PROVE StoreOK'
    BY <1>6, <2>5 DEF PodRequest
  <2> QED
    BY <1>4, <2>1, <2>2, <2>3, <2>4, <2>5 DEF NewRequest
<1> QED
  BY <1>2, <1>7

LEMMA UserStores ==
    ASSUME PodInv, NEW u \in Users, UserStep(u)
    PROVE  StoreOK' /\ BoxesOK' /\ CountsOK'
<1>0. StoreOK /\ BoxesOK /\ CountsOK /\ CallsOK /\ u \in Actors
  BY Bounds DEF PodInv
<1>1. CASE StoreReplicaSet(u)
  <2> DEFINE r == [template |-> call[u].template, name |-> call[u].name, Replicas |-> call[u].n]
  <2>1. r \in SetInfo
    <3>1. call[u].do = "store set" /\ call[u] \in Call /\ Ready(call[u])
      BY <1>0, <1>1 DEF StoreReplicaSet, Do, CallsOK
    <3>2. call[u].template \in TemplateIds /\ call[u].name \in BaseNames
      BY <3>1 DEF Ready, MakeSteps
    <3>3. call[u].n \in 0..MaxReplicas
      BY <3>1 DEF Call
    <3> QED
      BY <3>2, <3>3 DEF SetInfo
  <2>2. PICK s \in SetIds : sets' = [sets EXCEPT ![s] = r]
    BY <1>1 DEF StoreReplicaSet
  <2> HIDE DEF r
  <2>3. sets' \in [SetIds -> SetInfo \cup {None}]
    BY <1>0, <2>1, <2>2 DEF StoreOK
  <2>4. UNCHANGED <<pods, templates, boxes, requests, deaths>>
    BY <1>1 DEF StoreReplicaSet
  <2> QED
    BY <1>0, <2>3, <2>4 DEF StoreOK, BoxesOK, CountsOK, boxes
<1>2. CASE ListPods(u) \/ NextPod(u)
  <2>1. UNCHANGED <<psm, boxes, requests, deaths>>
    BY <1>2 DEF ListPods, NextPod
  <2> QED
    BY <1>0, <2>1 DEF StoreOK, BoxesOK, CountsOK, psm, boxes
<1> QED
  BY <1>0, <1>1, <1>2, CallStores, StartStores, MarkStores DEF UserStep

LEMMA ControllerStores ==
    ASSUME PodInv, ControllerStep
    PROVE  StoreOK' /\ BoxesOK' /\ CountsOK'
<1>0. StoreOK /\ BoxesOK /\ CountsOK /\ CallsOK /\ Controller \in Actors
  BY Bounds DEF PodInv
<1>1. CASE \/ ReadReplicaSets \/ ReadTemplates \/ ReadPods \/ ReconcileSet \/ CreateReplica
           \/ DeleteExcess \/ CheckPod \/ WalkTemplates \/ WalkPod
  <2>1. UNCHANGED <<psm, boxes, requests, deaths>>
    BY <1>1 DEF ReadReplicaSets, ReadTemplates, ReadPods, ReconcileSet, CreateReplica,
         DeleteExcess, CheckPod, WalkTemplates, WalkPod
  <2> QED
    BY <1>0, <2>1 DEF StoreOK, BoxesOK, CountsOK, psm, boxes
<1>2. CASE PurgeContainers
  <2>1. /\ UNCHANGED <<templates, sets, requests, deaths>>
        /\ StopContainers(call[Controller].pod, {"infra", "member"})
        /\ DeleteContainers(call[Controller].pod, {"infra", "member"})
    BY <1>2 DEF PurgeContainers
  <2>2. BoxesOK'
    BY <1>0, <2>1, DeleteContainersType
  <2>3. call[Controller].pod \in PodIds
    BY <1>0, <1>2, AtStep DEF PurgeContainers, Do, PodSteps
  <2>4. pods' \in [PodIds -> PodInfo \cup {None}]
    BY <1>0, <2>1, <2>3, StopContainersType
  <2> QED
    BY <1>0, <2>1, <2>2, <2>4 DEF StoreOK, CountsOK
<1>3. CASE PurgePod
  <2>1. call[Controller].pod \in PodIds
    BY <1>0, <1>3, AtStep DEF PurgePod, Do, PodSteps
  <2>2. /\ UNCHANGED <<templates, sets, boxes, requests, deaths>>
        /\ pods' = [pods EXCEPT ![call[Controller].pod] = None]
    BY <1>3 DEF PurgePod
  <2>3. pods' \in [PodIds -> PodInfo \cup {None}]
    BY <1>0, <2>1, <2>2, PodRecords
  <2> QED
    BY <1>0, <2>2, <2>3 DEF StoreOK, BoxesOK, CountsOK, boxes
<1> QED
  BY <1>0, <1>1, <1>2, <1>3, CallStores DEF ControllerStep

\* A death, and the monitor that notices it: neither is a step of a call.
LEMMA ProcessesKeep ==
    ASSUME PodInv, NEW p \in PodIds, InfraDown(p) \/ MemberDown(p) \/ ProcessDies(p)
    PROVE  PodInv'
<1>0. StoreOK /\ BoxesOK /\ CountsOK /\ CallsOK /\ LoopOK
  BY DEF PodInv
<1>1. CallsOK' /\ LoopOK'
  <2>1. UNCHANGED <<call, ctl>>
    BY DEF InfraDown, MemberDown, ProcessDies
  <2> QED
    BY <1>0, <2>1 DEF CallsOK, LoopOK
<1>2. CASE InfraDown(p)
  <2>1. UNCHANGED <<psm, requests, deaths>> /\ BoxesOK'
    BY <1>0, <1>2 DEF InfraDown, BoxesOK, ContainerStates
  <2> QED
    BY <1>0, <1>1, <2>1 DEF PodInv, StoreOK, CountsOK, psm
<1>3. CASE MemberDown(p)
  <2>1. UNCHANGED <<templates, sets, requests, deaths>> /\ BoxesOK'
    BY <1>0, <1>3 DEF MemberDown, BoxesOK, ContainerStates
  <2>2. UNCHANGED pods \/ (IsPodExist(p) /\ pods' = [pods EXCEPT ![p].State = "degraded"])
    BY <1>3 DEF MemberDown
  <2>3. IsPodExist(p) => [pods EXCEPT ![p].State = "degraded"] \in [PodIds -> PodInfo \cup {None}]
    BY <1>0, PodRecords
  <2>4. pods \in [PodIds -> PodInfo \cup {None}]
    BY <1>0 DEF StoreOK
  <2>5. pods' \in [PodIds -> PodInfo \cup {None}]
    BY <2>2, <2>3, <2>4, Zenon
  <2> QED
    BY <1>0, <1>1, <2>1, <2>5 DEF PodInv, StoreOK, CountsOK
<1>4. CASE ProcessDies(p)
  <2>1. UNCHANGED <<psm, requests>> /\ BoxesOK'
    BY <1>0, <1>4 DEF ProcessDies, BoxesOK, ContainerStates
  <2>2. CountsOK'
    BY <1>0, <1>4, PodAssumption DEF ProcessDies, CountsOK
  <2> QED
    BY <1>0, <1>1, <2>1, <2>2 DEF PodInv, StoreOK, psm
<1> QED
  BY <1>2, <1>3, <1>4

-----------------------------------------------------------------------------
\* The stores, the containers, the calls and the controller's loop are well
\* formed in every state: a call of PodService or PodController has in hand what
\* its step needs, and the controller works on one copy of each pod it has read.
THEOREM PodInvariant == Spec => []PodInv
<1>1. Init => PodInv
  <2> SUFFICES ASSUME Init PROVE PodInv
    OBVIOUS
  <2>1. StoreOK
    BY DEF Init, StoreOK
  <2>2. BoxesOK
    BY DEF Init, BoxesOK, ContainerStates
  <2>3. CallsOK /\ call[Controller] = NoCall
    BY NoCallIs, Bounds DEF Init, CallsOK
  <2>4. ctl = NoLoop /\ LoopOK
    BY <2>3, NoLoopIs DEF Init, LoopOK, Respects
  <2>5. CountsOK
    BY PodAssumption DEF Init, CountsOK
  <2> QED
    BY <2>1, <2>2, <2>3, <2>4, <2>5 DEF PodInv
<1>2. PodInv /\ [Next]_vars => PodInv'
  <2> SUFFICES ASSUME PodInv, [Next]_vars PROVE PodInv'
    OBVIOUS
  <2>1. CASE ControllerStep
    BY <2>1, ControllerCalls, ControllerStores DEF PodInv
  <2>2. ASSUME NEW u \in Users, NewRequest(u) \/ UserStep(u) PROVE PodInv'
    BY <2>2, UserCalls, RequestStores, UserStores DEF PodInv
  <2>3. CASE UNCHANGED vars
    BY <2>3 DEF PodInv, StoreOK, BoxesOK, CallsOK, LoopOK, CountsOK, vars, psm, boxes
  <2> QED
    BY <2>1, <2>2, <2>3, ProcessesKeep DEF Next, MonitorStep
<1> QED
  BY <1>1, <1>2, PTL DEF Spec

\* Whatever the handlers, the controller and the monitor do to the pod state
\* store (psm) and to the containers, and however their steps interleave, the
\* records keep their shape, and the controller makes at most MaxReplicas pods
\* for a set and works only on pods it has read.
THEOREM PodTypeCorrect == Spec => []TypeOK
<1>1. PodInv => TypeOK
  <2> SUFFICES ASSUME PodInv PROVE TypeOK
    OBVIOUS
  <2>1. ctl.n \in 0..MaxReplicas /\ ctl.list \subseteq ctl.pods
    BY DEF PodInv, LoopOK, Loop, OneReading
  <2> QED
    BY <2>1 DEF PodInv, StoreOK, BoxesOK, CountsOK, TypeOK, SetInfo
<1> QED
  BY <1>1, PodInvariant, PTL

\* A pod that the controller starts (podHandler.Start in reconcileOnce) or makes
\* anew (recreatePod) had not been stopped by a user when reconcileOnce read it.
THEOREM UserStopIsRespected == Spec => []StopRespected
<1>1. PodInv => StopRespected
  BY DEF PodInv, LoopOK, Respects, Restarts, StopRespected, Do
<1> QED
  BY <1>1, PodInvariant, PTL
=============================================================================
