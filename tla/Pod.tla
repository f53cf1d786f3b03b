--------------------------------- MODULE Pod ---------------------------------
(***************************************************************************)
(* Pods and ReplicaSets: PodService and PodController (internal/core/pod), *)
(* the API handlers that drive them (internal/api/http/pod) and the pod    *)
(* state store (internal/store/psm).                                       *)
(*                                                                         *)
(* The controller and the users' requests are actors.  A store operation   *)
(* is one step, and so is what an actor does to the containers of a pod    *)
(* between two of them; everything an actor has read may be old when it    *)
(* acts on it.  A pod has an infra container and one member container, by  *)
(* their state in the container store ("dead": recorded as running, but    *)
(* the process is gone and the monitor has not noticed).  Whoever stops a  *)
(* running member, the container service calls its pod degraded: that      *)
(* write is part of the step that stops the member.                        *)
(*                                                                         *)
(* Not modelled: failures of the stores and of the container operations,   *)
(* selectors (a ReplicaSet's pods are those of its template), labels and   *)
(* annotations (always those of the template).                             *)
(***************************************************************************)
EXTENDS Naturals, FiniteSets

CONSTANTS
    Users,          \* the clients of the API, each with one request at a time
    Controller,     \* the pod controller
    PodIds, TemplateIds, SetIds,
    BaseNames,      \* the names in the manifests
    None,           \* no pod, template or ReplicaSet
    MaxReplicas,    \* bound on the replicas a user asks for
    Kinds,          \* the kinds of request the users make
    MaxRequests,    \* bound on their number
    MaxDeaths       \* bound on the processes that die

Actors == Users \cup {Controller}
AllKinds == {"create", "apply", "applySet", "scale", "removeSet",
             "start", "stop", "remove", "delete"}

ASSUME PodAssumption ==
    /\ Controller \notin Users
    /\ None \notin PodIds \cup TemplateIds \cup SetIds
    /\ IsFiniteSet(PodIds)
    /\ Kinds \subseteq AllKinds
    /\ {MaxReplicas, MaxRequests, MaxDeaths} \subseteq Nat

VARIABLES
    pods,       \* psm, Pods: per pod id its record
    templates,  \* psm, PodTemplates: per template id the name in it
    sets,       \* psm, ReplicaSets
    infra,      \* per pod id: its infra container
    member,     \* per pod id: its member container
    late,       \* pods stopped by a user, whose process the monitor still lists
    call,       \* per actor: the service call it is in
    ctl,        \* the controller's loop
    requests, deaths

psm == <<pods, templates, sets>>
boxes == <<infra, member, late>>
vars == <<psm, boxes, call, ctl, requests, deaths>>

-----------------------------------------------------------------------------
\* The name of a pod is that of its template (slot 0), or the ReplicaSet's
\* name and the first eight characters of a ULID, which count seconds.
Slots == 1..(Cardinality(PodIds) + 1)
PodNames == BaseNames \X (Slots \cup {0})

\* A "given" UID is the one a client chose; a "fresh" one is like no other.
PodInfo == [template: TemplateIds, name: PodNames, uid: {"given", "fresh"},
            State: {"created", "running", "stopped", "degraded"},
            StoppedByUser: BOOLEAN]

IsPodExist(p) == pods[p] # None

IsTemplateReferenced(t) == \E s \in SetIds : sets[s] # None /\ sets[s].template = t

PodsNamed(n) == {p \in PodIds : IsPodExist(p) /\ pods[p].name = n}

\* The containers of the pod that the container store lists.
Present(p) == {c \in {"infra", "member"} :
                  (IF c = "infra" THEN infra[p] ELSE member[p]) # "none"}

\* A container is listed as running until its end is noticed.
Up == {"running", "dead"}

NoCall == [do |-> "idle", pod |-> None, template |-> None, name |-> None,
           uid |-> "fresh", seen |-> {}, old |-> None, then |-> "return",
           removing |-> None, rest |-> {}, n |-> 0]

NoLoop == [phase |-> "idle", sets |-> {}, templates |-> {}, pods |-> {},
           list |-> {}, doomed |-> {}, set |-> None, n |-> 0, slot |-> 0,
           stopped |-> None]

Do(a, step) == call[a].do = step

Goto(a, step) == call' = [call EXCEPT ![a].do = step]

\* The call is over.  In removeReplicaSetById, and in DeleteResourceYaml, the
\* next pod is due.
After(a) ==
    IF call[a].removing = None /\ call[a].rest = {} THEN NoCall
    ELSE [NoCall EXCEPT !.do = "next pod", !.removing = call[a].removing,
                        !.rest = call[a].rest]

Return(a) == call' = [call EXCEPT ![a] = After(a)] /\ UNCHANGED ctl

\* The call returns an error.  The controller logs it and goes on, but stops
\* creating pods; the apply handler removes the pod whose container it could
\* not create; DeleteResourceYaml stops.
Fail(a) ==
    /\ call' = [call EXCEPT ![a] =
                   IF call[a].then = "fill" /\ call[a].do \in {"infra", "member"}
                   THEN [NoCall EXCEPT !.do = "remove", !.pod = call[a].pod]
                   ELSE IF call[a].removing = None THEN NoCall ELSE After(a)]
    /\ ctl' = IF a = Controller /\ call[a].do \in
                    {"template", "lookup", "remove", "drop", "forget", "store"}
              THEN [ctl EXCEPT !.n = 0] ELSE ctl

-----------------------------------------------------------------------------
\* CreateFromTemplate, createWithTemplate.
GetPodTemplate(a) ==
    /\ Do(a, "template")
    /\ LET t == call[a].template IN
       \/ /\ templates[t] = None
          /\ Fail(a)
       \/ /\ templates[t] # None
          /\ call' = [call EXCEPT ![a].do = "lookup",
                                  ![a].name = IF @ = None THEN <<templates[t], 0>> ELSE @]
          /\ UNCHANGED ctl
    /\ UNCHANGED <<psm, boxes, requests, deaths>>

\* A pod of the name with another UID is removed, and replaced.
LookupName(a) ==
    /\ Do(a, "lookup")
    /\ LET named == PodsNamed(call[a].name) IN
       \/ /\ named = {}
          /\ Goto(a, "store") /\ UNCHANGED ctl
       \/ \E p \in named :
          \/ /\ {pods[p].uid, call[a].uid} = {"given"}
             /\ Return(a)
          \/ /\ {pods[p].uid, call[a].uid} # {"given"}
             /\ call' = [call EXCEPT ![a].do = "remove", ![a].pod = p]
             /\ UNCHANGED ctl
    /\ UNCHANGED <<psm, boxes, requests, deaths>>

\* Pod ids are never used again: one that nobody remembers stands for a new one.
Unused(p) ==
    /\ ~IsPodExist(p) /\ Present(p) = {}
    /\ \A a \in Actors : call[a].pod # p /\ p \notin call[a].rest
    /\ \A x \in ctl.pods : x.pod # p
    /\ ctl.stopped # p

StorePod(a) ==
    /\ Do(a, "store")
    /\ \E q \in PodIds : Unused(q)
    /\ LET p == CHOOSE q \in PodIds : Unused(q) IN
        /\ pods' = [pods EXCEPT ![p] =
               [template |-> call[a].template, name |-> call[a].name,
                uid |-> call[a].uid, State |-> "created", StoppedByUser |-> FALSE]]
        /\ call' = [call EXCEPT ![a] =
               CASE call[a].then = "start" -> [NoCall EXCEPT !.do = "start", !.pod = p]
                 [] call[a].then = "fill"  -> [NoCall EXCEPT !.do = "infra", !.pod = p,
                                                 !.old = call[a].template, !.then = "fill"]
                 [] OTHER -> NoCall]
    /\ UNCHANGED <<templates, sets, boxes, ctl, requests, deaths>>

-----------------------------------------------------------------------------
\* Remove.
RemoveReads(a) ==
    /\ Do(a, "remove")
    /\ LET p == call[a].pod IN
       \/ /\ ~IsPodExist(p)
          /\ Fail(a)
       \/ /\ IsPodExist(p)
          /\ call' = [call EXCEPT ![a].do = "drop", ![a].seen = Present(p),
                                  ![a].old = pods[p].template]
          /\ UNCHANGED ctl
    /\ UNCHANGED <<psm, boxes, requests, deaths>>

\* Slip: the entry is kept, as deleted.
DeleteContainersMarked(p, S) ==
    /\ infra' = IF "infra" \in S THEN [infra EXCEPT ![p] = "deleted"] ELSE infra
    /\ member' = IF "member" \in S THEN [member EXCEPT ![p] = "deleted"] ELSE member
    /\ late' = late \ {p}

DeleteContainers(p, S) ==
    /\ infra' = IF "infra" \in S THEN [infra EXCEPT ![p] = "none"] ELSE infra
    /\ member' = IF "member" \in S THEN [member EXCEPT ![p] = "none"] ELSE member
    /\ late' = late \ {p}

\* Stop of the container service: a pod whose running member is among the
\* containers S is called degraded, if it is still there.
StopContainers(p, S) ==
    pods' = IF "member" \in S /\ member[p] \in Up /\ IsPodExist(p)
            THEN [pods EXCEPT ![p].State = "degraded"] ELSE pods

\* The containers that were there when Remove looked are stopped and deleted;
\* it is an error if one of them has gone.
RemoveContainers(a) ==
    /\ Do(a, "drop")
    /\ LET p == call[a].pod IN
       \/ /\ call[a].seen \subseteq Present(p)
          /\ StopContainers(p, call[a].seen)
          /\ DeleteContainers(p, call[a].seen)
          /\ Goto(a, "forget") /\ UNCHANGED ctl
       \/ /\ ~(call[a].seen \subseteq Present(p))
          /\ Fail(a)
          /\ UNCHANGED <<pods, boxes>>
    /\ UNCHANGED <<templates, sets, requests, deaths>>

RemovePod(a) ==
    /\ Do(a, "forget")
    /\ LET p == call[a].pod IN
       \/ /\ IsPodExist(p)
          /\ pods' = [pods EXCEPT ![p] = None]
          /\ Goto(a, "unref") /\ UNCHANGED ctl
       \/ /\ ~IsPodExist(p)
          /\ Fail(a)
          /\ UNCHANGED pods
    /\ UNCHANGED <<templates, sets, boxes, requests, deaths>>

\* Slip: the template goes with the pod, whoever refers to it.
TemplateInUseUnchecked(t) == FALSE

TemplateInUse(t) == IsTemplateReferenced(t)

\* The end of Remove, and of removeReplicaSetById: the template goes with its
\* last user.  Then the caller goes on, which may be createWithTemplate.
Removed(a) ==
    IF call[a].template # None
    THEN Goto(a, "store") /\ UNCHANGED ctl
    ELSE Return(a)

CheckTemplate(a) ==
    /\ Do(a, "unref")
    /\ \/ TemplateInUse(call[a].old) /\ Removed(a)
       \/ ~TemplateInUse(call[a].old) /\ Goto(a, "untemplate") /\ UNCHANGED ctl
    /\ UNCHANGED <<psm, boxes, requests, deaths>>

RemovePodTemplate(a) ==
    /\ Do(a, "untemplate")
    /\ templates' = [templates EXCEPT ![call[a].old] = None]
    /\ Removed(a)
    /\ UNCHANGED <<pods, sets, boxes, requests, deaths>>

-----------------------------------------------------------------------------
\* Start.  The pod must still agree with its template; the pods of a
\* ReplicaSet have names of their own.
StartReads(a) ==
    /\ Do(a, "start")
    /\ LET p == call[a].pod
           ok == /\ IsPodExist(p)
                 /\ LET t == pods[p].template IN
                    /\ templates[t] # None
                    /\ pods[p].name = <<templates[t], 0>> \/ IsTemplateReferenced(t)
       IN  \/ /\ ok
              /\ call' = [call EXCEPT ![a].do = "infra", ![a].old = pods[p].template]
              /\ UNCHANGED ctl
           \/ ~ok /\ Fail(a)
    /\ UNCHANGED <<psm, boxes, requests, deaths>>

\* ensurePodTemplateContainers and ensurePodInfra: a missing member is created,
\* for which the infra container must be alive, or is replaced.
EnsurePodInfra(a) ==
    /\ Do(a, "infra")
    /\ LET p == call[a].pod
           fill == call[a].then = "fill"
           complete == ~fill /\ templates[call[a].old] # None /\ member[p] # "none"
           lacking == IsPodExist(p) /\ (fill \/
                          (templates[call[a].old] # None /\ member[p] = "none"))
       IN  \/ /\ complete
              /\ Goto(a, "run")
              /\ UNCHANGED <<infra, ctl>>
           \/ /\ lacking
              /\ infra' = [infra EXCEPT ![p] = "running"]
              /\ Goto(a, "member")
              /\ UNCHANGED ctl
           \/ /\ ~complete /\ ~lacking
              /\ Fail(a)
              /\ UNCHANGED infra
    /\ UNCHANGED <<psm, member, late, requests, deaths>>

\* Create of the member: its name may be taken by now, and the pod or its
\* template gone.
CreateMember(a) ==
    /\ Do(a, "member")
    /\ LET p == call[a].pod
           ok == /\ member[p] = "none" /\ IsPodExist(p)
                 /\ templates[pods[p].template] # None
       IN  \/ /\ ok
              /\ member' = [member EXCEPT ![p] = "created"]
              /\ IF call[a].then = "fill" THEN Return(a)
                 ELSE Goto(a, "run") /\ UNCHANGED ctl
           \/ ~ok /\ Fail(a) /\ UNCHANGED member
    /\ UNCHANGED <<psm, infra, late, requests, deaths>>

\* The containers that are not listed as running are started.
StartContainers(a) ==
    /\ Do(a, "run")
    /\ LET p == call[a].pod IN
        /\ infra' = [infra EXCEPT ![p] = IF @ \in Up \cup {"none"} THEN @ ELSE "running"]
        /\ member' = [member EXCEPT ![p] = IF @ \in Up \cup {"none"} THEN @ ELSE "running"]
        /\ late' = late \ {p}
    /\ Goto(a, "mark")
    /\ UNCHANGED <<psm, ctl, requests, deaths>>

UpdatePod(p, state) == pods' = [pods EXCEPT ![p].State = state]

MarkPod(a, step, state, next) ==
    /\ Do(a, step)
    /\ LET p == call[a].pod IN
       \/ IsPodExist(p) /\ UpdatePod(p, state) /\ Goto(a, next) /\ UNCHANGED ctl
       \/ ~IsPodExist(p) /\ Fail(a) /\ UNCHANGED pods
    /\ UNCHANGED <<templates, sets, boxes, requests, deaths>>

UpdatePodStoppedByUser(a, step, stopped) ==
    /\ Do(a, step)
    /\ LET p == call[a].pod IN
       pods' = IF IsPodExist(p) THEN [pods EXCEPT ![p].StoppedByUser = stopped] ELSE pods
    /\ Return(a)
    /\ UNCHANGED <<templates, sets, boxes, requests, deaths>>

\* Stop: members only, and only running ones can be stopped.  The runtime may
\* refuse to stop a process that is already dead.
StopMember(a) ==
    /\ Do(a, "stop")
    /\ LET p == call[a].pod IN
       \/ /\ member[p] \in Up
          /\ member' = [member EXCEPT ![p] = "stopped"]
          /\ late' = late \cup {p}
          /\ StopContainers(p, {"member"})
          /\ Goto(a, "stopped") /\ UNCHANGED ctl
       \/ /\ member[p] = "none"
          /\ Goto(a, "stopped") /\ UNCHANGED <<pods, member, late, ctl>>
       \/ /\ member[p] \in {"created", "stopped", "dead"}
          /\ Fail(a) /\ UNCHANGED <<pods, member, late>>
    /\ UNCHANGED <<templates, sets, infra, requests, deaths>>

CallStep(a) ==
    \/ GetPodTemplate(a) \/ LookupName(a) \/ StorePod(a)
    \/ RemoveReads(a) \/ RemoveContainers(a) \/ RemovePod(a) \/ CheckTemplate(a)
    \/ RemovePodTemplate(a)
    \/ StartReads(a) \/ EnsurePodInfra(a) \/ CreateMember(a) \/ StartContainers(a)
    \/ MarkPod(a, "mark", "running", "unflag")
    \/ UpdatePodStoppedByUser(a, "unflag", FALSE)

-----------------------------------------------------------------------------
\* reconcileOnce.  Three lists are read one after the other; the loop works on
\* those copies to its end.
InPhase(phase) == ctl.phase = phase /\ Do(Controller, "idle")

Begin(c) == call' = [call EXCEPT ![Controller] = c]

CreateCall(t, n, next) ==
    [NoCall EXCEPT !.do = "template", !.template = t, !.name = n, !.then = next]
StartCall(p) == [NoCall EXCEPT !.do = "start", !.pod = p]
RecreateCall(x) == [NoCall EXCEPT !.do = "purge", !.pod = x.pod,
                                  !.template = x.info.template, !.then = "start"]
DeleteCall(p) == [NoCall EXCEPT !.do = "purge", !.pod = p]

ReadReplicaSets ==
    /\ InPhase("idle")
    /\ ctl' = [NoLoop EXCEPT !.phase = "templates",
                             !.sets = {sets[s] : s \in SetIds} \ {None}]
    /\ UNCHANGED <<psm, boxes, call, requests, deaths>>

ReadTemplates ==
    /\ InPhase("templates")
    /\ LET T == {t \in TemplateIds : templates[t] # None} IN
       ctl' = IF T = {} /\ ctl.sets = {} THEN NoLoop
              ELSE [ctl EXCEPT !.phase = "pods", !.templates = T]
    /\ UNCHANGED <<psm, boxes, call, requests, deaths>>

ReadPods ==
    /\ InPhase("pods")
    /\ ctl' = [ctl EXCEPT !.phase = "sets",
                  !.pods = {[pod |-> p, info |-> pods[p]] :
                                p \in {q \in PodIds : IsPodExist(q)}}]
    /\ UNCHANGED <<psm, boxes, call, requests, deaths>>

PodsByTemplate(t) == {x \in ctl.pods : x.info.template = t}

\* The next ReplicaSet: pods are created or deleted until their number fits.
ReconcileSet ==
    /\ InPhase("sets")
    /\ \/ \E rs \in ctl.sets :
            LET list == PodsByTemplate(rs.template)
                current == Cardinality(list)
                loop == [ctl EXCEPT !.sets = @ \ {rs}, !.list = list]
            IN  \/ /\ current <= rs.Replicas
                   /\ ctl' = [loop EXCEPT !.phase = "grow",
                                          !.set = rs,
                                          !.n = rs.Replicas - current]
                \/ /\ current > rs.Replicas
                   /\ \E D \in SUBSET list :
                        /\ Cardinality(D) = current - rs.Replicas
                        /\ ctl' = [loop EXCEPT !.phase = "shrink", !.doomed = D]
       \/ /\ ctl.sets = {}
          /\ ctl' = [ctl EXCEPT !.phase = "walk templates"]
    /\ UNCHANGED <<psm, boxes, call, requests, deaths>>

FreeSlots == {k \in Slots : \A b \in BaseNames : PodsNamed(<<b, k>>) = {}}

\* Slip: the same suffix for every pod.
FirstSuffix == {1}

\* The suffix of the name changes once a second: it may be that of the pod
\* created just before.
Suffixes == {CHOOSE k \in Slots : k \in FreeSlots} \cup ({ctl.slot} \ {0})

CreateReplica ==
    /\ InPhase("grow")
    /\ \/ /\ ctl.n > 0
          /\ \E k \in Suffixes :
               /\ Begin(CreateCall(ctl.set.template, <<ctl.set.name, k>>, "start"))
               /\ ctl' = [ctl EXCEPT !.n = @ - 1, !.slot = k]
       \/ /\ ctl.n = 0
          /\ ctl' = [ctl EXCEPT !.phase = "check", !.set = None, !.slot = 0]
          /\ UNCHANGED call
    /\ UNCHANGED <<psm, boxes, requests, deaths>>

DeleteExcess ==
    /\ InPhase("shrink")
    /\ \/ \E x \in ctl.doomed :
            /\ Begin(DeleteCall(x.pod))
            /\ ctl' = [ctl EXCEPT !.doomed = @ \ {x}]
       \/ /\ ctl.doomed = {}
          /\ ctl' = [ctl EXCEPT !.phase = "check"]
          /\ UNCHANGED call
    /\ UNCHANGED <<psm, boxes, requests, deaths>>

\* Slip: whether a user has stopped the pod is not looked at.
MayRestartAny(x) == TRUE

MayRestart(x) == ~x.info.StoppedByUser

\* Slip: a pod is only started when all of it has stopped.
RemedyIfStopped(x) ==
    IF MayRestart(x) /\ x.info.State = "stopped" THEN StartCall(x.pod) ELSE NoCall

\* A degraded pod is started, or made anew if its infra container is down; a
\* stopped one is started.
Remedy(x) ==
    CASE ~MayRestart(x) -> NoCall
      [] MayRestart(x) /\ x.info.State = "degraded" ->
            IF infra[x.pod] \in Up THEN StartCall(x.pod) ELSE RecreateCall(x)
      [] MayRestart(x) /\ x.info.State = "stopped" -> StartCall(x.pod)
      [] OTHER -> NoCall

\* Each pod of the list is checked, the deleted ones too.
CheckPod ==
    /\ InPhase("check")
    /\ \/ \E x \in ctl.list :
            /\ Begin(Remedy(x))
            /\ ctl' = [ctl EXCEPT !.list = @ \ {x}]
       \/ /\ ctl.list = {}
          /\ ctl' = [ctl EXCEPT !.phase = "sets"]
          /\ UNCHANGED call
    /\ UNCHANGED <<psm, boxes, requests, deaths>>

\* The templates that no ReplicaSet uses: one without pods gets a pod.
WalkTemplates ==
    /\ InPhase("walk templates")
    /\ \/ \E t \in ctl.templates :
            LET loop == [ctl EXCEPT !.templates = @ \ {t}]
                list == PodsByTemplate(t)
            IN  \/ /\ IsTemplateReferenced(t)
                   /\ ctl' = loop
                   /\ UNCHANGED call
                \/ /\ ~IsTemplateReferenced(t) /\ list = {}
                   /\ Begin(CreateCall(t, None, "return"))
                   /\ ctl' = loop
                \/ /\ ~IsTemplateReferenced(t) /\ list # {}
                   /\ ctl' = [loop EXCEPT !.phase = "walk pods", !.list = list,
                                          !.stopped = None]
                   /\ UNCHANGED call
       \/ /\ ctl.templates = {}
          /\ ctl' = NoLoop
          /\ UNCHANGED call
    /\ UNCHANGED <<psm, boxes, requests, deaths>>

\* One pod of such a template: the first that is not stopped ends the walk.
WalkPod ==
    /\ InPhase("walk pods")
    /\ \/ \E x \in ctl.list :
            LET back == [ctl EXCEPT !.phase = "walk templates", !.list = {},
                                    !.stopped = None]
                rest == [ctl EXCEPT !.list = @ \ {x}]
            IN  \/ /\ MayRestart(x) /\ infra[x.pod] \notin Up
                   /\ Begin(RecreateCall(x)) /\ ctl' = back
                \/ /\ ~MayRestart(x) \/ infra[x.pod] \in Up
                   /\ x.info.State # "stopped"
                   /\ IF x.info.State = "degraded" /\ MayRestart(x)
                      THEN Begin(StartCall(x.pod)) ELSE UNCHANGED call
                   /\ ctl' = back
                \/ /\ ~MayRestart(x) \/ infra[x.pod] \in Up
                   /\ x.info.State = "stopped"
                   /\ ctl' = IF ~MayRestart(x) \/ ctl.stopped # None
                             THEN rest ELSE [rest EXCEPT !.stopped = x.pod]
                   /\ UNCHANGED call
       \/ /\ ctl.list = {}
          /\ IF ctl.stopped # None THEN Begin(StartCall(ctl.stopped)) ELSE UNCHANGED call
          /\ ctl' = [ctl EXCEPT !.phase = "walk templates", !.stopped = None]
    /\ UNCHANGED <<psm, boxes, requests, deaths>>

\* recreatePod and deletePod: all containers, then the pod, whether or not
\* they are still there; recreatePod goes on with the template.
PurgeContainers ==
    /\ Do(Controller, "purge")
    /\ StopContainers(call[Controller].pod, {"infra", "member"})
    /\ DeleteContainers(call[Controller].pod, {"infra", "member"})
    /\ Goto(Controller, "purge pod")
    /\ UNCHANGED <<templates, sets, ctl, requests, deaths>>

PurgePod ==
    /\ Do(Controller, "purge pod")
    /\ LET c == call[Controller] IN
        /\ pods' = [pods EXCEPT ![c.pod] = None]
        /\ Begin(IF c.template = None THEN NoCall
                 ELSE CreateCall(c.template, None, c.then))
    /\ UNCHANGED <<templates, sets, boxes, ctl, requests, deaths>>

ControllerStep ==
    \/ ReadReplicaSets \/ ReadTemplates \/ ReadPods
    \/ ReconcileSet \/ CreateReplica \/ DeleteExcess \/ CheckPod
    \/ WalkTemplates \/ WalkPod \/ PurgeContainers \/ PurgePod
    \/ CallStep(Controller)

-----------------------------------------------------------------------------
\* The API handlers.
Request(u, kind) ==
    /\ kind \in Kinds
    /\ Do(u, "idle")
    /\ requests < MaxRequests
    /\ requests' = requests + 1

UserCall(u, c) == call' = [call EXCEPT ![u] = c]

\* Template ids are never used again either.
FreshTemplate(t) ==
    /\ templates[t] = None /\ ~IsTemplateReferenced(t)
    /\ \A p \in PodIds : IsPodExist(p) => pods[p].template # t
    /\ \A a \in Actors : t \notin {call[a].template, call[a].old, call[a].removing}
    /\ t \notin ctl.templates
    /\ \A x \in ctl.pods : x.info.template # t
    /\ \A rs \in ctl.sets \cup ({ctl.set} \ {None}) : rs.template # t

StorePodTemplate(t, b) ==
    /\ FreshTemplate(t)
    /\ templates' = [templates EXCEPT ![t] = b]

\* CreatePod makes a pod without containers, ApplyPodYaml goes on to create
\* them.  Both store a new template first, then look for a pod of the name.
CreatePod(u, kind, b, uid) ==
    /\ Request(u, kind)
    /\ kind = "apply" => uid = "fresh"
    /\ \E t \in TemplateIds :
        /\ StorePodTemplate(t, b)
        /\ UserCall(u, [NoCall EXCEPT
               !.do = "lookup", !.template = t, !.name = <<b, 0>>, !.uid = uid,
               !.then = IF kind = "apply" THEN "fill" ELSE "return"])
    /\ UNCHANGED <<pods, sets, boxes, ctl, deaths>>

ApplyReplicaSet(u, b, n) ==
    /\ Request(u, "applySet")
    /\ \E t \in TemplateIds :
        /\ StorePodTemplate(t, b)
        /\ UserCall(u, [NoCall EXCEPT !.do = "store set", !.template = t,
                                      !.name = b, !.n = n])
    /\ UNCHANGED <<pods, sets, boxes, ctl, deaths>>

StoreReplicaSet(u) ==
    /\ Do(u, "store set")
    /\ \E s \in SetIds :
        /\ sets[s] = None
        /\ sets' = [sets EXCEPT ![s] = [template |-> call[u].template,
                                        name |-> call[u].name,
                                        Replicas |-> call[u].n]]
    /\ UserCall(u, NoCall)
    /\ UNCHANGED <<pods, templates, boxes, ctl, requests, deaths>>

ScaleReplicaSet(u, s, n) ==
    /\ Request(u, "scale")
    /\ sets[s] # None
    /\ sets' = [sets EXCEPT ![s].Replicas = n]
    /\ UNCHANGED <<pods, templates, boxes, call, ctl, deaths>>

\* removeReplicaSetById: the set, then its pods as listed afterwards, whatever
\* becomes of each Remove, then the template.
removeReplicaSetById(u, s, how) ==
    /\ sets[s] # None
    /\ sets' = [sets EXCEPT ![s] = None]
    /\ UserCall(u, [NoCall EXCEPT !.do = "list pods", !.removing = sets[s].template,
                                  !.then = how])
    /\ UNCHANGED <<pods, templates, boxes, ctl, deaths>>

RemoveReplicaSet(u, s) ==
    /\ Request(u, "removeSet")
    /\ removeReplicaSetById(u, s, "return")

\* A manifest of one document: a ReplicaSet, or the pods that have the name.
DeleteResourceYaml(u) ==
    /\ Request(u, "delete")
    /\ \/ \E s \in SetIds : removeReplicaSetById(u, s, "labels")
       \/ \E n \in PodNames :
            /\ PodsNamed(n) # {}
            /\ UserCall(u, [NoCall EXCEPT !.do = "next pod", !.rest = PodsNamed(n)])
            /\ UNCHANGED <<psm, boxes, ctl, deaths>>

\* DeleteResourceYaml also takes the pods whose labels match the selector: any
\* that a user may have labelled so.
ListPods(u) ==
    /\ Do(u, "list pods")
    /\ \E labelled \in SUBSET {p \in PodIds : IsPodExist(p)} :
          /\ call[u].then = "return" => labelled = {}
          /\ UserCall(u, [call[u] EXCEPT !.do = "next pod", !.then = "return",
                 !.rest = labelled \cup
                     {p \in PodIds : IsPodExist(p) /\ pods[p].template = call[u].removing}])
    /\ UNCHANGED <<psm, boxes, ctl, requests, deaths>>

NextPod(u) ==
    /\ Do(u, "next pod")
    /\ \/ \E p \in call[u].rest :
            UserCall(u, [call[u] EXCEPT !.do = "remove", !.pod = p,
                                        !.rest = call[u].rest \ {p}])
       \/ /\ call[u].rest = {}
          /\ UserCall(u, [NoCall EXCEPT !.do = "unref", !.old = call[u].removing])
    /\ UNCHANGED <<psm, boxes, ctl, requests, deaths>>

PodRequest(u, kind, p) ==
    /\ kind \in {"start", "stop", "remove"}
    /\ Request(u, kind)
    /\ IsPodExist(p)
    /\ UserCall(u, [NoCall EXCEPT !.do = kind, !.pod = p])
    /\ UNCHANGED <<psm, boxes, ctl, deaths>>

NewRequest(u) ==
    \/ \E b \in BaseNames, kind \in {"create", "apply"}, uid \in {"given", "fresh"} :
           CreatePod(u, kind, b, uid)
    \/ \E b \in BaseNames, n \in 0..MaxReplicas : ApplyReplicaSet(u, b, n)
    \/ \E s \in SetIds, n \in 0..MaxReplicas : ScaleReplicaSet(u, s, n)
    \/ \E s \in SetIds : RemoveReplicaSet(u, s)
    \/ DeleteResourceYaml(u)
    \/ \E p \in PodIds, kind \in {"start", "stop", "remove"} : PodRequest(u, kind, p)

UserStep(u) ==
    \/ CallStep(u)
    \/ StoreReplicaSet(u) \/ ListPods(u) \/ NextPod(u)
    \/ StopMember(u) \/ MarkPod(u, "stopped", "stopped", "flag")
    \/ UpdatePodStoppedByUser(u, "flag", TRUE)

-----------------------------------------------------------------------------
\* A process dies; the monitor notices, and calls the pod of a member degraded.
ProcessDies(p) ==
    /\ deaths < MaxDeaths
    /\ deaths' = deaths + 1
    /\ \/ infra[p] = "running" /\ infra' = [infra EXCEPT ![p] = "dead"]
                               /\ UNCHANGED member
       \/ member[p] = "running" /\ member' = [member EXCEPT ![p] = "dead"]
                                /\ UNCHANGED infra
    /\ UNCHANGED <<psm, late, call, ctl, requests>>

InfraDown(p) ==
    /\ infra[p] = "dead"
    /\ infra' = [infra EXCEPT ![p] = "stopped"]
    /\ UNCHANGED <<psm, member, late, call, ctl, requests, deaths>>

\* The list of the monitor may be older than the Stop of a user.
MemberDown(p) ==
    /\ member[p] = "dead" \/ (member[p] = "stopped" /\ p \in late)
    /\ member' = [member EXCEPT ![p] = "stopped"]
    /\ late' = late \ {p}
    /\ pods' = IF IsPodExist(p) THEN [pods EXCEPT ![p].State = "degraded"] ELSE pods
    /\ UNCHANGED <<templates, sets, infra, call, ctl, requests, deaths>>

MonitorStep == \E p \in PodIds : InfraDown(p) \/ MemberDown(p)

Init ==
    /\ pods = [p \in PodIds |-> None]
    /\ templates = [t \in TemplateIds |-> None]
    /\ sets = [s \in SetIds |-> None]
    /\ infra = [p \in PodIds |-> "none"]
    /\ member = [p \in PodIds |-> "none"]
    /\ late = {}
    /\ call = [a \in Actors |-> NoCall]
    /\ ctl = NoLoop
    /\ requests = 0 /\ deaths = 0

Next ==
    \/ ControllerStep
    \/ \E u \in Users : NewRequest(u) \/ UserStep(u)
    \/ MonitorStep
    \/ \E p \in PodIds : ProcessDies(p)

\* The ticker of the controller, the monitor's and the goroutines of the
\* handlers keep running; nobody has to make a request, and nothing has to die.
Fairness ==
    /\ WF_vars(ControllerStep)
    /\ \A u \in Users : WF_vars(UserStep(u))
    /\ WF_vars(MonitorStep)

Spec == Init /\ [][Next]_vars /\ Fairness
-----------------------------------------------------------------------------
ContainerStates == {"none", "created", "running", "dead", "stopped"}

TypeOK ==
    /\ pods \in [PodIds -> PodInfo \cup {None}]
    /\ templates \in [TemplateIds -> BaseNames \cup {None}]
    /\ sets \in [SetIds -> [template: TemplateIds, name: BaseNames,
                            Replicas: 0..MaxReplicas] \cup {None}]
    /\ infra \in [PodIds -> ContainerStates \ {"created"}]
    /\ member \in [PodIds -> ContainerStates]
    /\ late \subseteq PodIds
    /\ ctl.n \in 0..MaxReplicas /\ ctl.list \subseteq ctl.pods
    /\ requests \in 0..MaxRequests /\ deaths \in 0..MaxDeaths

\* While the users' requests follow one another and make one ReplicaSet, Remove,
\* RemoveReplicaSet and the controller's own removals drop a template only when
\* no ReplicaSet needs it: a set has a template to make pods from.  A second set
\* whose template has the same name is outside this: the controller gives the pod
\* it makes anew that name, so it removes the pod of the template that the user
\* has stored and not yet referenced, and the template with it.
SetHasTemplate ==
    \A s \in SetIds : sets[s] # None => templates[sets[s].template] # None

\* The controller leaves alone what a user has stopped: a pod it starts or
\* makes anew was not stopped by a user when the controller read the pods.
StopRespected ==
    \A x \in ctl.pods :
        (call[Controller].pod = x.pod /\
             (Do(Controller, "start") \/
                 (Do(Controller, "purge") /\ call[Controller].template # None)))
            => ~x.info.StoppedByUser

Replicas(s) ==
    Cardinality({p \in PodIds : IsPodExist(p) /\ pods[p].template = sets[s].template})

\* "A ReplicaSet ensures a desired number of Pods for a given template": the
\* controller brings the number of pods to Replicas and leaves it there once
\* the users are done, whatever it had read when they made their requests.
ReplicasConverge ==
    \A s \in SetIds : <>[](sets[s] # None => Replicas(s) = sets[s].Replicas)

\* A degraded pod of a ReplicaSet that no user has stopped is started again
\* or replaced, unless the ReplicaSet goes.
NeedsRecovery(p) ==
    /\ IsPodExist(p)
    /\ pods[p].State = "degraded" /\ ~pods[p].StoppedByUser
    /\ IsTemplateReferenced(pods[p].template)

DegradedRecovers == \A p \in PodIds : NeedsRecovery(p) ~> ~NeedsRecovery(p)
=============================================================================
