------------------------------- MODULE Service --------------------------------
(***************************************************************************)
(* L4 services: the service store and its API (internal/store/ssm,         *)
(* internal/api/http/service) and the controller that keeps the NAT rules  *)
(* of every service in step with the addresses of the pods it selects      *)
(* (internal/core/service/controller.go).                                  *)
(*                                                                         *)
(* The controller is one goroutine that wakes at every tick.  What it      *)
(* remembers (lastState) is in memory only; the rules are in the kernel    *)
(* and survive a restart of the daemon.  Every read of a store and every   *)
(* group of iptables calls with one error check is an action, so that      *)
(* pods, clients, failures and restarts come in between.                   *)
(***************************************************************************)
EXTENDS Naturals, FiniteSets, SequencesExt

CONSTANTS
    Services,       \* ids of services, each created at most once
    Name,           \* Name[s]: name and namespace in the manifest of s
    Ports,          \* Ports[s]: sequence of [port, target, proto]
    Protos,         \* protocols of a manifest that iptables knows with a port
    Pods,
    Selects,        \* Selects[s]: pods that namespace and selector of s match
    Addrs,          \* addresses, as numbers: the endpoints are sorted
    None,
    MaxChanges,     \* bound on the requests and the changes of pods
    MaxFaults,      \* bound on the steps that fail
    MaxRestarts     \* bound on the restarts of the daemon

\* cleanupService deletes the jumps of these two protocols.
CleanedProtos == {"tcp", "udp"}

\* buildServiceManifest leaves out ports that are 0 and fills in a target that
\* is, but takes any protocol.  A chain is named after 8 characters of the id:
\* ids that are equal so far would share chains.  A service without ports has
\* no rules and is left out.
ASSUME ServiceAssumption ==
    /\ Addrs \subseteq Nat
    /\ CleanedProtos \subseteq Protos
    /\ \A s \in Services :
          /\ Ports[s] \in Seq([port : Nat \ {0}, target : Nat \ {0}, proto : Protos])
          /\ Len(Ports[s]) > 0
          /\ Selects[s] \subseteq Pods
    /\ None \notin Services /\ None \notin Addrs /\ None \notin Seq(Addrs)
    /\ MaxChanges \in Nat /\ MaxFaults \in Nat /\ MaxRestarts \in Nat

VARIABLES
    ssm,        \* services in the store
    checked,    \* requests whose name was found free and that store it next
    spent,      \* ids that are in use or were
    pods,       \* pods in the pod store
    addr,       \* addr[p]: address of the infra container of p, or None
    chain,      \* chain[<<s, port>>]: DNAT rules of a chain, or None
    jumps,      \* jumps[<<hook, s, port, proto>>]: number of jump rules
    forward,    \* ACCEPT rules in FORWARD
    lastState,  \* lastState[s]: the state key, or None
    ctl,        \* the controller: its step, lists and counters
    failed,     \* services the last pass over whose rules ended in an error
    doubled,    \* services of which a jump rule or a chain could not be deleted
    forgot,     \* services that were remembered before the last restart only
    changes, faults, restarts

stores == <<ssm, checked, spent>>
hosts == <<pods, addr>>
nat == <<chain, jumps, forward>>
ghosts == <<failed, doubled, forgot>>
bounds == <<changes, faults, restarts>>
vars == <<stores, hosts, nat, lastState, ctl, ghosts, bounds>>

Hooks == {"PREROUTING", "OUTPUT"}
PortNumbers == UNION {{Ports[s][i].port : i \in DOMAIN Ports[s]} : s \in Services}
serviceChainName == Services \X PortNumbers

Change == changes < MaxChanges /\ changes' = changes + 1 /\ UNCHANGED <<faults, restarts>>
Fault == faults < MaxFaults /\ faults' = faults + 1 /\ UNCHANGED <<changes, restarts>>

-----------------------------------------------------------------------------
\* The API: the name is checked in one transaction and stored in another.
IsNameAlreadyUsed(s) == \E t \in ssm : Name[t] = Name[s]

CreateService(s) ==
    /\ s \notin spent
    /\ ~IsNameAlreadyUsed(s)
    /\ Change
    /\ spent' = spent \cup {s}
    /\ checked' = checked \cup {s}
    /\ UNCHANGED <<ssm, hosts, nat, lastState, ctl, ghosts>>

StoreService(s) ==
    /\ s \in checked
    /\ ssm' = ssm \cup {s}
    /\ checked' = checked \ {s}
    /\ UNCHANGED <<spent, hosts, nat, lastState, ctl, ghosts, bounds>>

RemoveService(s) ==
    /\ s \in ssm
    /\ Change
    /\ ssm' = ssm \ {s}
    /\ UNCHANGED <<checked, spent, hosts, nat, lastState, ctl, ghosts>>

-----------------------------------------------------------------------------
\* Pods: stored, given an address with the infra container, removed.  An
\* address that is free again may go to another pod at once.
PodStored(p) ==
    /\ p \notin pods
    /\ Change
    /\ pods' = pods \cup {p}
    /\ UNCHANGED <<addr, stores, nat, lastState, ctl, ghosts>>

PodUp(p, a) ==
    /\ p \in pods /\ addr[p] = None /\ \A q \in Pods : addr[q] # a
    /\ addr' = [addr EXCEPT ![p] = a]
    /\ UNCHANGED <<pods, stores, nat, lastState, ctl, ghosts, bounds>>

PodRemoved(p) ==
    /\ p \in pods
    /\ Change
    /\ pods' = pods \ {p}
    /\ addr' = [addr EXCEPT ![p] = None]
    /\ UNCHANGED <<stores, nat, lastState, ctl, ghosts>>

-----------------------------------------------------------------------------
Asleep == [at |-> "asleep", list |-> {}, todo |-> {}, pods |-> {}, toRead |-> {},
           svc |-> None, ends |-> <<>>, port |-> 1, end |-> 1]

At(step) == ctl.at = step

\* The loop over the services goes on; what belongs to this one is dropped.
Continue == ctl' = [ctl EXCEPT !.at = "services", !.svc = None, !.ends = <<>>, !.port = 1,
                               !.end = 1]

Svc == ctl.svc
Port == Ports[Svc][ctl.port]
Chain == <<Svc, Port.port>>

\* Slip: the pass ends when no service is stored.
TickStopsEarly ==
    /\ At("asleep")
    /\ ctl' = [Asleep EXCEPT !.list = ssm, !.todo = ssm,
                             !.at = IF ssm = {} THEN "asleep" ELSE "pods"]
    /\ UNCHANGED <<stores, hosts, nat, lastState, ghosts, bounds>>

\* reconcileOnce: the list of services, then the list of pods if there are any.
Tick ==
    /\ At("asleep")
    /\ ctl' = [Asleep EXCEPT !.list = ssm, !.todo = ssm,
                             !.at = IF ssm = {} THEN "cleanup" ELSE "pods"]
    /\ UNCHANGED <<stores, hosts, nat, lastState, ghosts, bounds>>

ListPods ==
    /\ At("pods")
    /\ ctl' = [ctl EXCEPT !.pods = pods, !.at = "services"]
    /\ UNCHANGED <<stores, hosts, nat, lastState, ghosts, bounds>>

\* The pass is given up: nothing is cleaned either.
ListPodsFails ==
    /\ At("pods")
    /\ Fault
    /\ ctl' = Asleep
    /\ UNCHANGED <<stores, hosts, nat, lastState, ghosts>>

NextService ==
    /\ At("services")
    /\ \E s \in ctl.todo :
          ctl' = [ctl EXCEPT !.svc = s, !.todo = @ \ {s}, !.at = "endpoints",
                             !.toRead = ctl.pods \cap Selects[s]]
    /\ UNCHANGED <<stores, hosts, nat, lastState, ghosts, bounds>>

ServicesDone ==
    /\ At("services") /\ ctl.todo = {}
    /\ ctl' = [ctl EXCEPT !.at = "cleanup", !.pods = {}]
    /\ UNCHANGED <<stores, hosts, nat, lastState, ghosts, bounds>>

\* Slip: a pod without an address is kept.
ReadEndpointKeepsAll ==
    /\ At("endpoints")
    /\ \E p \in ctl.toRead :
          ctl' = [ctl EXCEPT !.toRead = @ \ {p}, !.ends = Append(@, addr[p])]
    /\ UNCHANGED <<stores, hosts, nat, lastState, ghosts, bounds>>

\* buildEndpoints: the address of each pod on the list is looked up when its
\* turn comes; a pod without one is passed over.
ReadEndpoint ==
    /\ At("endpoints")
    /\ \E p \in ctl.toRead :
          ctl' = [ctl EXCEPT !.toRead = @ \ {p},
                             !.ends = IF addr[p] = None THEN @ ELSE Append(@, addr[p])]
    /\ UNCHANGED <<stores, hosts, nat, lastState, ghosts, bounds>>

\* buildStateKey: of a service, only the sorted endpoints change.
Sorts(p, ends) ==
    /\ \A i, j \in DOMAIN ends : p[i] = p[j] => i = j
    /\ \A i, j \in DOMAIN ends : i < j => ends[p[i]] <= ends[p[j]]

StateKey(ends) ==
    LET order == CHOOSE p \in [DOMAIN ends -> DOMAIN ends] : Sorts(p, ends)
    IN  [i \in DOMAIN ends |-> ends[order[i]]]

\* Unchanged since the last pass: nothing to do.
EndpointsSame ==
    /\ At("endpoints") /\ ctl.toRead = {}
    /\ lastState[Svc] = StateKey(ctl.ends)
    /\ Continue
    /\ UNCHANGED <<stores, hosts, nat, lastState, ghosts, bounds>>

\* The key is remembered before the rules are applied.
EndpointsChanged ==
    /\ At("endpoints") /\ ctl.toRead = {}
    /\ lastState[Svc] # StateKey(ctl.ends)
    /\ lastState' = [lastState EXCEPT ![Svc] = StateKey(ctl.ends)]
    /\ ctl' = [ctl EXCEPT !.ends = StateKey(@), !.at = "port"]
    /\ failed' = failed \ {Svc} /\ forgot' = forgot \ {Svc}
    /\ UNCHANGED <<stores, hosts, nat, doubled, bounds>>

-----------------------------------------------------------------------------
\* applyRules, port by port.
\* Slip: a chain that exists is not flushed.
FlushSkipped ==
    /\ At("port") /\ ctl.port <= Len(Ports[Svc])
    /\ chain' = [chain EXCEPT ![Chain] = IF @ = None THEN <<>> ELSE @]
    /\ ctl' = [ctl EXCEPT !.at = "unjump"]
    /\ UNCHANGED <<jumps, forward, stores, hosts, lastState, ghosts, bounds>>

\* ensureChain and flushChain.  A chain of the same port number is the same
\* chain, whatever the protocol.
FlushChain ==
    /\ At("port") /\ ctl.port <= Len(Ports[Svc])
    /\ chain' = [chain EXCEPT ![Chain] = <<>>]
    /\ ctl' = [ctl EXCEPT !.at = "unjump"]
    /\ UNCHANGED <<jumps, forward, stores, hosts, lastState, ghosts, bounds>>

JumpId(hook, s, port, proto) == <<hook, s, port, proto>>

Deleted(js, kept) == [j \in DOMAIN jumps |->
    IF j \in js \ kept /\ jumps[j] > 0 THEN jumps[j] - 1 ELSE jumps[j]]

Added(js) == [j \in DOMAIN jumps |-> IF j \in js THEN jumps[j] + 1 ELSE jumps[j]]

CurrentJump(hooks) == {JumpId(h, Svc, Port.port, Port.proto) : h \in hooks}

\* deleteJumpRule: one rule in each hook, if there is one.
deleteJumpRule ==
    /\ At("unjump")
    /\ jumps' = Deleted(CurrentJump(Hooks), {})
    /\ ctl' = [ctl EXCEPT !.at = "jump"]
    /\ UNCHANGED <<chain, forward, stores, hosts, lastState, ghosts, bounds>>

\* An error is ignored: the old rule stays beside the new one.
deleteJumpRuleFails ==
    /\ At("unjump")
    /\ Fault
    /\ \E h \in Hooks : jumps' = Deleted(CurrentJump(Hooks), CurrentJump({h}))
    /\ doubled' = doubled \cup {Svc}
    /\ ctl' = [ctl EXCEPT !.at = "jump"]
    /\ UNCHANGED <<chain, forward, stores, hosts, lastState, failed, forgot>>

addJumpRule ==
    /\ At("jump")
    /\ jumps' = Added(CurrentJump(Hooks))
    /\ ctl' = [ctl EXCEPT !.at = "rules"]
    /\ UNCHANGED <<chain, forward, stores, hosts, lastState, ghosts, bounds>>

\* addEndpointRule: with probability 1/n, the last one without.
EndpointRule(ends, i, port) ==
    [addr |-> ends[i], target |-> port.target, proto |-> port.proto,
     share |-> IF i < Len(ends) THEN Len(ends) ELSE 0]

\* addForwardRules: errors are ignored.
ForwardRule(a, port) == <<a, port.target, port.proto>>

addEndpointRule ==
    /\ At("rules") /\ ctl.end <= Len(ctl.ends)
    /\ chain' = [chain EXCEPT ![Chain] = Append(@, EndpointRule(ctl.ends, ctl.end, Port))]
    /\ forward' = forward \cup {ForwardRule(ctl.ends[ctl.end], Port)}
    /\ ctl' = [ctl EXCEPT !.end = @ + 1]
    /\ UNCHANGED <<jumps, stores, hosts, lastState, ghosts, bounds>>

PortDone ==
    /\ At("rules") /\ ctl.end > Len(ctl.ends)
    /\ ctl' = [ctl EXCEPT !.at = "port", !.port = @ + 1, !.end = 1]
    /\ UNCHANGED <<stores, hosts, nat, lastState, ghosts, bounds>>

RulesApplied ==
    /\ At("port") /\ ctl.port > Len(Ports[Svc])
    /\ Continue
    /\ UNCHANGED <<stores, hosts, nat, lastState, ghosts, bounds>>

\* One of the calls fails: the rest is left out and the error logged.
applyRulesFails ==
    /\ \/ At("port") /\ ctl.port <= Len(Ports[Svc]) /\ UNCHANGED jumps
       \/ At("rules") /\ ctl.end <= Len(ctl.ends) /\ UNCHANGED jumps
       \/ At("jump") /\ \E hooks \in {{}, {"PREROUTING"}} : jumps' = Added(CurrentJump(hooks))
    /\ Fault
    /\ failed' = failed \cup {Svc}
    /\ Continue
    /\ UNCHANGED <<chain, forward, stores, hosts, lastState, doubled, forgot>>

-----------------------------------------------------------------------------
\* cleanupService, for what is remembered and not on the list any more.
Removed == {s \in Services : lastState[s] # None /\ s \notin ctl.list}

\* Slip: only the jumps of one protocol are deleted.
PortJumpsTcp(s, n) == {JumpId(h, s, n, "tcp") : h \in Hooks}

PortJumps(s, n) == {JumpId(h, s, n, proto) : h \in Hooks, proto \in CleanedProtos}

JumpedTo(js, s, n) == \E h \in Hooks, proto \in Protos : js[JumpId(h, s, n, proto)] > 0

\* A chain that is still jumped to is flushed, but cannot be deleted.
Clean(s, n, kept) ==
    LET left == Deleted(PortJumps(s, n), kept) IN
    /\ jumps' = left
    /\ chain' = [chain EXCEPT ![<<s, n>>] =
                    IF @ # None /\ JumpedTo(left, s, n) THEN <<>> ELSE None]

NextCleanup ==
    /\ At("cleanup") /\ ctl.svc = None
    /\ \E s \in Removed : ctl' = [ctl EXCEPT !.svc = s]
    /\ UNCHANGED <<stores, hosts, nat, lastState, ghosts, bounds>>

CleanPort ==
    /\ At("cleanup") /\ Svc # None /\ ctl.port <= Len(Ports[Svc])
    /\ Clean(Svc, Port.port, {})
    /\ ctl' = [ctl EXCEPT !.port = @ + 1]
    /\ UNCHANGED <<forward, stores, hosts, lastState, ghosts, bounds>>

\* Errors are ignored: a jump rule stays, and with it the chain; or the chain
\* cannot be flushed, and so not deleted, or not be deleted.
CleanPortFails ==
    /\ At("cleanup") /\ Svc # None /\ ctl.port <= Len(Ports[Svc])
    /\ Fault
    /\ \/ \E j \in PortJumps(Svc, Port.port) : jumps[j] > 0 /\ Clean(Svc, Port.port, {j})
       \/ /\ chain[Chain] # None
          /\ jumps' = Deleted(PortJumps(Svc, Port.port), {})
          /\ \E rules \in {chain[Chain], <<>>} : chain' = [chain EXCEPT ![Chain] = rules]
    /\ doubled' = doubled \cup {Svc}
    /\ ctl' = [ctl EXCEPT !.port = @ + 1]
    /\ UNCHANGED <<forward, stores, hosts, lastState, failed, forgot>>

\* What was left of it is forgotten.
CleanupDone ==
    /\ At("cleanup") /\ Svc # None /\ ctl.port > Len(Ports[Svc])
    /\ lastState' = [lastState EXCEPT ![Svc] = None]
    /\ ctl' = [ctl EXCEPT !.svc = None, !.port = 1]
    /\ UNCHANGED <<stores, hosts, nat, ghosts, bounds>>

Sleep ==
    /\ At("cleanup") /\ Svc = None /\ Removed = {}
    /\ ctl' = Asleep
    /\ UNCHANGED <<stores, hosts, nat, lastState, ghosts, bounds>>

\* The daemon stops at any point and starts again.
Restart ==
    /\ restarts < MaxRestarts
    /\ restarts' = restarts + 1
    /\ ctl' = Asleep
    /\ checked' = {}
    /\ forgot' = forgot \cup {s \in Services : lastState[s] # None}
    /\ lastState' = [s \in Services |-> None]
    /\ UNCHANGED <<ssm, spent, hosts, nat, failed, doubled, changes, faults>>

-----------------------------------------------------------------------------
Init ==
    /\ ssm = {} /\ checked = {} /\ spent = {}
    /\ pods = {} /\ addr = [p \in Pods |-> None]
    /\ chain = [c \in serviceChainName |-> None]
    /\ jumps = [j \in Hooks \X Services \X PortNumbers \X Protos |-> 0]
    /\ forward = {}
    /\ lastState = [s \in Services |-> None]
    /\ ctl = Asleep
    /\ failed = {} /\ doubled = {} /\ forgot = {}
    /\ changes = 0 /\ faults = 0 /\ restarts = 0

Clients ==
    \/ \E s \in Services : CreateService(s) \/ StoreService(s) \/ RemoveService(s)
    \/ \E p \in Pods : PodStored(p) \/ PodRemoved(p) \/ \E a \in Addrs : PodUp(p, a)

Controller ==
    \/ Tick \/ ListPods \/ NextService \/ ServicesDone \/ ReadEndpoint
    \/ EndpointsSame \/ EndpointsChanged
    \/ FlushChain \/ deleteJumpRule \/ addJumpRule \/ addEndpointRule
    \/ PortDone \/ RulesApplied
    \/ NextCleanup \/ CleanPort \/ CleanupDone \/ Sleep

Failure == ListPodsFails \/ deleteJumpRuleFails \/ applyRulesFails \/ CleanPortFails

Next == Clients \/ Controller \/ Failure \/ Restart

\* The ticker never stops and the controller waits for nobody.
Spec == Init /\ [][Next]_vars /\ WF_vars(Controller)

-----------------------------------------------------------------------------
Rule == [addr : Addrs, target : Nat, proto : Protos, share : Nat]

Working == {"port", "unjump", "jump", "rules"}
Pass == [at : {"asleep", "pods", "services", "endpoints", "cleanup"} \cup Working,
         list : SUBSET Services, todo : SUBSET Services, pods : SUBSET Pods,
         toRead : SUBSET Pods, svc : Services \cup {None}, ends : Seq(Addrs),
         port : Nat \ {0}, end : Nat \ {0}]

\* Stores, rules and the controller have the shapes of the code: it is at a
\* port while it works on one, and its endpoints are those it remembers.
TypeOK ==
    /\ ssm \subseteq spent /\ checked \subseteq spent \ ssm /\ spent \subseteq Services
    /\ pods \subseteq Pods /\ addr \in [Pods -> Addrs \cup {None}]
    /\ \A p \in Pods : addr[p] # None => p \in pods
    /\ chain \in [serviceChainName -> Seq(Rule) \cup {None}]
    /\ jumps \in [Hooks \X Services \X PortNumbers \X Protos -> Nat]
    /\ forward \subseteq Addrs \X Nat \X Protos
    /\ lastState \in [Services -> Seq(Addrs) \cup {None}]
    /\ ctl \in Pass
    /\ ctl.at = "endpoints" \/ ctl.at \in Working => ctl.svc \in Services
    /\ ctl.at \in Working => ctl.ends = lastState[ctl.svc]
    /\ ctl.at \in Working \ {"port"} =>
          /\ ctl.port <= Len(Ports[ctl.svc])
          /\ chain[<<ctl.svc, Ports[ctl.svc][ctl.port].port>>] \in Seq(Rule)
    /\ failed \subseteq Services /\ doubled \subseteq Services /\ forgot \subseteq Services
    /\ changes \in 0..MaxChanges /\ faults \in 0..MaxFaults /\ restarts \in 0..MaxRestarts

\* The rules of the port entry of s that is last applied to the chain.
Expected(s, n) ==
    LET last == CHOOSE i \in DOMAIN Ports[s] :
                   /\ Ports[s][i].port = n
                   /\ \A j \in DOMAIN Ports[s] : Ports[s][j].port = n => j <= i
        n_ends == Len(lastState[s])
    IN  [i \in 1..n_ends |->
            [addr |-> lastState[s][i], target |-> Ports[s][last].target,
             proto |-> Ports[s][last].proto, share |-> IF i = n_ends THEN 0 ELSE n_ends]]

\* applyRules: between two passes the kernel has, for every service that is
\* remembered and whose rules were applied without an error, one jump to the
\* chain per hook and port, every endpoint once in the chain and the last of
\* them without a probability, however often the endpoints changed, the daemon
\* was restarted, or a pass was cut short before.  Two entries of a port
\* number share a chain, and the later one alone is in it.
RulesMatchState ==
    At("asleep") =>
        \A s \in Services : lastState[s] # None /\ s \notin failed =>
            \A i \in DOMAIN Ports[s] :
                /\ chain[<<s, Ports[s][i].port>>] = Expected(s, Ports[s][i].port)
                /\ s \notin doubled => \A h \in Hooks :
                      jumps[JumpId(h, s, Ports[s][i].port, Ports[s][i].proto)] = 1

\* The jumps to a chain are all of protocols that cleanupService deletes.
Cleanable(s, n) ==
    \A i \in DOMAIN Ports[s] : Ports[s][i].port = n => Ports[s][i].proto \in CleanedProtos

\* cleanupService and lastState: between two passes every tcp or udp jump, and
\* every chain with no other jumps, belongs to a service that is remembered, so
\* that the pass after its removal takes them away.  The code leaves: what a
\* restart between removal and clean-up made it forget, what it could not
\* delete, flush or take away (it ignores the error), the jumps of any other
\* protocol with their chains, and the rules in FORWARD, which it never deletes.
NoLeftovers ==
    At("asleep") =>
        \A s \in Services :
            lastState[s] = None /\ s \notin doubled \cup forgot =>
                /\ \A n \in PortNumbers : Cleanable(s, n) => chain[<<s, n>>] = None
                /\ \A j \in DOMAIN jumps : j[2] = s /\ j[4] \in CleanedProtos => jumps[j] = 0

Current(s) ==
    SetToSortSeq({addr[p] : p \in {q \in Selects[s] \cap pods : addr[q] # None}},
                 LAMBDA a, b : a < b)

\* reconcileOnce, when clients and pods come to rest: what the controller has
\* for every stored service are the addresses of the pods it selects, and it
\* has nothing for a removed one (with RulesMatchState and NoLeftovers: so do
\* the rules).
Converges ==
    <>[](\A s \in Services : lastState[s] = IF s \in ssm THEN Current(s) ELSE None)

=============================================================================
