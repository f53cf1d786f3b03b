-------------------------------- MODULE Policy --------------------------------
(***************************************************************************)
(* Network policies: the service (internal/core/policy), the policy file   *)
(* (internal/store/npm) and the iptables chains they are built into.       *)
(*                                                                         *)
(* Users add and remove policies and change the north-south mode; nothing  *)
(* takes effect before a commit, which rebuilds all chains and saves a     *)
(* copy of the policy file (".running") for Revert.  The hooks of a        *)
(* container, the network service and the API all commit, each in its own  *)
(* request, and no lock covers a commit: it is a sequence of iptables      *)
(* commands and store transactions, one action each.                       *)
(*                                                                         *)
(* One transaction on the policy file is atomic (FileStore).  Backup and   *)
(* Revert work on the files without its lock; the copying of a file is one *)
(* step here.  Logging rules (NFLOG) decide nothing and are left out.      *)
(***************************************************************************)
EXTENDS Naturals, FiniteSets, SequencesExt

CONSTANTS
    Procs,          \* requests that are served at one time
    Hosts,          \* container names that policies refer to
    Networks,       \* bridges
    Missing,        \* a file that does not exist
    EarlierChains,  \* the chains that a policy of an earlier run may be for
    Kinds,          \* kinds of requests of this instance
    MaxRequests,    \* bound on all requests
    MaxPolicies,    \* bound on the policies added
    MaxTrouble      \* bound on requests that begin while another is under way,
                    \* iptables commands that fail and crashes, taken together

ASSUME PolicyAssumption ==
    /\ MaxRequests \in Nat /\ MaxPolicies \in Nat /\ MaxTrouble \in Nat
    /\ Procs # {} /\ IsFiniteSet(Procs)
    /\ EarlierChains \subseteq {"RAIND-EW", "RAIND-NS-OBS", "RAIND-NS-ENF"}

VARIABLES
    file,       \* the policy file
    running,    \* its copy made by the last commit
    chains,     \* the rules of the four chains
    forward,    \* whether FORWARD jumps to RAIND-ROOT
    veth,       \* interface and address of each container, 0 if there is none
    networks,   \* the networks of the address manager, in order
    proc,       \* the requests under way
    last,       \* how the last rebuild of the chains ended
    shared,     \* requests that have overlapped another one
    requests, added, trouble

npm == <<file, running>>
iptables == <<chains, forward>>
hosts == <<veth, networks>>
bounds == <<requests, added, trouble>>
outcome == <<last, shared>>
vars == <<npm, iptables, hosts, proc, outcome, bounds>>

UserChains == <<"RAIND-EW", "RAIND-NS-OBS", "RAIND-NS-ENF">>

UserChain == ToSet(UserChains)

Chain == UserChain \cup {"RAIND-ROOT"}

Modes == {"observe", "enforce"}

\* A mode that a user has chosen is fixed by the next commit.
Pending(m) == IF m = "enforce" THEN "enforce_next_commit" ELSE "observe_next_commit"

AllModes == Modes \cup {Pending(m) : m \in Modes}

Statuses == {"before_commit", "applied", "unresolved", "remove_next_commit"}

-----------------------------------------------------------------------------
\* The policy file.
Default == [Mode |-> "observe", Policies |-> [c \in UserChain |-> <<>>]]

\* A file that is not there reads as the default policy.
loadOrInit == IF file = Missing THEN Default ELSE file

HasPolicy(np, c, id) == \E i \in DOMAIN np.Policies[c] : np.Policies[c][i].id = id

IsNsEnforce == loadOrInit.Mode = "enforce"

AddPolicy(c, p) == file' = [loadOrInit EXCEPT !.Policies[c] = Append(@, p)]

\* Slip: the entry is kept, only no longer flagged.
UnflagPolicy(c, id) ==
    file' = [loadOrInit EXCEPT !.Policies[c] =
                [i \in DOMAIN @ |-> IF @[i].id = id
                                    THEN [@[i] EXCEPT !.Status = "applied"] ELSE @[i]]]

\* The first entry with the id.
RemovePolicy(c, id) ==
    file' = [loadOrInit EXCEPT !.Policies[c] = RemoveFirstMatch(@, LAMBDA p : p.id = id)]

UpdateStatus(c, id, status) ==
    file' = [loadOrInit EXCEPT !.Policies[c] =
                [i \in DOMAIN @ |-> IF @[i].id = id
                                    THEN [@[i] EXCEPT !.Status = status] ELSE @[i]]]

-----------------------------------------------------------------------------
\* Rules: what a rule matches, and its target.
Rule(on, of, target) == [on |-> on, of |-> of, do |-> target]

Jump(c) == Rule("any", {}, c)
Established == Rule("established", {}, "ACCEPT")
Return == Rule("any", {}, "RETURN")
DropBridges == Rule("raind+", {}, "DROP")
UserRule(c, hs) ==
    Rule("user", {<<h, veth[h]>> : h \in hs},
         IF c = "RAIND-NS-OBS" THEN "DROP" ELSE "ACCEPT")

\* The iptables commands of a commit.
Flush(c) == [op |-> "flush", chain |-> c, rule |-> Return]
Add(c, r) == [op |-> "add", chain |-> c, rule |-> r]
Forward == [op |-> "forward", chain |-> "RAIND-ROOT", rule |-> Return]

AddEach(c, on, nets, target) ==
    [i \in DOMAIN nets |-> Add(c, Rule(on, {nets[i]}, target))]

createChain == <<Flush("RAIND-ROOT"), Flush("RAIND-EW"),
                 Flush("RAIND-NS-OBS"), Flush("RAIND-NS-ENF")>>

insertForward == <<Forward>>

\* Slip: the two jumps of the root chain are swapped with the other mode.
RootChainSwapped(enforce) ==
    <<Add("RAIND-ROOT", Established),
      Add("RAIND-ROOT", Jump("RAIND-EW")),
      Add("RAIND-ROOT", Jump(IF enforce THEN "RAIND-NS-OBS" ELSE "RAIND-NS-ENF")),
      Add("RAIND-ROOT", Return)>>

buildRaindRootChain(enforce) ==
    <<Add("RAIND-ROOT", Established),
      Add("RAIND-ROOT", Jump("RAIND-EW")),
      Add("RAIND-ROOT", Jump(IF enforce THEN "RAIND-NS-ENF" ELSE "RAIND-NS-OBS")),
      Add("RAIND-ROOT", Return)>>

\* Slip: the RETURN comes before the DROP of traffic between bridges.
EWChainReturnsEarly(nets) ==
    AddEach("RAIND-EW", "within", nets, "DROP")
    \o <<Add("RAIND-EW", Return), Add("RAIND-EW", DropBridges)>>

buildRaindEWChain(nets) ==
    AddEach("RAIND-EW", "within", nets, "DROP")
    \o <<Add("RAIND-EW", DropBridges), Add("RAIND-EW", Return)>>

buildRaindNSObserveChain(nets) ==
    AddEach("RAIND-NS-OBS", "outbound", nets, "ACCEPT")
    \o <<Add("RAIND-NS-OBS", Return)>>

buildRaindNSEnforceChain(nets) ==
    AddEach("RAIND-NS-ENF", "outbound", nets, "DROP")
    \o <<Add("RAIND-NS-ENF", Return)>>

BuildPredefinedPolicy(nets, enforce) ==
    createChain \o insertForward \o buildRaindRootChain(enforce)
    \o buildRaindEWChain(nets)
    \o IF enforce THEN buildRaindNSEnforceChain(nets)
                  ELSE buildRaindNSObserveChain(nets)

\* A rule that is already in the chain is not added again.
AddRuleToChain(s, r) == IF r \in ToSet(s) THEN s ELSE Append(s, r)

InsertRuleToChain(s, r) == IF r \in ToSet(s) THEN s ELSE <<r>> \o s

CreateChain(s) == <<>>

-----------------------------------------------------------------------------
\* Requests.  A record holds the next step, the commands or policies still to
\* do, the chain in hand, what was read before, whether an error is to be
\* returned, and whether every rule was inserted.
Idle == [kind |-> "none", step |-> "idle", todo |-> <<>>, chain |-> 1,
         mode |-> "observe", nets |-> <<>>, snap |-> Missing, ok |-> TRUE,
         complete |-> TRUE]

Busy == {r \in Procs : proc[r].step # "idle"}

At(r, step) == proc[r].step = step

Goto(r, step) == proc' = [proc EXCEPT ![r].step = step]

Trouble == trouble < MaxTrouble /\ trouble' = trouble + 1

\* The server takes requests once the bootstrap is over.  A request that
\* begins while others are under way overlaps with all of them.
Accept(kind, mine) ==
    /\ kind \in Kinds
    /\ \A r \in Procs : proc[r].kind # "boot"
    /\ requests < MaxRequests
    /\ requests' = requests + 1
    /\ \/ /\ Busy = {}
          /\ shared' = {}
          /\ UNCHANGED <<last, trouble>>
       \/ /\ Busy # {}
          /\ Trouble
          /\ shared' = shared \cup Busy \cup mine
          /\ last' = "overlapped"

Begin(r, kind, step) ==
    /\ At(r, "idle")
    /\ Accept(kind, {r})
    /\ proc' = [proc EXCEPT ![r] = [Idle EXCEPT !.kind = kind, !.step = step]]

AddUserPolicy(c, hs) ==
    /\ Accept("add", {})
    /\ added < MaxPolicies
    /\ added' = added + 1
    /\ AddPolicy(c, [id |-> added + 1, hosts |-> hs, Status |-> "before_commit"])
    /\ UNCHANGED <<running, iptables, hosts, proc>>

\* The chain of a policy never changes: looking it up is part of the update.
RemoveUserPolicy(id) ==
    /\ Accept("remove", {})
    /\ \E c \in UserChain :
          /\ HasPolicy(loadOrInit, c, id)
          /\ UpdateStatus(c, id, "remove_next_commit")
    /\ UNCHANGED <<running, iptables, hosts, proc, added>>

\* ChangeNSMode: the current mode is read in one transaction, set in the next.
ChangeNSMode(r, mode) ==
    /\ loadOrInit.Mode # mode
    /\ At(r, "idle")
    /\ Accept("mode", {r})
    /\ proc' = [proc EXCEPT ![r] =
                   [Idle EXCEPT !.kind = "mode", !.step = "set mode", !.mode = mode]]
    /\ UNCHANGED <<npm, iptables, hosts, added>>

SetNSMode(r) ==
    /\ At(r, "set mode")
    /\ file' = [loadOrInit EXCEPT !.Mode = Pending(proc[r].mode)]
    /\ proc' = [proc EXCEPT ![r] = Idle]
    /\ UNCHANGED <<running, iptables, hosts, outcome, bounds>>

\* A container gets or loses its interface; the hook then commits.
HostChange(r, h) ==
    /\ Begin(r, "hook", "fix")
    /\ veth' = [veth EXCEPT ![h] = IF @ = 0 THEN requests + 1 ELSE 0]
    /\ UNCHANGED <<npm, iptables, networks, added>>

\* A network is created or removed; the network service then commits.  It is in
\* the list once (BridgesUnique of module Ipam).
NetworkChange(r, n) ==
    /\ Begin(r, "network", "fix")
    /\ networks' = IF n \in ToSet(networks) THEN RemoveFirst(networks, n) ELSE Append(networks, n)
    /\ UNCHANGED <<npm, iptables, veth, added>>

CommitPolicy(r) ==
    /\ Begin(r, "commit", "fix")
    /\ UNCHANGED <<npm, iptables, hosts, added>>

RevertPolicy(r) ==
    /\ Begin(r, "revert", "rename")
    /\ UNCHANGED <<npm, iptables, hosts, added>>

-----------------------------------------------------------------------------
\* The steps of a commit.  FixNSMode:
ReadNSMode(r) ==
    /\ At(r, "fix")
    /\ \/ /\ loadOrInit.Mode \in Modes
          /\ Goto(r, "networks")
       \/ \E m \in Modes :
             /\ loadOrInit.Mode = Pending(m)
             /\ proc' = [proc EXCEPT ![r].step = "fixed", ![r].mode = m]
    /\ UNCHANGED <<npm, iptables, hosts, outcome, bounds>>

\* Slip: the wrong half of the name is kept.
FixNSModeSuffix(r) ==
    /\ At(r, "fixed")
    /\ file' = [loadOrInit EXCEPT !.Mode = "next"]
    /\ proc' = [proc EXCEPT ![r].step = "networks", ![r].mode = "observe"]
    /\ UNCHANGED <<running, iptables, hosts, outcome, bounds>>

FixNSMode(r) ==
    /\ At(r, "fixed")
    /\ file' = [loadOrInit EXCEPT !.Mode = proc[r].mode]
    /\ proc' = [proc EXCEPT ![r].step = "networks", ![r].mode = "observe"]
    /\ UNCHANGED <<running, iptables, hosts, outcome, bounds>>

ReadNetworks(r) ==
    /\ At(r, "networks")
    /\ proc' = [proc EXCEPT ![r].step = "enforce", ![r].nets = networks]
    /\ UNCHANGED <<npm, iptables, hosts, outcome, bounds>>

ReadEnforce(r) ==
    /\ At(r, "enforce")
    /\ proc' = [proc EXCEPT ![r].step = "build", ![r].nets = <<>>,
                            ![r].todo = BuildPredefinedPolicy(proc[r].nets, IsNsEnforce)]
    /\ UNCHANGED <<npm, iptables, hosts, outcome, bounds>>

\* One iptables command; an existing rule is checked for before it is added.
RunCommand(r) ==
    /\ At(r, "build")
    /\ LET cmd == Head(proc[r].todo) IN
       /\ chains' = [chains EXCEPT ![cmd.chain] =
                        CASE cmd.op = "flush"   -> CreateChain(@)
                          [] cmd.op = "add"     -> AddRuleToChain(@, cmd.rule)
                          [] cmd.op = "forward" -> @]
       /\ forward' = (forward \/ cmd.op = "forward")
       /\ proc' = [proc EXCEPT
                      ![r].todo = Tail(@),
                      ![r].step = IF Len(proc[r].todo) = 1 THEN "list" ELSE @]
    /\ UNCHANGED <<npm, hosts, outcome, bounds>>

\* A command of the predefined policy fails: the commit returns there.
CommandFails(r) ==
    /\ At(r, "build")
    /\ Trouble
    /\ last' = IF r \in shared THEN "overlapped" ELSE "failed"
    /\ proc' = [proc EXCEPT ![r] = Idle]
    /\ UNCHANGED <<npm, iptables, hosts, shared, requests, added>>

\* BuildUserPolicy: the policies of one chain after the other.
ListPolicies(r) ==
    /\ At(r, "list")
    /\ proc' = [proc EXCEPT ![r].step = "policy",
                            ![r].todo = loadOrInit.Policies[UserChains[proc[r].chain]]]
    /\ UNCHANGED <<npm, iptables, hosts, outcome, bounds>>

HeadChain(r) == UserChains[proc[r].chain]

Resolved(hs) == \A h \in hs : veth[h] # 0

NextPolicy(r) == proc' = [proc EXCEPT ![r].step = "policy", ![r].todo = Tail(@)]

\* A policy that has vanished ends the work on its chain.  Only the error of
\* the last chain is returned by BuildUserPolicy.
GiveUpChain(r) ==
    proc' = [proc EXCEPT ![r].todo = <<>>,
                         ![r].ok = @ /\ proc[r].chain < Len(UserChains)]

RemoveFlagged(r) ==
    /\ At(r, "policy") /\ proc[r].todo # <<>>
    /\ LET p == Head(proc[r].todo)  c == HeadChain(r) IN
       /\ p.Status = "remove_next_commit"
       /\ \/ /\ HasPolicy(loadOrInit, c, p.id)
             /\ RemovePolicy(c, p.id)
             /\ NextPolicy(r)
          \/ /\ ~HasPolicy(loadOrInit, c, p.id)
             /\ GiveUpChain(r)
             /\ UNCHANGED file
    /\ UNCHANGED <<running, iptables, hosts, outcome, bounds>>

MarkUnresolved(r) ==
    /\ At(r, "policy") /\ proc[r].todo # <<>>
    /\ LET p == Head(proc[r].todo)  c == HeadChain(r) IN
       /\ p.Status # "remove_next_commit" /\ ~Resolved(p.hosts)
       /\ \/ /\ HasPolicy(loadOrInit, c, p.id)
             /\ UpdateStatus(c, p.id, "unresolved")
             /\ NextPolicy(r)
          \/ /\ ~HasPolicy(loadOrInit, c, p.id)
             /\ GiveUpChain(r)
             /\ UNCHANGED file
    /\ UNCHANGED <<running, iptables, hosts, outcome, bounds>>

InsertUserPolicy(r) ==
    /\ At(r, "policy") /\ proc[r].todo # <<>>
    /\ LET p == Head(proc[r].todo)  c == HeadChain(r) IN
       /\ p.Status # "remove_next_commit" /\ Resolved(p.hosts)
       /\ chains' = [chains EXCEPT ![c] = InsertRuleToChain(@, UserRule(c, p.hosts))]
    /\ Goto(r, "applied")
    /\ UNCHANGED <<npm, forward, hosts, outcome, bounds>>

\* The insertion fails: the policy is passed over, and keeps its status.
InsertFails(r) ==
    /\ At(r, "policy") /\ proc[r].todo # <<>>
    /\ LET p == Head(proc[r].todo) IN
       p.Status # "remove_next_commit" /\ Resolved(p.hosts)
    /\ Trouble
    /\ proc' = [proc EXCEPT ![r].todo = Tail(@), ![r].complete = FALSE]
    /\ UNCHANGED <<npm, iptables, hosts, outcome, requests, added>>

MarkApplied(r) ==
    /\ At(r, "applied")
    /\ LET p == Head(proc[r].todo)  c == HeadChain(r) IN
       IF HasPolicy(loadOrInit, c, p.id) THEN UpdateStatus(c, p.id, "applied")
                                         ELSE UNCHANGED file
    /\ NextPolicy(r)
    /\ UNCHANGED <<running, iptables, hosts, outcome, bounds>>

\* How a rebuild ended.  A rule that could not be inserted is no error to the
\* code, but the chains are not what the file says.
Outcome(r) ==
    IF r \in shared THEN "overlapped"
    ELSE IF ~(proc[r].ok /\ proc[r].complete) THEN "failed"
    ELSE IF proc[r].kind = "boot" THEN "boot" ELSE "commit"

\* The next chain; after the last one the backup, which the bootstrap skips.
ChainDone(r) ==
    /\ At(r, "policy") /\ proc[r].todo = <<>>
    /\ \/ /\ proc[r].chain < Len(UserChains)
          /\ proc' = [proc EXCEPT ![r].step = "list", ![r].chain = @ + 1]
          /\ UNCHANGED last
       \/ /\ proc[r].chain = Len(UserChains)
          /\ proc[r].ok /\ proc[r].kind # "boot"
          /\ Goto(r, "backup")
          /\ UNCHANGED last
       \/ /\ proc[r].chain = Len(UserChains)
          /\ ~proc[r].ok \/ proc[r].kind = "boot"
          /\ proc' = [proc EXCEPT ![r] = Idle]
          /\ last' = Outcome(r)
    /\ UNCHANGED <<npm, iptables, hosts, shared, bounds>>

\* Backup opens the file, without the lock, and copies what it has opened.
OpenForBackup(r) ==
    /\ At(r, "backup")
    /\ \/ /\ file # Missing
          /\ proc' = [proc EXCEPT ![r].step = "copy", ![r].snap = file]
          /\ UNCHANGED last
       \/ /\ file = Missing
          /\ proc' = [proc EXCEPT ![r] = Idle]
          /\ last' = IF proc[r].kind = "revert" THEN last ELSE "overlapped"
    /\ UNCHANGED <<npm, iptables, hosts, shared, bounds>>

Backup(r) ==
    /\ At(r, "copy")
    /\ running' = proc[r].snap
    /\ proc' = [proc EXCEPT ![r] = Idle]
    /\ last' = IF proc[r].kind = "revert" THEN last ELSE Outcome(r)
    /\ UNCHANGED <<file, iptables, hosts, shared, bounds>>

-----------------------------------------------------------------------------
\* Revert renames the file away and the copy into its place, and makes the
\* copy again.  The chains are left as they are.
RenameAway(r) ==
    /\ At(r, "rename")
    /\ \/ file # Missing /\ Goto(r, "restore")
       \/ file = Missing /\ proc' = [proc EXCEPT ![r] = Idle]
    /\ file' = Missing
    /\ UNCHANGED <<running, iptables, hosts, outcome, bounds>>

Restore(r) ==
    /\ At(r, "restore")
    /\ \/ /\ running # Missing
          /\ file' = running /\ running' = Missing
          /\ Goto(r, "backup")
       \/ /\ running = Missing
          /\ proc' = [proc EXCEPT ![r] = Idle]
          /\ UNCHANGED npm
    /\ UNCHANGED <<iptables, hosts, outcome, bounds>>

\* The daemon dies and starts again: SetNetworkPolicy writes and copies the
\* file, setupPolicy builds the chains.
Restart(r) ==
    /\ Trouble
    /\ file' = loadOrInit /\ running' = loadOrInit
    /\ last' = "failed" /\ shared' = {}
    /\ proc' = [q \in Procs |->
                   IF q = r THEN [Idle EXCEPT !.kind = "boot", !.step = "networks"]
                   ELSE Idle]
    /\ UNCHANGED <<iptables, hosts, requests, added>>

\* An east-west policy names source and destination, a north-south one only
\* its source.
Ends(c) ==
    {hs \in SUBSET Hosts : Cardinality(hs) \in IF c = "RAIND-EW" THEN 1..2 ELSE {1}}

\* The first boot of a machine: there is no policy yet, or one that an earlier
\* run of the daemon has left in the file.
Init ==
    /\ \/ file = Default /\ added = 0
       \/ /\ MaxPolicies > 0 /\ added = 1
          /\ \E c \in EarlierChains : \E hs \in Ends(c) :
                file = [Default EXCEPT !.Policies[c] = <<[id |-> 1, hosts |-> hs, Status |-> "applied"]>>]
    /\ running = file
    /\ chains = [c \in Chain |-> <<>>] /\ forward = FALSE
    /\ veth = [h \in Hosts |-> 0] /\ networks = <<>>
    /\ \E r \in Procs :
          proc = [q \in Procs |->
                     IF q = r THEN [Idle EXCEPT !.kind = "boot", !.step = "networks"]
                     ELSE Idle]
    /\ last = "failed" /\ shared = {}
    /\ requests = 0 /\ trouble = 0

Request(r) ==
    \/ CommitPolicy(r) \/ RevertPolicy(r) \/ SetNSMode(r)
    \/ \E m \in Modes : ChangeNSMode(r, m)
    \/ \E h \in Hosts : HostChange(r, h)
    \/ \E n \in Networks : NetworkChange(r, n)

Step(r) ==
    \/ ReadNSMode(r) \/ FixNSMode(r) \/ ReadNetworks(r) \/ ReadEnforce(r)
    \/ RunCommand(r) \/ CommandFails(r)
    \/ ListPolicies(r) \/ RemoveFlagged(r) \/ MarkUnresolved(r)
    \/ InsertUserPolicy(r) \/ InsertFails(r) \/ MarkApplied(r) \/ ChainDone(r)
    \/ OpenForBackup(r) \/ Backup(r) \/ RenameAway(r) \/ Restore(r)

Done == requests = MaxRequests /\ Busy = {} /\ UNCHANGED vars

Next ==
    \/ Done
    \/ \E c \in UserChain : \E hs \in Ends(c) : AddUserPolicy(c, hs)
    \/ \E id \in 1..MaxPolicies : RemoveUserPolicy(id)
    \/ \E r \in Procs : Request(r) \/ Step(r) \/ Restart(r)

Spec == Init /\ [][Next]_vars

-----------------------------------------------------------------------------
PolicyEntry == [id : 1..MaxPolicies, hosts : SUBSET Hosts, Status : Statuses]

File == [Mode : AllModes, Policies : [UserChain -> Seq(PolicyEntry)]]

\* A file that is not there is no file.
ASSUME MissingAssumption == Missing \notin File

Rules == [on : {"any", "established", "raind+", "user", "within", "outbound"},
          of : SUBSET (Networks \cup (Hosts \X (0..MaxRequests))),
          do : {"ACCEPT", "RETURN", "DROP"} \cup UserChain]

Commands == [op : {"flush", "add", "forward"}, chain : Chain, rule : Rules]

Steps == {"idle", "set mode", "fix", "fixed", "networks", "enforce", "build", "list", "policy", "applied",
          "backup", "copy", "rename", "restore"}

Handler == [kind : {"none", "boot", "mode", "hook", "network", "commit", "revert"}, step : Steps,
            todo : Seq(Commands) \cup Seq(PolicyEntry), chain : 1..Len(UserChains), mode : Modes,
            nets : Seq(Networks), snap : File \cup {Missing}, ok : BOOLEAN, complete : BOOLEAN]

\* The policy file and its copy are well formed or missing (Revert takes the
\* file away for a moment), every rule sits in a chain the service owns, and a
\* request has either commands or policies in hand.
TypeOK ==
    /\ file \in File \cup {Missing} /\ running \in File \cup {Missing}
    /\ chains \in [Chain -> Seq(Rules)] /\ forward \in BOOLEAN
    /\ veth \in [Hosts -> 0..MaxRequests] /\ networks \in Seq(Networks)
    /\ proc \in [Procs -> Handler]
    /\ last \in {"failed", "overlapped", "boot", "commit"} /\ shared \subseteq Procs
    /\ requests \in 0..MaxRequests /\ added \in 0..MaxPolicies
    /\ trouble \in 0..MaxTrouble

Quiescent == Busy = {}

Reached(s, rule, before) ==
    \E i \in DOMAIN s : s[i] = rule /\ \A j \in 1..(i - 1) : s[j].on \in before

Denied ==
    /\ forward
    /\ Reached(chains["RAIND-ROOT"], Jump("RAIND-EW"), {"established"})
    /\ Reached(chains["RAIND-EW"], DropBridges, {"user", "within"})

\* buildRaindEWChain, "deny all inter-container traffic": after a rebuild that
\* no other request overlapped, whatever went before it, every forwarded
\* packet of a new connection between bridges meets the rules of users and
\* then the DROP, and no RETURN before it.
Isolation == Quiescent /\ last \in {"boot", "commit"} => Denied

\* The same whenever no rebuild is under way and none has failed.
DenyByDefault == Quiescent /\ last # "failed" => Denied

\* buildRaindRootChain and FixNSMode: the chain that decides on outbound
\* traffic is the one of the mode in force, a commit leaves no mode pending,
\* and in enforce mode every network is denied.
EgressMode ==
    Quiescent /\ last \in {"boot", "commit"} /\ running # Missing =>
        LET ns == IF running.Mode = "enforce" THEN "RAIND-NS-ENF" ELSE "RAIND-NS-OBS" IN
        /\ last = "commit" => running.Mode \in Modes
        /\ \A c \in UserChain \ {"RAIND-EW"} :
              Jump(c) \in ToSet(chains["RAIND-ROOT"]) <=> c = ns
        /\ \A n \in ToSet(networks) :
              running.Mode = "enforce" =>
                  Reached(chains[ns], Rule("outbound", {n}, "DROP"), {"user", "outbound"})

Applied(np, c) == {p \in ToSet(np.Policies[c]) : p.Status = "applied"}

\* insertRaindEWUserPolicy and insertRaindNSUserPolicy: after a commit the
\* policies that the running copy calls applied are those whose rules stand,
\* for the interfaces their containers have now, at the head of their chain;
\* what was flagged for removal is gone, and nothing waits.
RulesMatchStatus ==
    Quiescent /\ last = "commit" /\ running # Missing =>
        \A c \in UserChain :
            LET s == chains[c] IN
            /\ {rule \in ToSet(s) : rule.on = "user"}
                 = {UserRule(c, p.hosts) : p \in Applied(running, c)}
            /\ \A i, j \in DOMAIN s : s[i].on = "user" /\ s[j].on # "user" => i < j
            /\ \A p \in ToSet(running.Policies[c]) : p.Status \in {"applied", "unresolved"}

=============================================================================
