-------------------------------- MODULE Image ---------------------------------
(***************************************************************************)
(* The image service: pull, removal and status of images                   *)
(* (internal/core/image/service.go), the extraction of what a registry     *)
(* serves (internal/registry/dockerhub), the build of an image             *)
(* (internal/core/image/service_build.go) and the index of the images that *)
(* are there (internal/store/ilm).                                         *)
(*                                                                         *)
(* An image is a name in the index, which maps it to a directory on disk.  *)
(* The directory of a pulled image is named after its whole repository,    *)
(* that of a built one after the last part of it: docker.io/name and a     *)
(* built name share one.  No lock is held between the steps of a request.  *)
(* A transaction on the index is one step, and so is the extraction of one *)
(* layer; the removal of a directory and the copy of a built tree are two, *)
(* with half of it gone or there in between.                               *)
(***************************************************************************)
EXTENDS Layers

CONSTANTS
    Images,
    Named,          \* the names that the service's parseImageRef gives
    Dirs,
    PullDir,        \* the directory of an image when it is pulled
    BuildDir,       \* and when it is built
    Registry,       \* the images that the registry has
    Versions,       \* what the registry may serve under one name
    LayersOf,       \* the layers of a version
    Workdir, CopyName, CopyData,    \* WORKDIR w, COPY name .
    RunUppers,      \* what the commands of RUN may leave in the upper directory
    Procs,          \* handlers of requests
    None,
    Earlier,        \* images that an earlier run of the daemon may have left
    MaxRequests, MaxRuns,
    MaxFaults       \* calls that fail and crashes of the daemon

ASSUME ImageAssumption ==
    /\ Named \subseteq Images
    /\ PullDir \in [Images -> Dirs] /\ BuildDir \in [Named -> Dirs]
    /\ Registry \subseteq Images
    /\ \A v \in Versions : /\ LayersOf[v] \in Seq(ToSet(LayersOf[v])) /\ Len(LayersOf[v]) > 0
                          /\ \A l \in ToSet(LayersOf[v]) : IsArchive(l) /\ WellFormed(l)
    /\ \A upper \in RunUppers : IsArchive(upper)
    \* No archive goes through a symbolic link.
    /\ \A l, m \in RunUppers \cup UNION {ToSet(LayersOf[v]) : v \in Versions} :
          \A e \in ToSet(l), f \in ToSet(m) : e.kind = "file" /\ e.data \in Links => e.path \notin Through(f)
    /\ Earlier \subseteq [image : Images, dir : Dirs, version : Versions]
    /\ \A e \in Earlier : e.dir = PullDir[e.image] \/ (e.image \in Named /\ e.dir = BuildDir[e.image])
    /\ IsFile(CopyData)
    /\ IsFiniteSet(Procs)
    /\ Workdir \in Paths /\ Append(Workdir, CopyName) \in Paths
    /\ MaxRequests \in Nat /\ MaxRuns \in Nat /\ MaxFaults \in Nat

VARIABLES
    ilm,        \* the index: the directory of an image
    bundle,     \* directories
    proc,       \* requests under way
    run,        \* the container of the RUN lines of a build
    litter,     \* what ended builds have left, and at which step they ended
    spoilt,     \* directories in which several contents may be mixed
    requests, faults

vars == <<ilm, bundle, proc, run, litter, spoilt, requests, faults>>

Archives == RunUppers \cup UNION {ToSet(LayersOf[v]) : v \in Versions}

\* The contents of files.
Contents == {CopyData} \cup {e.data : e \in {f \in UNION {ToSet(l) : l \in Archives} : f.kind = "file"}}

Trees == [Paths -> {Nothing, Dir} \cup Contents]

\* A directory of an image.  Its configuration file stands for the tree of the
\* image that it belongs to.
NoBundle == [there |-> FALSE, manifest |-> FALSE, blobs |-> {}, config |-> None, rootfs |-> Empty]

\* The container of a build: its process, its entry in the container store, how
\* many of the two reports of the hook and of the monitor are in the entry, and
\* whether the exit code was, when the build looked.
NoRun == [process |-> "none", state |-> "none", code |-> 0, down |-> FALSE,
          hook |-> 0, monitor |-> 0, told |-> FALSE]

Idle == [pc |-> "idle", image |-> None, dir |-> None, version |-> None, k |-> 0,
         base |-> None, tree |-> Empty, at |-> None, runs |-> FALSE, held |-> {}, flags |-> {}]

\* The tree that the layers of a version stand for.
Meaning(v) == FoldLeft(Overlay, Empty, LayersOf[v])

-----------------------------------------------------------------------------
\* The directory d of image i as an earlier run of the daemon has left it.
Complete(i, d, v) ==
    [NoBundle EXCEPT !.there = TRUE, !.config = Meaning(v), !.rootfs = Meaning(v), !.manifest = d = PullDir[i],
                     !.blobs = IF d = PullDir[i] THEN {<<v, k>> : k \in 0..Len(LayersOf[v])} ELSE {}]

\* The index is empty, or it has one image that was pulled or built before.
Init ==
    /\ \/ ilm = [i \in Images |-> None] /\ bundle = [d \in Dirs |-> NoBundle]
       \/ \E e \in Earlier :
             /\ ilm = [i \in Images |-> IF i = e.image THEN e.dir ELSE None]
             /\ bundle = [d \in Dirs |-> IF d = e.dir THEN Complete(e.image, d, e.version) ELSE NoBundle]
    /\ proc = [r \in Procs |-> Idle]
    /\ run = [r \in Procs |-> NoRun]
    /\ litter = {} /\ spoilt = {}
    /\ requests = 0 /\ faults = 0

Go(r, pc) == proc' = [proc EXCEPT ![r].pc = pc]
End(r) == proc' = [proc EXCEPT ![r] = Idle]
Fault == faults < MaxFaults /\ faults' = faults + 1

\* IsImageExist: an entry, whose configuration file is there.
IsImageExist(i) == ilm[i] # None /\ bundle[ilm[i]].config # None

\* A request that is between the first and the last write to a directory, and
\* what it makes of it.
RemovingPcs == {"undo pull", "remove rest", "forget rest", "old rest"}
BuiltPcs == {"copy rest", "built config", "built index"}

Removing(r, d) == proc[r].dir = d /\ proc[r].pc \in RemovingPcs

Writing(r, d) ==
    proc[r].dir = d /\ proc[r].pc \in {"blobs", "config", "layers", "index"} \cup BuiltPcs \cup RemovingPcs

Content(r) ==
    CASE proc[r].pc \in RemovingPcs -> <<"removed">>
      [] proc[r].pc \in BuiltPcs -> <<"built", proc[r].tree>>
      [] OTHER -> <<"pulled", Meaning(proc[r].version)>>

Mix(r, d, content) ==
    spoilt' = IF \E s \in Procs \ {r} : Writing(s, d) /\ Content(s) # content THEN spoilt \cup {d} ELSE spoilt

\* os.RemoveAll of a directory goes through it in any order: after its first step
\* the tree, the other files or all may be gone, and after its second all is,
\* unless a call fails.  What is written meanwhile may stay, and makes the call
\* fail.
Remains(b) ==
    {NoBundle, [b EXCEPT !.rootfs = Empty], [b EXCEPT !.manifest = FALSE, !.blobs = {}, !.config = None]}

RemovalBegins(r, pc) ==
    /\ \E b \in Remains(bundle[proc[r].dir]) : bundle' = [bundle EXCEPT ![proc[r].dir] = b]
    /\ IF \E s \in Procs \ {r} : Writing(s, proc[r].dir) THEN Mix(r, proc[r].dir, <<"removed">>)
       ELSE spoilt' = spoilt \ {proc[r].dir}
    /\ Go(r, pc)

RemovalEnds(r) ==
    /\ \E b \in IF proc[r].dir \in spoilt THEN Remains(bundle[proc[r].dir]) ELSE {NoBundle} :
          bundle' = [bundle EXCEPT ![proc[r].dir] = b]
    /\ UNCHANGED <<spoilt, faults>>

RemovalFails(r) ==
    /\ IF proc[r].dir \in spoilt THEN UNCHANGED faults ELSE Fault
    /\ spoilt' = spoilt \cup {proc[r].dir}
    /\ UNCHANGED bundle

-----------------------------------------------------------------------------
\* Requests.
Accept(r) ==
    /\ requests < MaxRequests /\ proc[r].pc = "idle"
    /\ requests' = requests + 1
    /\ UNCHANGED <<ilm, bundle, run, litter, spoilt, faults>>

PullImage(r) ==
    /\ Accept(r)
    /\ \E i \in Images : proc' = [proc EXCEPT ![r] = [Idle EXCEPT !.pc = "pull", !.image = i]]

RemoveImage(r) ==
    /\ Accept(r)
    /\ \E i \in Named : proc' = [proc EXCEPT ![r] = [Idle EXCEPT !.pc = "remove", !.image = i]]

GetImageStatus(r) ==
    /\ Accept(r)
    /\ \E i \in Named : proc' = [proc EXCEPT ![r] = [Idle EXCEPT !.pc = "status", !.image = i]]

\* MaxRuns bounds the builds with RUN lines at one time: their containers share
\* nothing but the pool of addresses (module Ipam).
BuildImage(r) ==
    /\ Accept(r)
    /\ \E i, b \in Named, runs \in BOOLEAN :
          /\ runs => Cardinality({s \in Procs : proc[s].runs}) < MaxRuns
          /\ proc' = [proc EXCEPT ![r] = [Idle EXCEPT !.pc = "from", !.image = i, !.base = b, !.runs = runs]]

-----------------------------------------------------------------------------
\* Pull.  A build whose base is not there pulls it first: the image pulled is
\* then the base.
Pulled(r) == IF proc[r].base = None THEN proc[r].image ELSE proc[r].base

AfterPull(r) ==
    proc' = [proc EXCEPT ![r] = IF @.base = None THEN Idle
                                ELSE [@ EXCEPT !.pc = "base", !.dir = None, !.version = None, !.k = 0]]

createOutputDirectory(r) ==
    /\ proc[r].pc = "pull"
    /\ LET d == PullDir[Pulled(r)] IN
       /\ bundle' = [bundle EXCEPT ![d].there = TRUE]
       /\ proc' = [proc EXCEPT ![r].pc = "manifest", ![r].dir = d]
       /\ spoilt' = IF \E s \in Procs \ {r} : Removing(s, d) THEN spoilt \cup {d} ELSE spoilt
    /\ UNCHANGED <<ilm, run, litter, requests, faults>>

\* The registry names where to get a token, gives one, and has the manifest.
RegistryGrants(r) == Pulled(r) \in Registry

fetchManifest(r) ==
    /\ proc[r].pc = "manifest" /\ RegistryGrants(r) /\ bundle[proc[r].dir].there
    /\ \E v \in Versions :
          /\ bundle' = [bundle EXCEPT ![proc[r].dir].manifest = TRUE]
          /\ proc' = [proc EXCEPT ![r].pc = "blobs", ![r].version = v]
          /\ Mix(r, proc[r].dir, <<"pulled", Meaning(v)>>)
    /\ UNCHANGED <<ilm, run, litter, requests, faults>>

\* Blob 0 is the configuration, blob k the layer k.
Download(r, last) ==
    /\ proc[r].pc = "blobs"
    /\ bundle' = [bundle EXCEPT ![proc[r].dir].there = TRUE,
                                ![proc[r].dir].blobs = @ \cup {<<proc[r].version, proc[r].k>>}]
    /\ proc' = IF proc[r].k = last THEN [proc EXCEPT ![r].pc = "config", ![r].k = 1]
               ELSE [proc EXCEPT ![r].k = @ + 1]
    /\ UNCHANGED <<ilm, run, litter, spoilt, requests, faults>>

\* Slip: one blob too many.
DownloadsOneMore(r) == Download(r, Len(LayersOf[proc[r].version]) + 1)

downloadBlobVerified(r) == Download(r, Len(LayersOf[proc[r].version]))

CopyConfig(r) ==
    /\ proc[r].pc = "config"
    /\ <<proc[r].version, 0>> \in bundle[proc[r].dir].blobs
    /\ bundle' = [bundle EXCEPT ![proc[r].dir].config = Meaning(proc[r].version)]
    /\ Go(r, "layers")
    /\ UNCHANGED <<ilm, run, litter, spoilt, requests, faults>>

Layer(r) == LayersOf[proc[r].version][proc[r].k]
LayerApplies(r) ==
    /\ <<proc[r].version, proc[r].k>> \in bundle[proc[r].dir].blobs
    /\ applyOneLayer(bundle[proc[r].dir].rootfs, Layer(r)).ok

applyLayers(r) ==
    /\ proc[r].pc = "layers" /\ LayerApplies(r)
    /\ bundle' = [bundle EXCEPT ![proc[r].dir].rootfs = applyOneLayer(@, Layer(r)).fs]
    /\ proc' = IF proc[r].k = Len(LayersOf[proc[r].version]) THEN [proc EXCEPT ![r].pc = "index", ![r].k = 0]
               ELSE [proc EXCEPT ![r].k = @ + 1]
    /\ UNCHANGED <<ilm, run, litter, spoilt, requests, faults>>

StorePulled(r) ==
    /\ proc[r].pc = "index"
    /\ ilm' = [ilm EXCEPT ![Pulled(r)] = proc[r].dir]
    /\ AfterPull(r)
    /\ UNCHANGED <<bundle, run, litter, spoilt, requests, faults>>

\* What the code itself makes fail: a name that the registry does not have, a
\* directory or a blob that another request has removed, a layer that does not
\* go onto what is there.
PullCannotGoOn(r) ==
    \/ proc[r].pc = "manifest" /\ (~RegistryGrants(r) \/ ~bundle[proc[r].dir].there)
    \/ proc[r].pc = "config" /\ <<proc[r].version, 0>> \notin bundle[proc[r].dir].blobs
    \/ proc[r].pc = "layers" /\ ~LayerApplies(r)

\* Slip: a failed pull leaves its directory.
PullFailsKeepsFiles(r) ==
    /\ \/ PullCannotGoOn(r) /\ UNCHANGED faults
       \/ proc[r].pc \in {"manifest", "blobs", "config", "layers"} /\ Fault
    /\ End(r)
    /\ UNCHANGED <<ilm, bundle, run, litter, spoilt, requests>>

PullFails(r) ==
    /\ \/ PullCannotGoOn(r) /\ UNCHANGED faults
       \/ proc[r].pc \in {"manifest", "blobs", "config", "layers"} /\ Fault
    /\ RemovalBegins(r, "undo pull")
    /\ UNCHANGED <<ilm, run, litter, requests>>

UndoPull(r) ==
    /\ proc[r].pc = "undo pull"
    /\ RemovalEnds(r) \/ RemovalFails(r)
    /\ End(r)
    /\ UNCHANGED <<ilm, run, litter, requests>>

\* The directory cannot be made, or the index cannot be written.
PullFailsOutside(r) ==
    /\ proc[r].pc \in {"pull", "index"} /\ Fault
    /\ End(r)
    /\ UNCHANGED <<ilm, bundle, run, litter, spoilt, requests>>

-----------------------------------------------------------------------------
\* Remove.
RemoveLooksUp(r) ==
    /\ proc[r].pc = "remove"
    /\ proc' = IF ilm[proc[r].image] = None THEN [proc EXCEPT ![r] = Idle]
               ELSE [proc EXCEPT ![r].pc = "remove files", ![r].dir = ilm[proc[r].image]]
    /\ UNCHANGED <<ilm, bundle, run, litter, spoilt, requests, faults>>

RemoveFiles(r) ==
    /\ proc[r].pc = "remove files"
    /\ RemovalBegins(r, "remove rest")
    /\ UNCHANGED <<ilm, run, litter, requests, faults>>

RemoveRest(r) ==
    /\ proc[r].pc = "remove rest"
    /\ \/ RemovalEnds(r) /\ Go(r, "remove entry")
       \/ RemovalFails(r) /\ End(r)
    /\ UNCHANGED <<ilm, run, litter, requests>>

RemoveEntry(r) ==
    /\ proc[r].pc = "remove entry"
    /\ ilm' = [ilm EXCEPT ![proc[r].image] = None]
    /\ End(r)
    /\ UNCHANGED <<bundle, run, litter, spoilt, requests, faults>>

\* A directory or the index cannot be written.
RemoveFails(r) ==
    /\ proc[r].pc \in {"remove files", "remove entry"} /\ Fault
    /\ End(r)
    /\ UNCHANGED <<ilm, bundle, run, litter, spoilt, requests>>

\* GetImageStatus, which drops an image without a manifest: its entry first,
\* then its files.  A built image has no manifest.
StatusReads(r) ==
    /\ proc[r].pc = "status"
    /\ LET d == ilm[proc[r].image] IN
       proc' = IF d = None \/ bundle[d].manifest THEN [proc EXCEPT ![r] = Idle]
               ELSE [proc EXCEPT ![r].pc = "forget", ![r].dir = d]
    /\ UNCHANGED <<ilm, bundle, run, litter, spoilt, requests, faults>>

StatusForgets(r) ==
    /\ proc[r].pc = "forget"
    /\ ilm' = [ilm EXCEPT ![proc[r].image] = None]
    /\ Go(r, "forget files")
    /\ UNCHANGED <<bundle, run, litter, spoilt, requests, faults>>

StatusRemovesFiles(r) ==
    /\ proc[r].pc = "forget files"
    /\ RemovalBegins(r, "forget rest")
    /\ UNCHANGED <<ilm, run, litter, requests, faults>>

StatusRemovesRest(r) ==
    /\ proc[r].pc = "forget rest"
    /\ RemovalEnds(r) \/ RemovalFails(r)
    /\ End(r)
    /\ UNCHANGED <<ilm, run, litter, requests>>

-----------------------------------------------------------------------------
\* Build.
Ended(r) == run[r].process \in {"done", "failed"}

\* What no deferred call gives back: what is held without a flag, the command if
\* it runs, and the control group as long as a process of the container is in it.
LeftBy(r) ==
    {<<x, proc[r].pc>> : x \in proc[r].held \ proc[r].flags}
        \cup (IF run[r].process = "running" THEN {<<"process", proc[r].pc>>} ELSE {})
        \cup (IF "runtime" \in proc[r].held /\ ~Ended(r) THEN {<<"cgroup", proc[r].pc>>} ELSE {})

\* A build is over, but for the deferred functions.
EndBuild(r, left) ==
    /\ litter' = litter \cup left
    /\ run' = [run EXCEPT ![r] = NoRun]
    /\ proc' = [proc EXCEPT ![r] = [Idle EXCEPT !.pc = "over", !.held = proc[r].flags, !.flags = proc[r].flags]]

\* The deferred functions give back what is flagged, and drop the error of a call
\* that fails.
GiveBack(r, things) ==
    \/ UNCHANGED <<litter, faults>>
    \/ Fault /\ \E x \in things : litter' = litter \cup {<<x, "deferred">>}

BuildOver(r) ==
    /\ proc[r].pc = "over" /\ GiveBack(r, proc[r].flags)
    /\ End(r)
    /\ UNCHANGED <<ilm, bundle, run, spoilt, requests>>

Take(r, thing, pc) ==
    proc' = [proc EXCEPT ![r].pc = pc, ![r].held = @ \cup {thing}, ![r].flags = @ \cup {thing}]

applyFrom(r) ==
    /\ proc[r].pc = "from"
    /\ Go(r, IF IsImageExist(proc[r].base) THEN "base" ELSE "pull")
    /\ UNCHANGED <<ilm, bundle, run, litter, spoilt, requests, faults>>

ReadBaseConfig(r) ==
    /\ proc[r].pc = "base"
    /\ proc' = IF IsImageExist(proc[r].base) THEN [proc EXCEPT ![r].pc = "copy base"] ELSE [proc EXCEPT ![r] = Idle]
    /\ UNCHANGED <<ilm, bundle, run, litter, spoilt, requests, faults>>

\* The tree is copied to a temporary directory, which the build removes at its
\* end if the copy has succeeded.
CopyBase(r) ==
    /\ proc[r].pc = "copy base"
    /\ LET d == ilm[proc[r].base] IN
       IF d = None THEN EndBuild(r, {}) /\ UNCHANGED faults
       ELSE \/ /\ bundle[d].there
               /\ proc' = [proc EXCEPT ![r].pc = "instructions", ![r].tree = bundle[d].rootfs,
                                       ![r].held = {"tmp"}, ![r].flags = {"tmp"}]
               /\ UNCHANGED <<run, litter, faults>>
            \/ /\ IF bundle[d].there THEN Fault ELSE UNCHANGED faults
               /\ EndBuild(r, {<<"tmp", "copy base">>})
    /\ UNCHANGED <<ilm, bundle, spoilt, requests>>

\* WORKDIR w, and COPY of a file to the working directory.
Instructed(tree) ==
    LET inDir == MkdirAll([ok |-> TRUE, fs |-> tree], Parents(Workdir) \cup {Workdir}) IN
    IF inDir.ok THEN applyCopy(inDir, Workdir, CopyName, CopyData) ELSE inDir

ApplyInstructions(r) ==
    /\ proc[r].pc = "instructions"
    /\ LET st == Instructed(proc[r].tree) IN
       IF st.ok
       THEN /\ proc' = [proc EXCEPT ![r].pc = IF proc[r].runs THEN "address" ELSE "check", ![r].tree = st.fs]
            /\ UNCHANGED <<run, litter>>
       ELSE EndBuild(r, LeftBy(r))
    /\ UNCHANGED <<ilm, bundle, spoilt, requests, faults>>

\* runCommandInContainer.
allocateBuildAddress(r) ==
    /\ proc[r].pc = "address" /\ Take(r, "address", "mkdir")
    /\ UNCHANGED <<ilm, bundle, run, litter, spoilt, requests, faults>>

setupBuildContainerDirectory(r) ==
    /\ proc[r].pc = "mkdir" /\ Take(r, "directory", "cgroup")
    /\ UNCHANGED <<ilm, bundle, run, litter, spoilt, requests, faults>>

\* Slip: the flag of the control group is not set.
setupBuildCgroupUnflagged(r) ==
    /\ proc[r].pc = "cgroup"
    /\ proc' = [proc EXCEPT ![r].pc = "entry", ![r].held = @ \cup {"cgroup"}]
    /\ UNCHANGED <<ilm, bundle, run, litter, spoilt, requests, faults>>

setupBuildCgroup(r) ==
    /\ proc[r].pc = "cgroup" /\ Take(r, "cgroup", "entry")
    /\ UNCHANGED <<ilm, bundle, run, litter, spoilt, requests, faults>>

StoreContainer(r) ==
    /\ proc[r].pc = "entry" /\ Take(r, "entry", "create")
    /\ run' = [run EXCEPT ![r].state = "creating"]
    /\ UNCHANGED <<ilm, bundle, litter, spoilt, requests, faults>>

RuntimeCreate(r) ==
    /\ proc[r].pc = "create"
    /\ proc' = [proc EXCEPT ![r].pc = "start", ![r].held = @ \cup {"runtime"}]
    /\ run' = [run EXCEPT ![r].state = "created"]
    /\ UNCHANGED <<ilm, bundle, litter, spoilt, requests, faults>>

RuntimeStart(r) ==
    /\ proc[r].pc = "start"
    /\ Go(r, "wait")
    /\ run' = [run EXCEPT ![r].state = "running", ![r].process = "running"]
    /\ UNCHANGED <<ilm, bundle, litter, spoilt, requests, faults>>

\* The command ends, with or without an error.
ProcessExits(r) ==
    /\ run[r].process = "running"
    /\ \E how \in {"done", "failed"} : run' = [run EXCEPT ![r].process = how]
    /\ UNCHANGED <<ilm, bundle, proc, litter, spoilt, requests, faults>>

\* Nothing reads what is reported after the wait.
\* The stopContainer hook: two transactions of the state file.
HookStops(r) ==
    /\ proc[r].pc = "wait" /\ Ended(r) /\ run[r].hook = 0
    /\ run' = [run EXCEPT ![r].state = "stopped", ![r].hook = 1]
    /\ UNCHANGED <<ilm, bundle, proc, litter, spoilt, requests, faults>>

HookReportsExit(r) ==
    /\ proc[r].pc = "wait" /\ run[r].hook = 1
    /\ run' = [run EXCEPT ![r].code = IF run[r].process = "failed" THEN 1 ELSE 0, ![r].down = FALSE, ![r].hook = 2]
    /\ UNCHANGED <<ilm, bundle, proc, litter, spoilt, requests, faults>>

\* The monitor has seen that the process is gone, and reports so in two
\* transactions.  Its list of containers may be older than the hook's reports.
MonitorStops(r) ==
    /\ proc[r].pc = "wait" /\ Ended(r) /\ run[r].monitor = 0
    /\ run' = [run EXCEPT ![r].state = "stopped", ![r].monitor = 1]
    /\ UNCHANGED <<ilm, bundle, proc, litter, spoilt, requests, faults>>

MonitorReports(r) ==
    /\ proc[r].pc = "wait" /\ run[r].monitor = 1
    /\ run' = [run EXCEPT ![r].code = -1, ![r].down = TRUE, ![r].monitor = 2]
    /\ UNCHANGED <<ilm, bundle, proc, litter, spoilt, requests, faults>>

GoOn(r) ==
    /\ Go(r, "delete")
    /\ run' = [run EXCEPT ![r] = [NoRun EXCEPT !.process = run[r].process,
                                              !.told = run[r].hook = 2 /\ run[r].monitor < 2]]
    /\ UNCHANGED litter

\* Slip: the exit code is not looked at.
WaitIgnoresExitCode(r) ==
    /\ proc[r].pc = "wait" /\ run[r].state = "stopped"
    /\ GoOn(r)
    /\ UNCHANGED <<ilm, bundle, spoilt, requests, faults>>

\* What the build makes of the exit code and the message of the entry.
RunFailed(r) == run[r].code # 0 /\ ~run[r].down

waitBuildContainerStopped(r) ==
    /\ proc[r].pc = "wait" /\ run[r].state = "stopped"
    /\ IF RunFailed(r) THEN EndBuild(r, LeftBy(r)) ELSE GoOn(r)
    /\ UNCHANGED <<ilm, bundle, spoilt, requests, faults>>

\* Ten minutes have passed, or a hook has brought a state of the runtime that the
\* wait does not know.
WaitTimesOut(r) ==
    /\ proc[r].pc = "wait" /\ run[r].state # "stopped"
    /\ EndBuild(r, LeftBy(r))
    /\ UNCHANGED <<ilm, bundle, spoilt, requests, faults>>

RuntimeDelete(r) ==
    /\ proc[r].pc = "delete"
    /\ proc' = [proc EXCEPT ![r].pc = "upper", ![r].held = @ \ {"runtime"}]
    /\ UNCHANGED <<ilm, bundle, run, litter, spoilt, requests, faults>>

\* What the command wrote, until it failed if it did, is merged into the tree.
ApplyUpper(r) ==
    /\ proc[r].pc = "upper"
    /\ \E upper \in RunUppers \cup (IF run[r].process = "failed" THEN {<<>>} ELSE {}) :
         LET st == applyOverlayUpper(proc[r].tree, upper) IN
         IF st.ok
         THEN /\ proc' = [proc EXCEPT ![r].pc = "run over", ![r].tree = st.fs]
              /\ run' = [run EXCEPT ![r] = NoRun]
              /\ UNCHANGED litter
         ELSE EndBuild(r, LeftBy(r))
    /\ UNCHANGED <<ilm, bundle, spoilt, requests, faults>>

\* The deferred function of runCommandInContainer; the build goes on.
RunOver(r) ==
    /\ proc[r].pc = "run over" /\ GiveBack(r, proc[r].flags \ {"tmp"})
    /\ proc' = [proc EXCEPT ![r].pc = "check", ![r].held = {"tmp"}, ![r].flags = {"tmp"}]
    /\ UNCHANGED <<ilm, bundle, run, spoilt, requests>>

\* storeBuiltImage.
CheckBuiltExists(r) ==
    /\ proc[r].pc = "check"
    /\ proc' = [proc EXCEPT ![r].pc = IF IsImageExist(proc[r].image) THEN "forget old" ELSE "copy",
                            ![r].dir = BuildDir[proc[r].image]]
    /\ UNCHANGED <<ilm, bundle, run, litter, spoilt, requests, faults>>

ForgetOld(r) ==
    /\ proc[r].pc = "forget old"
    /\ IF ilm[proc[r].image] = None THEN EndBuild(r, LeftBy(r)) /\ UNCHANGED ilm
       ELSE /\ ilm' = [ilm EXCEPT ![proc[r].image] = None]
            /\ Go(r, "remove old") /\ UNCHANGED <<run, litter>>
    /\ UNCHANGED <<bundle, spoilt, requests, faults>>

RemoveOld(r) ==
    /\ proc[r].pc = "remove old"
    /\ RemovalBegins(r, "old rest")
    /\ UNCHANGED <<ilm, run, litter, requests, faults>>

RemoveOldRest(r) ==
    /\ proc[r].pc = "old rest"
    /\ RemovalEnds(r) \/ RemovalFails(r)
    /\ Go(r, "copy")
    /\ UNCHANGED <<ilm, run, litter, requests>>

\* copyDir into the directory of the image, onto what is there.  First everything
\* is copied but one path, then that one, and copyFile makes the directories that
\* it is in again.  A copy that fails leaves a mixed directory.
Branch(tree, ps) == [p \in Paths |-> IF p \in ps THEN tree[p] ELSE Nothing]

Copies(r, part, pc, at) ==
    LET d == proc[r].dir
        st == copyDir(bundle[d].rootfs, part)
    IN  IF st.ok
        THEN /\ bundle' = [bundle EXCEPT ![d].there = TRUE, ![d].rootfs = st.fs]
             /\ proc' = [proc EXCEPT ![r].pc = pc, ![r].at = at]
             /\ Mix(r, d, <<"built", proc[r].tree>>)
             /\ UNCHANGED <<run, litter>>
        ELSE /\ EndBuild(r, LeftBy(r))
             /\ spoilt' = spoilt \cup {d}
             /\ UNCHANGED bundle

CopyBuilt(r) ==
    /\ proc[r].pc = "copy"
    /\ \E p \in Paths : /\ proc[r].tree[p] # Nothing /\ \A q \in Below(p) : proc[r].tree[q] = Nothing
                        /\ Copies(r, Branch(proc[r].tree, Paths \ {p}), "copy rest", p)
    /\ UNCHANGED <<ilm, requests, faults>>

CopyBuiltRest(r) ==
    /\ proc[r].pc = "copy rest"
    /\ LET p == proc[r].at IN Copies(r, Branch(proc[r].tree, {p} \cup Parents(p)), "built config", None)
    /\ UNCHANGED <<ilm, requests, faults>>

WriteBuiltConfig(r) ==
    /\ proc[r].pc = "built config"
    /\ LET d == proc[r].dir IN
       IF bundle[d].there
       THEN /\ bundle' = [bundle EXCEPT ![d].config = proc[r].tree]
            /\ Go(r, "built index") /\ UNCHANGED <<run, litter>>
       ELSE EndBuild(r, LeftBy(r)) /\ UNCHANGED bundle
    /\ UNCHANGED <<ilm, spoilt, requests, faults>>

StoreBuilt(r) ==
    /\ proc[r].pc = "built index"
    /\ ilm' = [ilm EXCEPT ![proc[r].image] = proc[r].dir]
    /\ EndBuild(r, LeftBy(r))
    /\ UNCHANGED <<bundle, spoilt, requests, faults>>

\* Any other call of a build fails.  The first two of these take a resource
\* before the flag that gives it back is set.
BuildPcs == {"from", "base", "instructions", "address", "mkdir", "cgroup", "entry", "create", "start", "delete",
             "upper", "forget old", "copy", "copy rest", "built config", "built index"}

BuildFails(r) ==
    /\ proc[r].pc \in BuildPcs /\ Fault
    /\ \/ EndBuild(r, LeftBy(r))
       \/ proc[r].pc = "address" /\ EndBuild(r, LeftBy(r) \cup {<<"address", "address">>})
       \/ proc[r].pc = "mkdir" /\ EndBuild(r, LeftBy(r) \cup {<<"directory", "mkdir">>})
    /\ spoilt' = IF proc[r].pc \in {"copy", "copy rest", "built config"} THEN spoilt \cup {proc[r].dir} ELSE spoilt
    /\ UNCHANGED <<ilm, bundle, requests>>

-----------------------------------------------------------------------------
\* The daemon ends at any point: the index and the files stay.
Crash ==
    /\ Fault /\ \E r \in Procs : proc[r].pc # "idle"
    /\ proc' = [r \in Procs |-> Idle]
    /\ run' = [r \in Procs |-> NoRun]
    /\ litter' = litter \cup (UNION {{<<x, "crash">> : x \in proc[r].held} : r \in Procs})
                        \cup {<<"process", "crash">> : r \in {s \in Procs : run[s].process = "running"}}
    /\ spoilt' = spoilt \cup {d \in Dirs : \E r \in Procs : Writing(r, d)}
    /\ UNCHANGED <<ilm, bundle, requests>>

Done ==
    /\ requests = MaxRequests /\ \A r \in Procs : proc[r].pc = "idle"
    /\ UNCHANGED vars

Step(r) ==
    \/ PullImage(r) \/ RemoveImage(r) \/ GetImageStatus(r) \/ BuildImage(r)
    \/ createOutputDirectory(r) \/ fetchManifest(r) \/ downloadBlobVerified(r) \/ CopyConfig(r) \/ applyLayers(r)
    \/ StorePulled(r) \/ PullFails(r) \/ UndoPull(r) \/ PullFailsOutside(r)
    \/ RemoveLooksUp(r) \/ RemoveFiles(r) \/ RemoveRest(r) \/ RemoveEntry(r) \/ RemoveFails(r)
    \/ StatusReads(r) \/ StatusForgets(r) \/ StatusRemovesFiles(r) \/ StatusRemovesRest(r)
    \/ applyFrom(r) \/ ReadBaseConfig(r) \/ CopyBase(r) \/ ApplyInstructions(r)
    \/ allocateBuildAddress(r) \/ setupBuildContainerDirectory(r) \/ setupBuildCgroup(r) \/ StoreContainer(r)
    \/ RuntimeCreate(r) \/ RuntimeStart(r) \/ ProcessExits(r) \/ HookStops(r) \/ HookReportsExit(r)
    \/ MonitorStops(r) \/ MonitorReports(r)
    \/ waitBuildContainerStopped(r) \/ WaitTimesOut(r) \/ RuntimeDelete(r) \/ ApplyUpper(r) \/ RunOver(r)
    \/ CheckBuiltExists(r) \/ ForgetOld(r) \/ RemoveOld(r) \/ RemoveOldRest(r) \/ CopyBuilt(r) \/ CopyBuiltRest(r)
    \/ WriteBuiltConfig(r) \/ StoreBuilt(r) \/ BuildFails(r) \/ BuildOver(r)

Next == (\E r \in Procs : Step(r)) \/ Crash \/ Done

Spec == Init /\ [][Next]_vars

-----------------------------------------------------------------------------
Pcs == {"idle", "pull", "manifest", "blobs", "config", "layers", "index", "remove", "remove files", "remove entry",
        "status", "forget", "forget files", "copy base", "wait", "run over", "check", "remove old", "over"}
            \cup BuildPcs \cup RemovingPcs

Things == {"tmp", "address", "directory", "cgroup", "entry", "runtime"}

\* The index names directories, a directory holds blobs of the versions that the
\* registry serves, and a request is at a step of its handler.
TypeOK ==
    /\ ilm \in [Images -> Dirs \cup {None}]
    /\ \A d \in Dirs : /\ bundle[d].there \in BOOLEAN /\ bundle[d].manifest \in BOOLEAN
                       /\ \A b \in bundle[d].blobs : b[1] \in Versions /\ b[2] \in 0..Len(LayersOf[b[1]])
                       /\ bundle[d].config = None \/ bundle[d].config \in Trees
                       /\ bundle[d].rootfs \in Trees
    /\ \A r \in Procs : /\ proc[r].pc \in Pcs
                        /\ proc[r].dir \in Dirs \cup {None}
                        /\ proc[r].tree \in Trees
                        /\ proc[r].flags \subseteq proc[r].held /\ proc[r].held \subseteq Things
    /\ spoilt \subseteq Dirs /\ requests \in 0..MaxRequests /\ faults \in 0..MaxFaults

\* applyOneLayer against what layers mean: of two archives as image builders
\* write them, whose paths go through no symbolic link, the extraction gives the
\* upper one over what it leaves of the lower one, or it refuses a device outside
\* dev/ or a directory in the place of a file that stays.  This does not depend on
\* the state, and is evaluated once.
LayersSound ==
    requests = 0 =>
        \A low, up \in {CopyData} \cup Links : \A lower \in SmallLayers(low) :
            LET one == applyOneLayer(Empty, lower) IN
            /\ ExtractionSound(Empty, lower)
            /\ one.ok => \A upper \in SmallLayers(up) : ExtractionSound(one.fs, upper)

\* An image that IsImageExist accepts, and that no request is writing or removing,
\* has every file of the image that its configuration belongs to: a pull that
\* fails half way over an older version, a second pull or build of the directory,
\* and a removal never leave an index entry with a configuration and half a tree.
\* What does is named by spoilt: a directory in which two contents are written at
\* once, or one is written while it is removed (the files that a build copies
\* after a removal that began during the copy stay, with its configuration), a
\* removal or a copy that fails half way, a build that ends between its tree and
\* its configuration, and a crash during a write.
UsableImage ==
    \A i \in Images :
        (IsImageExist(i) /\ ilm[i] \notin spoilt /\ ~\E r \in Procs : Writing(r, ilm[i]))
            => \A p \in Paths : bundle[ilm[i]].config[p] # Nothing
                                  => bundle[ilm[i]].rootfs[p] = bundle[ilm[i]].config[p]

\* What a build that has ended leaves behind, and where it must have ended for
\* that: the address when the gateway is not found, the directory when it is
\* half made, the temporary tree when its copy fails, the runtime's container
\* when the build ends between its creation and its deletion, the control group
\* when it ends while a process of the container lives, the command itself, whose
\* address is free again, when the wait of ten minutes is over, and anything whose
\* deferred call fails, as its error is dropped.  The flags of buildRollback give
\* back everything else.
BuildReclaims ==
    litter \subseteq {<<"tmp", "copy base">>, <<"address", "address">>, <<"directory", "mkdir">>, <<"process", "wait">>}
                     \cup ({"runtime"} \X {"start", "wait", "delete"})
                     \cup ({"cgroup"} \X {"start", "wait"})
                     \cup ((Things \ {"runtime"}) \X {"deferred"})
                     \cup ((Things \cup {"process"}) \X {"crash"})

\* A build goes on after RUN only when the command has ended.  After a command
\* that failed it goes on in two cases alone: the hook's report of the exit code
\* was not there yet when waitBuildContainerStopped found the container stopped,
\* or the monitor had overwritten it with its own.
RunEnded ==
    \A r \in Procs : proc[r].pc \in {"delete", "upper"} =>
        Ended(r) /\ ~(run[r].process = "failed" /\ run[r].told)

=============================================================================
