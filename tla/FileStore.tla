----------------------------- MODULE FileStore -----------------------------
(***************************************************************************)
(* How every store of the daemon (csm, psm, bsm, ssm, ilm, npm, ipam)      *)
(* reads and writes its JSON file: store.go, withLock and withRLock.  Each *)
(* service builds its own store object, so a file is shared by several     *)
(* objects; the mutex belongs to the object, the flock to the file.        *)
(*                                                                         *)
(* A request is one call of withLock (a writer) or withRLock (a reader) by *)
(* one goroutine.  The content of the file is the set of the updates       *)
(* applied to it: fn of writer w adds w.                                   *)
(***************************************************************************)
EXTENDS Naturals, FiniteSets

CONSTANTS
    Writers, Readers,   \* the requests
    Objects,            \* store objects opened on the file
    ObjectOf,           \* the object a request goes through
    Nobody,             \* the owner of a free lock
    Missing,            \* a file that does not exist
    Torn,               \* a file that holds part of a write
    MaxCrashes          \* bound on the crashes of the daemon

Requests == Writers \cup Readers

ASSUME StoreAssumption ==
    /\ Writers \cap Readers = {}
    /\ ObjectOf \in [Requests -> Objects]
    /\ Nobody \notin Requests
    /\ \A S \in SUBSET Requests : Missing # S /\ Torn # S
    /\ Missing # Torn
    /\ MaxCrashes \in Nat

VARIABLES
    path,       \* the state file
    tmp,        \* the file path + ".tmp"
    mu,         \* per object: the goroutine that holds its mutex
    flock,      \* the goroutine that holds the lock of path + ".lock"
    pc,         \* per request: where it is in withLock or withRLock
    st,         \* per request: its copy of the state
    result,     \* per request: the error it is about to return
    crashes

vars == <<path, tmp, mu, flock, pc, st, result, crashes>>

\* What loadOrInit makes of the file: the default state if there is none.
Content(file) == IF file = Missing THEN {} ELSE file

Goto(r, label) == pc' = [pc EXCEPT ![r] = label]

\* Return err: the deferred calls run next.
Fail(r, label) ==
    /\ Goto(r, label)
    /\ result' = [result EXCEPT ![r] = "err"]

-----------------------------------------------------------------------------
Lock(r) ==
    /\ pc[r] = "start"
    /\ mu[ObjectOf[r]] = Nobody
    /\ mu' = [mu EXCEPT ![ObjectOf[r]] = r]
    /\ Goto(r, "flock")
    /\ UNCHANGED <<path, tmp, flock, st, result, crashes>>

\* Slip: only the mutex of the store object is taken.
FlockNotTaken(r) ==
    /\ pc[r] = "flock"
    /\ flock' = r
    /\ Goto(r, "load")
    /\ UNCHANGED <<path, tmp, mu, st, result, crashes>>

Flock(r) ==
    /\ pc[r] = "flock"
    /\ flock = Nobody
    /\ flock' = r
    /\ Goto(r, "load")
    /\ UNCHANGED <<path, tmp, mu, st, result, crashes>>

\* MkdirAll, OpenFile or Flock returns an error.
FlockFails(r) ==
    /\ pc[r] = "flock"
    /\ Fail(r, "unlock")
    /\ UNCHANGED <<path, tmp, mu, flock, st, crashes>>

loadOrInit(r) ==
    /\ pc[r] = "load"
    /\ path # Torn
    /\ st' = [st EXCEPT ![r] = Content(path)]
    /\ Goto(r, "fn")
    /\ UNCHANGED <<path, tmp, mu, flock, result, crashes>>

\* Slip: an early return that skips the release of the flock.
loadOrInitFailsLocked(r) ==
    /\ pc[r] = "load"
    /\ Fail(r, "unlock")
    /\ UNCHANGED <<path, tmp, mu, flock, st, crashes>>

\* ReadFile returns an error, or the JSON is broken.
loadOrInitFails(r) ==
    /\ pc[r] = "load"
    /\ Fail(r, "funlock")
    /\ UNCHANGED <<path, tmp, mu, flock, st, crashes>>

\* fn of a writer changes its copy, which still has to be saved; with fn of a
\* reader withRLock is done.
ApplyUpdate(w) ==
    /\ pc[w] = "fn"
    /\ st' = [st EXCEPT ![w] = @ \cup {w}]
    /\ Goto(w, "create")
    /\ UNCHANGED <<path, tmp, mu, flock, result, crashes>>

ApplyLookup(r) ==
    /\ pc[r] = "fn"
    /\ result' = [result EXCEPT ![r] = "ok"]
    /\ Goto(r, "funlock")
    /\ UNCHANGED <<path, tmp, mu, flock, st, crashes>>

\* Slip: a return that does not go through the deferred calls.
ApplyFailsAtOnce(r) ==
    /\ pc[r] = "fn"
    /\ Fail(r, "returned")
    /\ UNCHANGED <<path, tmp, mu, flock, st, crashes>>

\* fn returns an error (not found, already used, no free address): no save.
ApplyFails(r) ==
    /\ pc[r] = "fn"
    /\ Fail(r, "funlock")
    /\ UNCHANGED <<path, tmp, mu, flock, st, crashes>>

\* Slip: the state file itself is truncated and written.
CreateInPlace(w) ==
    /\ pc[w] = "create"
    /\ path' = Torn
    /\ Goto(w, "write")
    /\ UNCHANGED <<tmp, mu, flock, st, result, crashes>>

\* atomicSave, in three parts: open and truncate the temporary file, write and
\* sync it, rename it over the state file.
CreateTmp(w) ==
    /\ pc[w] = "create"
    /\ tmp' = Torn
    /\ Goto(w, "write")
    /\ UNCHANGED <<path, mu, flock, st, result, crashes>>

WriteTmp(w) ==
    /\ pc[w] = "write"
    /\ tmp' = st[w]
    /\ Goto(w, "rename")
    /\ UNCHANGED <<path, mu, flock, st, result, crashes>>

RenameTmp(w) ==
    /\ pc[w] = "rename"
    /\ path' = tmp
    /\ tmp' = Missing
    /\ result' = [result EXCEPT ![w] = "ok"]
    /\ Goto(w, "funlock")
    /\ UNCHANGED <<mu, flock, st, crashes>>

\* Slip: the error of atomicSave is dropped.
SaveFailsSilently(w) ==
    /\ pc[w] \in {"create", "write", "rename"}
    /\ Goto(w, "funlock")
    /\ result' = [result EXCEPT ![w] = "ok"]
    /\ UNCHANGED <<path, tmp, mu, flock, st, crashes>>

\* One of them fails; the temporary file stays as it is.
SaveFails(w) ==
    /\ pc[w] \in {"create", "write", "rename"}
    /\ Fail(w, "funlock")
    /\ UNCHANGED <<path, tmp, mu, flock, st, crashes>>

\* The deferred calls, last one first.
Funlock(r) ==
    /\ pc[r] = "funlock"
    /\ flock' = Nobody
    /\ Goto(r, "unlock")
    /\ UNCHANGED <<path, tmp, mu, st, result, crashes>>

Unlock(r) ==
    /\ pc[r] = "unlock"
    /\ mu' = [mu EXCEPT ![ObjectOf[r]] = Nobody]
    /\ Goto(r, "done")
    /\ UNCHANGED <<path, tmp, flock, st, result, crashes>>

\* The daemon is killed: its goroutines and its locks go, the files stay.
Crash ==
    /\ crashes < MaxCrashes
    /\ crashes' = crashes + 1
    /\ pc' = [r \in Requests |-> IF pc[r] \in {"start", "done"}
                                 THEN pc[r] ELSE "killed"]
    /\ mu' = [o \in Objects |-> Nobody]
    /\ flock' = Nobody
    /\ UNCHANGED <<path, tmp, st, result>>

-----------------------------------------------------------------------------
Init ==
    /\ path = Missing
    /\ tmp = Missing
    /\ mu = [o \in Objects |-> Nobody]
    /\ flock = Nobody
    /\ pc = [r \in Requests |-> "start"]
    /\ st = [r \in Requests |-> {}]
    /\ result = [r \in Requests |-> "none"]
    /\ crashes = 0

WriterStep(w) ==
    \/ ApplyUpdate(w)
    \/ CreateTmp(w) \/ WriteTmp(w) \/ RenameTmp(w) \/ SaveFails(w)

Step(r) ==
    \/ Lock(r) \/ Flock(r) \/ FlockFails(r)
    \/ loadOrInit(r) \/ loadOrInitFails(r)
    \/ ApplyFails(r) \/ Funlock(r) \/ Unlock(r)

Next ==
    \/ \E r \in Requests : Step(r)
    \/ \E w \in Writers : WriterStep(w)
    \/ \E r \in Readers : ApplyLookup(r)
    \/ Crash

\* What a request does when nothing fails.
Run(r) == Lock(r) \/ Flock(r) \/ loadOrInit(r) \/ Funlock(r) \/ Unlock(r)

RunWriter(w) == ApplyUpdate(w) \/ CreateTmp(w) \/ WriteTmp(w) \/ RenameTmp(w)

\* A goroutine that can run is scheduled; nothing has to fail.  A request takes
\* each lock once and there are finitely many of them, so weak fairness is
\* enough for the locks.
Fairness ==
    /\ \A w \in Writers : WF_vars(Run(w) \/ RunWriter(w))
    /\ \A r \in Readers : WF_vars(Run(r) \/ ApplyLookup(r))

Spec == Init /\ [][Next]_vars /\ Fairness

-----------------------------------------------------------------------------
Labels == {"start", "flock", "load", "fn", "create", "write", "rename",
           "funlock", "unlock", "done", "killed"}

TypeOK ==
    /\ path \in {Missing, Torn} \cup SUBSET Requests
    /\ tmp \in {Missing, Torn} \cup SUBSET Requests
    /\ mu \in [Objects -> Requests \cup {Nobody}]
    /\ flock \in Requests \cup {Nobody}
    /\ pc \in [Requests -> Labels]
    /\ st \in [Requests -> SUBSET Requests]
    /\ result \in [Requests -> {"none", "ok", "err"}]
    /\ crashes \in 0..MaxCrashes

\* The labels at which the goroutine holds the lock of the file.
Critical == {"load", "fn", "create", "write", "rename", "funlock"}

\* The copy a request works on is the content of the file, and the temporary
\* file about to be renamed is that copy: nobody else touches either between
\* the load and the rename.
CopyIsCurrent ==
    \A r \in Requests :
        /\ pc[r] \in Critical => flock = r
        /\ pc[r] = "fn" => st[r] = Content(path)
        /\ pc[r] \in {"create", "write", "rename"} =>
               st[r] = Content(path) \cup {r}
        /\ pc[r] = "rename" => tmp = st[r]

\* A crash at any point of atomicSave leaves a state file that loads.
NeverTorn == path # Torn

\* Each call of withLock and withRLock returns or is ended by a crash: the
\* mutex and the flock are taken in one order and released on every path.
EveryRequestEnds ==
    \A r \in Requests : <>(pc[r] \in {"done", "killed"})

\* The store as its callers see it.  An update counts from the rename on.
Outcome ==
    [r \in Requests |->
        IF pc[r] = "killed" /\ result[r] = "none" THEN "err"
        ELSE IF result[r] = "none" THEN "pending" ELSE result[r]]

View ==
    [r \in Requests |-> IF r \in Readers /\ Outcome[r] = "ok" THEN st[r] ELSE {}]

Abstract == INSTANCE AtomicStore
                WITH value <- Content(path), outcome <- Outcome, view <- View

\* The locks, the copy and the rename make each call atomic: no update is
\* lost or half applied, across store objects, errors and crashes.
StoreIsAtomic == Abstract!Spec
=============================================================================
