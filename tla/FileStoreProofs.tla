--------------------------- MODULE FileStoreProofs ---------------------------
(***************************************************************************)
(* Proofs about the state files, for any number of requests, store objects *)
(* and crashes: the invariants of the locked section, and that a file is   *)
(* used atomically (the safety part of the refinement of AtomicStore).     *)
(***************************************************************************)
EXTENDS FileStore, TLAPS

\* A request has no result before it saves, looks up or fails.
NoResultYet ==
    \A r \in Requests :
        pc[r] \in {"start", "flock", "load", "fn", "create", "write", "rename"} =>
            result[r] = "none"

StoreInv == TypeOK /\ CopyIsCurrent /\ NeverTorn /\ NoResultYet

\* What loadOrInit returns for a file that is not torn.
LEMMA ContentType ==
    TypeOK /\ NeverTorn => Content(path) \in SUBSET Requests
  BY DEF TypeOK, NeverTorn, Content

LEMMA StoreInitInv == Init => StoreInv
  <1> SUFFICES ASSUME Init PROVE StoreInv
    OBVIOUS
  <1>1. TypeOK
    BY StoreAssumption DEF Init, TypeOK, Labels
  <1>2. CopyIsCurrent
    BY DEF Init, CopyIsCurrent, Critical
  <1>3. NeverTorn /\ NoResultYet
    BY StoreAssumption DEF Init, NeverTorn, NoResultYet
  <1> QED
    BY <1>1, <1>2, <1>3 DEF StoreInv

\* A step keeps the types.
LEMMA StepTypeOK ==
    ASSUME StoreInv, Next
    PROVE  TypeOK'
  <1> USE DEF StoreInv, TypeOK, Goto, Fail, Labels
  <1>1. ASSUME NEW r \in Requests, Lock(r) \/ Flock(r) \/ FlockFails(r)
        PROVE  TypeOK'
    BY <1>1, StoreAssumption DEF Lock, Flock, FlockFails
  <1>2. ASSUME NEW r \in Requests, loadOrInit(r) \/ loadOrInitFails(r)
        PROVE  TypeOK'
    BY <1>2, ContentType DEF loadOrInit, loadOrInitFails
  <1>3. ASSUME NEW r \in Requests, ApplyFails(r) \/ Funlock(r) \/ Unlock(r)
        PROVE  TypeOK'
    BY <1>3, StoreAssumption DEF ApplyFails, Funlock, Unlock
  <1>4. ASSUME NEW w \in Writers, ApplyUpdate(w)
        PROVE  TypeOK'
    BY <1>4 DEF ApplyUpdate, Requests
  <1>5. ASSUME NEW w \in Writers, CreateTmp(w) \/ WriteTmp(w) \/ RenameTmp(w) \/ SaveFails(w)
        PROVE  TypeOK'
    BY <1>5 DEF CreateTmp, WriteTmp, RenameTmp, SaveFails, Requests
  <1>6. ASSUME NEW r \in Readers, ApplyLookup(r)
        PROVE  TypeOK'
    BY <1>6 DEF ApplyLookup, Requests
  <1>7. CASE Crash
    BY <1>7, StoreAssumption DEF Crash
  <1> QED
    BY <1>1, <1>2, <1>3, <1>4, <1>5, <1>6, <1>7 DEF Next, Step, WriterStep

\* A step of one request leaves the copies of the others current: they are
\* outside the locked section, or the step does not touch the files.
LEMMA StepCopyIsCurrent ==
    ASSUME StoreInv, Next
    PROVE  CopyIsCurrent'
  <1> USE DEF StoreInv, TypeOK, Goto, Fail, CopyIsCurrent, Critical
  <1>1. ASSUME NEW r \in Requests, Lock(r)
        PROVE  CopyIsCurrent'
    BY <1>1 DEF Lock
  <1>2. ASSUME NEW r \in Requests, Flock(r)
        PROVE  CopyIsCurrent'
    BY <1>2, StoreAssumption DEF Flock
  <1>3. ASSUME NEW r \in Requests, FlockFails(r)
        PROVE  CopyIsCurrent'
    BY <1>3 DEF FlockFails
  <1>4. ASSUME NEW r \in Requests, loadOrInit(r)
        PROVE  CopyIsCurrent'
    BY <1>4 DEF loadOrInit
  <1>5. ASSUME NEW r \in Requests, loadOrInitFails(r) \/ ApplyFails(r)
        PROVE  CopyIsCurrent'
    BY <1>5 DEF loadOrInitFails, ApplyFails
  <1>6. ASSUME NEW r \in Requests, Funlock(r) \/ Unlock(r)
        PROVE  CopyIsCurrent'
    BY <1>6, StoreAssumption DEF Funlock, Unlock
  <1>7. ASSUME NEW w \in Writers, ApplyUpdate(w)
        PROVE  CopyIsCurrent'
    BY <1>7 DEF ApplyUpdate, Requests
  <1>8. ASSUME NEW w \in Writers, CreateTmp(w)
        PROVE  CopyIsCurrent'
    BY <1>8 DEF CreateTmp, Requests
  <1>9. ASSUME NEW w \in Writers, WriteTmp(w)
        PROVE  CopyIsCurrent'
    BY <1>9 DEF WriteTmp, Requests
  <1>10. ASSUME NEW w \in Writers, RenameTmp(w)
         PROVE  CopyIsCurrent'
    BY <1>10 DEF RenameTmp, Requests
  <1>11. ASSUME NEW w \in Writers, SaveFails(w)
         PROVE  CopyIsCurrent'
    BY <1>11 DEF SaveFails, Requests
  <1>12. ASSUME NEW r \in Readers, ApplyLookup(r)
         PROVE  CopyIsCurrent'
    BY <1>12 DEF ApplyLookup, Requests
  <1>13. CASE Crash
    BY <1>13 DEF Crash
  <1> QED
    BY <1>1, <1>2, <1>3, <1>4, <1>5, <1>6, <1>7, <1>8, <1>9, <1>10, <1>11,
       <1>12, <1>13
    DEF Next, Step, WriterStep

\* Only the rename changes the state file, and what it moves there is whole.
LEMMA RenameContent ==
    ASSUME StoreInv, NEW w \in Writers, RenameTmp(w)
    PROVE  /\ path' = st[w]
           /\ st[w] = Content(path) \cup {w}
           /\ st[w] \in SUBSET Requests
  BY DEF StoreInv, TypeOK, CopyIsCurrent, RenameTmp, Requests

LEMMA StepNeverTorn ==
    ASSUME StoreInv, Next
    PROVE  NeverTorn'
  <1>1. ASSUME NEW w \in Writers, RenameTmp(w)
        PROVE  NeverTorn'
    BY <1>1, RenameContent, StoreAssumption DEF NeverTorn
  <1>2. CASE UNCHANGED path
    BY <1>2 DEF StoreInv, NeverTorn
  <1>3. UNCHANGED path \/ \E w \in Writers : RenameTmp(w)
    BY DEF Next, Step, WriterStep, Lock, Flock, FlockFails, loadOrInit,
           loadOrInitFails, ApplyUpdate, ApplyLookup, ApplyFails, CreateTmp,
           WriteTmp, SaveFails, Funlock, Unlock, Crash
  <1> QED
    BY <1>1, <1>2, <1>3

LEMMA StepNoResultYet ==
    ASSUME StoreInv, Next
    PROVE  NoResultYet'
  <1> USE DEF StoreInv, TypeOK, NoResultYet, Goto, Fail
  <1>1. ASSUME NEW r \in Requests, Step(r)
        PROVE  NoResultYet'
    BY <1>1 DEF Step, Lock, Flock, FlockFails, loadOrInit, loadOrInitFails,
                ApplyFails, Funlock, Unlock
  <1>2. ASSUME NEW w \in Writers, WriterStep(w)
        PROVE  NoResultYet'
    BY <1>2 DEF WriterStep, ApplyUpdate, CreateTmp, WriteTmp, RenameTmp, SaveFails,
                Requests
  <1>3. ASSUME NEW r \in Readers, ApplyLookup(r)
        PROVE  NoResultYet'
    BY <1>3 DEF ApplyLookup, Requests
  <1>4. CASE Crash
    BY <1>4 DEF Crash
  <1> QED
    BY <1>1, <1>2, <1>3, <1>4 DEF Next

LEMMA StoreNextInv == StoreInv /\ [Next]_vars => StoreInv'
  <1> SUFFICES ASSUME StoreInv, [Next]_vars PROVE StoreInv'
    OBVIOUS
  <1>1. CASE Next
    BY <1>1, StepTypeOK, StepCopyIsCurrent, StepNeverTorn, StepNoResultYet
    DEF StoreInv
  <1>2. CASE UNCHANGED vars
    BY <1>2 DEF vars, StoreInv, TypeOK, CopyIsCurrent, NeverTorn, NoResultYet, Content
  <1> QED
    BY <1>1, <1>2

\* The inductive invariant of withLock, withRLock and atomicSave.
THEOREM StoreInvariant == Spec => []StoreInv
  BY StoreInitInv, StoreNextInv, PTL DEF Spec

\* Type correctness of the protocol.
THEOREM StoreTypeCorrect == Spec => []TypeOK
  <1>1. StoreInv => TypeOK
    BY DEF StoreInv
  <1> QED
    BY StoreInvariant, <1>1, PTL

\* The copy that fn works on, and the temporary file that atomicSave renames,
\* are current in every interleaving of the requests of all store objects.
THEOREM CopyStaysCurrent == Spec => []CopyIsCurrent
  <1>1. StoreInv => CopyIsCurrent
    BY DEF StoreInv
  <1> QED
    BY StoreInvariant, <1>1, PTL

\* No crash or failed write of atomicSave leaves a torn state file.
THEOREM StateFileNeverTorn == Spec => []NeverTorn
  <1>1. StoreInv => NeverTorn
    BY DEF StoreInv
  <1> QED
    BY StoreInvariant, <1>1, PTL

-----------------------------------------------------------------------------
\* A fresh file, and requests that have not begun, are the initial state of the
\* atomic store.
LEMMA AbstractInit == Init => Abstract!Init
  BY StoreAssumption
  DEF Init, Abstract!Init, Abstract!Requests, Requests, Outcome, View, Content

\* The state of the atomic store as the three parts that a step changes.
Unseen == UNCHANGED <<Content(path), Outcome, View>>

\* A step of a request before it has a result, or while it unlocks, is not
\* seen by the callers.
LEMMA HiddenStep ==
    ASSUME StoreInv, NEW r \in Requests,
           \/ Lock(r) \/ Flock(r) \/ loadOrInit(r) \/ Funlock(r) \/ Unlock(r)
           \/ ApplyUpdate(r) \/ CreateTmp(r) \/ WriteTmp(r)
    PROVE  Unseen
  <1> USE DEF Goto
  <1>1. UNCHANGED path /\ UNCHANGED result
    BY DEF Lock, Flock, loadOrInit, Funlock, Unlock, ApplyUpdate, CreateTmp, WriteTmp
  <1>2. \A q \in Requests : pc[q] = "killed" <=> pc'[q] = "killed"
    BY DEF StoreInv, TypeOK, Lock, Flock, loadOrInit, Funlock, Unlock, ApplyUpdate,
           CreateTmp, WriteTmp
  <1>3. Outcome' = Outcome
    BY <1>1, <1>2 DEF Outcome
  <1>4. \A q \in Requests : st'[q] = st[q] \/ Outcome[q] # "ok"
    <2>1. CASE loadOrInit(r) \/ ApplyUpdate(r)
      <3>1. result[r] = "none" /\ Outcome[r] # "ok"
        BY <2>1 DEF StoreInv, NoResultYet, Outcome, loadOrInit, ApplyUpdate
      <3> QED
        BY <2>1, <3>1 DEF StoreInv, TypeOK, loadOrInit, ApplyUpdate
    <2>2. CASE UNCHANGED st
      BY <2>2
    <2> QED
      BY <2>1, <2>2 DEF Lock, Flock, Funlock, Unlock, CreateTmp, WriteTmp
  <1>5. View' = View
    BY <1>3, <1>4 DEF View
  <1> QED
    BY <1>1, <1>3, <1>5 DEF Unseen, Content

\* A failed step is the abort of one request.
LEMMA FailingStep ==
    ASSUME StoreInv, NEW r \in Requests,
           \/ FlockFails(r) \/ loadOrInitFails(r) \/ ApplyFails(r) \/ SaveFails(r)
    PROVE  Abstract!Abort({r})
  <1> USE DEF Goto, Fail
  <1>1. /\ UNCHANGED <<path, st>>
        /\ result' = [result EXCEPT ![r] = "err"]
        /\ result[r] = "none" /\ pc[r] # "killed"
    BY DEF FlockFails, loadOrInitFails, ApplyFails, SaveFails, StoreInv, NoResultYet
  <1>2. \A q \in Requests : q # r => pc'[q] = pc[q]
    BY DEF StoreInv, TypeOK, FlockFails, loadOrInitFails, ApplyFails, SaveFails
  <1>3. pc'[r] # "killed"
    BY DEF StoreInv, TypeOK, FlockFails, loadOrInitFails, ApplyFails, SaveFails
  <1>4. result \in [Requests -> {"none", "ok", "err"}]
    BY DEF StoreInv, TypeOK
  <1>5. Outcome[r] = "pending"
    BY <1>1 DEF Outcome
  <1>6. Outcome' = [q \in Requests |-> IF q \in {r} THEN "err" ELSE Outcome[q]]
    BY <1>1, <1>2, <1>3, <1>4 DEF Outcome
  <1>7. View' = View
    BY <1>1, <1>5, <1>6 DEF View
  <1> QED
    BY <1>1, <1>5, <1>6, <1>7
    DEF Abstract!Abort, Abstract!Requests, Requests, Content

\* The rename is the update of the atomic store, and fn of a reader the lookup.
LEMMA RenameIsUpdate ==
    ASSUME StoreInv, NEW w \in Writers, RenameTmp(w)
    PROVE  Abstract!Update(w)
  <1> USE DEF Goto
  <1>1. /\ UNCHANGED st
        /\ result' = [result EXCEPT ![w] = "ok"]
        /\ pc' = [pc EXCEPT ![w] = "funlock"]
        /\ result[w] = "none" /\ pc[w] = "rename" /\ w \in Requests
    BY DEF RenameTmp, StoreInv, NoResultYet, Requests
  <1>2. /\ pc \in [Requests -> Labels]
        /\ result \in [Requests -> {"none", "ok", "err"}]
    BY DEF StoreInv, TypeOK
  <1>3. Outcome[w] = "pending"
    BY <1>1 DEF Outcome
  <1>4. Outcome' = [Outcome EXCEPT ![w] = "ok"]
    BY <1>1, <1>2 DEF Outcome
  <1>5. View' = View
    BY <1>1, <1>4, StoreAssumption DEF View, Requests, Outcome
  <1>6. Content(path)' = Content(path) \cup {w}
    BY RenameContent, StoreAssumption DEF Content
  <1> QED
    BY <1>3, <1>4, <1>5, <1>6 DEF Abstract!Update

LEMMA ApplyIsLookup ==
    ASSUME StoreInv, NEW r \in Readers, ApplyLookup(r)
    PROVE  Abstract!Lookup(r)
  <1> USE DEF Goto
  <1>1. /\ UNCHANGED <<path, st>>
        /\ result' = [result EXCEPT ![r] = "ok"]
        /\ pc' = [pc EXCEPT ![r] = "funlock"]
        /\ result[r] = "none" /\ pc[r] = "fn" /\ r \in Requests
        /\ st[r] = Content(path)
    BY DEF ApplyLookup, StoreInv, NoResultYet, CopyIsCurrent, Requests
  <1>2. /\ pc \in [Requests -> Labels]
        /\ result \in [Requests -> {"none", "ok", "err"}]
    BY DEF StoreInv, TypeOK
  <1>3. Outcome[r] = "pending"
    BY <1>1 DEF Outcome
  <1>4. Outcome' = [Outcome EXCEPT ![r] = "ok"]
    BY <1>1, <1>2 DEF Outcome
  <1>5. Outcome'[r] = "ok" /\ \A q \in Requests : q # r => Outcome'[q] = Outcome[q]
    BY <1>1, <1>4 DEF Outcome
  <1>6. View' = [View EXCEPT ![r] = Content(path)]
    BY <1>1, <1>5 DEF View
  <1> QED
    BY <1>1, <1>3, <1>4, <1>6 DEF Abstract!Lookup, Content

\* A crash aborts the requests that were under way without a result.
LEMMA CrashIsAbort ==
    ASSUME StoreInv, Crash
    PROVE  \E S \in SUBSET Requests : Abstract!Abort(S)
  <1> DEFINE S == {r \in Requests : pc[r] \notin {"start", "done", "killed"}
                                    /\ result[r] = "none"}
  <1>1. /\ UNCHANGED <<path, st, result>>
        /\ \A r \in Requests :
               pc'[r] = IF pc[r] \in {"start", "done"} THEN pc[r] ELSE "killed"
    BY DEF Crash
  <1>2. \A r \in S : Outcome[r] = "pending"
    BY DEF Outcome
  <1>3. \A r \in Requests : Outcome'[r] = IF r \in S THEN "err" ELSE Outcome[r]
    BY <1>1 DEF Outcome
  <1>4. Outcome' = [r \in Requests |-> IF r \in S THEN "err" ELSE Outcome[r]]
    BY <1>3 DEF Outcome
  <1>5. View' = View
    BY <1>1, <1>2, <1>3 DEF View
  <1>6. Abstract!Abort(S)
    BY <1>1, <1>2, <1>4, <1>5
    DEF Abstract!Abort, Abstract!Requests, Requests, Content
  <1> QED
    BY <1>6

LEMMA StepRefines == StoreInv /\ [Next]_vars => [Abstract!Next]_(Abstract!vars)
  <1> SUFFICES ASSUME StoreInv, [Next]_vars
               PROVE  Abstract!Next \/ Unseen
    BY DEF Unseen, Abstract!vars
  <1>1. ASSUME NEW r \in Requests, Step(r)
        PROVE  Abstract!Next \/ Unseen
    <2>1. CASE Lock(r) \/ Flock(r) \/ loadOrInit(r) \/ Funlock(r) \/ Unlock(r)
      BY <2>1, HiddenStep
    <2>2. CASE FlockFails(r) \/ loadOrInitFails(r) \/ ApplyFails(r)
      BY <2>2, FailingStep DEF Abstract!Next, Abstract!Requests, Requests
    <2> QED
      BY <1>1, <2>1, <2>2 DEF Step
  <1>2. ASSUME NEW w \in Writers, WriterStep(w)
        PROVE  Abstract!Next \/ Unseen
    <2>1. w \in Requests
      BY DEF Requests
    <2>2. CASE ApplyUpdate(w) \/ CreateTmp(w) \/ WriteTmp(w)
      BY <2>1, <2>2, HiddenStep
    <2>3. CASE RenameTmp(w)
      BY <2>3, RenameIsUpdate DEF Abstract!Next
    <2>4. CASE SaveFails(w)
      BY <2>1, <2>4, FailingStep DEF Abstract!Next, Abstract!Requests, Requests
    <2> QED
      BY <1>2, <2>2, <2>3, <2>4 DEF WriterStep
  <1>3. ASSUME NEW r \in Readers, ApplyLookup(r)
        PROVE  Abstract!Next \/ Unseen
    BY <1>3, ApplyIsLookup DEF Abstract!Next
  <1>4. CASE Crash
    BY <1>4, CrashIsAbort DEF Abstract!Next, Abstract!Requests, Requests
  <1>5. CASE UNCHANGED vars
    BY <1>5 DEF vars, Unseen, Content, Outcome, View
  <1> QED
    BY <1>1, <1>2, <1>3, <1>4, <1>5 DEF Next

\* The locked read-modify-write of a state file implements the atomic store:
\* no update is lost, none is half applied, and a failed one leaves no trace.
THEOREM StoreImplementsAtomic == Spec => StoreIsAtomic
  BY AbstractInit, StoreInvariant, StepRefines, PTL
  DEF Spec, StoreIsAtomic, Abstract!Spec
=============================================================================
