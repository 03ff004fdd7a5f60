----------------------- MODULE TransferDownloadProofs -----------------------
(* Theorems about TransferDownload for any set of files and any MaxParallel. *)
EXTENDS TransferDownload, TLAPS

USE FilesAssumption, ParallelAssumption, DerivedAssumption

\* Nothing runs and nothing has failed at first.
LEMMA InitInv == Init => TypeOK /\ CopyInv /\ BeganInv
BY DEF Init, TypeOK, CopyInv, BeganInv, OnDisk, Active, Over

\* Every step keeps the types.
LEMMA TypeStep == TypeOK /\ [Next]_vars => TypeOK'
<1> SUFFICES ASSUME TypeOK, [Next]_vars  PROVE TypeOK'
  OBVIOUS
<1> USE DEF TypeOK, Active, Over, Errors
<1>1. ASSUME NEW f \in Files, Launch(f) \/ LookupUrl(f) \/ LookupFails(f) \/ GetBody(f)
                             \/ CreateTarget(f)
      PROVE  TypeOK'
  BY <1>1 DEF Launch, LookupUrl, LookupFails, GetBody, CreateTarget, FailWith, UrlError
<1>2. ASSUME NEW f \in Files, FileGone(f) \/ RequestFails(f) \/ CreateFails(f)
                             \/ CopyFails(f) \/ ShortCopyFound(f)
      PROVE  TypeOK'
  BY <1>2 DEF FileGone, RequestFails, CreateFails, CopyFails, ShortCopyFound, FailWith
<1>3. ASSUME NEW f \in Files, CopyWhole(f) \/ ShortCopyPasses(f) \/ Classify(f)
      PROVE  TypeOK'
  BY <1>3 DEF CopyWhole, ShortCopyPasses, Classify
<1>4. ASSUME NEW f \in Files, Collect(f)  PROVE TypeOK'
  BY <1>4 DEF Collect
<1>5. ASSUME NEW f \in Files, DeleteRemote(f)  PROVE TypeOK'
  BY <1>5 DEF DeleteRemote
<1>6. CASE Return
  BY <1>6 DEF Return
<1>7. CASE UNCHANGED vars
  BY <1>7 DEF vars
<1> QED  BY <1>1, <1>2, <1>3, <1>4, <1>5, <1>6, <1>7 DEF Next, File

\* While the call runs, a goroutine that is not over is somewhere in DownloadFile.
LEMMA NotAllOver ==
  ASSUME CopyInv, NEW f \in Files, pc[f] \notin Over
  PROVE  outcome = "running"
BY DEF CopyInv, AllOver

\* Every step keeps the inductive invariant: only a goroutine's own copy makes
\* its file whole, and only a missing file, which the errgroup will see, undoes it.
LEMMA CopyStep == TypeOK /\ CopyInv /\ [Next]_vars => CopyInv'
<1> SUFFICES ASSUME TypeOK, CopyInv, [Next]_vars  PROVE CopyInv'
  OBVIOUS
<1> USE DEF Wiped
<1>1. ASSUME NEW f \in Files, Launch(f)  PROVE CopyInv'
  BY <1>1, NotAllOver DEF Launch, CopyInv, TypeOK, Over
<1>2. ASSUME NEW f \in Files, LookupUrl(f) \/ GetBody(f)  PROVE CopyInv'
  BY <1>2, NotAllOver DEF LookupUrl, GetBody, CopyInv, TypeOK, Over
<1>3. ASSUME NEW f \in Files, NEW e \in Errors,
             pc[f] \in {"url", "request", "create", "copy"}, FailWith(f, e),
             UNCHANGED <<groupErr, outcome>>,
             \A g \in Files : g # f => disk'[g] = disk[g]
      PROVE  CopyInv'
  <2>1. err[f] = "none" /\ outcome = "running"
    BY <1>3, NotAllOver DEF CopyInv, Over
  <2>2. \A g \in Files : g # f => pc'[g] = pc[g] /\ err'[g] = err[g]
    BY <1>3 DEF FailWith, TypeOK
  <2>3. pc'[f] = "classify" /\ err'[f] = e
    BY <1>3 DEF FailWith, TypeOK
  <2>4. Wiped => Wiped'
    BY <2>1, <2>2
  <2>5. e # "none" /\ UNCHANGED <<groupErr, outcome>>
    BY <1>3 DEF Errors
  <2> HIDE DEF Wiped
  <2> QED  BY <1>3, <2>1, <2>2, <2>3, <2>4, <2>5 DEF CopyInv
<1>4. ASSUME NEW f \in Files, LookupFails(f) \/ FileGone(f) \/ RequestFails(f) \/ CreateFails(f)
                                \/ CopyFails(f) \/ ShortCopyFound(f)
      PROVE  CopyInv'
  <2>1. \E e \in Errors : FailWith(f, e)
    BY <1>4 DEF LookupFails, FileGone, RequestFails, CreateFails, CopyFails,
           ShortCopyFound, UrlError, Errors
  <2>2. /\ pc[f] \in {"url", "request", "create", "copy"}
        /\ UNCHANGED <<groupErr, outcome>>
        /\ \A g \in Files : g # f => disk'[g] = disk[g]
    BY <1>4 DEF LookupFails, FileGone, RequestFails, CreateFails, CopyFails,
           ShortCopyFound, TypeOK
  <2> QED  BY <1>3, <2>1, <2>2
<1>5. ASSUME NEW f \in Files, CreateTarget(f)  PROVE CopyInv'
  BY <1>5, NotAllOver DEF CreateTarget, CopyInv, TypeOK, Over
<1>6. ASSUME NEW f \in Files, CopyWhole(f) \/ ShortCopyPasses(f)  PROVE CopyInv'
  <2>1. /\ pc[f] = "copy" /\ pc' = [pc EXCEPT ![f] = "returned"]
        /\ UNCHANGED <<err, groupErr, outcome>>
        /\ \A g \in Files : g # f => disk'[g] = disk[g]
        /\ f \in Sized /\ disk[f] = "partial" => disk'[f] = "full"
    BY <1>6 DEF CopyWhole, ShortCopyPasses, SizeChecked, TypeOK
  <2>2. outcome = "running"
    BY <2>1, NotAllOver DEF Over
  <2> QED  BY <2>1, <2>2 DEF CopyInv, TypeOK
<1>7. ASSUME NEW f \in Files, Classify(f)  PROVE CopyInv'
  <2>1. /\ pc[f] = "classify" /\ pc'[f] = "returned" /\ err[f] # "none"
        /\ \A g \in Files : g # f => pc'[g] = pc[g]
        /\ UNCHANGED <<err, groupErr, outcome>>
        /\ disk' = disk \/ Wiped
    BY <1>7 DEF Classify, CopyInv, TypeOK
  <2>2. outcome = "running"
    BY <2>1, NotAllOver DEF Over
  <2> QED  BY <2>1, <2>2 DEF CopyInv
<1>8. ASSUME NEW f \in Files, Collect(f)  PROVE CopyInv'
  <2>1. outcome = "running"
    BY <1>8, NotAllOver DEF Collect, Over
  <2>2. /\ pc[f] = "returned" /\ UNCHANGED <<err, disk, outcome>>
        /\ \A g \in Files : g # f => pc'[g] = pc[g]
        /\ pc'[f] = IF err[f] = "none" THEN "done" ELSE "failed"
        /\ groupErr # "none" \/ err[f] # "none" => groupErr' # "none"
    BY <1>8 DEF Collect, TypeOK
  <2> QED  BY <2>1, <2>2 DEF CopyInv
<1>9. ASSUME NEW f \in Files, DeleteRemote(f)  PROVE CopyInv'
  BY <1>9 DEF DeleteRemote, CopyInv, AllOver
<1>10. CASE Return
  BY <1>10 DEF Return, CopyInv, AllOver
<1>11. CASE UNCHANGED vars
  BY <1>11 DEF vars, CopyInv, AllOver
<1> QED
  BY <1>1, <1>2, <1>4, <1>5, <1>6, <1>7, <1>8, <1>9, <1>10, <1>11 DEF Next, File

\* Every step keeps what ties the files on disk to what the call has opened.
LEMMA BeganStep == TypeOK /\ CopyInv /\ BeganInv /\ [Next]_vars => BeganInv'
<1> SUFFICES ASSUME TypeOK, CopyInv, BeganInv, [Next]_vars  PROVE BeganInv'
  OBVIOUS
<1>1. ASSUME Wiped  PROVE Wiped'
  <2>1. PICK f \in Files : err[f] = "missing"
    BY <1>1 DEF Wiped
  <2>2. pc[f] \notin {"waiting", "url", "request", "create", "copy", "done"}
    BY <2>1 DEF CopyInv
  <2>3. err'[f] = err[f]
    <3>1. ASSUME NEW g \in Files, NEW e, pc[g] \in {"url", "request", "create", "copy"}, FailWith(g, e)
          PROVE  err'[f] = err[f]
      BY <2>2, <3>1 DEF FailWith, TypeOK
    <3>2. \/ UNCHANGED err
          \/ \E g \in Files, e \in Errors : pc[g] \in {"url", "request", "create", "copy"} /\ FailWith(g, e)
      BY DEF Next, vars, File, Launch, LookupUrl, LookupFails, GetBody, FileGone, RequestFails,
             CreateTarget, CreateFails, CopyWhole, CopyFails, ShortCopyFound, ShortCopyPasses,
             Classify, Collect, DeleteRemote,
             Return, UrlError, Errors
    <3> QED  BY <3>1, <3>2
  <2> QED  BY <2>1, <2>3 DEF Wiped
<1>2. ASSUME NEW f \in Files, Launch(f) \/ LookupUrl(f) \/ GetBody(f)  PROVE BeganInv'
  BY <1>1, <1>2 DEF Launch, LookupUrl, GetBody, BeganInv, TypeOK
<1>3. ASSUME NEW f \in Files, CreateTarget(f)  PROVE BeganInv'
  BY <1>1, <1>3 DEF CreateTarget, BeganInv, TypeOK
<1>4. ASSUME NEW f \in Files, LookupFails(f) \/ FileGone(f) \/ RequestFails(f) \/ CreateFails(f)
                                \/ CopyFails(f) \/ ShortCopyFound(f)
      PROVE  BeganInv'
  <2>1. /\ pc[f] \in {"url", "request", "create", "copy"}
        /\ \E e \in Errors : FailWith(f, e)
        /\ UNCHANGED began
        /\ disk' = disk \/ (pc[f] = "copy" /\ disk' = [disk EXCEPT ![f] = "none"])
    BY <1>4 DEF LookupFails, FileGone, RequestFails, CreateFails, CopyFails,
           ShortCopyFound, UrlError, Errors, TypeOK
  <2>2. /\ pc'[f] = "classify"
        /\ \A g \in Files : g # f => pc'[g] = pc[g] /\ err'[g] = err[g] /\ disk'[g] = disk[g]
        /\ disk'[f] = disk[f] \/ began = "copying"
    BY <2>1 DEF FailWith, BeganInv, TypeOK
  <2> QED  BY <1>1, <2>1, <2>2 DEF BeganInv
<1>5. ASSUME NEW f \in Files, CopyWhole(f) \/ ShortCopyPasses(f)  PROVE BeganInv'
  <2>1. /\ pc[f] = "copy" /\ began = "copying" /\ UNCHANGED <<err, began>>
        /\ \A g \in Files : /\ g # f => pc'[g] = pc[g]
                            /\ disk[g] # "none" => disk'[g] # "none"
    BY <1>5 DEF CopyWhole, ShortCopyPasses, BeganInv, TypeOK
  <2> QED  BY <1>1, <2>1 DEF BeganInv
<1>6. ASSUME NEW f \in Files, Classify(f)  PROVE BeganInv'
  <2>1. /\ pc'[f] = "returned" /\ err[f] # "none" /\ UNCHANGED <<err, began>>
        /\ \A g \in Files : g # f => pc'[g] = pc[g]
        /\ \A g \in Files : disk[g] = "none" => disk'[g] = "none"
        /\ disk' = disk \/ Wiped
    BY <1>6 DEF Classify, CopyInv, Wiped, TypeOK
  <2>2. CASE Wiped
    BY <1>1, <2>1, <2>2 DEF BeganInv
  <2>3. CASE disk' = disk
    BY <1>1, <2>1, <2>3 DEF BeganInv
  <2> QED  BY <2>1, <2>2, <2>3
<1>7. ASSUME NEW f \in Files, Collect(f)  PROVE BeganInv'
  BY <1>1, <1>7 DEF Collect, BeganInv, TypeOK
<1>8. ASSUME UNCHANGED <<pc, err, disk, began>>  PROVE BeganInv'
  BY <1>8 DEF BeganInv, Wiped
<1> QED
  BY <1>2, <1>3, <1>4, <1>5, <1>6, <1>7, <1>8 DEF Next, vars, File, DeleteRemote, Return

\* What the theorems below follow from.
LEMMA Invariant == Spec => [](TypeOK /\ CopyInv /\ BeganInv)
BY InitInv, TypeStep, CopyStep, BeganStep, PTL DEF Spec

\* TypeOK: the goroutines, the errgroup and the disk keep their types.
THEOREM DownloadTypes == Spec => []TypeOK
BY Invariant, PTL

\* FinishedIsWhole: a nil error of DownloadTransfer means that every file whose
\* size is known is whole on disk.
THEOREM FinishedMeansWhole == Spec => []FinishedIsWhole
<1>1. TypeOK /\ CopyInv => FinishedIsWhole
  BY DEF TypeOK, CopyInv, FinishedIsWhole, AllOver, Over, Wiped
<1> QED  BY <1>1, Invariant, PTL

\* QuietAfterReturn: once DownloadTransfer has returned, no goroutine of it
\* touches the disk.
THEOREM ReturnIsQuiet == Spec => QuietAfterReturn
<1>1. ASSUME CopyInv, Next, outcome # "running"  PROVE disk' = disk
  <2>1. \A f \in Files : pc[f] \in Over
    BY <1>1 DEF CopyInv, AllOver
  <2> QED
    BY <1>1, <2>1
    DEF Next, File, Over, Launch, LookupUrl, LookupFails, GetBody, FileGone, RequestFails,
        CreateTarget, CreateFails, CopyWhole, CopyFails, ShortCopyFound, ShortCopyPasses,
        Classify, Collect, Return,
        DeleteRemote
<1>2. CopyInv /\ [Next]_vars => [outcome # "running" => disk' = disk]_vars
  BY <1>1
<1> QED  BY <1>2, Invariant, PTL DEF Spec, QuietAfterReturn

-----------------------------------------------------------------------------
(* The call and its contract.                                              *)

\* What is on disk after a nil error is what the contract calls full.
LEMMA FinishedIsFull ==
  ASSUME TypeOK, CopyInv, BeganInv, AllOver, groupErr = "none"
  PROVE  OnDisk = "full" /\ began = "copying"
<1>1. \A f \in Files : pc[f] = "done" /\ err[f] = "none"
  BY DEF CopyInv, AllOver, Over
<1>2. ~Wiped
  BY <1>1 DEF Wiped
<1>3. \A f \in Files : disk[f] # "none" /\ began = "copying"
  BY <1>1, <1>2 DEF BeganInv
<1>4. \A f \in Sized : disk[f] = "full"
  BY <1>1, <1>2 DEF CopyInv
<1> QED  BY <1>3, <1>4 DEF OnDisk

\* The return is the contract's Finish or Fail.
LEMMA ReturnStep ==
  ASSUME TypeOK, CopyInv, BeganInv, Return
  PROVE  Contract!ContractNext
<1>1. /\ outcome = "running" /\ outcome' \in {"finished", "missing", "error"}
      /\ AllOver /\ OnDisk' = OnDisk /\ began' = began
      /\ outcome' = "finished" => groupErr = "none"
  BY DEF Return, OnDisk, TypeOK, Errors
<1>2. callPhase' = outcome' /\ callContent' = OnDisk /\ OnDisk \in Contract!Contents
  BY <1>1 DEF callPhase, callContent, OnDisk, Contract!Contents
<1>3. callPhase = IF began = "copying" THEN "copying" ELSE "grabbing"
  BY <1>1 DEF callPhase
<1>4. callContent = IF began = "copying" THEN "partial" ELSE began
  BY <1>1 DEF callContent
<1>5. CASE outcome' = "finished"
  <2>1. OnDisk = "full" /\ began = "copying"
    BY <1>1, <1>5, FinishedIsFull
  <2> QED  BY <1>2, <1>3, <1>4, <1>5, <2>1 DEF Contract!ContractNext, Contract!Finish
<1>6. CASE outcome' # "finished"
  <2>1. callContent = "none" => OnDisk = "none"
    BY <1>4 DEF BeganInv, OnDisk
  <2>2. Contract!Fail(outcome')
    BY <1>2, <1>3, <2>1 DEF Contract!Fail
  <2> QED  BY <1>1, <1>6, <2>2 DEF Contract!ContractNext
<1> QED  BY <1>5, <1>6

\* Every step is a step of the contract, or changes nothing the caller sees.
LEMMA ContractStep ==
  ASSUME TypeOK, CopyInv, BeganInv, [Next]_vars
  PROVE  [Contract!ContractNext]_(Contract!contractVars)
<1> USE DEF Contract!contractVars
<1>1. CASE outcome # "running"
  <2>1. UNCHANGED <<outcome, disk>>
    <3>1. \A f \in Files : pc[f] \in Over
      BY <1>1 DEF CopyInv, AllOver
    <3> QED
      BY <1>1, <3>1
      DEF Next, vars, File, Over, Launch, LookupUrl, LookupFails, GetBody, FileGone, RequestFails,
          CreateTarget, CreateFails, CopyWhole, CopyFails, ShortCopyFound, ShortCopyPasses,
          Classify, Collect, Return,
          DeleteRemote
  <2> QED  BY <1>1, <2>1 DEF callPhase, callContent, OnDisk
<1>2. CASE outcome = "running" /\ Return
  BY <1>2, ReturnStep
<1>3. CASE outcome = "running" /\ \E f \in Files : CreateTarget(f)
  <2>1. outcome' = "running" /\ began' = "copying" /\ began \in Contract!Contents \cup {"copying"}
    BY <1>3 DEF CreateTarget, TypeOK, Contract!Contents
  <2>2. CASE began = "copying"
    BY <1>3, <2>1, <2>2 DEF callPhase, callContent
  <2>3. CASE began # "copying"
    BY <1>3, <2>1, <2>3 DEF callPhase, callContent, Contract!ContractNext, Contract!Open
  <2> QED  BY <2>2, <2>3
<1>4. CASE outcome = "running" /\ ~Return /\ ~\E f \in Files : CreateTarget(f)
  <2>1. UNCHANGED <<outcome, began>>
    BY <1>4
    DEF Next, vars, File, Launch, LookupUrl, LookupFails, GetBody, FileGone, RequestFails,
        CreateFails, CopyWhole, CopyFails, ShortCopyFound, ShortCopyPasses, Classify, Collect,
        DeleteRemote
  <2> QED  BY <1>4, <2>1 DEF callPhase, callContent
<1> QED  BY <1>1, <1>2, <1>3, <1>4

\* ContractSpec: the goroutines of a call, the errgroup and the removals together
\* show the caller an opening, a copy and one result, and content that is whole
\* behind a nil error and that no failure makes out of nothing.
THEOREM ImplementsContract == Spec => ContractSpec
<1>1. Init => Contract!ContractInit
  BY DEF Init, callPhase, callContent, OnDisk, Contract!ContractInit, Contract!Contents
<1>2. TypeOK /\ CopyInv /\ BeganInv /\ [Next]_vars
        => [Contract!ContractNext]_(Contract!contractVars)
  BY ContractStep
<1> QED  BY <1>1, <1>2, Invariant, PTL DEF Spec, ContractSpec, Contract!ContractSpec
=============================================================================
