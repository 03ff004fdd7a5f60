-------------------------- MODULE TransferDownload --------------------------
(***************************************************************************)
(* One call of Downloader.DownloadTransfer: a loop that launches one       *)
(* goroutine per file under a semaphore, an errgroup whose first error     *)
(* cancels the context the others work under, and the files they write     *)
(* beneath one local root.  The steps are those between which another      *)
(* goroutine of the same call can get in: the URL lookup, the request,     *)
(* os.Create, the copy, the removal of output, the return that frees the   *)
(* slot, and the errgroup's note of the error after that.                  *)
(***************************************************************************)
EXTENDS Naturals, FiniteSets

CONSTANTS Files,
          Sized,        \* files whose size the seedbox reported (file.Size > 0)
          MaxParallel,  \* capacity of the semaphore; with 0 the loop never gets past a file
          Derived,      \* LocalName could derive the local root of the transfer
          Faults        \* what may go wrong: "deleted", "url", "network", "local", "short"

ASSUME FilesAssumption    == IsFiniteSet(Files) /\ Files # {} /\ Sized \subseteq Files
ASSUME ParallelAssumption == MaxParallel \in Nat
ASSUME DerivedAssumption  == Derived \in BOOLEAN

VARIABLES
  pc,       \* pc[f]: where the goroutine of f is
  err,      \* err[f]: the error DownloadFile returned for f
  ctxDone,  \* the errgroup's context is cancelled
  groupErr, \* the errgroup's first error
  remote,   \* remote[f]: f still exists on the seedbox
  disk,     \* disk[f]: what the target path of f holds
  outcome,  \* what DownloadTransfer returned
  began     \* history: what was on disk when the call began; "copying" once it opened a file

vars == <<pc, err, ctxDone, groupErr, remote, disk, outcome, began>>

Errors == {"missing", "size", "plain"}
\* A goroutine that occupies a slot of the semaphore, and one that is over.
Active == {"url", "request", "create", "copy", "classify"}
Over   == {"done", "failed"}

TypeOK ==
  /\ pc \in [Files -> {"waiting", "returned"} \cup Active \cup Over]
  /\ err \in [Files -> {"none"} \cup Errors]
  /\ ctxDone \in BOOLEAN
  /\ groupErr \in {"none"} \cup Errors
  /\ remote \in [Files -> BOOLEAN]
  /\ disk \in [Files -> {"none", "partial", "full"}]
  /\ outcome \in {"running", "finished", "missing", "error"}
  /\ began \in {"none", "partial", "full", "copying"}

\* What the files on disk amount to: all there is to expect, if every file of a
\* known size is whole.
OnDisk ==
  CASE \A f \in Files : disk[f] = "none" -> "none"
    [] (\A f \in Sized : disk[f] = "full") /\ (\E f \in Files : disk[f] # "none") -> "full"
    [] OTHER -> "partial"

\* An earlier, failed attempt may have left anything on disk.
Init ==
  /\ pc = [f \in Files |-> "waiting"]
  /\ err = [f \in Files |-> "none"]
  /\ ctxDone = FALSE
  /\ groupErr = "none"
  /\ remote = [f \in Files |-> TRUE]
  /\ disk \in [Files -> {"none", "partial", "full"}]
  /\ outcome = "running"
  /\ began = OnDisk

Slots == {f \in Files : pc[f] \in Active}

\* Mutant of SlotFree: a goroutine that failed keeps its slot.
SlotFreeUnlessFailed ==
  Cardinality(Slots \cup {f \in Files : pc[f] = "failed"}) < MaxParallel

SlotFree == Cardinality(Slots) < MaxParallel

\* DownloadFile returns e for f; classifyFileError is next.
FailWith(f, e) ==
  /\ pc' = [pc EXCEPT ![f] = "classify"]
  /\ err' = [err EXCEPT ![f] = e]

\* The loop takes a slot and starts the goroutine, whether or not the context
\* is cancelled meanwhile.  (The order of the list is left open.)
Launch(f) ==
  /\ pc[f] = "waiting"
  /\ SlotFree
  /\ pc' = [pc EXCEPT ![f] = "url"]
  /\ UNCHANGED <<err, ctxDone, groupErr, remote, disk, outcome, began>>

\* GrabFile: the lookup of the download URL succeeds.
LookupUrl(f) ==
  /\ pc[f] = "url"
  /\ ~ctxDone
  /\ remote[f]
  /\ pc' = [pc EXCEPT ![f] = "request"]
  /\ UNCHANGED <<err, ctxDone, groupErr, remote, disk, outcome, began>>

\* Mutant of UrlError: an error the caller does not know.
UrlErrorUnknown == "unknown"

\* The error of a failed lookup: whatever its cause, the file counts as gone.
UrlError == "missing"

\* GrabFile: the lookup fails, be the file gone, the context cancelled or the
\* API unreachable.
LookupFails(f) ==
  /\ pc[f] = "url"
  /\ ~remote[f] \/ ctxDone \/ "url" \in Faults
  /\ FailWith(f, UrlError)
  /\ UNCHANGED <<ctxDone, groupErr, remote, disk, outcome, began>>

\* GrabFile's request gets a body.
GetBody(f) ==
  /\ pc[f] = "request"
  /\ ~ctxDone
  /\ remote[f]
  /\ pc' = [pc EXCEPT ![f] = "create"]
  /\ UNCHANGED <<err, ctxDone, groupErr, remote, disk, outcome, began>>

\* GrabFile's request is answered with 404 or 410.
FileGone(f) ==
  /\ pc[f] = "request"
  /\ ~remote[f]
  /\ FailWith(f, "missing")
  /\ UNCHANGED <<ctxDone, groupErr, remote, disk, outcome, began>>

\* It fails otherwise.
RequestFails(f) ==
  /\ pc[f] = "request"
  /\ ctxDone \/ "network" \in Faults
  /\ FailWith(f, "plain")
  /\ UNCHANGED <<ctxDone, groupErr, remote, disk, outcome, began>>

\* ensureTargetDir and os.Create, which truncates the target and which no
\* cancellation holds up.
CreateTarget(f) ==
  /\ pc[f] = "create"
  /\ pc' = [pc EXCEPT ![f] = "copy"]
  /\ disk' = [disk EXCEPT ![f] = "partial"]
  /\ began' = "copying"
  /\ UNCHANGED <<err, ctxDone, groupErr, remote, outcome>>

\* A removal of the local root is under way.
Removing == Derived /\ \E f \in Files : pc[f] = "classify" /\ err[f] = "missing"

\* One of the two fails, as when their directory is being removed.
CreateFails(f) ==
  /\ pc[f] = "create"
  /\ Removing \/ "local" \in Faults
  /\ FailWith(f, "plain")
  /\ UNCHANGED <<ctxDone, groupErr, remote, disk, outcome, began>>

\* The whole body was copied and the file closed.  A path that was removed
\* meanwhile stays removed: the bytes went to an unlinked file.
CopyWhole(f) ==
  /\ pc[f] = "copy"
  /\ pc' = [pc EXCEPT ![f] = "returned"]
  /\ disk' = [disk EXCEPT ![f] = IF @ = "partial" THEN "full" ELSE @]
  /\ UNCHANGED <<err, ctxDone, groupErr, remote, outcome, began>>

\* The copy or the close fails; what was written stays.
CopyFails(f) ==
  /\ pc[f] = "copy"
  /\ ctxDone \/ {"network", "local"} \cap Faults # {}
  /\ FailWith(f, "plain")
  /\ UNCHANGED <<ctxDone, groupErr, remote, disk, outcome, began>>

\* Mutant of SizeChecked: a clean copy is taken for a whole one.
SizeCheckedNever(f) == FALSE

SizeChecked(f) == f \in Sized

\* The body ended early without an error, and the size gives it away: the file
\* is removed, if it can be.
ShortCopyFound(f) ==
  /\ pc[f] = "copy"
  /\ "short" \in Faults
  /\ SizeChecked(f)
  /\ FailWith(f, "size")
  /\ \E d \in {"none", disk[f]} : disk' = [disk EXCEPT ![f] = d]
  /\ UNCHANGED <<ctxDone, groupErr, remote, outcome, began>>

\* The body ended early and no size was reported: it passes for the file.
ShortCopyPasses(f) ==
  /\ pc[f] = "copy"
  /\ "short" \in Faults
  /\ ~SizeChecked(f)
  /\ pc' = [pc EXCEPT ![f] = "returned"]
  /\ UNCHANGED <<err, ctxDone, groupErr, remote, disk, outcome, began>>

\* classifyFileError: a missing file takes the transfer's whole local output
\* with it, whatever the other goroutines are doing to it, but for what they
\* create behind it and what cannot be removed.
Classify(f) ==
  /\ pc[f] = "classify"
  /\ pc' = [pc EXCEPT ![f] = "returned"]
  /\ IF err[f] = "missing" /\ Derived
       THEN \E gone \in SUBSET Files :
              disk' = [g \in Files |-> IF g \in gone THEN "none" ELSE disk[g]]
       ELSE disk' = disk
  /\ UNCHANGED <<err, ctxDone, groupErr, remote, outcome, began>>

\* The errgroup sees the goroutine's result, after its slot is free: the first
\* error is kept and cancels the context.
Collect(f) ==
  /\ pc[f] = "returned"
  /\ pc' = [pc EXCEPT ![f] = IF err[f] = "none" THEN "done" ELSE "failed"]
  /\ groupErr' = IF groupErr = "none" THEN err[f] ELSE groupErr
  /\ ctxDone' = (ctxDone \/ err[f] # "none")
  /\ UNCHANGED <<err, remote, disk, outcome, began>>

\* Mutant of AllOver: the first error ends the wait.
AllOverOrFailed == groupErr # "none" \/ \A f \in Files : pc[f] \in Over

\* The loop has launched every file and wg.Wait returns.
AllOver == \A f \in Files : pc[f] \in Over

Return ==
  /\ outcome = "running"
  /\ AllOver
  /\ outcome' = CASE groupErr = "none"    -> "finished"
                  [] groupErr = "missing" -> "missing"
                  [] OTHER                -> "error"
  /\ UNCHANGED <<pc, err, ctxDone, groupErr, remote, disk, began>>

\* The transfer's data is deleted on the seedbox, file by file.
DeleteRemote(f) ==
  /\ "deleted" \in Faults
  /\ outcome = "running"
  /\ remote[f]
  /\ remote' = [remote EXCEPT ![f] = FALSE]
  /\ UNCHANGED <<pc, err, ctxDone, groupErr, disk, outcome, began>>

File(f) ==
  \/ Launch(f)
  \/ LookupUrl(f) \/ LookupFails(f)
  \/ GetBody(f) \/ FileGone(f) \/ RequestFails(f)
  \/ CreateTarget(f) \/ CreateFails(f)
  \/ CopyWhole(f) \/ CopyFails(f) \/ ShortCopyFound(f) \/ ShortCopyPasses(f)
  \/ Classify(f)
  \/ Collect(f)

Next ==
  \/ \E f \in Files : File(f) \/ DeleteRemote(f)
  \/ Return

Spec == Init /\ [][Next]_vars

\* The loop and every goroutine go on; a body that is being copied ends at last.
FairSpec == Spec /\ (\A f \in Files : WF_vars(File(f))) /\ WF_vars(Return)

-----------------------------------------------------------------------------
\* "Every one of a Transfer's files was written with a byte count matching
\* the size the seedbox reported for it": neither a short body, nor a
\* leftover of an earlier attempt, nor a removal by another goroutine gets
\* past a nil error.
FinishedIsWhole ==
  outcome = "finished" => \A f \in Sized : disk[f] = "full"

\* DownloadTransfer has not returned while a goroutine of it may still
\* write or remove: its caller releases the claim next, and the retry works
\* on the same paths.
QuietAfterReturn ==
  [][outcome # "running" => disk' = disk]_vars

\* DownloadTransfer returns: no slot is lost on any path, and no goroutine
\* waits for another.
Returns == <>(outcome # "running")

\* The call as its caller sees it: by what it opened and returned, and by what
\* that says about the content.
callPhase ==
  IF outcome # "running" THEN outcome
  ELSE IF began = "copying" THEN "copying" ELSE "grabbing"
callContent ==
  IF outcome # "running" THEN OnDisk
  ELSE IF began = "copying" THEN "partial" ELSE began

\* However the goroutines of the call fail, cancel and remove, its caller sees no
\* more than what DownloadContract allows, which is what Pipeline counts on.
Contract == INSTANCE DownloadContract WITH
  phase <- callPhase,
  content <- callContent
ContractSpec == Contract!ContractSpec

\* What makes FinishedIsWhole and QuietAfterReturn hold: a file copied without
\* an error is whole on disk unless a missing file took it away, and then the
\* group has an error; the call returns only over finished goroutines.
Wiped == \E f \in Files : err[f] = "missing"
CopyInv ==
  /\ \A f \in Files :
       /\ pc[f] = "copy" => disk[f] = "partial" \/ Wiped
       /\ f \in Sized /\ pc[f] \in {"returned", "done"} /\ err[f] = "none"
            => disk[f] = "full" \/ Wiped
       /\ pc[f] \in {"waiting", "url", "request", "create", "copy", "done"} => err[f] = "none"
       /\ pc[f] \in {"classify", "failed"} => err[f] # "none"
       /\ pc[f] = "failed" => groupErr # "none"
  /\ outcome # "running" => AllOver
  /\ outcome = "finished" => groupErr = "none"

\* And what makes ContractSpec hold: a file that copies, or has copied, without an
\* error opened its target and left something there, and before the first one did
\* the call only removed.
BeganInv ==
  /\ \A f \in Files :
       pc[f] = "copy" \/ (pc[f] \in {"returned", "done"} /\ err[f] = "none")
         => began = "copying" /\ (disk[f] # "none" \/ Wiped)
  /\ began = "none" => \A f \in Files : disk[f] = "none"

\* ErrTransferFilesNotFound "indicates the transfer's files were deleted".
MissingIsDeleted ==
  outcome = "missing" => \E f \in Files : ~remote[f]
=============================================================================
