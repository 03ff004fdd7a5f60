--------------------------- MODULE PipelineProofs ---------------------------
(***************************************************************************)
(* Theorems about Pipeline for any number of instances and transfers, any  *)
(* fault budget and either seeding configuration.                          *)
(***************************************************************************)
EXTENDS Pipeline, TLAPS

USE NullAssumption, SeedAssumption, DiscordAssumption, FaultAssumption

-----------------------------------------------------------------------------
(* Types.                                                                  *)

\* The initial state has its types.
LEMMA InitType == Init => TypeOK
BY DEF Init, TypeOK, Statuses, RemoteStates, DiskStates, Results, Events

\* StatusOf writes the status that its event is about.
LEMMA StatusOfType ==
  ASSUME NEW e \in Results
  PROVE  /\ StatusOf(e) \in {"failed", "downloaded", "missing"}
         /\ StatusOf(e) = "downloaded" <=> e = "finished"
BY DEF StatusOf, Results

\* The orchestrator's steps (watchTransfers, poll, claim, send) keep the types.
LEMMA OrchestrateType ==
  ASSUME TypeOK, NEW i \in Instances, Orchestrate(i)
  PROVE  TypeOK'
<1> USE DEF TypeOK, Statuses, tableVars, worldVars, dlVars, notifVars
<1>1. CASE Poll(i)
  BY <1>1 DEF Poll, Resume, Ready
<1>2. ASSUME NEW t \in Transfers, SkipDownloaded(i, t)  PROVE TypeOK'
  BY <1>2 DEF SkipDownloaded, Resume
<1>3. ASSUME NEW t \in Transfers, SelectRow(i, t)  PROVE TypeOK'
  BY <1>3 DEF SelectRow
<1>4. CASE ClaimRow(i)
  BY <1>4 DEF ClaimRow
<1>5. CASE ClaimLost(i)
  BY <1>5 DEF ClaimLost, Resume
<1>6. CASE ClaimFails(i)
  BY <1>6 DEF ClaimFails, Resume, Fault
<1>7. CASE QueueTransfer(i)
  BY <1>7 DEF QueueTransfer, Resume
<1> QED  BY <1>1, <1>2, <1>3, <1>4, <1>5, <1>6, <1>7 DEF Orchestrate

\* The downloader's steps keep the types.
LEMMA DownloadType ==
  ASSUME TypeOK, NEW i \in Instances, Download(i) \/ DeliverResult(i)
  PROVE  TypeOK'
<1> USE DEF TypeOK, DiskStates, Results, Events, tableVars, worldVars, orchVars, dlVars, notifVars
<1>1. CASE GrabFiles(i)
  BY <1>1 DEF GrabFiles
<1>2. CASE DownloadSucceeds(i)
  BY <1>2 DEF DownloadSucceeds
<1>3. CASE DownloadFails(i)
  BY <1>3 DEF DownloadFails, LeftOf
<1>4. CASE FilesNotFound(i)
  BY <1>4 DEF FilesNotFound, LeftOf
<1>5. CASE DeliverResult(i)
  BY <1>5 DEF DeliverResult
<1> QED  BY <1>1, <1>2, <1>3, <1>4, <1>5 DEF Download

\* A cleanup changes nothing but what it deletes, in either outcome.
LEMMA CleanupType ==
  ASSUME TypeOK, NEW t \in Transfers,
         \/ Cleanup(t) /\ UNCHANGED faults
         \/ CleanupGivesUp
  PROVE  /\ remote' \in [Transfers -> RemoteStates]
         /\ faults' \in Nat
         /\ UNCHANGED <<ratio, disk, imported>>
BY DEF TypeOK, RemoteStates, Cleanup, CleanupGivesUp, Fault, worldVars

\* The notification loop's steps keep the types.
LEMMA NotifyType ==
  ASSUME TypeOK, NEW i \in Instances, Notify(i)
  PROVE  TypeOK'
<1> USE DEF TypeOK, Statuses, Results, Events, tableVars, worldVars, orchVars, dlVars, notifVars,
            NotifyIdle, NotifyDone
<1>1. CASE SettleRow(i)
  BY <1>1, StatusOfType DEF SettleRow, WatcherAfter
<1>2. CASE SettleFails(i)
  <2>1. notif' = [notif EXCEPT ![i] = "idle"] \/ notif' = [notif EXCEPT ![i] = "message"]
    BY <1>2 DEF SettleFails
  <2>2. /\ notifT' = [notifT EXCEPT ![i] = NoTransfer] /\ faults' \in Nat
        /\ UNCHANGED <<tableVars, worldVars, orchVars, dlVars, watch>>
    BY <1>2 DEF SettleFails, Fault
  <2> QED  BY <2>1, <2>2
<1>3. CASE StartSeedWatch(i)
  BY <1>3 DEF StartSeedWatch
<1>4. CASE CleanupImported(i)
  <2>1. notifT[i] \in Transfers
    BY <1>4 DEF CleanupImported
  <2> QED  BY <1>4, <2>1, CleanupType DEF CleanupImported
<1>5. CASE MessageSent(i)
  BY <1>5 DEF MessageSent
<1> QED  BY <1>1, <1>2, <1>3, <1>4, <1>5 DEF Notify

\* The steps of an import watcher keep the types.
LEMMA WatchType ==
  ASSUME TypeOK, NEW i \in Instances, NEW t \in Transfers,
         Watch(i, t) \/ AnnounceImported(i, t)
  PROVE  TypeOK'
<1> USE DEF TypeOK, DiskStates, Results, Events, tableVars, worldVars, orchVars, dlVars, notifVars
<1>1. CASE CheckImported(i, t)
  <2>1. disk' \in [Transfers -> DiskStates]
    BY <1>1 DEF CheckImported, LeftByRemoval
  <2>2. watch' \in [Instances -> [Transfers -> {"off", "import", "imported", "seed"}]]
    BY <1>1 DEF CheckImported
  <2>3. UNCHANGED <<remote, ratio, imported, tableVars, orchVars, dlVars, notifVars, faults>>
    BY <1>1 DEF CheckImported
  <2> QED  BY <2>1, <2>2, <2>3
<1>2. CASE CheckSeeding(i, t)
  BY <1>2, CleanupType DEF CheckSeeding
<1>3. CASE WatcherPanics(i, t)
  BY <1>3 DEF WatcherPanics, Fault
<1>4. CASE AnnounceImported(i, t)
  BY <1>4 DEF AnnounceImported
<1> QED  BY <1>1, <1>2, <1>3, <1>4 DEF Watch

\* A crash keeps the types.
LEMMA CrashType ==
  ASSUME TypeOK, NEW i \in Instances, Crash(i)
  PROVE  TypeOK'
BY DEF TypeOK, Crash, Fault, Resume, NotifyIdle, NotifyDone, tableVars, worldVars, Results, Events

\* What the seedbox and the *arr apps do keeps the types.
LEMMA WorldType ==
  ASSUME TypeOK, World
  PROVE  TypeOK'
<1> USE DEF TypeOK, RemoteStates, DiskStates, tableVars, orchVars, dlVars, notifVars
<1> PICK t \in Transfers :
      SeedboxCompletes(t) \/ RemoveRemotely(t) \/ ReachRatio(t) \/ ArrImports(t)
  BY DEF World
<1> UNCHANGED <<tableVars, orchVars, dlVars, notifVars, watch, faults>>
  BY DEF World
<1>1. CASE SeedboxCompletes(t) \/ RemoveRemotely(t)
  <2>1. /\ \E s \in RemoteStates : remote' = [remote EXCEPT ![t] = s]
        /\ UNCHANGED <<ratio, disk, imported>>
    BY <1>1 DEF SeedboxCompletes, RemoveRemotely
  <2> QED  BY <2>1
<1>2. CASE ReachRatio(t)
  BY <1>2 DEF ReachRatio
<1>3. CASE ArrImports(t)
  <2>1. PICK d \in {disk[t], "none"} : disk' = [disk EXCEPT ![t] = d]
    BY <1>3 DEF ArrImports
  <2>2. d \in DiskStates
    OBVIOUS
  <2>3. /\ imported' = [imported EXCEPT ![t] = TRUE]
        /\ UNCHANGED <<remote, ratio>>
    BY <1>3 DEF ArrImports
  <2> QED  BY <2>1, <2>2, <2>3
<1> QED  BY <1>1, <1>2, <1>3

\* Every step keeps the types.
LEMMA TypeStep == TypeOK /\ [Next]_vars => TypeOK'
<1> SUFFICES ASSUME TypeOK, [Next]_vars  PROVE TypeOK'
  OBVIOUS
<1>1. CASE UNCHANGED vars
  BY <1>1 DEF TypeOK, vars, tableVars, worldVars, orchVars, dlVars, notifVars
<1>2. CASE Next
  BY <1>2, OrchestrateType, DownloadType, NotifyType, WatchType, CrashType, WorldType DEF Next
<1> QED  BY <1>1, <1>2

\* TypeOK: every variable keeps its type, and a goroutine that is busy has the
\* transfer it is busy with.
THEOREM TypeInvariance == Spec => []TypeOK
BY InitType, TypeStep, PTL DEF Spec

-----------------------------------------------------------------------------
(* The claim.  ExclusiveClaim is inductive relative to TypeOK: the upsert   *)
(* takes a row that is not "downloading", which by HeldIsClaimed nobody    *)
(* holds; a send hands the transfer from one goroutine to the next; and    *)
(* the status update releases the one row its goroutine holds.             *)

\* At the start no row is claimed and no goroutine holds one.
LEMMA InitClaim == Init => ExclusiveClaim
BY DEF Init, ExclusiveClaim, HeldIsClaimed, OneStage, LockMatchesStatus,
       Holds, AtOrch, AtDl, AtNotif, Results

\* A step that leaves the table and everyone's stage alone keeps the claims.
LEMMA ClaimFrame ==
  ASSUME ExclusiveClaim, UNCHANGED tableVars,
         \A i \in Instances, t \in Transfers :
           /\ AtOrch(i, t)' => AtOrch(i, t)
           /\ AtDl(i, t)' => AtDl(i, t)
           /\ AtNotif(i, t)' => AtNotif(i, t)
  PROVE  ExclusiveClaim'
BY DEF ExclusiveClaim, HeldIsClaimed, OneStage, LockMatchesStatus, Holds, tableVars

\* The orchestrator's steps keep claims exclusive: the upsert claims a free row.
LEMMA OrchestrateClaim ==
  ASSUME TypeOK, ExclusiveClaim, NEW i \in Instances, Orchestrate(i)
  PROVE  ExclusiveClaim'
<1> USE DEF AtOrch, AtDl, AtNotif, tableVars, orchVars, dlVars, notifVars
<1>1. CASE Poll(i)
  BY <1>1, ClaimFrame DEF Poll, Resume, TypeOK
<1>2. ASSUME NEW t \in Transfers, SkipDownloaded(i, t)  PROVE ExclusiveClaim'
  BY <1>2, ClaimFrame DEF SkipDownloaded, Resume, TypeOK
<1>3. ASSUME NEW t \in Transfers, SelectRow(i, t)  PROVE ExclusiveClaim'
  BY <1>3, ClaimFrame DEF SelectRow, TypeOK
<1>4. CASE ClaimRow(i)
  <2>1. claimT[i] \in Transfers /\ ~\E j \in Instances : Holds(j, claimT[i])
    BY <1>4 DEF ClaimRow, Claimable, ExclusiveClaim, HeldIsClaimed, TypeOK
  <2>2. HeldIsClaimed'
    BY <1>4, <2>1 DEF ClaimRow, ExclusiveClaim, HeldIsClaimed, Holds, TypeOK
  <2>3. OneStage'
    BY <1>4, <2>1 DEF ClaimRow, ExclusiveClaim, OneStage, Holds, TypeOK
  <2>4. LockMatchesStatus'
    BY <1>4, <2>1 DEF ClaimRow, ExclusiveClaim, LockMatchesStatus, TypeOK
  <2> QED  BY <2>2, <2>3, <2>4 DEF ExclusiveClaim
<1>5. CASE ClaimLost(i)
  BY <1>5, ClaimFrame DEF ClaimLost, Resume, TypeOK
<1>6. CASE ClaimFails(i)
  BY <1>6, ClaimFrame DEF ClaimFails, Resume, TypeOK
<1>7. CASE QueueTransfer(i)
  <2>1. AtOrch(i, claimT[i]) /\ claimT[i] \in Transfers
    BY <1>7 DEF QueueTransfer, TypeOK
  <2>2. HeldIsClaimed'
    BY <1>7, <2>1 DEF QueueTransfer, Resume, ExclusiveClaim, HeldIsClaimed, Holds, TypeOK
  <2>3. OneStage'
    BY <1>7, <2>1 DEF QueueTransfer, Resume, ExclusiveClaim, OneStage, TypeOK
  <2>4. LockMatchesStatus'
    BY <1>7 DEF QueueTransfer, ExclusiveClaim, LockMatchesStatus
  <2> QED  BY <2>2, <2>3, <2>4 DEF ExclusiveClaim
<1> QED  BY <1>1, <1>2, <1>3, <1>4, <1>5, <1>6, <1>7 DEF Orchestrate

\* The downloader's steps keep claims exclusive: a claim changes goroutine.
LEMMA DownloadClaim ==
  ASSUME TypeOK, ExclusiveClaim, NEW i \in Instances, Download(i) \/ DeliverResult(i)
  PROVE  ExclusiveClaim'
<1> USE DEF AtOrch, AtDl, AtNotif, tableVars, orchVars, dlVars, notifVars
<1>1. CASE GrabFiles(i)
  BY <1>1, ClaimFrame DEF GrabFiles, TypeOK
<1>2. CASE DownloadSucceeds(i)
  BY <1>2, ClaimFrame DEF DownloadSucceeds, TypeOK
<1>3. CASE DownloadFails(i)
  BY <1>3, ClaimFrame DEF DownloadFails, TypeOK
<1>4. CASE FilesNotFound(i)
  BY <1>4, ClaimFrame DEF FilesNotFound, TypeOK
<1>5. CASE DeliverResult(i)
  <2>1. AtDl(i, dlT[i]) /\ dlT[i] \in Transfers
    BY <1>5 DEF DeliverResult, Results, TypeOK
  <2>2. HeldIsClaimed'
    BY <1>5, <2>1 DEF DeliverResult, Results, ExclusiveClaim, HeldIsClaimed, Holds, TypeOK
  <2>3. OneStage'
    BY <1>5, <2>1 DEF DeliverResult, Results, ExclusiveClaim, OneStage, TypeOK
  <2>4. LockMatchesStatus'
    BY <1>5 DEF DeliverResult, ExclusiveClaim, LockMatchesStatus
  <2> QED  BY <2>2, <2>3, <2>4 DEF ExclusiveClaim
<1> QED  BY <1>1, <1>2, <1>3, <1>4, <1>5 DEF Download

\* The notification loop's steps keep claims exclusive: the update frees the claim.
LEMMA NotifyClaim ==
  ASSUME TypeOK, ExclusiveClaim, NEW i \in Instances, Notify(i)
  PROVE  ExclusiveClaim'
<1> USE DEF AtOrch, AtDl, AtNotif, tableVars, orchVars, dlVars, notifVars, NotifyIdle, NotifyDone
<1>1. CASE SettleRow(i)
  <2>1. AtNotif(i, notifT[i]) /\ notifT[i] \in Transfers
    BY <1>1 DEF SettleRow, Results, TypeOK
  <2>2. \A j \in Instances, u \in Transfers : Holds(j, u)' => u # notifT[i]
    BY <1>1, <2>1 DEF SettleRow, Results, ExclusiveClaim, HeldIsClaimed, OneStage, Holds, TypeOK
  <2>3. HeldIsClaimed'
    <3>1. SUFFICES ASSUME NEW j \in Instances, NEW u \in Transfers, Holds(j, u)'
                   PROVE  row'[u] = "downloading" /\ lockedBy'[u] = j
      BY DEF HeldIsClaimed
    <3>2. Holds(j, u)
      BY <1>1, <3>1 DEF SettleRow, Results, Holds, TypeOK
    <3>3. u # notifT[i]
      BY <2>2, <3>1
    <3>4. row[u] = "downloading" /\ lockedBy[u] = j
      BY <3>2 DEF ExclusiveClaim, HeldIsClaimed
    <3>5. row'[u] = row[u] /\ lockedBy'[u] = lockedBy[u]
      BY <1>1, <2>1, <3>3 DEF SettleRow, TypeOK
    <3> QED  BY <3>4, <3>5
  <2>4. OneStage'
    BY <1>1 DEF SettleRow, Results, ExclusiveClaim, OneStage, TypeOK
  <2>5. LockMatchesStatus'
    BY <1>1, <2>1, StatusOfType DEF SettleRow, ExclusiveClaim, LockMatchesStatus, TypeOK
  <2> QED  BY <2>3, <2>4, <2>5 DEF ExclusiveClaim
<1>2. CASE SettleFails(i)
  BY <1>2, ClaimFrame DEF SettleFails, Results, TypeOK
<1>3. CASE StartSeedWatch(i)
  BY <1>3, ClaimFrame DEF StartSeedWatch, Results, TypeOK
<1>4. CASE CleanupImported(i)
  BY <1>4, ClaimFrame DEF CleanupImported, Results, TypeOK
<1>5. CASE MessageSent(i)
  BY <1>5, ClaimFrame DEF MessageSent, Results, TypeOK
<1> QED  BY <1>1, <1>2, <1>3, <1>4, <1>5 DEF Notify

\* An import watcher touches no claim.
LEMMA WatchClaim ==
  ASSUME TypeOK, ExclusiveClaim, NEW i \in Instances, NEW t \in Transfers,
         Watch(i, t) \/ AnnounceImported(i, t)
  PROVE  ExclusiveClaim'
<1> USE DEF AtOrch, AtDl, AtNotif, tableVars, orchVars, dlVars, notifVars
<1>1. CASE CheckImported(i, t)
  BY <1>1, ClaimFrame DEF CheckImported
<1>2. CASE CheckSeeding(i, t)
  BY <1>2, ClaimFrame DEF CheckSeeding
<1>3. CASE WatcherPanics(i, t)
  BY <1>3, ClaimFrame DEF WatcherPanics
<1>4. CASE AnnounceImported(i, t)
  BY <1>4, ClaimFrame DEF AnnounceImported, Results, TypeOK
<1> QED  BY <1>1, <1>2, <1>3, <1>4 DEF Watch

\* A crash loses the goroutines that hold claims, never the claims.
LEMMA CrashClaim ==
  ASSUME TypeOK, ExclusiveClaim, NEW i \in Instances, Crash(i)
  PROVE  ExclusiveClaim'
BY ClaimFrame DEF Crash, Resume, NotifyIdle, NotifyDone, AtOrch, AtDl, AtNotif, Results, tableVars, TypeOK

\* Every step keeps claims exclusive.
LEMMA ClaimStep == TypeOK /\ ExclusiveClaim /\ [Next]_vars => ExclusiveClaim'
<1> SUFFICES ASSUME TypeOK, ExclusiveClaim, [Next]_vars  PROVE ExclusiveClaim'
  OBVIOUS
<1>1. CASE UNCHANGED vars
  BY <1>1, ClaimFrame DEF vars, tableVars, orchVars, dlVars, notifVars, AtOrch, AtDl, AtNotif
<1>2. CASE World
  BY <1>2, ClaimFrame
  DEF World, tableVars, orchVars, dlVars, notifVars, AtOrch, AtDl, AtNotif
<1>3. CASE Next
  BY <1>2, <1>3, OrchestrateClaim, DownloadClaim, NotifyClaim, WatchClaim, CrashClaim DEF Next
<1> QED  BY <1>1, <1>3

\* ExclusiveClaim: a goroutine works on a transfer only under its own instance's
\* claim, at one stage at a time, and a row is locked exactly while downloading;
\* so no two goroutines of any instances ever work on one transfer.
THEOREM ClaimIsExclusive == Spec => []ExclusiveClaim
<1>1. Spec => []TypeOK
  BY TypeInvariance
<1> QED  BY <1>1, InitClaim, ClaimStep, PTL DEF Spec

-----------------------------------------------------------------------------
(* The table as a ledger.  Only the upsert and the status update write it.  *)

\* A step that writes the table is a claim or a status update.
LEMMA TableStep ==
  ASSUME [Next]_vars
  PROVE  \/ UNCHANGED tableVars
         \/ \E i \in Instances : ClaimRow(i) \/ SettleRow(i)
BY DEF Next, vars, Orchestrate, Poll, SkipDownloaded, SelectRow, ClaimLost, ClaimFails,
       QueueTransfer, Download, GrabFiles, DownloadSucceeds, DownloadFails, FilesNotFound,
       DeliverResult, Notify, SettleFails, StartSeedWatch, CleanupImported, MessageSent, Watch,
       CheckImported, CheckSeeding, WatcherPanics, AnnounceImported, Crash, World

\* What the status update finds: its own instance's claim.
LEMMA SettlesOwnClaim ==
  ASSUME TypeOK, ExclusiveClaim, NEW i \in Instances, SettleRow(i)
  PROVE  /\ notifT[i] \in Transfers
         /\ row[notifT[i]] = "downloading"
         /\ lockedBy[notifT[i]] = i
<1>1. notifT[i] \in Transfers /\ AtNotif(i, notifT[i])
  BY DEF SettleRow, AtNotif, Results, TypeOK
<1> QED  BY <1>1 DEF ExclusiveClaim, HeldIsClaimed, Holds

\* A row that says downloaded or missing keeps its status in every step.
LEMMA SettledStep ==
  ASSUME TypeOK, ExclusiveClaim, [Next]_vars,
         NEW t \in Transfers, row[t] \in Settled
  PROVE  row'[t] = row[t]
<1>1. ASSUME NEW i \in Instances, ClaimRow(i)  PROVE row'[t] = row[t]
  BY <1>1 DEF ClaimRow, Claimable, Settled, TypeOK
<1>2. ASSUME NEW i \in Instances, SettleRow(i)  PROVE row'[t] = row[t]
  BY <1>2, SettlesOwnClaim DEF SettleRow, Settled, TypeOK
<1> QED  BY <1>1, <1>2, TableStep DEF tableVars

\* SettledIsFinal: no step of any goroutine changes a row that says downloaded
\* or missing, although UpdateTransferStatus itself checks nothing.
THEOREM SettledStaysSettled == Spec => SettledIsFinal
<1>1. TypeOK /\ ExclusiveClaim /\ [Next]_vars
        => [\A t \in Transfers : row[t] \in Settled => row'[t] = row[t]]_vars
  BY SettledStep
<1> QED  BY <1>1, TypeInvariance, ClaimIsExclusive, PTL DEF Spec, SettledIsFinal

\* ClaimTransfer's upsert is the ledger's Acquire.
LEMMA ClaimAcquires ==
  ASSUME TypeOK, NEW i \in Instances, ClaimRow(i)
  PROVE  Ledger!Acquire(i, claimT[i]) /\ claimT[i] \in Transfers
<1>1. claimT[i] \in Transfers /\ Claimable(claimT[i])
  BY DEF ClaimRow, TypeOK
<1>2. lastOutcome[claimT[i]] \notin Ledger!Final
  BY <1>1 DEF lastOutcome, Claimable, Settled, Ledger!Final
<1>3. lastOutcome' = [lastOutcome EXCEPT ![claimT[i]] = "none"]
  BY <1>1 DEF lastOutcome, ClaimRow, Settled, TypeOK
<1> QED  BY <1>1, <1>2, <1>3 DEF Ledger!Acquire, Claimable, ClaimRow

\* UpdateTransferStatus is the ledger's Release by the holder.
LEMMA SettleReleases ==
  ASSUME TypeOK, ExclusiveClaim, NEW i \in Instances, SettleRow(i)
  PROVE  Ledger!Release(i, notifT[i])
<1>1. StatusOf(notif[i]) \in Ledger!Outcomes
  BY StatusOfType DEF SettleRow, Ledger!Outcomes
<1>2. lastOutcome' = [lastOutcome EXCEPT ![notifT[i]] = StatusOf(notif[i])]
  BY <1>1, SettlesOwnClaim DEF lastOutcome, SettleRow, TypeOK, Settled, Ledger!Outcomes
<1> QED  BY <1>1, <1>2, SettlesOwnClaim DEF Ledger!Release, SettleRow

\* Every step is a step of the ledger, or changes nothing the ledger sees.
LEMMA LedgerStep ==
  ASSUME TypeOK, ExclusiveClaim, [Next]_vars
  PROVE  [Ledger!LedgerNext]_(Ledger!ledgerVars)
<1>1. ASSUME UNCHANGED tableVars  PROVE UNCHANGED Ledger!ledgerVars
  BY <1>1 DEF tableVars, lastOutcome, Ledger!ledgerVars
<1>2. ASSUME NEW i \in Instances, ClaimRow(i)  PROVE Ledger!LedgerNext
  BY <1>2, ClaimAcquires DEF Ledger!LedgerNext
<1>3. ASSUME NEW i \in Instances, SettleRow(i)  PROVE Ledger!LedgerNext
  BY <1>3, SettleReleases, SettlesOwnClaim DEF Ledger!LedgerNext
<1> QED  BY <1>1, <1>2, <1>3, TableStep

\* LedgerSpec: the two-step claim and the unconditional status update of all
\* instances together implement ClaimLedger, in which only the owner of a claim
\* ends it and a settled transfer is never acquired.
THEOREM ImplementsLedger == Spec => LedgerSpec
<1>1. Init => Ledger!LedgerInit
  BY DEF Init, lastOutcome, Settled, Ledger!LedgerInit
<1>2. TypeOK /\ ExclusiveClaim /\ [Next]_vars
        => [UNCHANGED Ledger!ledgerVars \/ Ledger!LedgerNext]_(Ledger!ledgerVars)
  BY LedgerStep
<1> QED
  BY <1>1, <1>2, TypeInvariance, ClaimIsExclusive, PTL DEF Spec, LedgerSpec, Ledger!LedgerSpec

-----------------------------------------------------------------------------
(* The watchers.  OneWatcher is inductive relative to TypeOK and            *)
(* ExclusiveClaim: a watcher is started for a row that was "downloading",  *)
(* which by OneWatcher itself nobody watches, and the row is then final.   *)

\* At the start nothing is watched.
LEMMA InitWatcher == Init => OneWatcher
BY DEF Init, OneWatcher, Watched

\* A step that starts no watcher and leaves downloaded rows alone.
LEMMA WatcherFrame ==
  ASSUME OneWatcher,
         \A t \in Transfers : row[t] = "downloaded" => row'[t] = "downloaded",
         \A i \in Instances, t \in Transfers :
           /\ watch'[i][t] # "off" => watch[i][t] # "off"
           /\ notif'[i] = "imported" /\ notifT'[i] = t
                => notif[i] = "imported" /\ notifT[i] = t
  PROVE  OneWatcher'
BY DEF OneWatcher, Watched

\* Every step keeps watchers unique.
LEMMA WatcherStep ==
  ASSUME TypeOK, ExclusiveClaim, OneWatcher, [Next]_vars
  PROVE  OneWatcher'
<1>0. \A t \in Transfers : row[t] = "downloaded" => row'[t] = "downloaded"
  BY SettledStep DEF Settled
<1>1. ASSUME NEW i \in Instances, SettleRow(i)  PROVE OneWatcher'
  <2> DEFINE u == notifT[i]
  <2>1. u \in Transfers /\ row[u] = "downloading"
    BY <1>1, SettlesOwnClaim
  <2>2. \A j \in Instances : ~Watched(j, u)
    BY <2>1 DEF OneWatcher
  <2>3. /\ \A j \in Instances, t \in Transfers :
             t # u \/ j # i => watch'[j][t] = watch[j][t]
        /\ watch'[i][u] # "off" => row'[u] = "downloaded"
    BY <1>1, <2>1, <2>2, StatusOfType
    DEF SettleRow, WatcherAfter, Watched, TypeOK
  <2>4. \A j \in Instances : ~(notif'[j] = "imported" /\ notifT'[j] = u)
    BY <1>1, <2>2 DEF SettleRow, NotifyIdle, NotifyDone, Watched, TypeOK
  <2>5. \A j \in Instances, t \in Transfers :
          notif'[j] = "imported" /\ notifT'[j] = t => notif[j] = "imported" /\ notifT[j] = t
    BY <1>1 DEF SettleRow, NotifyIdle, NotifyDone, TypeOK
  <2> QED  BY <1>0, <2>1, <2>2, <2>3, <2>4, <2>5 DEF OneWatcher, Watched
<1>2. ASSUME NEW i \in Instances, StartSeedWatch(i)  PROVE OneWatcher'
  <2> DEFINE u == notifT[i]
  <2>1. u \in Transfers /\ Watched(i, u) /\ watch[i][u] = "off"
    BY <1>2 DEF StartSeedWatch, Watched, OneWatcher, TypeOK
  <2>2. \A j \in Instances, t \in Transfers : Watched(j, t)' => Watched(j, t)
    BY <1>2, <2>1 DEF StartSeedWatch, NotifyIdle, NotifyDone, Watched, TypeOK
  <2>3. \A j \in Instances, t \in Transfers :
          ~(watch'[j][t] # "off" /\ notif'[j] = "imported" /\ notifT'[j] = t)
    BY <1>2, <2>1 DEF StartSeedWatch, NotifyIdle, NotifyDone, OneWatcher, Watched, TypeOK
  <2> QED  BY <1>0, <2>2, <2>3 DEF OneWatcher
<1>3. ASSUME NEW i \in Instances, NEW u \in Transfers, AnnounceImported(i, u)
      PROVE  OneWatcher'
  <2>1. Watched(i, u) /\ watch'[i][u] = "off"
    BY <1>3 DEF AnnounceImported, Watched, TypeOK
  <2>2. \A j \in Instances, t \in Transfers : Watched(j, t)' => Watched(j, t)
    BY <1>3, <2>1 DEF AnnounceImported, Watched, TypeOK
  <2>3. \A j \in Instances, t \in Transfers :
          ~(watch'[j][t] # "off" /\ notif'[j] = "imported" /\ notifT'[j] = t)
    BY <1>3, <2>1 DEF AnnounceImported, OneWatcher, Watched, TypeOK
  <2> QED  BY <1>0, <2>2, <2>3 DEF OneWatcher
<1>4. ASSUME NEW i \in Instances,
             \/ DeliverResult(i) \/ SettleFails(i) \/ CleanupImported(i)
             \/ MessageSent(i) \/ Crash(i)
             \/ \E t \in Transfers : Watch(i, t)
      PROVE  OneWatcher'
  <2>1. CASE DeliverResult(i)
    BY <1>0, <2>1, WatcherFrame DEF DeliverResult, Results, TypeOK
  <2>2. CASE SettleFails(i)
    BY <1>0, <2>2, WatcherFrame DEF SettleFails, NotifyIdle, NotifyDone, TypeOK
  <2>3. CASE CleanupImported(i)
    BY <1>0, <2>3, WatcherFrame DEF CleanupImported, NotifyIdle, NotifyDone, TypeOK
  <2>6. CASE MessageSent(i)
    BY <1>0, <2>6, WatcherFrame DEF MessageSent, NotifyIdle, TypeOK
  <2>4. CASE Crash(i)
    BY <1>0, <2>4, WatcherFrame DEF Crash, NotifyIdle, NotifyDone, TypeOK
  <2>5. ASSUME NEW t \in Transfers, Watch(i, t)  PROVE OneWatcher'
    <3>1. watch[i][t] # "off" /\ UNCHANGED notifVars
      BY <2>5 DEF Watch, CheckImported, CheckSeeding, WatcherPanics
    <3>2. PICK w \in {"imported", "off"} : watch' = [watch EXCEPT ![i][t] = w]
      BY <2>5 DEF Watch, CheckImported, CheckSeeding, WatcherPanics
    <3>3. \A j \in Instances, u \in Transfers : watch'[j][u] # "off" => watch[j][u] # "off"
      BY <3>1, <3>2 DEF TypeOK
    <3> QED  BY <1>0, <3>1, <3>3, WatcherFrame DEF notifVars
  <2> QED  BY <1>4, <2>1, <2>2, <2>3, <2>4, <2>5, <2>6
<1>5. ASSUME UNCHANGED <<watch, notifVars>>  PROVE OneWatcher'
  BY <1>0, <1>5, WatcherFrame DEF notifVars
<1>6. \/ UNCHANGED <<watch, notifVars>>
      \/ \E i \in Instances :
           \/ SettleRow(i) \/ StartSeedWatch(i) \/ DeliverResult(i) \/ SettleFails(i)
           \/ CleanupImported(i) \/ MessageSent(i) \/ Crash(i)
           \/ \E t \in Transfers : AnnounceImported(i, t) \/ Watch(i, t)
  BY DEF Next, vars, Orchestrate, Poll, SkipDownloaded, SelectRow, ClaimRow, ClaimLost,
         ClaimFails, QueueTransfer, Download, GrabFiles, DownloadSucceeds, DownloadFails,
         FilesNotFound, Notify, World
<1> QED  BY <1>1, <1>2, <1>3, <1>4, <1>5, <1>6

\* OneWatcher: only recorded downloads are watched, each by one goroutine of one
\* instance, so no cleanup runs beside a download or another cleanup.
THEOREM WatcherIsUnique == Spec => []OneWatcher
<1>1. TypeOK /\ ExclusiveClaim /\ OneWatcher /\ [Next]_vars => OneWatcher'
  BY WatcherStep
<1> QED  BY <1>1, InitWatcher, TypeInvariance, ClaimIsExclusive, PTL DEF Spec

-----------------------------------------------------------------------------
(* The content and the import.                                             *)

\* No import record is ever forgotten, and only these steps touch the content.
LEMMA ImportedStays ==
  ASSUME TypeOK, [Next]_vars, NEW t \in Transfers, imported[t]
  PROVE  imported'[t]
<1>1. ASSUME World  PROVE imported'[t]
  BY <1>1 DEF World, SeedboxCompletes, RemoveRemotely, ReachRatio, ArrImports, TypeOK
<1>2. World \/ UNCHANGED imported
  BY DEF Next, vars, Orchestrate, Poll, SkipDownloaded, SelectRow, ClaimRow, ClaimLost,
         ClaimFails, QueueTransfer, Download, GrabFiles, DownloadSucceeds, DownloadFails,
         FilesNotFound, DeliverResult, Notify, SettleRow, SettleFails, StartSeedWatch,
         CleanupImported, MessageSent, Cleanup, CleanupGivesUp, Watch, CheckImported,
         CheckSeeding, WatcherPanics, AnnounceImported, Crash, worldVars
<1> QED  BY <1>1, <1>2

\* The content of a transfer changes only in the hands of its holder, after its
\* import was seen, by the import itself, or, once downloaded, for an earlier one.
LEMMA DiskStep ==
  ASSUME TypeOK, OneWatcher, [Next]_vars, NEW t \in Transfers, disk'[t] # disk[t]
  PROVE  \/ imported'[t]
         \/ t \in Earlier /\ row[t] = "downloaded"
         \/ \E i \in Instances : AtDl(i, t) /\ Download(i)
<1>1. ASSUME World  PROVE imported'[t]
  BY <1>1 DEF World, SeedboxCompletes, RemoveRemotely, ReachRatio, ArrImports, TypeOK
<1>2. ASSUME NEW i \in Instances, NEW u \in Transfers, CheckImported(i, u)
      PROVE  imported'[t] \/ (t \in Earlier /\ row[t] = "downloaded")
  <2>1. u = t /\ imported' = imported /\ (imported[t] \/ t \in Earlier)
    BY <1>2 DEF CheckImported, ImportSeen, TypeOK
  <2>2. row[t] = "downloaded"
    BY <1>2, <2>1 DEF CheckImported, OneWatcher, Watched
  <2> QED  BY <2>1, <2>2
<1>3. ASSUME NEW i \in Instances, Download(i)  PROVE AtDl(i, t)
  BY <1>3 DEF Download, GrabFiles, DownloadSucceeds, DownloadFails, FilesNotFound, AtDl, TypeOK
<1>4. \/ World
      \/ \E i \in Instances :
           \/ \E u \in Transfers : CheckImported(i, u)
           \/ Download(i)
  BY DEF Next, vars, Orchestrate, Poll, SkipDownloaded, SelectRow, ClaimRow, ClaimLost,
         ClaimFails, QueueTransfer, DeliverResult, Notify, SettleRow, SettleFails,
         StartSeedWatch, CleanupImported, MessageSent, Cleanup, CleanupGivesUp, Watch,
         CheckSeeding, WatcherPanics, AnnounceImported, Crash, worldVars
<1> QED  BY <1>1, <1>2, <1>3, <1>4

\* What ContentInv says of a goroutine at one stage with t.
Carried(i, t) ==
  /\ dl[i] = "copying" /\ dlT[i] = t => disk[t] # "none" \/ imported[t]
  /\ dl[i] = "finished" /\ dlT[i] = t => disk[t] = "full" \/ imported[t]
  /\ notif[i] = "finished" /\ notifT[i] = t => disk[t] = "full" \/ imported[t]

\* The steps of a download, seen from any instance.
LEMMA WriteStep ==
  ASSUME TypeOK, ExclusiveClaim, ContentInv, NEW i \in Instances,
         Download(i),
         NEW j \in Instances, NEW t \in Transfers
  PROVE  Carried(j, t)'
<1>1. AtDl(i, dlT[i]) /\ dlT[i] \in Transfers
  BY DEF Download, GrabFiles, DownloadSucceeds, DownloadFails, FilesNotFound, AtDl, TypeOK
<1>2. /\ AtDl(j, t) /\ t = dlT[i] => j = i
      /\ AtNotif(j, t) => t # dlT[i]
  BY <1>1 DEF ExclusiveClaim, HeldIsClaimed, OneStage, Holds
<1>3. CASE GrabFiles(i)
  BY <1>1, <1>2, <1>3 DEF GrabFiles, Carried, ContentInv, AtDl, AtNotif, Results, notifVars, TypeOK
<1>4. CASE DownloadSucceeds(i)
  BY <1>1, <1>2, <1>4
  DEF DownloadSucceeds, Carried, ContentInv, AtDl, AtNotif, Results, notifVars, TypeOK, DiskStates
<1>5. CASE FilesNotFound(i)
  BY <1>1, <1>2, <1>5 DEF FilesNotFound, Carried, ContentInv, AtDl, AtNotif, Results, notifVars, TypeOK
<1>6. CASE DownloadFails(i)
  BY <1>1, <1>2, <1>6 DEF DownloadFails, Carried, ContentInv, AtDl, AtNotif, Results, notifVars, TypeOK
<1> QED  BY <1>3, <1>4, <1>5, <1>6 DEF Download

\* Every step keeps what a goroutine relies on about the content it carries.
LEMMA CarriedStep ==
  ASSUME TypeOK, ExclusiveClaim, OneWatcher, ContentInv, [Next]_vars,
         NEW j \in Instances, NEW t \in Transfers
  PROVE  Carried(j, t)'
<1>1. CASE \E i \in Instances : Download(i)
  BY <1>1, WriteStep
<1>2. CASE ~\E i \in Instances : Download(i)
  <2>1. disk'[t] = disk[t] \/ imported'[t] \/ row[t] = "downloaded"
    BY <1>2, DiskStep
  <2>2. /\ dl'[j] = "copying" /\ dlT'[j] = t => dl[j] = "copying" /\ dlT[j] = t
        /\ dl'[j] = "finished" /\ dlT'[j] = t => dl[j] = "finished" /\ dlT[j] = t
        /\ notif'[j] = "finished" /\ notifT'[j] = t
             => \/ notif[j] = "finished" /\ notifT[j] = t
                \/ dl[j] = "finished" /\ dlT[j] = t
    <3>1. ASSUME NEW i \in Instances, QueueTransfer(i) \/ DeliverResult(i)
          PROVE  <2>2!1 /\ <2>2!2 /\ <2>2!3
      BY <3>1 DEF QueueTransfer, DeliverResult, notifVars, TypeOK
    <3>2. ASSUME NEW i \in Instances, Notify(i) \/ Crash(i)
          PROVE  <2>2!1 /\ <2>2!2 /\ <2>2!3
      BY <3>2 DEF Notify, SettleRow, SettleFails, StartSeedWatch, CleanupImported, MessageSent,
                  Crash, NotifyIdle, NotifyDone, dlVars, TypeOK
    <3>3. ASSUME NEW i \in Instances, NEW u \in Transfers, AnnounceImported(i, u)
          PROVE  <2>2!1 /\ <2>2!2 /\ <2>2!3
      BY <3>3 DEF AnnounceImported, dlVars, TypeOK
    <3>4. \/ UNCHANGED <<dlVars, notifVars>>
          \/ \E i \in Instances :
               \/ QueueTransfer(i) \/ DeliverResult(i) \/ Notify(i) \/ Crash(i)
               \/ \E u \in Transfers : AnnounceImported(i, u)
      BY <1>2 DEF Next, vars, Orchestrate, Poll, SkipDownloaded, SelectRow, ClaimRow,
                  ClaimLost, ClaimFails, Watch, CheckImported, CheckSeeding, WatcherPanics, World
    <3> QED  BY <3>1, <3>2, <3>3, <3>4 DEF dlVars, notifVars
  <2>3. imported[t] => imported'[t]
    BY ImportedStays
  <2>4. dl[j] \in {"copying", "finished"} /\ dlT[j] = t => row[t] # "downloaded"
    BY DEF ExclusiveClaim, HeldIsClaimed, Holds, AtDl
  <2>5. notif[j] = "finished" /\ notifT[j] = t => row[t] # "downloaded"
    BY DEF ExclusiveClaim, HeldIsClaimed, Holds, AtNotif, Results
  <2> QED  BY <2>1, <2>2, <2>3, <2>4, <2>5 DEF Carried, ContentInv
<1> QED  BY <1>1, <1>2

\* Every step keeps the content of downloaded, not yet imported, transfers whole.
LEMMA KeptStep ==
  ASSUME TypeOK, ExclusiveClaim, OneWatcher, ContentInv, [Next]_vars
  PROVE  ContentKept'
<1>1. SUFFICES ASSUME NEW t \in Transfers \ Earlier, row'[t] = "downloaded", ~imported'[t]
               PROVE  disk'[t] = "full"
  BY DEF ContentKept
<1>2. ~imported[t]
  BY <1>1, ImportedStays
<1>3. CASE row[t] = "downloaded"
  <2>1. \A i \in Instances : ~AtDl(i, t)
    BY <1>3 DEF ExclusiveClaim, HeldIsClaimed, Holds
  <2>2. disk'[t] = disk[t]
    BY <1>1, <2>1, DiskStep
  <2> QED  BY <1>2, <1>3, <2>2 DEF ContentInv, ContentKept
<1>4. CASE row[t] # "downloaded"
  <2>1. PICK i \in Instances : SettleRow(i)
    BY <1>1, <1>4, TableStep DEF ClaimRow, tableVars, TypeOK
  <2>2. notif[i] = "finished" /\ notifT[i] = t
    BY <1>1, <1>4, <2>1, StatusOfType, SettlesOwnClaim DEF SettleRow, TypeOK
  <2> QED  BY <1>2, <2>1, <2>2 DEF SettleRow, ContentInv, worldVars
<1> QED  BY <1>3, <1>4

\* What each goroutine relies on about its content holds throughout.
LEMMA ContentInvariance == Spec => []ContentInv
<1>1. Init => ContentInv
  BY DEF Init, ContentInv, ContentKept
<1>2. TypeOK /\ ExclusiveClaim /\ OneWatcher /\ ContentInv /\ [Next]_vars => ContentInv'
  BY CarriedStep, KeptStep DEF ContentInv, Carried
<1> QED
  BY <1>1, <1>2, TypeInvariance, ClaimIsExclusive, WatcherIsUnique, PTL DEF Spec

\* ContentKept: whatever is recorded as downloaded stays whole on disk until an
\* *arr app imported it, whatever other goroutines retry, clean up or remove, unless
\* an import of earlier years is taken for its own.
THEOREM ContentIsKept == Spec => []ContentKept
<1>1. ContentInv => ContentKept
  BY DEF ContentInv
<1> QED  BY <1>1, ContentInvariance, PTL

-----------------------------------------------------------------------------
(* Cleanup.                                                                *)

\* Who waits for t with its import already seen.
SawImport(i, t) ==
  watch[i][t] \in {"imported", "seed"} \/ (notif[i] = "imported" /\ notifT[i] = t)

\* That knowledge comes only from a tick that found the import.
LEMMA SawImportStep ==
  ASSUME TypeOK, [Next]_vars, NEW j \in Instances, NEW t \in Transfers, SawImport(j, t)'
  PROVE  SawImport(j, t) \/ imported[t] \/ t \in Earlier
<1> USE DEF SawImport
<1>1. ASSUME NEW i \in Instances, SettleRow(i)  PROVE SawImport(j, t)
  BY <1>1 DEF SettleRow, WatcherAfter, NotifyIdle, NotifyDone, Results, Events, TypeOK
<1>2. ASSUME NEW i \in Instances,
             SettleFails(i) \/ CleanupImported(i) \/ MessageSent(i) \/ Crash(i)
      PROVE  SawImport(j, t)
  <2>1. /\ \E n \in {"idle", "message"} : notif' = [notif EXCEPT ![i] = n]
        /\ notifT' = [notifT EXCEPT ![i] = NoTransfer]
    BY <1>2 DEF SettleFails, CleanupImported, MessageSent, Crash, NotifyIdle, NotifyDone
  <2>2. \/ watch' = watch
        \/ watch' = [watch EXCEPT ![i] = [u \in Transfers |-> "off"]]
    BY <1>2 DEF SettleFails, CleanupImported, MessageSent, Crash
  <2> QED  BY <2>1, <2>2 DEF TypeOK
<1>3. ASSUME NEW i \in Instances, StartSeedWatch(i)  PROVE SawImport(j, t)
  BY <1>3 DEF StartSeedWatch, NotifyIdle, NotifyDone, TypeOK
<1>4. ASSUME NEW i \in Instances, DeliverResult(i)  PROVE SawImport(j, t)
  BY <1>4 DEF DeliverResult, Results, TypeOK
<1>5. ASSUME NEW i \in Instances, NEW u \in Transfers, CheckImported(i, u)
      PROVE  SawImport(j, t) \/ imported[t] \/ t \in Earlier
  BY <1>5 DEF CheckImported, ImportSeen, notifVars, TypeOK
<1>6. ASSUME NEW i \in Instances, NEW u \in Transfers, CheckSeeding(i, u) \/ WatcherPanics(i, u)
      PROVE  SawImport(j, t)
  <2>1. watch' = [watch EXCEPT ![i][u] = "off"] /\ notif' = notif /\ notifT' = notifT
    BY <1>6 DEF CheckSeeding, WatcherPanics, notifVars
  <2>2. watch'[j][t] = watch[j][t] \/ watch'[j][t] = "off"
    BY <2>1 DEF TypeOK
  <2> QED  BY <2>1, <2>2
<1>7. ASSUME NEW i \in Instances, NEW u \in Transfers, AnnounceImported(i, u)
      PROVE  SawImport(j, t)
  BY <1>7 DEF AnnounceImported, TypeOK
<1>8. \/ UNCHANGED <<watch, notifVars>>
      \/ \E i \in Instances :
           \/ SettleRow(i) \/ StartSeedWatch(i) \/ DeliverResult(i) \/ SettleFails(i)
           \/ CleanupImported(i) \/ MessageSent(i) \/ Crash(i)
           \/ \E u \in Transfers :
                \/ AnnounceImported(i, u) \/ CheckImported(i, u)
                \/ CheckSeeding(i, u) \/ WatcherPanics(i, u)
  BY DEF Next, vars, Orchestrate, Poll, SkipDownloaded, SelectRow, ClaimRow, ClaimLost,
         ClaimFails, QueueTransfer, Download, GrabFiles, DownloadSucceeds, DownloadFails,
         FilesNotFound, Notify, Watch, World
<1> QED  BY <1>1, <1>2, <1>3, <1>4, <1>5, <1>6, <1>7, <1>8 DEF notifVars

\* Only an import handled without a ratio, or a seeding tick that found the
\* ratio reached, deletes a transfer.
LEMMA CleanedStep ==
  ASSUME TypeOK, [Next]_vars, NEW t \in Transfers,
         remote[t] # "cleaned", remote'[t] = "cleaned"
  PROVE  \E i \in Instances :
           \/ notif[i] = "imported" /\ notifT[i] = t /\ ~Seeding
           \/ watch[i][t] = "seed" /\ ratio[t]
<1>1. ASSUME NEW i \in Instances, CleanupImported(i)
      PROVE  notif[i] = "imported" /\ notifT[i] = t /\ ~Seeding
  BY <1>1 DEF CleanupImported, Cleanup, CleanupGivesUp, KeepsSeeding, worldVars, TypeOK
<1>2. ASSUME NEW i \in Instances, NEW u \in Transfers, CheckSeeding(i, u)
      PROVE  watch[i][t] = "seed" /\ ratio[t]
  BY <1>2 DEF CheckSeeding, Cleanup, CleanupGivesUp, worldVars, TypeOK
<1>3. ~World
  BY DEF World, SeedboxCompletes, RemoveRemotely, ReachRatio, ArrImports, TypeOK
<1>4. \/ UNCHANGED remote
      \/ World
      \/ \E i \in Instances :
           CleanupImported(i) \/ \E u \in Transfers : CheckSeeding(i, u)
  BY DEF Next, vars, Orchestrate, Poll, SkipDownloaded, SelectRow, ClaimRow, ClaimLost,
         ClaimFails, QueueTransfer, Download, GrabFiles, DownloadSucceeds, DownloadFails,
         FilesNotFound, DeliverResult, Notify, SettleRow, SettleFails, StartSeedWatch,
         MessageSent, Watch, CheckImported, WatcherPanics, AnnounceImported, Crash, worldVars
<1> QED  BY <1>1, <1>2, <1>3, <1>4

\* Every step keeps what is known of imports: seen means imported, now or earlier, and
\* cleaned means seen.
LEMMA ImportStep ==
  ASSUME TypeOK, ExclusiveClaim, OneWatcher, ImportInv, [Next]_vars
  PROVE  ImportInv'
<1>1. ASSUME NEW j \in Instances, NEW t \in Transfers, SawImport(j, t)'
      PROVE  imported'[t] \/ t \in Earlier
  BY <1>1, SawImportStep, ImportedStays DEF ImportInv, SawImport
<1>2. ASSUME NEW t \in Transfers, remote'[t] = "cleaned"
      PROVE  row'[t] = "downloaded" /\ (imported'[t] \/ t \in Earlier)
  <2>1. row[t] = "downloaded" /\ (imported[t] \/ t \in Earlier)
    <3>1. CASE remote[t] = "cleaned"
      BY <3>1 DEF ImportInv, CleanupOnlyAfterImport
    <3>2. CASE remote[t] # "cleaned"
      <4>1. \E i \in Instances : SawImport(i, t) /\ Watched(i, t)
        BY <1>2, <3>2, CleanedStep DEF SawImport, Watched
      <4> QED  BY <4>1 DEF ImportInv, OneWatcher, SawImport
    <3> QED  BY <3>1, <3>2
  <2> QED  BY <2>1, SettledStep, ImportedStays DEF Settled
<1> QED  BY <1>1, <1>2 DEF ImportInv, CleanupOnlyAfterImport, SawImport

\* What each goroutine relies on about the import holds throughout.
LEMMA ImportInvariance == Spec => []ImportInv
<1>1. Init => ImportInv
  BY DEF Init, ImportInv, CleanupOnlyAfterImport
<1>2. TypeOK /\ ExclusiveClaim /\ OneWatcher /\ ImportInv /\ [Next]_vars => ImportInv'
  BY ImportStep
<1> QED
  BY <1>1, <1>2, TypeInvariance, ClaimIsExclusive, WatcherIsUnique, PTL DEF Spec

\* CleanupOnlyAfterImport: no goroutine deletes from the seedbox what was not
\* downloaded before, nor what no *arr app imported, then or in earlier years.
THEOREM CleanupAfterImport == Spec => []CleanupOnlyAfterImport
<1>1. ImportInv => CleanupOnlyAfterImport
  BY DEF ImportInv
<1> QED  BY <1>1, ImportInvariance, PTL

\* A transfer that reached its seed ratio stays there.
LEMMA RatioStays ==
  ASSUME TypeOK, [Next]_vars, NEW t \in Transfers, ratio[t]
  PROVE  ratio'[t]
<1>1. ASSUME World  PROVE ratio'[t]
  BY <1>1 DEF World, SeedboxCompletes, RemoveRemotely, ReachRatio, ArrImports, TypeOK
<1>2. World \/ UNCHANGED ratio
  BY DEF Next, vars, Orchestrate, Poll, SkipDownloaded, SelectRow, ClaimRow, ClaimLost,
         ClaimFails, QueueTransfer, Download, GrabFiles, DownloadSucceeds, DownloadFails,
         FilesNotFound, DeliverResult, Notify, SettleRow, SettleFails, StartSeedWatch,
         CleanupImported, MessageSent, Cleanup, CleanupGivesUp, Watch, CheckImported,
         CheckSeeding, WatcherPanics, AnnounceImported, Crash, worldVars
<1> QED  BY <1>1, <1>2

\* SeedingHonoured: with a ratio configured, only a seeding tick that found it
\* reached deletes a transfer.
THEOREM SeedingIsHonoured == Spec => []SeedingHonoured
<1>1. Init => SeedingHonoured
  BY DEF Init, SeedingHonoured
<1>2. ASSUME TypeOK, SeedingHonoured, [Next]_vars  PROVE SeedingHonoured'
  BY <1>2, CleanedStep, RatioStays DEF SeedingHonoured
<1> QED  BY <1>1, <1>2, TypeInvariance, PTL DEF Spec
=============================================================================
