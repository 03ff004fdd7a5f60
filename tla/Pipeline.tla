------------------------------ MODULE Pipeline ------------------------------
(***************************************************************************)
(* The life of a transfer through one or more instances of the program     *)
(* that share a seedbox account, a downloads table and a download          *)
(* directory: orchestrator -> WatchDownloads -> notification loop ->       *)
(* import watcher -> (seeding watcher ->) cleanup.                         *)
(*                                                                         *)
(* The event channels are unbuffered, so a send and its receive are one    *)
(* step of two goroutines, and a sender stays blocked until its receiver   *)
(* is back in its select.  ClaimTransfer is two database statements and    *)
(* so two steps.  What one DownloadTransfer does with its files, one check *)
(* of the *arr apps and one CleanupTransfer with its retries is a choice   *)
(* of outcome here; the modules TransferDownload, ImportWatch and          *)
(* RemoteCleanup say how each outcome arises.                              *)
(***************************************************************************)
EXTENDS Naturals, FiniteSets

CONSTANTS Instances, Transfers, NoInstance, NoTransfer,
          Seeding,     \* PUTIO_SEED_RATIO > 0
          Discord,     \* DISCORD_WEBHOOK_URL is set
          Earlier,     \* transfers that an import record from before is taken for
          FaultKinds,  \* which faults may happen: "crash", "db", "cleanup", "panic"
          MaxFaults    \* and how many of them

ASSUME NullAssumption  == NoInstance \notin Instances /\ NoTransfer \notin Transfers
ASSUME SeedAssumption  == Seeding \in BOOLEAN
ASSUME DiscordAssumption == Discord \in BOOLEAN
ASSUME EarlierAssumption == Earlier \subseteq Transfers
ASSUME FaultAssumption == MaxFaults \in Nat

VARIABLES
  row, lockedBy,   \* the downloads table: status and locked_by of a transfer
  remote, ratio,   \* the seedbox: state of a transfer; did it reach the ratio
  disk, imported,  \* its local content; has an *arr app an import record of it
  orch, batch, claimT,  \* per instance: the orchestrator, its listing, its claim
  dl, dlT,              \* per instance: WatchDownloads and its transfer
  notif, notifT,        \* per instance: the notification loop and its event
  watch,                \* watch[i][t]: the watcher goroutine of t in instance i
  faults                \* faults so far

tableVars  == <<row, lockedBy>>
worldVars  == <<remote, ratio, disk, imported>>
orchVars   == <<orch, batch, claimT>>
dlVars     == <<dl, dlT>>
notifVars  == <<notif, notifT>>
vars == <<tableVars, worldVars, orchVars, dlVars, notifVars, watch, faults>>

\* "absent" is no row; "pending" is the column default, which no code writes.
Statuses == {"absent", "pending", "downloading", "downloaded", "failed", "missing"}
Settled  == {"downloaded", "missing"}

\* "cleaned" is removal by CleanupTransfer, "removed" by anyone else.
RemoteStates == {"fetching", "ready", "cleaned", "removed"}
DiskStates   == {"none", "partial", "full"}

\* An event channel of the Downloader, named for what it announces.
Results == {"error", "finished", "missing"}
Events  == Results \cup {"imported"}

TypeOK ==
  /\ row \in [Transfers -> Statuses]
  /\ lockedBy \in [Transfers -> Instances \cup {NoInstance}]
  /\ remote \in [Transfers -> RemoteStates]
  /\ ratio \in [Transfers -> BOOLEAN]
  /\ disk \in [Transfers -> DiskStates]
  /\ imported \in [Transfers -> BOOLEAN]
  /\ orch \in [Instances -> {"idle", "batch", "claiming", "queued"}]
  /\ batch \in [Instances -> SUBSET Transfers]
  /\ claimT \in [Instances -> Transfers \cup {NoTransfer}]
  /\ dl \in [Instances -> {"idle", "grabbing", "copying"} \cup Results]
  /\ dlT \in [Instances -> Transfers \cup {NoTransfer}]
  /\ notif \in [Instances -> {"idle", "message"} \cup Events]
  /\ notifT \in [Instances -> Transfers \cup {NoTransfer}]
  /\ watch \in [Instances -> [Transfers -> {"off", "import", "imported", "seed"}]]
  /\ faults \in Nat
  /\ \A i \in Instances :
       /\ orch[i] \in {"claiming", "queued"} => claimT[i] \in Transfers
       /\ dl[i] # "idle" => dlT[i] \in Transfers
       /\ notif[i] \in Events => notifT[i] \in Transfers

Init ==
  /\ row = [t \in Transfers |-> "absent"]
  /\ lockedBy = [t \in Transfers |-> NoInstance]
  /\ remote = [t \in Transfers |-> "fetching"]
  /\ ratio = [t \in Transfers |-> FALSE]
  /\ disk = [t \in Transfers |-> "none"]
  /\ imported = [t \in Transfers |-> FALSE]
  /\ orch = [i \in Instances |-> "idle"]
  /\ batch = [i \in Instances |-> {}]
  /\ claimT = [i \in Instances |-> NoTransfer]
  /\ dl = [i \in Instances |-> "idle"]
  /\ dlT = [i \in Instances |-> NoTransfer]
  /\ notif = [i \in Instances |-> "idle"]
  /\ notifT = [i \in Instances |-> NoTransfer]
  /\ watch = [i \in Instances |-> [t \in Transfers |-> "off"]]
  /\ faults = 0

Fault(k) ==
  /\ k \in FaultKinds
  /\ faults < MaxFaults
  /\ faults' = faults + 1

-----------------------------------------------------------------------------
(* The orchestrator: ProduceTransfers and watchTransfers.                  *)

\* Mutant of Ready: also those that the seedbox has not completed.
ReadyOrNot == {t \in Transfers : remote[t] \in {"fetching", "ready"}}

\* Transfers that pass IsAvailable and IsDownloadable.
Ready == {t \in Transfers : remote[t] = "ready"}

\* The loop over the listing goes on with b, or has ended.
Resume(i, b) ==
  /\ batch' = [batch EXCEPT ![i] = b]
  /\ orch' = [orch EXCEPT ![i] = IF b = {} THEN "idle" ELSE "batch"]

\* A tick: GetTaggedTorrents may leave out transfers it fails to look up.
Poll(i) ==
  /\ orch[i] = "idle"
  /\ \E S \in SUBSET Ready : Resume(i, S)
  /\ UNCHANGED <<claimT, tableVars, worldVars, dlVars, notifVars, watch, faults>>

\* ClaimTransfer's SELECT: ErrDownloaded, and the loop continues.
SkipDownloaded(i, t) ==
  /\ orch[i] = "batch"
  /\ t \in batch[i]
  /\ row[t] = "downloaded"
  /\ Resume(i, batch[i] \ {t})
  /\ UNCHANGED <<claimT, tableVars, worldVars, dlVars, notifVars, watch, faults>>

\* ClaimTransfer's SELECT: anything else, and the upsert is next.
SelectRow(i, t) ==
  /\ orch[i] = "batch"
  /\ t \in batch[i]
  /\ row[t] # "downloaded"
  /\ orch' = [orch EXCEPT ![i] = "claiming"]
  /\ claimT' = [claimT EXCEPT ![i] = t]
  /\ batch' = [batch EXCEPT ![i] = @ \ {t}]
  /\ UNCHANGED <<tableVars, worldVars, dlVars, notifVars, watch, faults>>

\* Mutants of Claimable: the upsert trusts the SELECT before it and guards only
\* the lock; has no WHERE at all; claims only what it never saw before.
ClaimableUnlocked(t) == lockedBy[t] = NoInstance
ClaimableAlways(t)   == row[t] \in Statuses
ClaimableOnce(t)     == row[t] = "absent"

\* The upsert's condition: no row, or its WHERE clause holds.
Claimable(t) ==
  /\ row[t] \in {"absent", "pending", "failed"}
  /\ lockedBy[t] = NoInstance

\* The upsert affects a row: claimed, and the send on OnDownloadQueued is next.
ClaimRow(i) ==
  /\ orch[i] = "claiming"
  /\ Claimable(claimT[i])
  /\ row' = [row EXCEPT ![claimT[i]] = "downloading"]
  /\ lockedBy' = [lockedBy EXCEPT ![claimT[i]] = i]
  /\ orch' = [orch EXCEPT ![i] = "queued"]
  /\ UNCHANGED <<batch, claimT, worldVars, dlVars, notifVars, watch, faults>>

\* The upsert affects no row: not claimed, and the loop continues.
ClaimLost(i) ==
  /\ orch[i] = "claiming"
  /\ ~Claimable(claimT[i])
  /\ Resume(i, batch[i])
  /\ claimT' = [claimT EXCEPT ![i] = NoTransfer]
  /\ UNCHANGED <<tableVars, worldVars, dlVars, notifVars, watch, faults>>

\* Either statement fails: watchTransfers returns and drops its listing.  (So it
\* does where it panics: ProduceTransfers starts again a second later.)
ClaimFails(i) ==
  /\ orch[i] \in {"batch", "claiming"}
  /\ Fault("db")
  /\ Resume(i, {})
  /\ claimT' = [claimT EXCEPT ![i] = NoTransfer]
  /\ UNCHANGED <<tableVars, worldVars, dlVars, notifVars, watch>>

\* OnDownloadQueued: the orchestrator's send meets WatchDownloads' receive.
QueueTransfer(i) ==
  /\ orch[i] = "queued"
  /\ dl[i] = "idle"
  /\ dl' = [dl EXCEPT ![i] = "grabbing"]
  /\ dlT' = [dlT EXCEPT ![i] = claimT[i]]
  /\ Resume(i, batch[i])
  /\ claimT' = [claimT EXCEPT ![i] = NoTransfer]
  /\ UNCHANGED <<tableVars, worldVars, notifVars, watch, faults>>

Orchestrate(i) ==
  \/ Poll(i)
  \/ \E t \in Transfers : SkipDownloaded(i, t) \/ SelectRow(i, t)
  \/ ClaimRow(i)
  \/ ClaimLost(i)
  \/ ClaimFails(i)
  \/ QueueTransfer(i)

-----------------------------------------------------------------------------
(* WatchDownloads: one DownloadTransfer at a time, then one blocking send. *)

\* GrabFile hands back a body and os.Create truncates the target.  Each file is
\* asked for by its own ID, so whether it is still there does not hang on what became
\* of the transfer: torrent-remove leaves the files unless it is asked not to.
GrabFiles(i) ==
  /\ dl[i] = "grabbing"
  /\ dl' = [dl EXCEPT ![i] = "copying"]
  /\ disk' = [disk EXCEPT ![dlT[i]] = "partial"]
  /\ UNCHANGED <<remote, ratio, imported, dlT, tableVars, orchVars, notifVars, watch, faults>>

\* Every copy ended with the expected size.  An *arr app may have moved the
\* file away under the open handle, and then nothing is left to complete.
DownloadSucceeds(i) ==
  /\ dl[i] = "copying"
  /\ dl' = [dl EXCEPT ![i] = "finished"]
  /\ disk' = [disk EXCEPT ![dlT[i]] = IF @ = "partial" THEN "full" ELSE @]
  /\ UNCHANGED <<remote, ratio, imported, dlT, tableVars, orchVars, notifVars, watch, faults>>

\* What a download that does not succeed may leave of t, of this attempt and of
\* earlier ones: even all of it, if what it failed to get was there already.
LeftOf(t) == {d \in DiskStates : disk[t] = "none" => d = "none"}

\* Any first error but the next.  What was written stays on disk, unless a file
\* that fails in its wake is taken for missing.
DownloadFails(i) ==
  /\ dl[i] \in {"grabbing", "copying"}
  /\ dl' = [dl EXCEPT ![i] = "error"]
  /\ \E d \in LeftOf(dlT[i]) : disk' = [disk EXCEPT ![dlT[i]] = d]
  /\ UNCHANGED <<remote, ratio, imported, dlT, tableVars, orchVars, notifVars, watch, faults>>

\* ErrTransferFilesNotFound, which GrabFile returns for any failed lookup of a
\* download URL, and so also while the files exist: the local output is removed,
\* but the removal may fail, and a file written beside it may stay.
FilesNotFound(i) ==
  /\ dl[i] \in {"grabbing", "copying"}
  /\ dl' = [dl EXCEPT ![i] = "missing"]
  /\ \E d \in LeftOf(dlT[i]) : disk' = [disk EXCEPT ![dlT[i]] = d]
  /\ UNCHANGED <<remote, ratio, imported, dlT, tableVars, orchVars, notifVars, watch, faults>>

\* Mutant of DeliverResult: a result that nobody is ready to receive is dropped.
DeliverResultOrDrop(i) ==
  /\ dl[i] \in Results
  /\ IF notif[i] = "idle"
       THEN /\ notif' = [notif EXCEPT ![i] = dl[i]]
            /\ notifT' = [notifT EXCEPT ![i] = dlT[i]]
       ELSE UNCHANGED notifVars
  /\ dl' = [dl EXCEPT ![i] = "idle"]
  /\ dlT' = [dlT EXCEPT ![i] = NoTransfer]
  /\ UNCHANGED <<tableVars, worldVars, orchVars, watch, faults>>

\* The send on the result's channel meets the notification loop's select.
DeliverResult(i) ==
  /\ dl[i] \in Results
  /\ notif[i] = "idle"
  /\ notif' = [notif EXCEPT ![i] = dl[i]]
  /\ notifT' = [notifT EXCEPT ![i] = dlT[i]]
  /\ dl' = [dl EXCEPT ![i] = "idle"]
  /\ dlT' = [dlT EXCEPT ![i] = NoTransfer]
  /\ UNCHANGED <<tableVars, worldVars, orchVars, watch, faults>>

Download(i) ==
  GrabFiles(i) \/ DownloadSucceeds(i) \/ DownloadFails(i) \/ FilesNotFound(i)

-----------------------------------------------------------------------------
(* The notification loop: handleDownloadError, handleDownloadFinished,     *)
(* handleTransferMissing and handleTransferImported.                       *)

\* Mutants of StatusOf: the event's own name is written; files gone are taken for
\* a finished download.
StatusAsEvent(e)       == e
StatusMissingAsDone(e) == IF e = "error" THEN "failed" ELSE "downloaded"

StatusOf(e) ==
  CASE e = "error"    -> "failed"
    [] e = "finished" -> "downloaded"
    [] e = "missing"  -> "missing"

\* Nobody's event is handled: the loop is back in its select, or a handler has
\* done its work and posts its message to Discord, if that is configured.
NotifyIdle(i) ==
  /\ notif' = [notif EXCEPT ![i] = "idle"]
  /\ notifT' = [notifT EXCEPT ![i] = NoTransfer]
NotifyDone(i) ==
  /\ notif' = [notif EXCEPT ![i] = IF Discord THEN "message" ELSE "idle"]
  /\ notifT' = [notifT EXCEPT ![i] = NoTransfer]

\* Mutants of WatcherAfter: no import watcher is started; one is started for
\* every result.
WatcherAfterNothing(e, w) == w
WatcherAfterAny(e, w)     == "import"

\* handleDownloadFinished starts the import watcher.
WatcherAfter(e, w) == IF e = "finished" THEN "import" ELSE w

\* UpdateTransferStatus succeeds: the status is written and the lock cleared.
SettleRow(i) ==
  LET t == notifT[i] IN
  /\ notif[i] \in Results
  /\ row' = [row EXCEPT ![t] = StatusOf(notif[i])]
  /\ lockedBy' = [lockedBy EXCEPT ![t] = NoInstance]
  /\ watch' = [watch EXCEPT ![i][t] = WatcherAfter(notif[i], @)]
  /\ NotifyDone(i)
  /\ UNCHANGED <<worldVars, orchVars, dlVars, faults>>

\* UpdateTransferStatus fails: the error is logged and the event is gone.  (So it
\* is where a handler panics: the loop starts again a second later.)  Of a missing
\* transfer the message is sent all the same.
SettleFails(i) ==
  /\ notif[i] \in Results
  /\ Fault("db")
  /\ IF notif[i] = "missing" THEN NotifyDone(i) ELSE NotifyIdle(i)
  /\ UNCHANGED <<tableVars, worldVars, orchVars, dlVars, watch>>

\* CleanupTransfer succeeds, or the transfer is gone already, which counts as
\* success.
Cleanup(t) ==
  /\ remote' = [remote EXCEPT ![t] = IF @ = "ready" THEN "cleaned" ELSE @]
  /\ UNCHANGED <<ratio, disk, imported>>

\* CleanupTransfer gives up after its retries.  (Where its last attempt took the
\* transfer away all the same, the effect is that of Cleanup.)
CleanupGivesUp == Fault("cleanup") /\ UNCHANGED worldVars

\* Mutant of KeepsSeeding: the configured ratio is not waited for.
KeepsSeedingNever(t) == FALSE

\* handleTransferImported: seedRatio > 0.
KeepsSeeding(t) == Seeding

StartSeedWatch(i) ==
  /\ notif[i] = "imported"
  /\ KeepsSeeding(notifT[i])
  /\ watch' = [watch EXCEPT ![i][notifT[i]] = "seed"]
  /\ NotifyDone(i)
  /\ UNCHANGED <<tableVars, worldVars, orchVars, dlVars, faults>>

\* With no ratio to wait for, the loop itself runs CleanupTransfer.
CleanupImported(i) ==
  /\ notif[i] = "imported"
  /\ ~KeepsSeeding(notifT[i])
  /\ \/ Cleanup(notifT[i]) /\ UNCHANGED faults
     \/ CleanupGivesUp
  /\ NotifyDone(i)
  /\ UNCHANGED <<tableVars, orchVars, dlVars, watch>>

\* Mutant of MessageSent: a message that is not accepted is tried again.
MessageSentAgain(i) ==
  /\ notif[i] = "message"
  /\ notif' = [notif EXCEPT ![i] = "message"]
  /\ UNCHANGED <<notifT, tableVars, worldVars, orchVars, dlVars, watch, faults>>

\* The webhook answers, or the request fails: either way the handler returns.
\* (http.Post has no deadline: until then no event of any goroutine is received.)
MessageSent(i) ==
  /\ notif[i] = "message"
  /\ NotifyIdle(i)
  /\ UNCHANGED <<tableVars, worldVars, orchVars, dlVars, watch, faults>>

Notify(i) ==
  \/ SettleRow(i) \/ SettleFails(i) \/ StartSeedWatch(i) \/ CleanupImported(i)
  \/ MessageSent(i)

-----------------------------------------------------------------------------
(* The watcher goroutines of one transfer.                                 *)

\* Mutant of ImportSeen: any import record counts, whatever transfer it is of.
ImportSeenOfAny(t) == \E u \in Transfers : imported[u] \/ u \in Earlier

\* What the removal of one file may leave of t: its other files, if it has any.
LeftByRemoval(t) == IF disk[t] = "none" THEN {"none"} ELSE {"none", "partial"}

\* checkForImported finds an import record under the path of a file: of an import of
\* this download, or of whatever was imported from that path in earlier years.
ImportSeen(t) == imported[t] \/ t \in Earlier

\* A tick that finds the import: the file it is of is removed, the send is next.
\* Other files of the transfer stay, whether imported or not.
CheckImported(i, t) ==
  /\ watch[i][t] = "import"
  /\ ImportSeen(t)
  /\ \E d \in LeftByRemoval(t) : disk' = [disk EXCEPT ![t] = d]
  /\ watch' = [watch EXCEPT ![i][t] = "imported"]
  /\ UNCHANGED <<remote, ratio, imported, tableVars, orchVars, dlVars, notifVars, faults>>

\* OnTransferImported: the watcher's send meets the notification loop's select.
AnnounceImported(i, t) ==
  /\ watch[i][t] = "imported"
  /\ notif[i] = "idle"
  /\ notif' = [notif EXCEPT ![i] = "imported"]
  /\ notifT' = [notifT EXCEPT ![i] = t]
  /\ watch' = [watch EXCEPT ![i][t] = "off"]
  /\ UNCHANGED <<tableVars, worldVars, orchVars, dlVars, faults>>

\* A seeding tick: the transfer is gone, or its ratio is reached and it is
\* cleaned up; either way the goroutine ends.
CheckSeeding(i, t) ==
  /\ watch[i][t] = "seed"
  /\ \/ remote[t] # "ready" /\ UNCHANGED <<worldVars, faults>>
     \/ remote[t] = "ready" /\ ratio[t] /\ Cleanup(t) /\ UNCHANGED faults
     \/ remote[t] = "ready" /\ ratio[t] /\ CleanupGivesUp
  /\ watch' = [watch EXCEPT ![i][t] = "off"]
  /\ UNCHANGED <<tableVars, orchVars, dlVars, notifVars>>

\* A tick panics: the goroutine recovers, logs and ends, and no other follows it.
WatcherPanics(i, t) ==
  /\ watch[i][t] \in {"import", "seed"}
  /\ Fault("panic")
  /\ watch' = [watch EXCEPT ![i][t] = "off"]
  /\ UNCHANGED <<tableVars, worldVars, orchVars, dlVars, notifVars>>

Watch(i, t) == CheckImported(i, t) \/ CheckSeeding(i, t) \/ WatcherPanics(i, t)

-----------------------------------------------------------------------------
(* The process and the world around it.                                    *)

\* The process dies and is started again: nothing in memory survives, and
\* nothing at startup reads the table.
Crash(i) ==
  /\ Fault("crash")
  /\ Resume(i, {})
  /\ claimT' = [claimT EXCEPT ![i] = NoTransfer]
  /\ dl' = [dl EXCEPT ![i] = "idle"]
  /\ dlT' = [dlT EXCEPT ![i] = NoTransfer]
  /\ NotifyIdle(i)
  /\ watch' = [watch EXCEPT ![i] = [t \in Transfers |-> "off"]]
  /\ UNCHANGED <<tableVars, worldVars>>

SeedboxCompletes(t) ==
  /\ remote[t] = "fetching"
  /\ remote' = [remote EXCEPT ![t] = "ready"]
  /\ UNCHANGED <<ratio, disk, imported>>

\* torrent-remove over RPC, or the owner of the account.  (A transfer removed
\* before it is ready is one that no goroutine ever sees.)
RemoveRemotely(t) ==
  /\ remote[t] = "ready"
  /\ remote' = [remote EXCEPT ![t] = "removed"]
  /\ UNCHANGED <<ratio, disk, imported>>

\* Followed only where it matters: no one asks for the ratio earlier.
ReachRatio(t) ==
  /\ Seeding /\ remote[t] = "ready" /\ ~ratio[t]
  /\ row[t] = "downloaded" /\ ImportSeen(t)
  /\ ratio' = [ratio EXCEPT ![t] = TRUE]
  /\ UNCHANGED <<remote, disk, imported>>

\* An *arr app imports whatever it finds at the advertised path, once, and
\* leaves the content there or moves it away.
ArrImports(t) ==
  /\ disk[t] # "none" /\ ~imported[t]
  /\ imported' = [imported EXCEPT ![t] = TRUE]
  /\ \E d \in {disk[t], "none"} : disk' = [disk EXCEPT ![t] = d]
  /\ UNCHANGED <<remote, ratio>>

World ==
  /\ \E t \in Transfers :
       SeedboxCompletes(t) \/ RemoveRemotely(t) \/ ReachRatio(t) \/ ArrImports(t)
  /\ UNCHANGED <<tableVars, orchVars, dlVars, notifVars, watch, faults>>

Next ==
  \/ \E i \in Instances :
       \/ Orchestrate(i)
       \/ Download(i)
       \/ DeliverResult(i)
       \/ Notify(i)
       \/ \E t \in Transfers : Watch(i, t) \/ AnnounceImported(i, t)
       \/ Crash(i)
  \/ World

Spec == Init /\ [][Next]_vars

-----------------------------------------------------------------------------
(* Fairness: every goroutine that can take a step takes one; a select that *)
(* keeps being ready for a sender picks it at last (Go chooses at random); *)
(* a download ends (put.io's body ends or breaks), and so does a message   *)
(* to Discord; and put.io's listing is complete again and again.  Crashes, *)
(* panics, failing database statements and the world are under no          *)
(* obligation.                                                             *)

PollComplete(i) ==
  /\ orch[i] = "idle"
  /\ Resume(i, Ready)
  /\ UNCHANGED <<claimT, tableVars, worldVars, dlVars, notifVars, watch, faults>>

Fairness ==
  \A i \in Instances :
    /\ WF_vars(Orchestrate(i))
    /\ SF_vars(PollComplete(i))
    /\ WF_vars(Download(i))
    /\ SF_vars(DeliverResult(i))
    /\ WF_vars(Notify(i))
    /\ \A t \in Transfers : WF_vars(Watch(i, t)) /\ SF_vars(AnnounceImported(i, t))

FairSpec == Spec /\ Fairness

-----------------------------------------------------------------------------
(* Safety.                                                                 *)

AtOrch(i, t)  == orch[i] = "queued" /\ claimT[i] = t
AtDl(i, t)    == dl[i] # "idle" /\ dlT[i] = t
AtNotif(i, t) == notif[i] \in Results /\ notifT[i] = t
Holds(i, t)   == AtOrch(i, t) \/ AtDl(i, t) \/ AtNotif(i, t)

\* A goroutine works on a transfer only while the table shows its instance's
\* claim; since a row names one instance, no two instances work on it.
HeldIsClaimed ==
  \A i \in Instances, t \in Transfers :
    Holds(i, t) => row[t] = "downloading" /\ lockedBy[t] = i

\* Within an instance a transfer is at one stage only, so it is downloaded
\* and settled once per claim.
OneStage ==
  \A i \in Instances, t \in Transfers :
    /\ ~(AtOrch(i, t) /\ AtDl(i, t))
    /\ ~(AtOrch(i, t) /\ AtNotif(i, t))
    /\ ~(AtDl(i, t) /\ AtNotif(i, t))

\* A row is locked exactly while its transfer is being downloaded.
LockMatchesStatus ==
  \A t \in Transfers : (lockedBy[t] # NoInstance) <=> (row[t] = "downloading")

\* "An exclusive hold one instance takes on a Transfer before downloading it":
\* ClaimTransfer's two statements and the unconditional UpdateTransferStatus
\* of all instances together never let two goroutines work on a transfer.
ExclusiveClaim == HeldIsClaimed /\ OneStage /\ LockMatchesStatus

\* What comes after the download: a watcher, or the event that one ended.
Watched(i, t) == watch[i][t] # "off" \/ (notif[i] = "imported" /\ notifT[i] = t)

\* Only a transfer recorded as downloaded is watched for its import, by one
\* instance, and its watcher is gone when its import is being handled: cleanup
\* is never run for a transfer that someone still downloads, nor twice.
OneWatcher ==
  \A i \in Instances, t \in Transfers :
    Watched(i, t) =>
      /\ row[t] = "downloaded"
      /\ \A j \in Instances \ {i} : ~Watched(j, t)
      /\ ~(watch[i][t] # "off" /\ notif[i] = "imported" /\ notifT[i] = t)

\* What is recorded as downloaded is on disk, whole, until an *arr app has
\* imported it: no retry, no other instance and no removal of a missing
\* transfer's output touches it.  Where an earlier import is recorded under its
\* path, the watcher takes that one for its own, so nothing is claimed there.
ContentKept ==
  \A t \in Transfers \ Earlier : row[t] = "downloaded" /\ ~imported[t] => disk[t] = "full"

\* The program deletes a transfer from the seedbox only after it recorded it as
\* downloaded, and only if an *arr app imported it, except where an earlier import
\* is recorded under its path.
CleanupOnlyAfterImport ==
  \A t \in Transfers :
    remote[t] = "cleaned" => row[t] = "downloaded" /\ (imported[t] \/ t \in Earlier)

\* With a seed ratio configured, no transfer is deleted before it reached it.
SeedingHonoured ==
  \A t \in Transfers : Seeding /\ remote[t] = "cleaned" => ratio[t]

\* Why ContentKept and CleanupOnlyAfterImport hold: what each goroutine that
\* carries a transfer relies on about its content and its import.  Together
\* with TypeOK, ExclusiveClaim and OneWatcher they are inductive.
ContentInv ==
  /\ ContentKept
  /\ \A i \in Instances, t \in Transfers :
       /\ dl[i] = "copying" /\ dlT[i] = t => disk[t] # "none" \/ imported[t]
       /\ dl[i] = "finished" /\ dlT[i] = t => disk[t] = "full" \/ imported[t]
       /\ notif[i] = "finished" /\ notifT[i] = t => disk[t] = "full" \/ imported[t]

ImportInv ==
  /\ CleanupOnlyAfterImport
  /\ \A i \in Instances, t \in Transfers :
       \/ watch[i][t] \in {"imported", "seed"}
       \/ notif[i] = "imported" /\ notifT[i] = t
       => imported[t] \/ t \in Earlier

\* Claims that no goroutine will ever release.
Orphans == {t \in Transfers : row[t] = "downloading" /\ ~\E i \in Instances : Holds(i, t)}

\* A claim outlives the goroutines that carry it only through a fault, and a
\* fault costs at most three: those of the three goroutines of a process that
\* dies (a failing status update costs one).  No order of blocking sends, no
\* second instance and no retry ever strands a transfer.
StrandedByFaultsOnly == IsFiniteSet(Orphans) /\ Cardinality(Orphans) <= 3 * faults

\* While nothing fails, a downloaded transfer that is still on the seedbox has a
\* goroutine, or an event on its way, that will see to its removal.
DownloadedIsFollowed ==
  \A t \in Transfers :
    faults = 0 /\ row[t] = "downloaded" /\ remote[t] = "ready"
      => \E i \in Instances : Watched(i, t)

\* A row that says downloaded or missing says so for ever, whatever a stale
\* SELECT of another instance or a late status update would do to it.
SettledIsFinal ==
  [][\A t \in Transfers : row[t] \in Settled => row'[t] = row[t]]_vars

\* The ledger's outcome of a transfer, as its row shows it.
lastOutcome ==
  [t \in Transfers |-> IF row[t] \in Settled \cup {"failed"} THEN row[t] ELSE "none"]

\* The table is a ledger of claims: only the claim's own instance settles it.
Ledger == INSTANCE ClaimLedger WITH
  owner <- lockedBy,
  outcome <- lastOutcome
LedgerSpec == Ledger!LedgerSpec

\* The stage of a transfer that its row stands for.
lifeStage ==
  [t \in Transfers |->
    CASE row[t] = "downloading" -> "held"
      [] row[t] \in Settled    -> row[t]
      [] OTHER                 -> "waiting"]

\* All instances together do to each transfer what one careful hand would: nothing is
\* claimed before the seedbox has it, written without a claim, called downloaded
\* before it is whole, discarded or cleaned up before it was taken (or an earlier import
\* is taken for that).
Life == INSTANCE TransferLife WITH
  stage <- lifeStage,
  content <- disk,
  taken <- imported,
  seedbox <- remote,
  seeded <- ratio
LifeSpec == Life!LifeSpec

-----------------------------------------------------------------------------
(* Liveness.                                                               *)

\* While no process dies and the database works, every claim is released: the
\* chain of blocking sends behind it never stops for good.
ClaimReleased ==
  \A t \in Transfers : row[t] = "downloading" ~> row[t] # "downloading"

\* A transfer that waits on the seedbox, new or failed before, is claimed at
\* last (or taken off the seedbox), however often others fail and are retried.
WaitingIsClaimed ==
  \A t \in Transfers :
    (remote[t] = "ready" /\ row[t] \in {"absent", "failed"})
      ~> (remote[t] # "ready" \/ row[t] \notin {"absent", "failed"})

\* What was downloaded and imported, and seeded long enough, leaves the seedbox.
ImportedIsCleaned ==
  \A t \in Transfers :
    (row[t] = "downloaded" /\ imported[t] /\ (Seeding => ratio[t])) ~> remote[t] # "ready"
=============================================================================
