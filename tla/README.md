# A verification of seedbox_downloader

TLA+ modules that model the program's pipeline, TLC configurations that check
them on small instances, and theorems about them that TLAPS proves for all
instances. Line numbers refer to the repository; `PROJECT.json` maps every
definition to the lines it stands for.

## The system

The program polls a Put.io account, downloads finished transfers, advertises
them to Sonarr and Radarr through a Transmission RPC proxy, waits until they are
imported, and removes them from the account. Several instances may share an
account and a downloads table.

```
 Put.io <-- poll -- orchestrator -- OnDownloadQueued --> WatchDownloads --> disk
                        |  claim                              |  OnTransfer{Error,Finished,Missing}
                        v                                     v
                   downloads table <-- settle ------- notification loop <-- OnTransferImported --+
                                                        |  starts                                |
                                                        +--> import watcher (asks *arr) ---------+
                                                        +--> seeding watcher --> CleanupTransfer --> Put.io
 *arr --> Transmission RPC (torrent-get, torrent-add, torrent-remove) --> Put.io
```

| component | state | operations | interacts by | correct when |
|---|---|---|---|---|
| orchestrator (`internal/transfer/transfer.go`) | the tick's listing | poll, claim each, queue | blocking send to the download loop | every waiting transfer is claimed, once |
| claim ledger (`internal/storage/sqlite`) | status and lock of each transfer | ClaimTransfer (2 statements), UpdateTransferStatus (1, unconditional) | shared by all instances | claims are exclusive, settled rows final |
| download loop, `DownloadTransfer` (`internal/downloader`) | semaphore, errgroup, files on disk | download all files in parallel, classify errors, remove output | blocking send of the result | a nil error means whole files; it always returns; nothing is written after |
| notification loop (`cmd/.../main.go`) | none but its event | settle the row, start watchers, clean up, post to Discord | four unbuffered channels; HTTP from within the loop | no event is lost, no sender stuck |
| import watcher, *arr client | loop position, page | ask every service about every file, page its history | HTTP; send of the import | an import is noticed; what was downloaded is kept until it is taken |
| seeding watcher | none | compare the ratio, clean up | HTTP | nothing leaves before its ratio |
| remote cleanup (`CleanupTransfer`, `RemoveTransfers`) | attempt, matches | list, cancel, delete data | HTTP; concurrent with torrent-remove | only what was asked for goes, and goes completely |
| Put.io client | none | listing, GrabFile, adds | HTTP; each listing is many requests | a listing names all files |
| local layout (`internal/transfer`, `LocalName`), torrent-get | none | LocalName of one's own listing | called by both sides | the advertised path is the written path |
| torrent-add (`AddTransfer`, `AddTransferByBytes`) | none | check the request, find the label's folder, add or upload | HTTP | a refusal added nothing; every call is answered |
| Discord notifier (`internal/notifier`) | none | one request per event | HTTP without a deadline | the loop that calls it goes on |
| Deluge client, telemetry, progress, logging, configuration | - | - | - | not modelled, see below |

What is hard here: five kinds of goroutines joined by unbuffered sends that no
`select` guards; two instances racing through a claim of two statements and a
status update that does not look at the lock; watchers that live only in memory;
error classification that cannot tell a cause from its consequences; two
listings of one account, made request by request at different moments, from which
two goroutines derive a path that must be the same; retries
against a state the failed attempt already changed; *arr apps that import what is
still being written; a paged history that grows while it is read. `PROJECT.json`
lists the hazards at their lines.

## The modules

| module | models | its state and the code's |
|---|---|---|
| `ClaimLedger` | the contract of `DownloadRepository`: acquire, release | `owner` = locked_by, `outcome` = status once released |
| `TransferLife` | what the whole program promises the owner of a transfer, without instances, goroutines or faults | `stage` = what its row stands for, `content` = what is on disk, `taken`, `seedbox`, `seeded` = the world |
| `DownloadContract` | the contract of one `DownloadTransfer` with `WatchDownloads` | `phase` = no file opened yet, one opened, or the result; `content` = what the local root holds |
| `RemovalContract` | the contract of `CleanupTransfer` and `torrent-remove` with their callers | `call[c]` = open or its result, `asked`, `withData` = its arguments; `listed`, `data` = the seedbox |
| `Pipeline` | orchestrator, table, download loop, notification loop, watchers, of all instances | `row`, `lockedBy` = the table; `orch`/`batch`/`claimT`, `dl`/`dlT`, `notif`/`notifT` = where each goroutine is and which transfer it holds; `watch[i][t]` = the watcher goroutines; `remote`, `ratio`, `disk`, `imported` = the world |
| `MCPipeline` | `Pipeline` for TLC, with its symmetries | |
| `TransferDownload` | one `DownloadTransfer`: launch loop, semaphore, errgroup, `DownloadFile`, `classifyFileError`, `removeLocalOutput` | `pc[f]` = the goroutine of file f, `err[f]` = what `DownloadFile` returned, `ctxDone`/`groupErr` = the errgroup, `disk[f]` = the target path |
| `RemoteCleanup` | `CleanupTransfer` with its tries, `torrent-remove`, `RemoveTransfers` | `ids`, `deletes` = arguments; `files` = the matches its listing showed with a FileID, `todo`/`cur` = the loop over the matches; `fetched`, `listed`, `data` = the seedbox: what it completed, lists, and holds data of |
| `Listing` | `GetTaggedTorrents` and `getFilesRecursively`, called by the orchestrator and by `torrent-get`; `LocalName`, `removeLocalOutput` and the files a download writes | `todo`, `folders`, `found` = the loops of each caller's listing; `present` = the account; `disk` = DOWNLOAD_DIR; `advertised` = the last answer |
| `MCListing` | `Listing` for TLC: two small file trees | |
| `TorrentAdd` | `torrent-add`: `resolveTorrent`, the checks of metainfo, `findDirectoryID`, `AddTransfer`, `AddTransferByBytes`; the listing's filter by label | `req[c]`, `parent[c]`, `answer[c]` = arguments, dirID and response of a call; `saved[c]` = save_parent_id of the transfer it created; `there` = the account's entries |
| `ImportWatch` | one transfer's files from the claim to the import: the attempts of `DownloadTransfer`, then `WatchForImported`, `checkForImported`, `CheckImported`, beside *arr apps that import at any time | `writing[f]` = the attempt at file f; `disk[f]` = its content; `file`, `svc` = the loops of a check; `page`, `inspected` = the paging, `Start` = what a service takes a page number for; `history`, `up` = the services; `taken[f]` = how much of f they took |
| `PipelineProofs`, `PipelineFateProofs`, `TransferDownloadProofs`, `RemoteCleanupProofs`, `ListingProofs`, `TorrentAddProofs`, `ImportWatchProofs` | theorems | |

`Pipeline` takes the outcome of one listing, one download, one import check and
one cleanup as a choice; `Listing`, `TransferDownload`, `ImportWatch` and
`RemoteCleanup` say how each arises, in the steps between which another goroutine
can get in. `TransferDownload` looks at one transfer's directory only, which
`OnlyOwnOutput` of `Listing` justifies; `Listing` in turn takes one download as a
step, whose partial effects are those `TransferDownload` allows. An action is
what happens between two such points: a database statement, a rendezvous on an
unbuffered channel (one step of both goroutines), a request, a file operation.

Four abstract modules say what a part promises those who use it, and the detailed
ones implement them under a refinement mapping: `Pipeline` implements `ClaimLedger`
and `TransferLife`, `TransferDownload` implements `DownloadContract`,
`RemoteCleanup` implements `RemovalContract`. `DownloadContract` joins two of the
models: a download in `Pipeline` is exactly one of its steps
(`DownloadIsContracted`), and `TransferDownload` makes no others, so no goroutine of
a download can do anything to the pipeline that `Pipeline` leaves out. For cleanup
there is no such equivalence: `Pipeline` takes one cleanup as one step, in which
only the transfer's removal matters.

Two modules carry a history variable, which no guard reads: `began` of
`TransferDownload` (what was on disk when the call began, until it opens its first
file) lets the contract speak of the content while many files are in between;
`held` of `ImportWatch` (how many records the service had when `CheckImported`
began) lets `NoneOverlooked` tell those records from later ones.

Modelling decisions a reader should know:

- `ClaimTransfer` is `SelectRow` then `ClaimRow`/`ClaimLost`; only the upsert's
  condition is evaluated against the table of that moment.
- `UpdateTransferStatus` and the start of the import watcher are one step: between
  the two nothing of the same instance can happen to the transfer but a crash,
  and that has the same effect after both.
- A crash loses all goroutines of an instance. A restart is a fresh start, as no
  code reads the table at startup. Every stop of the program is such a crash:
  `main` handles no signal and never cancels its context.
- A panic is recovered goroutine by goroutine. The orchestrator starts again a
  second later with its listing gone, which is `ClaimFails`; the notification loop
  with its event gone, which is `SettleFails` or `CleanupGivesUp`; a watcher does
  not start again (`WatcherPanics`). `WatchDownloads` recovers none: there a panic
  ends the process.
- With `Discord`, a handler ends with a request that nothing bounds, and the
  notification loop receives no event until it is answered (`MessageSent`).
- A failed download leaves what it wrote, or less where a sibling's failed lookup
  removed the output, or all of it where it failed to get what was there already
  (`LeftOf`).
- `disk` is `none`, `partial` or `full` for a transfer's content. An *arr app
  imports from whatever it finds at the advertised path, at any time, and leaves
  the content or moves it away. One imported by copy while it is being written counts
  as imported, as the code has it; `ImportWatch` tells what was taken of each file.
- `Earlier` (in `Pipeline` and `TransferLife`) are the transfers whose path an earlier
  import recorded. `CheckImported` takes that record for theirs, so their content may
  be discarded and they may be cleaned up untaken; `ContentKept`,
  `CleanupOnlyAfterImport` and the life of a transfer say so, and say of all others
  that they are not affected. (`Earlier` of `ImportWatch` are files.)
- The import watcher removes the one file that was found imported
  (`LeftByRemoval`): the others of the transfer stay.
- `GrabFile` asks for a file by its ID, not for the transfer: a torrent-remove without
  `delete-local-data` leaves a download going, so `GrabFiles` does not ask whether the
  seedbox still lists the transfer.
- The seed ratio is followed from the import on (`ReachRatio`), since no code asks
  for it earlier.
- A transfer removed from the seedbox before it was ready is left out: no
  goroutine ever sees it. The `pending` status exists in the table's default only.
- In `ImportWatch` an *arr app takes what it finds of a file: all of a whole one,
  a part of one that is being written. It copies, or moves to another file system;
  within one, a file moved while it is written would be completed at its new
  place. A record of an earlier import under the same path (`Earlier`) may be there
  from the start. A download that breaks leaves every file or removes one, and
  starts over.
- `CheckImported` asks for page 0 first. Nothing in the repository says how Sonarr and
  Radarr number the pages of their histories, so both ways are modelled: a service of
  `FromOne` takes page 0 for its first one, as it does page 1.
- In `RemoteCleanup` the seedbox may complete a transfer at any moment. An attempt
  deletes the data only of what its listing showed with a FileID (`files`): a transfer
  that completes between the listing and the cancel keeps its data under a success.
  `SuccessIsRemoval` therefore speaks of the data the listing showed, and no more can
  be said of the code. `CleanupTransfer` is called for completed transfers only.
- In `TransferDownload` a removal of the local root removes any subset of the
  files, because others may create theirs behind it, or it may fail half-way. The
  request for a file ends with the group's context; what follows it (the directory,
  `os.Create`) does not look at the context, so a file may be opened, and so
  truncated, after the cancellation (`CreateTarget`), or fail to be (`CreateFails`).
- In `TorrentAdd` the transfer a call creates is named for the call, since no call
  creates two. The search for the label may come up with any entry there is: in
  the runs two folders, of which one may bear another name, and a file.
- In `Listing` the folders of a tree are visited in any order, not depth first:
  the result is a set, and the code's order is one of those. The requests for the
  parent folder and for the transfer's root are one, as both lead to the same
  `continue`. Every tree node is a request of its own, with deletions in between.
  That two entries of a folder have different names (`NamesAssumption`) is how
  Put.io behaves: it adds a suffix to what would collide. A download that breaks may
  remove local output if the transfer has two files: a lookup that the failure of the
  other file cancels makes its own count as missing. Removals by an *arr app are not
  in this module.

## What the runs show

| run | instance | shows |
|---|---|---|
| `pipeline_safety` | 2 instances, 2 transfers, no earlier imports, 1 fault (crash, database, cleanup, panic), up to symmetry | exclusive claims, dropped by faults only; one watcher, content kept until imported, cleanup only after import, settled rows final, refinement of `ClaimLedger` and of `TransferLife` |
| `pipeline_liveness` | 1 instance, 2 transfers, seed ratio and Discord configured, no faults | every claim released; a downloaded transfer always watched; every waiting or failed transfer claimed; the ratio waited for; every imported one that reached it cleaned up |
| `transfer_download` | 3 files (one of unknown size), 2 slots, all faults | whole files behind a nil error; quiet after the return; it returns; refinement of `DownloadContract` |
| `remote_cleanup` | 1 cleanup, 2 removal requests, 2 transfers that may complete at any time, 3 tries | requested things only; transfer before data; success is removal, of the data too that the listing showed; every call ends; refinement of `RemovalContract` |
| `import_watch` | 2 files, one with an earlier record, 2 services, one numbering its pages from one, 3 records in pages of 1, 2 faults (broken download, outage, failed removal) | what was downloaded is kept until it is taken; no page past the end; no record that the paging reaches overlooked; imports noticed, also those made during the download |
| `listing` | 2 transfers named alike, a folder with a nested one and a single file, 2 faults | the advertised name is that of what is written, however partial either listing; outputs of transfers are apart; an unbroken listing is whole |
| `torrent_add` | 2 calls, any requests, 2 folders and a file to come up with, label or none | a refusal adds nothing; nothing of a bad request reaches Put.io; every call answered |
| `pipeline_restart` | 1 instance, 1 transfer, 1 crash | *violated*: an imported transfer is cleaned up, also across a restart |
| `download_missing` | 2 files, failing lookups | *violated*: "missing" means deleted |
| `listing_fallback` | as `listing`, 1 fault | *violated*: a downloaded transfer's advertised path exists on disk |
| `cleanup_leak` | 1 cleanup | *violated*: a successful cleanup removed the data |
| `import_partial` | 1 file, 1 service | *violated*: a whole file that the watcher deletes was taken whole (here only a part was, copied during the download) |

`OneWatcher` bounds the watchers of a transfer from above only. That it does not lose
its watcher is `DownloadedIsFollowed`, which is checked and proved while nothing fails;
after a crash or a panic it is false, as `pipeline_restart` shows.

The violated properties are statements of the README, CONTEXT.md or comments;
`PROJECT.json` quotes them under `findings` with what the code does instead.

Further disagreements the models show, without a run of their own. In
`TransferDownload` a short body cancels the group's context, a sibling's URL lookup
then fails as `context.Canceled` inside `GrabFile`, which reports it as files not
found, and `classifyFileError` removes the transfer's output: also the files that
were whole, of which the comment at `downloader.go:226` says that they are left
alone. (The transfer is downloaded again later.) In `ImportWatch` the first file
found imported ends the watch: with two files the other stays on disk unwatched and
the transfer is cleaned up, where README.md:28 says that the watch goes on "until
files are imported". There too, a record of an earlier import under the same path
makes the watcher delete a file that no *arr app has taken (with `Earlier = {1}`
`DeletedWasTaken` fails without any import), one of those that `KeptUntilTaken`
excepts, and with a service that numbers its pages from one `CheckImported` reads
the first page twice and never the oldest, so that it can answer no to what was
imported: `NoneOverlooked` excepts that page. With Radarr alone configured, the
Sonarr client without an address fails first at every tick and `checkForImported`
returns its error: no import is ever noticed. `docs/PATHS.md:109` says that every
transfer is filed under `TARGET_LABEL`, but `findDirectoryID` (`FindDirectory` of
`TorrentAdd`) takes the first result of a search whatever its name, and what it
files elsewhere no listing shows. The comments at `main.go:352`, `downloader.go:53`
and `transfer.go:144` say that cancelling the context stops every service, but the
sends between the goroutines select on nothing, and `WEB_SHUTDOWN_TIMEOUT`
("Graceful shutdown timeout", README.md:197) bounds a shutdown that no signal
starts. README.md:26 names Deluge as a seedbox, but `setupServer` (`main.go:573`)
accepts a Put.io client only. And torrent-add answers with the transfer's ID as
`hashString`, where torrent-get shows and torrent-remove expects its SHA-1.

**Bounds.** Two instances are the fewest that race and two transfers the fewest
that queue behind each other. One fault of any kind keeps the run short: with two
(a crash of each instance, a failing statement after a restart) the same
configuration has 2.4 million states instead of 1.6, and no property fails. `Earlier` is
empty in the runs of `Pipeline`, so that they check the unexcepted statements; with a
transfer in it (`Earlier = {t2}`, one instance, a seed ratio, two faults: 675,000
states; or two instances and one fault: 3.4 million, more than a run should take)
the same properties hold, and the theorems have them for any `Earlier`.
`StrandedByFaultsOnly` says more than two transfers can show: in the run it can
only fail with no fault at all. With three transfers and one instance (8.7 million
states) its bound is reached and two per fault would be refuted; the theorem has it
for all. `MaxFaults` bounds faults, `MaxTries` is the code's own 3,
`MaxRecords` bounds a service's history (3 records make three pages of 1, the
least in which one can be inserted between two others, and in which a service that
numbers from one has a page within the paging's reach behind the first). Two files
are the fewest of which one can be taken and one not, or one be open while the other
is closed; two faults let a download break and a service be out after it. Three files over two
slots is the least in which one waits while two interfere; one of the three has
no size. In `RemoteCleanup`, either transfer may have been completed or not, at first and
later, and three callers are enough for a third to act between two requests of each
other two. In `TorrentAdd` calls do not touch each other's state, so two suffice; two
folders and a file give the search every kind of answer. In `pipeline_liveness` the seed ratio makes the chain its longest; the shorter
one without it is in `pipeline_restart` and `pipeline_safety`. In `Listing`, two
faults let both callers' listings be partial at once, each in its own way, or one be partial after a broken download; the tree has every kind
of entry (a nested folder, a listed and an unlisted file, a single file at the
root), and the two transfers were created under one name.

**Fairness.** Each goroutine that can go on does (weak fairness per goroutine);
a `select` whose case stays ready again and again picks it at last, since Go
picks among ready cases at random (strong fairness of `DeliverResult` and
`AnnounceImported`); a listing is complete again and again (strong fairness of
`PollComplete`); a body ends or breaks, a request is answered or times out (also
one to Discord, though `http.Post` has no deadline), an outage ends. Nothing is assumed of crashes, panics, failing statements, the seedbox
or the *arr apps, and in `ImportWatch` not that a download ends. A body that stalls for ever is outside these assumptions: the
code's file client has no timeout, and then `Returns` and `ClaimReleased` fail;
so does `Returns` with `MAX_PARALLEL=0`, which the configuration allows.

## What is proved

TLAPS proves, for any set of instances, transfers and files and any number of
faults and slots:

- `PipelineProofs`: `TypeInvariance`, `ClaimIsExclusive`, `SettledStaysSettled`,
  `ImplementsLedger`, `WatcherIsUnique`, `ContentIsKept`, `CleanupAfterImport`,
  `SeedingIsHonoured`.
- `PipelineFateProofs`: `FaultsStrandAtMostThree` (of `StrandedByFaultsOnly`),
  `DownloadedStaysFollowed` (of `DownloadedIsFollowed`), `ImplementsLife` (of
  `LifeSpec`), and `DownloadIsContracted`, which is about one step and no run's
  property.
- `TransferDownloadProofs`: `DownloadTypes`, `FinishedMeansWhole`, `ReturnIsQuiet`,
  `ImplementsContract`.
- `RemoteCleanupProofs`: `CleanupTypes`, `DataIsLast`, `OnlyOnRequest`,
  `SuccessIsARemoval`, `ImplementsContract`.
- `TorrentAddProofs`: `AddTypes`, `RefusalsAddNothing`, `BadRequestsStayLocal`.
- `ListingProofs`: `ListingTypes`, `PathsAgree` (of `AdvertisedIsWritten`),
  `OutputsAreApart` (of `OnlyOwnOutput`), `UnbrokenListings`, `PathsSpellFolders`,
  for any file trees.
- `ImportWatchProofs`: `ImportTypes`, `DownloadsAreKept` (of `KeptUntilTaken`),
  `PagingEnds` (of `PagesExist`), `NothingIsOverlooked` (of `NoneOverlooked`), for
  any files, services, histories and page size, and either numbering of the pages.

*The pipeline.* `ExclusiveClaim` is stated so that it is inductive with `TypeOK`:
whoever works on a transfer is the one its row names (`HeldIsClaimed`), a
transfer is at one stage of its instance (`OneStage`), and a row is locked
exactly while it says downloading (`LockMatchesStatus`). The upsert's condition
and the last conjunct give that a claim succeeds only when nobody holds the
transfer; every later action moves the hold from stage to stage; the status
update ends it. That the update looks at no lock is then harmless, and
`SettledIsFinal` and the refinement of `ClaimLedger` follow step by step.
`OneWatcher` is inductive on top, since a watcher starts only where a hold ends.
`ContentKept` and `CleanupOnlyAfterImport` need what each goroutine relies on
while it carries a transfer: `ContentInv` says that a copied or finished
transfer is whole or was imported, up to the settling of its row; `ImportInv`
says that an announced import did happen. Both except the transfers of `Earlier`, any
set of them, and show that nothing that befalls those reaches another transfer.

*What becomes of a transfer.* A claim is an orphan when the row says downloading and
no goroutine holds the transfer. Of all steps only a crash and a failing status
update let go of what they hold without settling it; the first drops what the three
goroutines of one process carry, the second one event, and the number of orphans
follows by counting. That a downloaded transfer is followed needs `SeenInv`:
whatever is in a listing, being claimed or in the table was ready on the seedbox
once, so it does not become ready later than its watcher ended. `ImplementsLife`
maps the whole pipeline to the life of its transfers: the upsert is a `Claim` by
`SeenInv`, a download a `Write` by `ExclusiveClaim`, the status update a `Finish` by
`ContentInv`, the watcher's removal a `Discard` by `OneWatcher`, and both callers of
`CleanupTransfer` may `Clean` by `ImportInv`. All other steps stutter.

*One download.* `CopyInv` says that a file copied without error is whole unless
some file of the transfer is missing (`Wiped`), that an error stays with its
file until the errgroup has it, and that an outcome exists only over finished
goroutines. A nil group error then excludes a missing file and so a removal.
For the contract, `BeganInv` says that nothing comes to lie where nothing was when
the call began, as long as no file was opened, and that an opened file is there
until it fails or some file is missing.

*Remote cleanup.* `LoopInv` relates a call's listing to the seedbox: what its
loop is through with is gone, what its listing did not match is gone, data
is deleted only for a transfer that is gone, and of what its listing showed complete
and it is through with the data is gone too, when asked for. `ImplementsContract` uses it step by
step: a request takes away only what its call's loop is at, and the one that makes
the call a success finds everything that was asked for gone.

*Listing.* A partial listing makes `LocalName` see a different set of files, and
a different branch of it may apply. `PathInv` says why the result is the same
nevertheless: every path found, written or advertised starts with the stored name
of its transfer's root, so whichever branch derives a name derives that one. As
the root names of a folder differ, no transfer's output is under another's.
`WalkInv` says of a walk that every queued folder and every file found lies where
its path says, and that, unless a folder of the transfer failed, every file that is
not below a queued folder has been found. "Below" is stated with sets of nodes that
are closed under children, so that no induction over the tree is needed. When
nothing is queued any more, that is `UnbrokenIsWhole`.

*The import.* `CustodyInv` follows a file: once the attempt has closed it, it is
whole or was taken; what is taken stays so; every record of a file without an
earlier one stands for something taken. The watcher removes a file only on such a
record. `PagesExist` needs that pages are full as long as there is a next one, and
that histories only grow. `PagedInv` is why no record is overlooked: counted from
the oldest, a record keeps its number while newer ones come in at the head, so a
record that was there when the check began moves towards the pages to come, never
past them; what has been inspected of those is not the import, and a negative answer
is given only where the inspected ones reach the end. If the service numbers its pages
from one, the first page is inspected twice, and the paging ends one page early:
records beyond that are what `NoneOverlooked` excepts, and has to.

*torrent-add.* `CallInv` follows a call: past the checks it carries a torrent or a
lone magnet link, past the search its directory is a folder, and it has an answer
exactly once it is over.

Assumptions: the null values are not instances or transfers, `Seeding` and
`Discord` are Booleans, the bounds are naturals, `Earlier` are transfers (in
`ImportWatch` files), `FromOne` are services, `Files` is finite and not empty,
`MaxTries`, the page size and the numbers of files and services are positive,
cleanups and requests are different calls; in
`Listing`, children belong to their parent's transfer, the entries of one
folder have different names, and every node lies below a root. Each is
an `ASSUME` that the runs evaluate.

Only model-checked: all liveness (TLAPS does not handle fairness and ENABLED
here). Every invariant and action property the passing runs check is proved.

## Not modelled, and why

Deluge (the program cannot start with it: `initializeServices` and `setupServer`
need a Put.io client, and its transfers carry no status); telemetry, logging,
and the progress reader (no state depends on them); opening the
database; `GetDownloads` (never called); the graceful shutdown in `runMainLoop`,
which no running program reaches, since nothing cancels its context; durations;
how long the back-offs and the second before a restart take.

## Plan

Done, in this order: `ClaimLedger`, `Pipeline`, `PipelineProofs`,
`TransferDownload` and its proofs, `RemoteCleanup` and its proofs, `ImportWatch`,
`Listing` and its proofs, `TorrentAdd` and its proofs; then the download phase of
`ImportWatch` with its proofs, the proofs about the walk in `Listing`, and panics
and Discord messages in `Pipeline`; then the contracts of a download and of a
removal, `TransferLife`, and what becomes of claims and downloaded transfers.

Next:

1. That the listings `Pipeline` takes are those of `Listing`, as a refinement of a
   small contract like that of a download.
2. An *arr app as an actor across `TorrentAdd`, `Listing` and `RemoteCleanup`: it
   adds, waits, imports and removes what torrent-get shows it. Most of such a
   module would be external to the repository.

The set of runs is kept small on purpose: a new module replaces or merges a run
whose question another one answers already.
