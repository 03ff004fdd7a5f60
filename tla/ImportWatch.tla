----------------------------- MODULE ImportWatch -----------------------------
(***************************************************************************)
(* One transfer's files from their download to their import.  The *arr     *)
(* apps take what they find, as soon as they find it: torrent-get calls a  *)
(* transfer finished when the seedbox is, not when the download is.  Once  *)
(* it is, WatchForImported ticks, checkForImported asks each *arr service  *)
(* about each file, and CheckImported pages through that service's         *)
(* history.  Every page is a request of its own, and the services go on    *)
(* recording between two of them.                                          *)
(***************************************************************************)
EXTENDS Naturals, Sequences

CONSTANTS NumFiles,    \* files of the transfer, in the listing's order
          NumServices, \* *arr clients: 1 is Sonarr, 2 is Radarr
          Configured,  \* the services that have an address
          Earlier,     \* files whose path an earlier import already recorded
          FromOne,     \* services that number the pages of their history from one
          PageSize,    \* pageSize=1000
          MaxRecords,  \* bound: records of one service
          MaxFaults    \* bound: outages of a service, failed downloads and removals

Files    == 1 .. NumFiles
Services == 1 .. NumServices

ASSUME SizesAssumption ==
  {NumFiles, NumServices, PageSize, MaxRecords} \subseteq Nat \ {0} /\ MaxFaults \in Nat
ASSUME ServicesAssumption ==
  Configured \cup FromOne \subseteq Services /\ Earlier \subseteq Files

VARIABLES
  pc,              \* downloading; the watcher between ticks, in a request, removing, over
  writing,         \* writing[f]: the attempt has not begun f, has it open, has closed it
  file, svc,       \* checkForImported's loops
  page, inspected, \* CheckImported's
  held,            \* history variable: the records svc had when CheckImported began
  history,         \* history[s]: the records of s, newest first; 0 is any other
  up,              \* the services that answer
  taken,           \* taken[f]: how much of f an *arr app took for this transfer
  disk,            \* disk[f]: how much of f is on disk
  faults

watcherVars == <<pc, file, svc, page, inspected, held>>
arrVars     == <<history, up, taken>>
vars == <<watcherVars, writing, arrVars, disk, faults>>

Record == {0} \cup Files

Contents == {"none", "partial", "whole"}

TypeOK ==
  /\ pc \in {"downloading", "waiting", "request", "remove", "announced"}
  /\ writing \in [Files -> {"todo", "open", "done"}]
  /\ file \in Files
  /\ svc \in Services
  /\ page \in Nat
  /\ inspected \in Nat
  /\ held \in Nat
  /\ history \in [Services -> Seq(Record)]
  /\ \A s \in Services : Len(history[s]) <= MaxRecords
  /\ up \subseteq Configured
  /\ taken \in [Files -> Contents]
  /\ disk \in [Files -> Contents]
  /\ faults \in 0 .. MaxFaults

\* The transfer was just claimed.
Init ==
  /\ pc = "downloading"
  /\ writing = [f \in Files |-> "todo"]
  /\ file = 1 /\ svc = 1
  /\ page = 0 /\ inspected = 0 /\ held = 0
  /\ history \in [Services -> {<<>>} \cup {<<f>> : f \in Earlier}]
  /\ up = Configured
  /\ taken = [f \in Files |-> "none"]
  /\ disk = [f \in Files |-> "none"]
  /\ faults = 0

Fault == faults < MaxFaults /\ faults' = faults + 1

-----------------------------------------------------------------------------
(* The download, attempt after attempt.                                    *)

\* GrabFile hands back a body, and os.Create truncates what is there.
CreateFile(f) ==
  /\ pc = "downloading"
  /\ writing[f] = "todo"
  /\ writing' = [writing EXCEPT ![f] = "open"]
  /\ disk' = [disk EXCEPT ![f] = "partial"]
  /\ UNCHANGED <<watcherVars, arrVars, faults>>

\* The whole body is copied and the file closed.  What an *arr app moved away
\* under the open handle stays away, and a copy it took stays what it was.
CloseFile(f) ==
  /\ pc = "downloading"
  /\ writing[f] = "open"
  /\ writing' = [writing EXCEPT ![f] = "done"]
  /\ disk' = [disk EXCEPT ![f] = IF @ = "partial" THEN "whole" ELSE @]
  /\ UNCHANGED <<watcherVars, arrVars, faults>>

\* A file fails and the attempt with it; a short one is removed, if it can be.
\* The transfer is claimed again, and every file downloaded anew.
DownloadBreaks ==
  /\ pc = "downloading"
  /\ Fault
  /\ writing' = [f \in Files |-> "todo"]
  /\ \/ disk' = disk
     \/ \E f \in Files : writing[f] = "open" /\ disk' = [disk EXCEPT ![f] = "none"]
  /\ UNCHANGED <<watcherVars, arrVars>>

Downloaded == \A f \in Files : writing[f] = "done"

\* DownloadTransfer returns without an error, and the watcher starts.
StartWatch ==
  /\ pc = "downloading"
  /\ Downloaded
  /\ pc' = "waiting"
  /\ UNCHANGED <<writing, file, svc, page, inspected, held, arrVars, disk, faults>>

Download ==
  \/ \E f \in Files : CreateFile(f) \/ CloseFile(f)
  \/ DownloadBreaks
  \/ StartWatch

-----------------------------------------------------------------------------
(* The watcher.                                                            *)

\* CheckImported starts for file f at service s.
Ask(f, s) ==
  /\ file' = f /\ svc' = s
  /\ page' = 0 /\ inspected' = 0
  /\ held' = Len(history[s])

Tick ==
  /\ pc = "waiting"
  /\ pc' = "request"
  /\ Ask(1, 1)
  /\ UNCHANGED <<writing, arrVars, disk, faults>>

\* How many records lie before the page.  CheckImported asks for page 0 first; to a
\* service that counts from one, page 0 and page 1 are both the first.
Start ==
  IF svc \in FromOne /\ page > 0 THEN (page - 1) * PageSize ELSE page * PageSize

\* What the service answers to the request for the page.
Records ==
  LET last  == Start + PageSize
      total == Len(history[svc])
  IN  SubSeq(history[svc], Start + 1, IF last <= total THEN last ELSE total)

\* Mutant of IsImport: any record of the transfer's is good enough.
IsImportOfAny(r) == r # 0

\* A downloadFolderImported record whose droppedPath is the file's.
IsImport(r) == r = file

\* Mutant of HasMore: the last record is left out.
HasMoreShort(total, n) == total > n + 1

\* Mutant of HasMore: one page too many.
HasMoreOff(total, n) == total >= n

HasMore(total, n) == total > n

\* The page holds the import: checkForImported removes the file next.
FindImport ==
  /\ pc = "request"
  /\ svc \in up
  /\ \E k \in DOMAIN Records : IsImport(Records[k])
  /\ pc' = "remove"
  /\ UNCHANGED <<writing, file, svc, page, inspected, held, arrVars, disk, faults>>

\* It does not, and there are more records than were inspected.
TurnPage ==
  /\ pc = "request"
  /\ svc \in up
  /\ \A k \in DOMAIN Records : ~IsImport(Records[k])
  /\ HasMore(Len(history[svc]), inspected + Len(Records))
  /\ inspected' = inspected + Len(Records)
  /\ page' = page + 1
  /\ UNCHANGED <<pc, writing, file, svc, held, arrVars, disk, faults>>

\* Mutant of AskNext: one negative answer ends the check.
AskNextNever ==
  pc' = "waiting" /\ UNCHANGED <<file, svc, page, inspected, held>>

\* Mutant of AskNext: the loop over the services runs one too far.
AskNextUnbounded ==
  \/ svc <= NumServices /\ svc' = svc + 1 /\ UNCHANGED <<pc, file, page, inspected, held>>
  \/ svc > NumServices /\ pc' = "waiting" /\ UNCHANGED <<file, svc, page, inspected, held>>

\* The loops go on to the next service, the next file, or the next tick.
AskNext ==
  \/ svc < NumServices /\ Ask(file, svc + 1) /\ pc' = pc
  \/ svc = NumServices /\ file < NumFiles /\ Ask(file + 1, 1) /\ pc' = pc
  \/ /\ svc = NumServices /\ file = NumFiles
     /\ pc' = "waiting"
     /\ UNCHANGED <<file, svc, page, inspected, held>>

\* It does not, and was the last page.
NotImported ==
  /\ pc = "request"
  /\ svc \in up
  /\ \A k \in DOMAIN Records : ~IsImport(Records[k])
  /\ ~HasMore(Len(history[svc]), inspected + Len(Records))
  /\ AskNext
  /\ UNCHANGED <<writing, arrVars, disk, faults>>

\* No answer, or none with status 200: the whole check is over until the next
\* tick.
RequestFails ==
  /\ pc = "request"
  /\ svc \notin up
  /\ pc' = "waiting"
  /\ UNCHANGED <<writing, file, svc, page, inspected, held, arrVars, disk, faults>>

\* The file is removed (it may be gone already), and the watcher announces the
\* transfer as imported and ends.
RemoveFile ==
  /\ pc = "remove"
  /\ disk' = [disk EXCEPT ![file] = "none"]
  /\ pc' = "announced"
  /\ UNCHANGED <<writing, file, svc, page, inspected, held, arrVars, faults>>

RemoveFails ==
  /\ pc = "remove"
  /\ Fault
  /\ pc' = "waiting"
  /\ UNCHANGED <<writing, file, svc, page, inspected, held, arrVars, disk>>

Watcher ==
  \/ Tick
  \/ FindImport \/ TurnPage \/ NotImported \/ RequestFails
  \/ RemoveFile \/ RemoveFails

-----------------------------------------------------------------------------
(* The *arr apps.                                                          *)

Prepend(s, r) ==
  /\ s \in up
  /\ Len(history[s]) < MaxRecords
  /\ history' = [history EXCEPT ![s] = <<r>> \o @]

\* An *arr app imports what it finds of a file, copying it or moving it away,
\* and records it.  (Its library is on another file system: within one, a file
\* moved while it is written would still be completed, at its new place.)
ArrImports(s, f) ==
  /\ disk[f] # "none" /\ taken[f] = "none"
  /\ Prepend(s, f)
  /\ taken' = [taken EXCEPT ![f] = disk[f]]
  /\ \E left \in {disk[f], "none"} : disk' = [disk EXCEPT ![f] = left]
  /\ UNCHANGED <<watcherVars, writing, up, faults>>

\* It records something else.
ArrRecords(s) ==
  /\ Prepend(s, 0)
  /\ UNCHANGED <<watcherVars, writing, up, taken, disk, faults>>

Outage(s) ==
  /\ s \in up
  /\ Fault
  /\ up' = up \ {s}
  /\ UNCHANGED <<watcherVars, writing, history, taken, disk>>

Recover(s) ==
  /\ s \in Configured \ up
  /\ up' = up \cup {s}
  /\ UNCHANGED <<watcherVars, writing, history, taken, disk, faults>>

Next ==
  \/ Download
  \/ Watcher
  \/ \E s \in Services :
       \/ \E f \in Files : ArrImports(s, f)
       \/ ArrRecords(s)
       \/ Outage(s) \/ Recover(s)

Spec == Init /\ [][Next]_vars

\* The ticker ticks, requests end, and outages do.
FairSpec == Spec /\ WF_vars(Watcher) /\ \A s \in Services : WF_vars(Recover(s))

-----------------------------------------------------------------------------
\* What was downloaded stays on disk, whole, until an *arr app has taken the very
\* file ("ours to delete only once this has happened"): no retry truncates it,
\* no record of another file removes it.  Only the record of an earlier import
\* under the same path can.
KeptUntilTaken ==
  pc # "downloading" =>
    \A f \in Files \ Earlier : disk[f] = "whole" \/ taken[f] # "none"

\* CheckImported never asks for a page behind the last record, however the
\* history grows between two pages, and so its unbounded loop ends.
PagesExist ==
  pc = "request" =>
    /\ inspected = page * PageSize
    /\ page > 0 => inspected < Len(history[svc])

\* CheckImported gets to record k of s, however many pages there are: if s counts
\* them from one, only with a page of older records behind it.
Reachable(s, k) == s \in FromOne => Len(history[s]) - k >= PageSize

\* A negative answer is never wrong about what was there when it was asked for:
\* none of the records the service held when CheckImported began is the file's
\* import, though all of them may have moved down by whole pages since.  Only of a
\* service that counts its pages from one, and fills more than one, the oldest page
\* is out of sight.
NoneOverlooked ==
  [][NotImported =>
       \A k \in DOMAIN history[svc] :
         /\ Len(history[svc]) - k < held
         /\ Reachable(svc, k) \/ Len(history[svc]) <= PageSize
         => history[svc][k] # file]_vars

\* An import is noticed at last, also one made while the download still ran,
\* wherever in the history its record is and whichever service holds it, once
\* the download and the outages are over.  (Where pages are counted from one, that
\* the record is not on the oldest of them has to be asked for.)
ImportNoticed ==
  (/\ pc # "downloading"
   /\ \E s \in Services : \E k \in DOMAIN history[s] : history[s][k] # 0 /\ Reachable(s, k))
    ~> pc = "announced"

\* Why KeptUntilTaken holds: what the attempt has closed is whole or taken, and
\* what a history says of a file, the watcher may rely on.
CustodyInv ==
  /\ \A f \in Files :
       /\ writing[f] = "open" => disk[f] = "partial" \/ taken[f] # "none"
       /\ writing[f] = "done" /\ f \notin Earlier => disk[f] = "whole" \/ taken[f] # "none"
  /\ \A s \in Services : \A k \in DOMAIN history[s] :
       history[s][k] \in Files \ Earlier => taken[history[s][k]] # "none"
  /\ pc = "remove" => file \in Earlier \/ taken[file] # "none"
  /\ pc # "downloading" => Downloaded

\* Why NoneOverlooked holds: growing at its head moves a record towards the pages
\* not yet inspected, never past them, so that what was there and lies before the
\* page is not the import.
PagedInv ==
  pc = "request" =>
    /\ held <= Len(history[svc])
    /\ \A k \in DOMAIN history[svc] :
         k <= Start /\ Len(history[svc]) - k < held => history[svc][k] # file

\* "Ours to delete only once this has happened": no file that is whole on disk goes
\* but to, or after, an *arr app that took all of it.
DeletedWasTaken ==
  [][\A f \in Files : disk[f] = "whole" /\ disk'[f] = "none" => taken'[f] = "whole"]_vars
=============================================================================
