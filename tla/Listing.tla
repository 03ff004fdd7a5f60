------------------------------- MODULE Listing -------------------------------
(***************************************************************************)
(* From the account's file trees to two paths that must agree: the one the *)
(* downloader writes and the one torrent-get advertises.  The orchestrator *)
(* and the RPC handler call GetTaggedTorrents each for itself; every call  *)
(* is a series of requests, any of which may fail, while the seedbox       *)
(* completes transfers and loses files.  Both paths come from LocalName,   *)
(* each applied to what its own listing happened to find.                  *)
(***************************************************************************)
EXTENDS Naturals, Sequences

CONSTANTS Transfers,    \* the transfers saved in the label's folder
          Nodes,        \* their files and folders on the account
          Names,
          Root,         \* Root[t]: the node that FileID names once t is complete
          Home,         \* Home[n]: the transfer that n belongs to
          Children,     \* Children[n]: the entries of folder n
          Kind,         \* Kind[n]: folder, a listed file type, or any other type
          NodeName,     \* the names the seedbox stored
          TransferName, \* the name the transfer was created with
          NoTransfer,   \* a null value
          MaxFaults     \* bound: failed requests, broken downloads, deleted nodes

Callers == {"poll", "rpc"}

ASSUME RootAssumption ==
  /\ Root \in [Transfers -> Nodes]
  /\ Home \in [Nodes -> Transfers]
  /\ \A t \in Transfers : Home[Root[t]] = t
\* Sets of nodes that hold all that lies below their members.
Closed(S) == \A n \in S : Children[n] \subseteq S

\* Every node lies in the tree below a root.
ASSUME TreeAssumption ==
  /\ Kind \in [Nodes -> {"folder", "file", "other"}]
  /\ Children \in [Nodes -> SUBSET Nodes]
  /\ \A n \in Nodes : \A m \in Children[n] :
       Home[m] = Home[n] /\ Kind[n] = "folder" /\ \A t \in Transfers : m # Root[t]
  /\ \A S \in SUBSET Nodes :
       Closed(S) /\ (\A t \in Transfers : Root[t] \in S) => S = Nodes
\* A folder's entries have different names: what collides gets a suffix.
ASSUME NamesAssumption ==
  /\ NodeName \in [Nodes -> Names]
  /\ TransferName \in [Transfers -> Names]
  /\ \A t, u \in Transfers : NodeName[Root[t]] = NodeName[Root[u]] => t = u
  /\ \A n \in Nodes : \A a, b \in Children[n] : NodeName[a] = NodeName[b] => a = b
ASSUME NullAssumption   == NoTransfer \notin Transfers
ASSUME FaultsAssumption == MaxFaults \in Nat

VARIABLES
  complete,   \* the transfers with a FileID
  present,    \* the nodes that still exist
  pc,         \* pc[c]: where the caller is
  snap,       \* snap[c]: of Transfers.List's answer, the complete ones
  todo,       \* todo[c]: the transfers the loop has yet to look at
  cur,        \* cur[c]: the transfer whose tree is walked
  folders,    \* folders[c]: what getFilesRecursively has yet to visit, with its base path
  listed,     \* listed[c]: torrents
  found,      \* found[c]: the Files of all of them
  broken,     \* broken[c]: the transfers of which a folder could not be read
  status,     \* the downloads table
  disk,       \* the files in DOWNLOAD_DIR
  advertised, \* the last answer to torrent-get
  faults

worldVars == <<complete, present>>
callVars  == <<pc, snap, todo, cur, folders, listed, found, broken>>
vars == <<worldVars, callVars, status, disk, advertised, faults>>

\* A relative path, split at its separators.
Paths   == Seq(Names) \ {<<>>}
File    == [of : Transfers, node : Nodes, path : Paths]
Visit   == [node : Nodes, path : Paths]
Advert  == [of : Transfers, name : Paths, derived : BOOLEAN, fetched : BOOLEAN]

TypeOK ==
  /\ complete \subseteq Transfers
  /\ present \subseteq Nodes
  /\ pc \in [Callers -> {"idle", "next", "walk", "batch"}]
  /\ snap \in [Callers -> SUBSET Transfers]
  /\ todo \in [Callers -> SUBSET Transfers]
  /\ cur \in [Callers -> Transfers \cup {NoTransfer}]
  /\ folders \in [Callers -> SUBSET Visit]
  /\ listed \in [Callers -> SUBSET Transfers]
  /\ found \in [Callers -> SUBSET File]
  /\ broken \in [Callers -> SUBSET Transfers]
  /\ status \in [Transfers -> {"open", "downloaded", "missing"}]
  /\ disk \subseteq File
  /\ advertised \subseteq Advert
  /\ faults \in 0 .. MaxFaults

Init ==
  /\ complete = {}
  /\ present = Nodes
  /\ pc = [c \in Callers |-> "idle"]
  /\ snap = [c \in Callers |-> {}]
  /\ todo = [c \in Callers |-> {}]
  /\ cur = [c \in Callers |-> NoTransfer]
  /\ folders = [c \in Callers |-> {}]
  /\ listed = [c \in Callers |-> {}]
  /\ found = [c \in Callers |-> {}]
  /\ broken = [c \in Callers |-> {}]
  /\ status = [t \in Transfers |-> "open"]
  /\ disk = {}
  /\ advertised = {}
  /\ faults = 0

Fault == faults < MaxFaults /\ faults' = faults + 1

\* A request for one of the nodes N fails: it must if one is gone.
FailsFor(N) == IF N \subseteq present THEN Fault ELSE UNCHANGED faults

-----------------------------------------------------------------------------
(* The account.                                                            *)

\* A transfer completes: its files can be discovered.
SeedboxCompletes(t) ==
  /\ t \notin complete
  /\ complete' = complete \cup {t}
  /\ UNCHANGED <<present, callVars, status, disk, advertised, faults>>

\* Someone deletes a file, or a folder once it is empty.
LoseNode(n) ==
  /\ n \in present
  /\ Home[n] \in complete
  /\ Children[n] \cap present = {}
  /\ Fault
  /\ present' = present \ {n}
  /\ UNCHANGED <<complete, callVars, status, disk, advertised>>

-----------------------------------------------------------------------------
(* LocalName                                                               *)

\* A single file with no separator in its path.
IsBareFile(F) == \E f \in F : F = {f} /\ Len(f.path) = 1

\* Every file lies beneath one shared leading segment.
SharesRoot(F) ==
  /\ F # {}
  /\ \A f, g \in F : Len(f.path) > 1 /\ f.path[1] = g.path[1]

Derived(F) == IsBareFile(F) \/ SharesRoot(F)

\* Mutants of LocalName: a single file is its own entry wherever it lies; the
\* transfer's name is used throughout, as it was before.
LocalNameOfSingle(t, F) ==
  IF \E f \in F : F = {f} THEN (CHOOSE f \in F : TRUE).path
  ELSE IF SharesRoot(F) THEN <<(CHOOSE f \in F : TRUE).path[1]>>
  ELSE <<TransferName[t]>>
LocalNameFromTransfer(t, F) == <<TransferName[t]>>

LocalName(t, F) ==
  IF Derived(F) THEN <<(CHOOSE f \in F : TRUE).path[1]>> ELSE <<TransferName[t]>>

\* What the name, joined to DOWNLOAD_DIR, holds.
Under(name, path) ==
  Len(name) <= Len(path) /\ \A i \in 1 .. Len(name) : path[i] = name[i]

-----------------------------------------------------------------------------
(* GetTaggedTorrents and getFilesRecursively.                              *)

\* Transfers.List answers.  (If it fails, the call ends with nothing done.)
ListTransfers(c) ==
  /\ pc[c] = "idle"
  /\ pc' = [pc EXCEPT ![c] = "next"]
  /\ snap' = [snap EXCEPT ![c] = complete]
  /\ todo' = [todo EXCEPT ![c] = Transfers]
  /\ UNCHANGED <<cur, folders, listed, found, broken, worldVars, status, disk, advertised, faults>>

\* A request for the parent folder or the transfer's root fails: left out.
SkipTransfer(c, t) ==
  /\ pc[c] = "next"
  /\ t \in todo[c]
  /\ FailsFor(IF t \in snap[c] THEN {Root[t]} ELSE {})
  /\ todo' = [todo EXCEPT ![c] = @ \ {t}]
  /\ UNCHANGED <<pc, snap, cur, folders, listed, found, broken, worldVars, status, disk, advertised>>

\* An unfinished transfer is listed without files.
ListUnfinished(c, t) ==
  /\ pc[c] = "next"
  /\ t \in todo[c] \ snap[c]
  /\ todo' = [todo EXCEPT ![c] = @ \ {t}]
  /\ listed' = [listed EXCEPT ![c] = @ \cup {t}]
  /\ UNCHANGED <<pc, snap, cur, folders, found, broken, worldVars, status, disk, advertised, faults>>

\* Mutant of RootPath: the base path leaves the root's own name out.
RootPathEmpty(t) == <<>>

\* getFilesRecursively starts with the root's own name.
RootPath(t) == <<NodeName[Root[t]]>>

\* A complete transfer whose root answers: its walk begins.
StartWalk(c, t) ==
  /\ pc[c] = "next"
  /\ t \in todo[c] \cap snap[c]
  /\ Root[t] \in present
  /\ pc' = [pc EXCEPT ![c] = "walk"]
  /\ todo' = [todo EXCEPT ![c] = @ \ {t}]
  /\ cur' = [cur EXCEPT ![c] = t]
  /\ folders' = [folders EXCEPT ![c] = {[node |-> Root[t], path |-> RootPath(t)]}]
  /\ UNCHANGED <<snap, listed, found, broken, worldVars, status, disk, advertised, faults>>

\* The root is a file, of whatever type.
VisitFile(c, v) ==
  /\ pc[c] = "walk"
  /\ v \in folders[c]
  /\ v.node \in present
  /\ Kind[v.node] # "folder"
  /\ folders' = [folders EXCEPT ![c] = @ \ {v}]
  /\ found' = [found EXCEPT ![c] = @ \cup {[of |-> cur[c], node |-> v.node, path |-> v.path]}]
  /\ UNCHANGED <<pc, snap, todo, cur, listed, broken, worldVars, status, disk, advertised, faults>>

\* Mutant of Join: the nesting is lost below the root.
JoinToRoot(base, n) == <<base[1], NodeName[n]>>

Join(base, n) == Append(base, NodeName[n])

\* Mutant of Nested: folders within folders are not walked.
NestedNone(n, S) == {}

\* Of the entries S of folder n, those getFilesRecursively recurses into.
Nested(n, S) == {m \in S : Kind[m] = "folder"}

\* A folder answers with the entries it has now.
VisitFolder(c, v) ==
  LET S == Children[v.node] \cap present IN
  /\ pc[c] = "walk"
  /\ v \in folders[c]
  /\ v.node \in present
  /\ Kind[v.node] = "folder"
  /\ folders' = [folders EXCEPT ![c] =
       (@ \ {v}) \cup {[node |-> m, path |-> Join(v.path, m)] : m \in Nested(v.node, S)}]
  /\ found' = [found EXCEPT ![c] =
       @ \cup {[of |-> cur[c], node |-> m, path |-> Join(v.path, m)] :
                 m \in {k \in S : Kind[k] = "file"}}]
  /\ UNCHANGED <<pc, snap, todo, cur, listed, broken, worldVars, status, disk, advertised, faults>>

\* A request fails, or the node is gone: a nested folder is skipped, and a root
\* leaves the transfer without files.
VisitFails(c, v) ==
  /\ pc[c] = "walk"
  /\ v \in folders[c]
  /\ FailsFor({v.node})
  /\ folders' = [folders EXCEPT ![c] = @ \ {v}]
  /\ broken' = [broken EXCEPT ![c] = @ \cup {cur[c]}]
  /\ UNCHANGED <<pc, snap, todo, cur, listed, found, worldVars, status, disk, advertised>>

\* The walk is over and the transfer is listed.
EndWalk(c) ==
  /\ pc[c] = "walk"
  /\ folders[c] = {}
  /\ pc' = [pc EXCEPT ![c] = "next"]
  /\ listed' = [listed EXCEPT ![c] = @ \cup {cur[c]}]
  /\ cur' = [cur EXCEPT ![c] = NoTransfer]
  /\ UNCHANGED <<snap, todo, folders, found, broken, worldVars, status, disk, advertised, faults>>

List(c) ==
  \/ ListTransfers(c)
  \/ \E t \in Transfers : SkipTransfer(c, t) \/ ListUnfinished(c, t) \/ StartWalk(c, t)
  \/ \E v \in folders[c] : VisitFile(c, v) \/ VisitFolder(c, v) \/ VisitFails(c, v)
  \/ EndWalk(c)

FilesOf(c, t) == {f \in found[c] : f.of = t}

\* The caller is done with its listing.
Forget(c) ==
  /\ pc' = [pc EXCEPT ![c] = "idle"]
  /\ snap' = [snap EXCEPT ![c] = {}]
  /\ todo' = [todo EXCEPT ![c] = {}]
  /\ listed' = [listed EXCEPT ![c] = {}]
  /\ found' = [found EXCEPT ![c] = {}]
  /\ broken' = [broken EXCEPT ![c] = {}]
  /\ UNCHANGED <<cur, folders>>

-----------------------------------------------------------------------------
(* handleTorrentGet                                                        *)

Advertise ==
  /\ pc["rpc"] = "next"
  /\ todo["rpc"] = {}
  /\ advertised' = {[of       |-> t,
                     name     |-> LocalName(t, FilesOf("rpc", t)),
                     derived  |-> Derived(FilesOf("rpc", t)),
                     fetched  |-> t \in snap["rpc"]] : t \in listed["rpc"]}
  /\ Forget("rpc")
  /\ UNCHANGED <<worldVars, status, disk, faults>>

-----------------------------------------------------------------------------
(* watchTransfers and DownloadTransfer, one transfer after the other.      *)

\* The transfers that pass IsAvailable and IsDownloadable.
StartBatch ==
  /\ pc["poll"] = "next"
  /\ todo["poll"] = {}
  /\ pc' = [pc EXCEPT !["poll"] = "batch"]
  /\ todo' = [todo EXCEPT !["poll"] =
       {t \in listed["poll"] \cap snap["poll"] : FilesOf("poll", t) # {}}]
  /\ UNCHANGED <<snap, cur, folders, listed, found, broken, worldVars, status, disk, advertised, faults>>

\* Files W are created where their paths say, over whatever was there.
Write(D, W) == {d \in D : \A f \in W : f.path # d.path} \cup W

Taken(t) ==
  /\ pc["poll"] = "batch"
  /\ t \in todo["poll"]
  /\ todo' = [todo EXCEPT !["poll"] = @ \ {t}]
  /\ UNCHANGED <<pc, snap, cur, folders, listed, found, broken, worldVars, advertised>>

\* A settled transfer is not claimed again.
PassSettled(t) ==
  /\ status[t] # "open"
  /\ Taken(t)
  /\ UNCHANGED <<status, disk, faults>>

DownloadWhole(t) ==
  /\ status[t] = "open"
  /\ Taken(t)
  /\ \A f \in FilesOf("poll", t) : f.node \in present
  /\ disk' = Write(disk, FilesOf("poll", t))
  /\ status' = [status EXCEPT ![t] = "downloaded"]
  /\ UNCHANGED faults

\* What removeLocalOutput reaches: nothing, if no name can be derived.
LocalOutput(t, F) ==
  {d \in disk : Derived(F) /\ Under(LocalName(t, F), d.path)}

\* Some files are written, not all; the transfer can be claimed again.  The first
\* error cancels the others' lookups, which count as missing files and remove the
\* local output too.
DownloadBreaks(t) ==
  LET F == FilesOf("poll", t)
      Cancelled == \E f, g \in F : f # g
  IN
  /\ status[t] = "open"
  /\ Taken(t)
  /\ Fault
  /\ \E R \in SUBSET LocalOutput(t, F), W \in SUBSET F :
       /\ R # {} => Cancelled
       /\ disk' = Write(disk \ R, W)
  /\ UNCHANGED status

\* A file is missing: removeLocalOutput, which may fail half-way; what other
\* goroutines write beside it stays.
FilesMissing(t) ==
  LET F == FilesOf("poll", t) IN
  /\ status[t] = "open"
  /\ Taken(t)
  /\ FailsFor({f.node : f \in F})
  /\ \E R \in SUBSET LocalOutput(t, F), W \in SUBSET F : disk' = Write(disk \ R, W)
  /\ status' = [status EXCEPT ![t] = "missing"]

EndBatch ==
  /\ pc["poll"] = "batch"
  /\ todo["poll"] = {}
  /\ Forget("poll")
  /\ UNCHANGED <<worldVars, status, disk, advertised, faults>>

Next ==
  \/ \E t \in Transfers :
       \/ SeedboxCompletes(t)
       \/ PassSettled(t) \/ DownloadWhole(t) \/ DownloadBreaks(t) \/ FilesMissing(t)
  \/ \E n \in Nodes : LoseNode(n)
  \/ \E c \in Callers : List(c)
  \/ Advertise
  \/ StartBatch
  \/ EndBatch

Spec == Init /\ [][Next]_vars

-----------------------------------------------------------------------------
\* Whatever the two listings left out, a name derived for torrent-get is that
\* of the one entry of DOWNLOAD_DIR under which everything written for the
\* transfer lies, before and after the answer.
AdvertisedIsWritten ==
  \A a \in advertised, d \in disk :
    a.derived /\ a.of = d.of => Under(a.name, d.path)

\* A file vanishes from DOWNLOAD_DIR, removed or overwritten, only while its own
\* transfer is downloaded: no transfer's output is under another's name, although
\* the transfers themselves may be named alike.
OnlyOwnOutput ==
  [][\A d \in disk \ disk' : d.of \in todo["poll"] \ todo'["poll"]]_vars

\* What a listing should name: a file of a listed type, or the root itself.
IsFileOf(n, t) ==
  Home[n] = t /\ (Kind[n] = "file" \/ (n = Root[t] /\ Kind[n] # "folder"))

\* A listing names every file of a transfer that is there, unless a request for
\* one of its folders failed.
UnbrokenIsWhole ==
  \A c \in Callers : \A t \in (listed[c] \cap snap[c]) \ broken[c] :
    \A n \in present : IsFileOf(n, t) => \E f \in FilesOf(c, t) : f.node = n

\* The chain of folders from the root to n that path spells out.
Spells(path, n) ==
  \E q \in [1 .. Len(path) -> {m \in Nodes : Home[m] = Home[n]}] :
    /\ q[1] = Root[Home[n]] /\ q[Len(path)] = n
    /\ \A i \in 1 .. Len(path) : NodeName[q[i]] = path[i]
    /\ \A i \in 1 .. Len(path) - 1 : q[i + 1] \in Children[q[i]]

\* A file's path is where the seedbox has it.
PathsInTree ==
  \A c \in Callers : \A f \in found[c] : f.of = Home[f.node] /\ Spells(f.path, f.node)

\* Why the first two hold: every path starts with the stored name of its
\* transfer's root, whatever part of the tree was found.
PathInv ==
  /\ \A c \in Callers :
       /\ pc[c] = "walk" => cur[c] \in Transfers
       /\ \A v \in folders[c] : pc[c] = "walk" /\ v.path[1] = NodeName[Root[cur[c]]]
       /\ \A f \in found[c] : f.path[1] = NodeName[Root[f.of]]
  /\ \A d \in disk : d.path[1] = NodeName[Root[d.of]]
  /\ \A a \in advertised : a.derived => a.name = <<NodeName[Root[a.of]]>>

\* Why the other two hold: a folder waiting to be visited is in the transfer's
\* tree where its path says, and a file that is there and not found yet lies
\* below one of those (so in every closed set that holds them all).
WalkInv ==
  /\ \A n \in Nodes : Children[n] \cap present # {} => n \in present
  /\ \A c \in Callers : pc[c] = "idle" => listed[c] = {}
  /\ \A c \in Callers : pc[c] = "walk" =>
       /\ \A v \in folders[c] : Home[v.node] = cur[c] /\ Spells(v.path, v.node)
       /\ cur[c] \notin broken[c] =>
            \A S \in SUBSET Nodes :
              Closed(S) /\ (\A v \in folders[c] : v.node \in S) =>
                \A n \in present \ S :
                  IsFileOf(n, cur[c]) => \E f \in FilesOf(c, cur[c]) : f.node = n
  /\ UnbrokenIsWhole
  /\ PathsInTree

\* "Whatever path we advertise over RPC must be a path that exists on disk", of
\* the downloaded transfers that the answer's own listing showed with a FileID.
AdvertisedExists ==
  \A a \in advertised :
    a.fetched /\ status[a.of] = "downloaded" =>
      \E d \in disk : d.of = a.of /\ Under(a.name, d.path)
=============================================================================
