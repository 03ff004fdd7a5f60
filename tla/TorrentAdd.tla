------------------------------ MODULE TorrentAdd ------------------------------
(***************************************************************************)
(* torrent-add over RPC: what a request carries is checked, the label is   *)
(* searched for on the account, and the transfer is created in the folder  *)
(* the search came up with.  The two requests to Put.io may fail, the      *)
(* second one also after it took effect; other calls and the owner of the  *)
(* account get in between.  Whether the folder bears the label's name, as  *)
(* GetTaggedTorrents asks of it later, the search does not look at.        *)
(***************************************************************************)
CONSTANTS Calls,    \* calls of handleTorrentAdd
          Entries,  \* what a search for the label may come up with
          Folders,  \* those that are folders
          Top,      \* directory ID 0
          NoEntry   \* a null value

ASSUME EntriesAssumption == Folders \subseteq Entries
ASSUME NullAssumption    == Top \notin Entries /\ NoEntry \notin Entries \cup {Top}

\* What metainfo holds: nothing, no base64, more than maxTorrentSize, no
\* dictionary with an info field, or a torrent; and is there a magnet link.
Requests ==
  [metainfo : {"none", "encoding", "large", "malformed", "torrent"}, magnet : BOOLEAN]

Answers  == {"added", "invalid", "directory", "upload", "error"}

VARIABLES
  labelled, \* is TARGET_LABEL configured
  pc,       \* pc[c]: the next request of call c
  req,      \* req[c]: what c was called with
  parent,   \* parent[c]: dirID
  answer,   \* answer[c]: the response's kind
  saved,    \* saved[c]: the folder of the transfer that c created
  strays,   \* the calls that left an uploaded file and no transfer
  there     \* the entries that still exist

callVars == <<pc, req, parent, answer>>
vars == <<labelled, callVars, saved, strays, there>>

TypeOK ==
  /\ labelled \in BOOLEAN
  /\ pc \in [Calls -> {"idle", "search", "create", "created", "answered"}]
  /\ req \in [Calls -> Requests]
  /\ parent \in [Calls -> Entries \cup {Top, NoEntry}]
  /\ answer \in [Calls -> Answers \cup {"none"}]
  /\ saved \in [Calls -> Folders \cup {Top, NoEntry}]
  /\ strays \subseteq Calls
  /\ there \subseteq Entries

Init ==
  /\ labelled \in BOOLEAN
  /\ pc = [c \in Calls |-> "idle"]
  /\ req \in [Calls -> Requests]
  /\ parent = [c \in Calls |-> NoEntry]
  /\ answer = [c \in Calls |-> "none"]
  /\ saved = [c \in Calls |-> NoEntry]
  /\ strays = {}
  /\ there = Entries

-----------------------------------------------------------------------------
(* HandleRPC, handleTorrentAdd, resolveTorrent                             *)

Answer(c, a) ==
  /\ answer' = [answer EXCEPT ![c] = a]
  /\ pc' = [pc EXCEPT ![c] = "answered"]

\* Metainfo comes first, whatever else there is.
ByMetaInfo(c) == req[c].metainfo # "none"

\* Mutant of Refusal: a bad torrent beside a magnet link is let pass.
RefusalUnlessMagnet(r) ==
  IF r.magnet \/ r.metainfo = "torrent" THEN "none"
  ELSE IF r.metainfo = "none" THEN "error" ELSE "invalid"

\* How a request is refused before anything is asked of Put.io, if it is.
Refusal(r) ==
  CASE r.metainfo \in {"encoding", "large", "malformed"} -> "invalid"
    [] r.metainfo = "none" /\ ~r.magnet                  -> "error"
    [] OTHER                                             -> "none"

Refuse(c) ==
  /\ pc[c] = "idle"
  /\ Refusal(req[c]) # "none"
  /\ Answer(c, Refusal(req[c]))
  /\ UNCHANGED <<labelled, req, parent, saved, strays, there>>

Accept(c) ==
  /\ pc[c] = "idle"
  /\ Refusal(req[c]) = "none"
  /\ pc' = [pc EXCEPT ![c] = IF labelled THEN "search" ELSE "create"]
  /\ parent' = [parent EXCEPT ![c] = IF labelled THEN NoEntry ELSE Top]
  /\ UNCHANGED <<labelled, req, answer, saved, strays, there>>

-----------------------------------------------------------------------------
(* AddTransfer, AddTransferByBytes, findDirectoryID                        *)

\* Mutant of IsDirectory: the first result is taken for what it is.
IsDirectoryAny(e) == e \in Entries

IsDirectory(e) == e \in Folders

\* Files.Search answers, and its first result is a folder, of whatever name.
FindDirectory(c) ==
  /\ pc[c] = "search"
  /\ \E e \in there :
       IsDirectory(e) /\ parent' = [parent EXCEPT ![c] = e]
  /\ pc' = [pc EXCEPT ![c] = "create"]
  /\ UNCHANGED <<labelled, req, answer, saved, strays, there>>

\* It fails, finds nothing, or its first result is a file.
NoDirectory(c) ==
  /\ pc[c] = "search"
  /\ Answer(c, IF ByMetaInfo(c) THEN "directory" ELSE "error")
  /\ UNCHANGED <<labelled, req, parent, saved, strays, there>>

\* Transfers.Add or Files.Upload takes effect.  The folder is still there.
Create(c) ==
  /\ pc[c] = "create"
  /\ parent[c] \in there \cup {Top}
  /\ pc' = [pc EXCEPT ![c] = "created"]
  /\ saved' = [saved EXCEPT ![c] = parent[c]]
  /\ UNCHANGED <<labelled, req, parent, answer, strays, there>>

\* Files.Upload stores the file, and Put.io makes no transfer of it.
NoTransferMade(c) ==
  /\ pc[c] = "create"
  /\ ByMetaInfo(c)
  /\ parent[c] \in there \cup {Top}
  /\ Answer(c, "invalid")
  /\ strays' = strays \cup {c}
  /\ UNCHANGED <<labelled, req, parent, saved, there>>

\* Mutants of Failure: a failed upload is reported as a bad torrent; a failure
\* goes unanswered.
FailureAsInvalid(c) == IF ByMetaInfo(c) THEN "invalid" ELSE "error"
FailureSilent(c)    == "none"

\* What a failed Transfers.Add or Files.Upload is reported as.
Failure(c) == IF ByMetaInfo(c) THEN "upload" ELSE "error"

\* The request fails, or, once it took effect, its answer does.
CreateFails(c) ==
  /\ pc[c] \in {"create", "created"}
  /\ Answer(c, Failure(c))
  /\ UNCHANGED <<labelled, req, parent, saved, strays, there>>

Added(c) ==
  /\ pc[c] = "created"
  /\ Answer(c, "added")
  /\ UNCHANGED <<labelled, req, parent, saved, strays, there>>

Handle(c) ==
  \/ Refuse(c) \/ Accept(c)
  \/ FindDirectory(c) \/ NoDirectory(c)
  \/ Create(c) \/ NoTransferMade(c) \/ CreateFails(c) \/ Added(c)

-----------------------------------------------------------------------------
(* The account.                                                            *)

\* Its owner deletes an entry.
DeleteEntry(e) ==
  /\ e \in there
  /\ there' = there \ {e}
  /\ UNCHANGED <<labelled, callVars, saved, strays>>

Next ==
  \/ \E c \in Calls : Handle(c)
  \/ \E e \in Entries : DeleteEntry(e)

Spec == Init /\ [][Next]_vars

\* A request to Put.io is answered, or it times out.
FairSpec == Spec /\ \A c \in Calls : WF_vars(Handle(c))

-----------------------------------------------------------------------------
\* A call that says why the request itself cannot be met created no transfer; one
\* that created a transfer says so, or says that the upload failed, which leaves
\* open what became of it.
RefusedIsNotAdded ==
  \A c \in Calls :
    saved[c] # NoEntry =>
      \/ pc[c] = "created"
      \/ answer[c] = "added"
      \/ answer[c] = (IF ByMetaInfo(c) THEN "upload" ELSE "error")

\* Nothing is handed to Put.io for a request whose metainfo is not a torrent, not
\* even the magnet link beside it, and no uploaded file stays for a magnet link.
NothingOfBadRequests ==
  \A c \in Calls :
    /\ saved[c] # NoEntry \/ c \in strays => req[c].metainfo \in {"none", "torrent"}
    /\ c \in strays => ByMetaInfo(c) /\ answer[c] = "invalid" /\ saved[c] = NoEntry

\* Every call is answered, with a reason if not with a transfer.
EveryCallAnswered ==
  \A c \in Calls : pc[c] = "idle" ~> pc[c] = "answered" /\ answer[c] # "none"

\* How far a call has come: what makes the above hold.
CallInv ==
  \A c \in Calls :
    /\ pc[c] # "answered" <=> answer[c] = "none"
    /\ pc[c] \in {"search", "create", "created"} =>
         req[c].metainfo = "torrent" \/ (req[c].metainfo = "none" /\ req[c].magnet)
    /\ pc[c] = "search" => labelled
    /\ pc[c] \in {"create", "created"} =>
         parent[c] \in (IF labelled THEN Folders ELSE {Top})
    /\ pc[c] \in {"idle", "search", "create"} => saved[c] = NoEntry /\ c \notin strays
    /\ saved[c] # NoEntry => saved[c] \in (IF labelled THEN Folders ELSE {Top})
=============================================================================
