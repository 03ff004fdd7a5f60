---------------------------- MODULE RemoteCleanup ----------------------------
(***************************************************************************)
(* The removal of transfers from the seedbox: CleanupTransfer, which the   *)
(* notification loop and the seeding watchers call and which tries three   *)
(* times, and torrent-remove over RPC, which tries once.  Both end in      *)
(* RemoveTransfers: list, match, and for each match cancel the transfer    *)
(* and delete its data, three kinds of request to the seedbox between      *)
(* which the other callers get in, and each of which may fail, before or   *)
(* after it took effect.  The seedbox meanwhile completes transfers, and   *)
(* with that gives them data that an attempt's listing did not show.       *)
(***************************************************************************)
EXTENDS Naturals, FiniteSets

CONSTANTS Transfers,
          Cleanups,   \* calls of CleanupTransfer
          Requests,   \* calls of handleTorrentRemove
          MaxTries,   \* backoff.WithMaxTries
          NoTransfer

Calls == Cleanups \cup Requests

ASSUME CallsAssumption   == Cleanups \cap Requests = {} /\ NoTransfer \notin Transfers
ASSUME TriesAssumption   == MaxTries \in Nat \ {0}

VARIABLES
  pc,       \* pc[c]: the next request of call c, or how it ended
  ids,      \* ids[c]: the transfers c asks to remove
  deletes,  \* deletes[c]: does it ask for their data too
  tries,    \* tries[c]: attempts that failed
  todo,     \* todo[c]: putioTransfers, the matches of the attempt's listing that the loop
            \* has not finished
  files,    \* files[c]: the matches that it showed with a FileID
  cur,      \* cur[c]: the one it cancelled and whose data is next
  fetched,  \* the seedbox: transfers it has completed, and so given a FileID
  listed,   \* transfers it lists
  data      \* and transfers whose data it holds

callVars == <<pc, ids, deletes, tries, todo, files, cur>>
vars == <<callVars, fetched, listed, data>>

Ended == {"removed", "notfound", "failed"}

TypeOK ==
  /\ pc \in [Calls -> {"idle", "list", "cancel", "delete"} \cup Ended]
  /\ ids \in [Calls -> SUBSET Transfers]
  /\ deletes \in [Calls -> BOOLEAN]
  /\ tries \in [Calls -> 0 .. MaxTries]
  /\ files \in [Calls -> SUBSET Transfers]
  /\ todo \in [Calls -> SUBSET Transfers]
  /\ cur \in [Calls -> Transfers \cup {NoTransfer}]
  /\ \A c \in Calls : pc[c] = "delete" => cur[c] # NoTransfer
  /\ fetched \subseteq Transfers
  /\ listed \subseteq Transfers
  /\ data \subseteq fetched

Init ==
  /\ pc = [c \in Calls |-> "idle"]
  /\ ids = [c \in Calls |-> {}]
  /\ deletes = [c \in Calls |-> FALSE]
  /\ tries = [c \in Calls |-> 0]
  /\ files = [c \in Calls |-> {}]
  /\ todo = [c \in Calls |-> {}]
  /\ cur = [c \in Calls |-> NoTransfer]
  /\ fetched \in SUBSET Transfers
  /\ listed = Transfers
  /\ data = fetched

\* CleanupTransfer is for one transfer and its data, and called only for what was
\* complete on the seedbox and downloaded.
StartCleanup(c, t) ==
  /\ c \in Cleanups
  /\ t \in fetched
  /\ pc[c] = "idle"
  /\ pc' = [pc EXCEPT ![c] = "list"]
  /\ ids' = [ids EXCEPT ![c] = {t}]
  /\ deletes' = [deletes EXCEPT ![c] = TRUE]
  /\ UNCHANGED <<tries, todo, files, cur, fetched, listed, data>>

\* torrent-remove names any transfers, with or without delete-local-data.
StartRequest(c, S, b) ==
  /\ c \in Requests
  /\ pc[c] = "idle"
  /\ pc' = [pc EXCEPT ![c] = "list"]
  /\ ids' = [ids EXCEPT ![c] = S]
  /\ deletes' = [deletes EXCEPT ![c] = b]
  /\ UNCHANGED <<tries, todo, files, cur, fetched, listed, data>>

\* Mutant of Tried: the attempts are not counted.
TriedUncounted(n) == n

Tried(n) == n + 1

\* Mutant of HasTryLeft: one attempt more than WithMaxTries allows.
HasTryLeftOff(n) == n <= MaxTries

HasTryLeft(n) == n < MaxTries

\* The attempt ends with an error: CleanupTransfer has another go, if it has
\* one left, and lists again; the RPC handler reports the error.
AttemptFails(c) ==
  /\ tries' = [tries EXCEPT ![c] = Tried(@)]
  /\ pc' = [pc EXCEPT ![c] =
       IF c \in Cleanups /\ HasTryLeft(Tried(tries[c])) THEN "list" ELSE "failed"]
  /\ todo' = [todo EXCEPT ![c] = {}]
  /\ files' = [files EXCEPT ![c] = {}]
  /\ cur' = [cur EXCEPT ![c] = NoTransfer]
  /\ UNCHANGED <<ids, deletes>>

\* Mutant of Matches: what the listing shows goes, asked for or not.
MatchesListing(S) == listed

\* filterMatchingTransferIds
Matches(S) == S \cap listed

\* The listing shows none of them: "transfer not found", which CleanupTransfer
\* takes for success.
ListNone(c) ==
  /\ pc[c] = "list"
  /\ Matches(ids[c]) = {}
  /\ pc' = [pc EXCEPT ![c] = "notfound"]
  /\ UNCHANGED <<ids, deletes, tries, todo, files, cur, fetched, listed, data>>

\* It shows some of them, with a FileID if they are complete by now.
ListSome(c) ==
  /\ pc[c] = "list"
  /\ Matches(ids[c]) # {}
  /\ pc' = [pc EXCEPT ![c] = "cancel"]
  /\ files' = [files EXCEPT ![c] = Matches(ids[c]) \cap fetched]
  /\ todo' = [todo EXCEPT ![c] = Matches(ids[c])]
  /\ UNCHANGED <<ids, deletes, tries, cur, fetched, listed, data>>

ListFails(c) ==
  /\ pc[c] = "list"
  /\ AttemptFails(c)
  /\ UNCHANGED <<fetched, listed, data>>

\* Mutant of DeletesData: the flag is ignored.
DeletesDataAlways(c, t) == t \in files[c]

\* deleteFiles, and the listing's FileID: that of a transfer completed since is not
\* asked for.
DeletesData(c, t) == deletes[c] /\ t \in files[c]

\* Mutant of Through: the loop ends after its first match.
ThroughFirst(c, t) ==
  /\ todo' = [todo EXCEPT ![c] = @ \ {t}]
  /\ pc' = [pc EXCEPT ![c] = "removed"]

\* The loop is through with t.
Through(c, t) ==
  /\ todo' = [todo EXCEPT ![c] = @ \ {t}]
  /\ pc' = [pc EXCEPT ![c] = IF todo[c] = {t} THEN "removed" ELSE "cancel"]

\* Mutant of Cancel: the data goes first.
CancelAfterData(c, t) ==
  /\ pc[c] = "cancel"
  /\ t \in todo[c] \cap files[c]
  /\ pc' = [pc EXCEPT ![c] = "delete"]
  /\ cur' = [cur EXCEPT ![c] = t]
  /\ UNCHANGED <<ids, deletes, tries, todo, files, fetched, listed, data>>

\* Transfers.Cancel succeeds, and is alone for t if its data stays.
Cancel(c, t) ==
  /\ pc[c] = "cancel"
  /\ t \in todo[c]
  /\ listed' = listed \ {t}
  /\ IF DeletesData(c, t)
       THEN /\ pc' = [pc EXCEPT ![c] = "delete"]
            /\ cur' = [cur EXCEPT ![c] = t]
            /\ todo' = todo
       ELSE Through(c, t) /\ cur' = cur
  /\ UNCHANGED <<ids, deletes, tries, files, fetched, data>>

\* Transfers.Cancel fails, or only its answer does.
CancelFails(c, t) ==
  /\ pc[c] = "cancel"
  /\ t \in todo[c]
  /\ \E gone \in {{}, {t}} : listed' = listed \ gone
  /\ AttemptFails(c)
  /\ UNCHANGED <<fetched, data>>

\* Files.Delete succeeds.
Delete(c) ==
  /\ pc[c] = "delete"
  /\ data' = data \ {cur[c]}
  /\ Through(c, cur[c])
  /\ cur' = [cur EXCEPT ![c] = NoTransfer]
  /\ UNCHANGED <<ids, deletes, tries, files, fetched, listed>>

\* Files.Delete fails, or only its answer does.
DeleteFails(c) ==
  /\ pc[c] = "delete"
  /\ \E gone \in {{}, {cur[c]}} : data' = data \ gone
  /\ AttemptFails(c)
  /\ UNCHANGED <<fetched, listed>>

Attempt(c) ==
  \/ ListNone(c) \/ ListSome(c) \/ ListFails(c)
  \/ \E t \in Transfers : Cancel(c, t) \/ CancelFails(c, t)
  \/ Delete(c) \/ DeleteFails(c)

\* The seedbox completes a transfer that it still lists.
Complete(t) ==
  /\ t \in listed \ fetched
  /\ fetched' = fetched \cup {t}
  /\ data' = data \cup {t}
  /\ UNCHANGED <<callVars, listed>>

Next ==
  \/ \E c \in Calls :
       \/ \E t \in Transfers : StartCleanup(c, t)
       \/ \E S \in SUBSET Transfers, b \in BOOLEAN : StartRequest(c, S, b)
       \/ Attempt(c)
  \/ \E t \in Transfers : Complete(t)

Spec == Init /\ [][Next]_vars

\* Every request is answered, or its client times out.
FairSpec == Spec /\ \A c \in Calls : WF_vars(Attempt(c))

-----------------------------------------------------------------------------
\* The data of a transfer is never gone while the seedbox still lists it: the
\* cancellation comes first, in every attempt of every caller, so that no listing
\* shows the orchestrator a transfer that cannot be downloaded.
DataOutlivesTransfer == fetched \cap listed \subseteq data

\* What is gone was asked for, and data that is gone was asked for too, however
\* the attempts of the callers interleave and fail.
RemovedOnRequest ==
  /\ \A t \in Transfers \ listed : \E c \in Calls : t \in ids[c]
  /\ \A t \in fetched \ data : \E c \in Calls : t \in ids[c] /\ deletes[c]

\* A call that reports success without "transfer not found" left nothing of
\* what its last listing showed, neither transfers nor files, and a call that
\* reports either left none of its transfers listed.
SuccessIsRemoval ==
  \A c \in Calls :
    /\ pc[c] \in {"removed", "notfound"} => ids[c] \cap listed = {}
    /\ pc[c] = "removed" /\ deletes[c] => files[c] \cap data = {}

\* A call as its caller sees it.
callState ==
  [c \in Calls |-> CASE pc[c] = "idle" -> "idle"
                     [] pc[c] \in {"removed", "notfound"} -> "success"
                     [] pc[c] = "failed" -> "failed"
                     [] OTHER -> "open"]

\* However its requests interleave with those of others, fail and are tried again,
\* each call does what RemovalContract allows: the wrong transfer never goes, nor
\* data before its transfer, nor anything after the call returned.
Contract == INSTANCE RemovalContract WITH
  call <- callState,
  asked <- ids,
  withData <- deletes
ContractSpec == Contract!ContractSpec

\* A call ends, whatever fails: CleanupTransfer gives up and lets the
\* notification loop go on.
CallsEnd == \A c \in Calls : pc[c] = "list" ~> pc[c] \in Ended

\* What makes the safety properties hold: a call asks for nothing before it
\* starts and has a try left while it runs; its loop has left alone only what is
\* still to do, and deletes data only for a transfer it cancelled.
Consistent(c) ==
  /\ pc[c] = "idle" => ids[c] = {}
  /\ pc[c] \notin Ended => tries[c] < MaxTries
  /\ todo[c] \subseteq ids[c] /\ files[c] \subseteq ids[c] \cap fetched
  /\ pc[c] = "notfound" => ids[c] \cap listed = {}
  /\ pc[c] \in {"cancel", "delete", "removed"} =>
       /\ (ids[c] \ todo[c]) \cap listed = {}
       /\ deletes[c] => (files[c] \ todo[c]) \cap data = {}
  /\ pc[c] = "removed" => todo[c] = {}
  /\ pc[c] = "delete" => cur[c] \in (todo[c] \cap files[c]) \ listed /\ deletes[c]

LoopInv == \A c \in Calls : Consistent(c)

\* "Removes the Put.io transfer and its file data": CleanupTransfer's success.
CleanupRemovesData ==
  \A c \in Cleanups : pc[c] \in {"removed", "notfound"} => ids[c] \cap data = {}
=============================================================================
