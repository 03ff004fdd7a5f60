---------------------------- MODULE TransferLife ----------------------------
(***************************************************************************)
(* The life of each transfer as its owner sees it, with no instances,      *)
(* goroutines, channels or faults: claimed, downloaded, taken by an *arr   *)
(* app and only then discarded here and deleted there.  It is what the     *)
(* README of the program promises of the whole; the module Pipeline        *)
(* implements it.                                                          *)
(***************************************************************************)
CONSTANTS Transfers, Seeding,
          Earlier   \* transfers that an import from before is taken for

VARIABLES stage,    \* stage[t]: what the table says of t
          content,  \* content[t]: what is on disk
          taken,    \* taken[t]: did an *arr app import it
          seedbox,  \* seedbox[t]: what the seedbox says of t
          seeded    \* seeded[t]: did it reach the configured ratio

lifeVars == <<stage, content, taken, seedbox, seeded>>

Contents == {"none", "partial", "full"}

LifeInit ==
  /\ stage = [t \in Transfers |-> "waiting"]
  /\ content = [t \in Transfers |-> "none"]
  /\ taken = [t \in Transfers |-> FALSE]
  /\ seedbox = [t \in Transfers |-> "fetching"]
  /\ seeded = [t \in Transfers |-> FALSE]

MoveTo(t, s) ==
  /\ stage' = [stage EXCEPT ![t] = s]
  /\ UNCHANGED <<content, taken, seedbox, seeded>>

\* Nothing is claimed that the seedbox does not have yet, and nothing again that
\* was downloaded or missing.
Claim(t) ==
  /\ stage[t] = "waiting"
  /\ seedbox[t] # "fetching"
  /\ MoveTo(t, "held")

\* Content comes into being under a claim only.
Write(t) ==
  /\ stage[t] = "held"
  /\ UNCHANGED <<stage, taken, seedbox, seeded>>
  /\ \E c \in Contents : content' = [content EXCEPT ![t] = c]

\* A claim ends: the download is to be tried again, what it was of is gone, or all
\* of it is here (or was, until an *arr app took it).
Fail(t) == stage[t] = "held" /\ MoveTo(t, "waiting")

Lose(t) == stage[t] = "held" /\ MoveTo(t, "missing")

Finish(t) ==
  /\ stage[t] = "held"
  /\ content[t] = "full" \/ taken[t]
  /\ MoveTo(t, "downloaded")

\* An *arr app takes what there is.
Take(t) ==
  /\ content[t] # "none" /\ ~taken[t]
  /\ taken' = [taken EXCEPT ![t] = TRUE]
  /\ \E c \in {content[t], "none"} : content' = [content EXCEPT ![t] = c]
  /\ UNCHANGED <<stage, seedbox, seeded>>

\* The program believes that an *arr app took it.
Noticed(t) == taken[t] \/ t \in Earlier

\* The local content of a finished transfer is removed, in part or whole, only once it
\* was noticed as taken.
Discard(t) ==
  /\ stage[t] = "downloaded" /\ Noticed(t)
  /\ content[t] # "none"
  /\ UNCHANGED <<stage, taken, seedbox, seeded>>
  /\ \E c \in {"none", "partial"} : content' = [content EXCEPT ![t] = c]

SeedboxTo(t, s) ==
  /\ seedbox' = [seedbox EXCEPT ![t] = s]
  /\ UNCHANGED <<stage, content, taken, seeded>>

\* The seedbox completes it; its owner removes it.
Arrive(t)   == seedbox[t] = "fetching" /\ SeedboxTo(t, "ready")
Withdraw(t) == seedbox[t] = "ready" /\ SeedboxTo(t, "removed")

ReachRatio(t) ==
  /\ Seeding /\ seedbox[t] = "ready"
  /\ seeded' = [seeded EXCEPT ![t] = TRUE]
  /\ UNCHANGED <<stage, content, taken, seedbox>>

\* The program deletes it: downloaded, noticed as taken, seeded as long as was asked.
Clean(t) ==
  /\ seedbox[t] = "ready"
  /\ stage[t] = "downloaded" /\ Noticed(t)
  /\ Seeding => seeded[t]
  /\ SeedboxTo(t, "cleaned")

LifeNext ==
  \E t \in Transfers :
    \/ Claim(t) \/ Write(t) \/ Fail(t) \/ Lose(t) \/ Finish(t)
    \/ Take(t) \/ Discard(t)
    \/ Arrive(t) \/ Withdraw(t) \/ ReachRatio(t) \/ Clean(t)

\* Stuttering comes first: to a transfer most steps of the program are nothing else.
LifeSpec == LifeInit /\ [][UNCHANGED lifeVars \/ LifeNext]_lifeVars
=============================================================================
