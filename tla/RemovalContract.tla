---------------------------- MODULE RemovalContract ----------------------------
(***************************************************************************)
(* What a caller of the removal may rely on, be it the notification loop,  *)
(* a seeding watcher or torrent-remove: its call takes away nothing but    *)
(* the transfers it named, and of those the data only if it was to and     *)
(* after the transfer itself; success means that the seedbox lists none of *)
(* them; and a call that is over takes nothing away any more.  The module  *)
(* RemoteCleanup implements it, request by request and try after try.      *)
(***************************************************************************)
CONSTANTS Transfers, Calls

VARIABLES call,     \* call[c]: not made yet, open, or its result
          asked,    \* asked[c]: the transfers it names
          withData, \* withData[c]: is their data to go too
          listed,   \* the seedbox: transfers it lists
          data      \* and transfers whose data it holds

contractVars == <<call, asked, withData, listed, data>>

ContractInit ==
  /\ call = [c \in Calls |-> "idle"]
  /\ asked = [c \in Calls |-> {}]
  /\ withData = [c \in Calls |-> FALSE]
  /\ listed = Transfers
  /\ data \in SUBSET Transfers

\* CleanupTransfer or torrent-remove is called.
Begin(c, S, b) ==
  /\ call[c] = "idle"
  /\ call' = [call EXCEPT ![c] = "open"]
  /\ asked' = [asked EXCEPT ![c] = S]
  /\ withData' = [withData EXCEPT ![c] = b]
  /\ UNCHANGED <<listed, data>>

\* What an open call may take away from the seedbox.
TakesAway(c) ==
  /\ listed' \subseteq listed /\ listed \ listed' \subseteq asked[c]
  /\ data' \subseteq data /\ data \ data' \subseteq asked[c] \ listed'
  /\ data' # data => withData[c]

\* The call works, or returns: an error at any time, success only over its work.
Work(c, result) ==
  /\ call[c] = "open"
  /\ call' = [call EXCEPT ![c] = result]
  /\ TakesAway(c)
  /\ result = "success" => asked[c] \cap listed' = {}
  /\ UNCHANGED <<asked, withData>>

\* The seedbox has the data of a transfer it lists, from now on.
Arrive(t) ==
  /\ t \in listed
  /\ data' = data \cup {t}
  /\ UNCHANGED <<call, asked, withData, listed>>

ContractNext ==
  \/ \E c \in Calls :
       \/ \E S \in SUBSET Transfers, b \in BOOLEAN : Begin(c, S, b)
       \/ \E result \in {"open", "success", "failed"} : Work(c, result)
  \/ \E t \in Transfers : Arrive(t)

ContractSpec == ContractInit /\ [][ContractNext]_contractVars
=============================================================================
