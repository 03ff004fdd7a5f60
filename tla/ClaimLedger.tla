---------------------------- MODULE ClaimLedger ----------------------------
(***************************************************************************)
(* What the downloads table promises its users, whatever the goroutines    *)
(* and processes around it do: a transfer has at most one owner at a time, *)
(* only the owner settles it, and a transfer settled as downloaded or      *)
(* missing is never claimed again.  It is the contract of                  *)
(* storage.DownloadRepository (ClaimTransfer, UpdateTransferStatus); the   *)
(* module Pipeline implements it.                                          *)
(***************************************************************************)
CONSTANTS Instances, Transfers, NoInstance

VARIABLES owner,    \* owner[t]: the instance that holds t, or NoInstance
          outcome   \* outcome[t]: how the last hold on t ended

ledgerVars == <<owner, outcome>>

Outcomes == {"failed", "missing", "downloaded"}
Final    == {"missing", "downloaded"}

LedgerInit ==
  /\ owner = [t \in Transfers |-> NoInstance]
  /\ outcome = [t \in Transfers |-> "none"]

\* ClaimTransfer reports true.
Acquire(i, t) ==
  /\ owner[t] = NoInstance
  /\ outcome[t] \notin Final
  /\ owner' = [owner EXCEPT ![t] = i]
  /\ outcome' = [outcome EXCEPT ![t] = "none"]

\* UpdateTransferStatus: the holder, and nobody else, settles the transfer.
Release(i, t) ==
  /\ owner[t] = i
  /\ owner' = [owner EXCEPT ![t] = NoInstance]
  /\ \E o \in Outcomes : outcome' = [outcome EXCEPT ![t] = o]

LedgerNext ==
  \E i \in Instances, t \in Transfers :
    Acquire(i, t) \/ Release(i, t)

\* Stuttering comes first: to the ledger most steps of the program are nothing else.
LedgerSpec == LedgerInit /\ [][UNCHANGED ledgerVars \/ LedgerNext]_ledgerVars
=============================================================================
