------------------------- MODULE RemoteCleanupProofs -------------------------
(* Theorems about RemoteCleanup for any transfers, callers and MaxTries. *)
EXTENDS RemoteCleanup, TLAPS

USE CallsAssumption, TriesAssumption

\* The inductive invariant.
IInv == TypeOK /\ LoopInv /\ DataOutlivesTransfer /\ RemovedOnRequest

\* Nothing is removed at first.
LEMMA InitInv == Init => IInv
<1> SUFFICES ASSUME Init  PROVE IInv
  OBVIOUS
<1>1. TypeOK
  BY DEF Init, TypeOK, Ended
<1>2. LoopInv
  BY DEF Init, LoopInv, Consistent, Ended
<1>3. DataOutlivesTransfer /\ RemovedOnRequest
  BY DEF Init, DataOutlivesTransfer, RemovedOnRequest
<1> QED  BY <1>1, <1>2, <1>3 DEF IInv

\* A call that does not move stays consistent while the seedbox loses, and while it
\* completes what no listing has shown complete.
LEMMA OthersConsistent ==
  ASSUME NEW d \in Calls, Consistent(d),
         pc'[d] = pc[d], ids'[d] = ids[d], deletes'[d] = deletes[d], tries'[d] = tries[d],
         todo'[d] = todo[d], files'[d] = files[d], cur'[d] = cur[d],
         listed' \subseteq listed, fetched \subseteq fetched',
         data' \cap fetched \subseteq data
  PROVE  Consistent(d)'
BY DEF Consistent

\* What a step of call c does to the variables of calls: only c moves.
OnlyMoves(c) ==
  \A d \in Calls \ {c} :
    /\ pc'[d] = pc[d] /\ ids'[d] = ids[d] /\ deletes'[d] = deletes[d]
    /\ tries'[d] = tries[d] /\ todo'[d] = todo[d] /\ files'[d] = files[d]
    /\ cur'[d] = cur[d]

\* What each step of a call is shown to establish.
Kept(c) ==
  /\ TypeOK'
  /\ OnlyMoves(c)
  /\ Consistent(c)'
  /\ pc[c] # "idle" => UNCHANGED <<ids, deletes>>
  /\ fetched' = fetched
  /\ listed' \subseteq listed /\ listed \ listed' \subseteq ids'[c]
  /\ data' \subseteq data /\ data \ data' \subseteq ids'[c] \ listed'
  /\ data' # data => deletes'[c]

\* A call starts: it has found nothing yet.
LEMMA StartStep ==
  ASSUME IInv, NEW c \in Calls, NEW S \in SUBSET Transfers, NEW b \in BOOLEAN,
         pc[c] = "idle",
         pc' = [pc EXCEPT ![c] = "list"],
         ids' = [ids EXCEPT ![c] = S],
         deletes' = [deletes EXCEPT ![c] = b],
         UNCHANGED <<tries, todo, files, cur, fetched, listed, data>>
  PROVE  Kept(c)
<1>1. TypeOK' /\ OnlyMoves(c)
  BY DEF IInv, TypeOK, OnlyMoves, Ended
<1>2. Consistent(c)'
  BY DEF IInv, TypeOK, LoopInv, Consistent, Ended
<1> QED  BY <1>1, <1>2 DEF Kept

\* An attempt fails: the call lists again or is over, and has not deleted data of
\* a transfer that is listed.
LEMMA FailStep ==
  ASSUME IInv, NEW c \in Calls, pc[c] \in {"list", "cancel", "delete"}, AttemptFails(c),
         fetched' = fetched, listed' \subseteq listed, data' \subseteq data,
         listed \ listed' \subseteq ids[c],
         data \ data' \subseteq ids[c] \ listed',
         data' # data => deletes[c]
  PROVE  Kept(c)
<1>1. tries[c] < MaxTries /\ tries[c] \in Nat
  BY DEF IInv, TypeOK, LoopInv, Consistent, Ended
<1>2. pc'[c] \in {"list", "failed"} /\ (pc'[c] = "list" => tries'[c] < MaxTries)
  BY <1>1 DEF IInv, TypeOK, AttemptFails, Tried, HasTryLeft
<1>3. TypeOK' /\ OnlyMoves(c)
  BY <1>1, <1>2 DEF IInv, TypeOK, AttemptFails, OnlyMoves, Ended, Tried
<1>4. Consistent(c)'
  BY <1>2 DEF IInv, LoopInv, Consistent, AttemptFails, Ended
<1> QED  BY <1>3, <1>4 DEF Kept, AttemptFails

\* The listing: none of the call's transfers, or those the loop is to work through.
LEMMA ListStep ==
  ASSUME IInv, NEW c \in Calls, ListNone(c) \/ ListSome(c)
  PROVE  Kept(c)
<1>1. TypeOK' /\ OnlyMoves(c)
  BY DEF IInv, TypeOK, ListNone, ListSome, Matches, OnlyMoves, Ended
<1>2. CASE ListNone(c)
  <2>1. Consistent(c)'
    BY <1>2 DEF IInv, TypeOK, LoopInv, Consistent, ListNone, Matches, Ended
  <2> QED  BY <1>1, <1>2, <2>1 DEF Kept, ListNone
<1>3. CASE ListSome(c)
  <2>1. /\ pc'[c] = "cancel" /\ todo'[c] = ids[c] \cap listed
        /\ files'[c] = ids[c] \cap listed \cap fetched /\ tries[c] < MaxTries
        /\ UNCHANGED <<ids, deletes, tries, cur, fetched, listed, data>>
    BY <1>3 DEF IInv, TypeOK, LoopInv, Consistent, ListSome, Matches, Ended
  <2>2. Consistent(c)'
    BY <2>1 DEF Consistent, Ended
  <2> QED  BY <1>1, <1>3, <2>2 DEF Kept, ListSome
<1> QED  BY <1>2, <1>3

\* The loop gets through with a transfer that is cancelled, and whose data is gone
\* if that was asked for.
LEMMA ThroughStep ==
  ASSUME IInv, NEW c \in Calls, NEW t \in todo[c], pc[c] \in {"cancel", "delete"},
         Through(c, t),
         UNCHANGED <<ids, deletes, tries, files, fetched>>,
         cur' \in {cur, [cur EXCEPT ![c] = NoTransfer]},
         listed' \subseteq listed, data' \subseteq data,
         t \notin listed', deletes[c] /\ t \in files[c] => t \notin data'
  PROVE  TypeOK' /\ OnlyMoves(c) /\ Consistent(c)'
<1>1. TypeOK' /\ OnlyMoves(c)
  BY DEF IInv, TypeOK, Through, OnlyMoves, Ended
<1>2. /\ todo'[c] = todo[c] \ {t}
      /\ pc'[c] = IF todo[c] = {t} THEN "removed" ELSE "cancel"
  BY DEF IInv, TypeOK, Through
<1>3. Consistent(c)'
  BY <1>2 DEF IInv, LoopInv, Consistent, Ended
<1> QED  BY <1>1, <1>3

\* A transfer is cancelled: its data is next, or stays.
LEMMA CancelStep ==
  ASSUME IInv, NEW c \in Calls, NEW t \in Transfers, Cancel(c, t)
  PROVE  Kept(c)
<1>1. t \in todo[c] /\ pc[c] = "cancel" /\ t \in ids[c]
  BY DEF IInv, LoopInv, Consistent, Cancel
<1>2. CASE DeletesData(c, t)
  <2>1. /\ pc' = [pc EXCEPT ![c] = "delete"] /\ cur' = [cur EXCEPT ![c] = t]
        /\ UNCHANGED <<ids, deletes, tries, todo, files, fetched, data>>
        /\ listed' = listed \ {t} /\ t \in files[c] /\ deletes[c]
    BY <1>2 DEF Cancel, DeletesData
  <2>2. TypeOK' /\ OnlyMoves(c)
    BY <2>1 DEF IInv, TypeOK, OnlyMoves
  <2>3. Consistent(c)'
    BY <1>1, <2>1 DEF IInv, TypeOK, LoopInv, Consistent, Ended
  <2> QED  BY <1>1, <2>1, <2>2, <2>3 DEF Kept
<1>3. CASE ~DeletesData(c, t)
  <2>1. /\ Through(c, t) /\ UNCHANGED <<ids, deletes, tries, files, cur, fetched, data>>
        /\ listed' = listed \ {t}
    BY <1>3 DEF Cancel
  <2>2. deletes[c] => t \notin files[c]
    BY <1>3 DEF DeletesData
  <2> QED  BY <1>1, <2>1, <2>2, ThroughStep DEF Kept
<1> QED  BY <1>2, <1>3

\* The data of a cancelled transfer is deleted.
LEMMA DeleteStep ==
  ASSUME IInv, NEW c \in Calls, Delete(c)
  PROVE  Kept(c)
<1>1. cur[c] \in todo[c] \ listed /\ deletes[c] /\ pc[c] = "delete" /\ cur[c] \in ids[c]
  BY DEF IInv, LoopInv, Consistent, Delete
<1>2. /\ Through(c, cur[c]) /\ UNCHANGED <<ids, deletes, tries, files, fetched, listed>>
      /\ cur' = [cur EXCEPT ![c] = NoTransfer]
      /\ data' = data \ {cur[c]}
  BY DEF Delete
<1> QED  BY <1>1, <1>2, ThroughStep DEF Kept

\* Every step of a call.
LEMMA CallStep ==
  ASSUME IInv, NEW c \in Calls,
         \/ \E t \in Transfers : StartCleanup(c, t)
         \/ \E S \in SUBSET Transfers, b \in BOOLEAN : StartRequest(c, S, b)
         \/ Attempt(c)
  PROVE  Kept(c)
<1>1. ASSUME NEW t \in Transfers, StartCleanup(c, t)  PROVE Kept(c)
  BY <1>1, StartStep DEF StartCleanup
<1>2. ASSUME NEW S \in SUBSET Transfers, NEW b \in BOOLEAN, StartRequest(c, S, b)
      PROVE  Kept(c)
  BY <1>2, StartStep DEF StartRequest
<1>3. ASSUME ListFails(c)  PROVE Kept(c)
  BY <1>3, FailStep DEF ListFails
<1>4. ASSUME NEW t \in Transfers, CancelFails(c, t)  PROVE Kept(c)
  <2>1. t \in ids[c] /\ pc[c] = "cancel" /\ AttemptFails(c) /\ UNCHANGED <<fetched, data>>
        /\ \E gone \in {{}, {t}} : listed' = listed \ gone
    BY <1>4 DEF IInv, LoopInv, Consistent, CancelFails
  <2> QED  BY <2>1, FailStep
<1>5. ASSUME DeleteFails(c)  PROVE Kept(c)
  <2>1. /\ cur[c] \in ids[c] \ listed /\ deletes[c] /\ pc[c] = "delete"
        /\ AttemptFails(c) /\ UNCHANGED <<fetched, listed>>
        /\ \E gone \in {{}, {cur[c]}} : data' = data \ gone
    BY <1>5 DEF IInv, LoopInv, Consistent, DeleteFails
  <2> QED  BY <2>1, FailStep
<1> QED
  BY <1>1, <1>2, <1>3, <1>4, <1>5, ListStep, CancelStep, DeleteStep DEF Attempt

\* The seedbox completes a transfer: its data is new to every call.
LEMMA CompleteStep ==
  ASSUME IInv, NEW t \in Transfers, Complete(t)
  PROVE  IInv'
<1>1. TypeOK' /\ DataOutlivesTransfer' /\ RemovedOnRequest'
  BY DEF IInv, TypeOK, DataOutlivesTransfer, RemovedOnRequest, Complete, callVars
<1>2. ASSUME NEW d \in Calls  PROVE Consistent(d)'
  <2>1. fetched \subseteq fetched' /\ data' \cap fetched \subseteq data
    BY DEF Complete
  <2> QED  BY <2>1, OthersConsistent DEF IInv, LoopInv, Complete, callVars
<1> QED  BY <1>1, <1>2 DEF IInv, LoopInv

\* Every step keeps the inductive invariant.
LEMMA InvStep == IInv /\ [Next]_vars => IInv'
<1> SUFFICES ASSUME IInv, [Next]_vars  PROVE IInv'
  OBVIOUS
<1>1. CASE UNCHANGED vars
  BY <1>1 DEF vars, callVars, IInv, TypeOK, LoopInv, Consistent, DataOutlivesTransfer,
              RemovedOnRequest
<1>2. CASE \E t \in Transfers : Complete(t)
  BY <1>2, CompleteStep
<1>3. CASE Next /\ ~\E t \in Transfers : Complete(t)
  <2>1. PICK c \in Calls : Kept(c)
    BY <1>3, CallStep DEF Next
  <2>2. LoopInv'
    BY <2>1, OthersConsistent DEF IInv, LoopInv, Kept, OnlyMoves
  <2>3. DataOutlivesTransfer'
    BY <2>1 DEF IInv, DataOutlivesTransfer, Kept
  <2>4. \A d \in Calls : ids[d] \subseteq ids'[d] /\ (ids[d] # {} /\ deletes[d] => deletes'[d])
    BY <2>1 DEF IInv, LoopInv, Consistent, Kept, OnlyMoves
  <2>5. RemovedOnRequest'
    BY <2>1, <2>4 DEF IInv, RemovedOnRequest, Kept
  <2> QED  BY <2>1, <2>2, <2>3, <2>5 DEF IInv, Kept
<1> QED  BY <1>1, <1>2, <1>3

\* What the theorems below follow from.
LEMMA Invariant == Spec => []IInv
BY InitInv, InvStep, PTL DEF Spec

\* TypeOK: the calls and the seedbox keep their types; in particular the number
\* of attempts never exceeds MaxTries.
THEOREM CleanupTypes == Spec => []TypeOK
<1>1. IInv => TypeOK
  BY DEF IInv
<1> QED  BY <1>1, Invariant, PTL

\* DataOutlivesTransfer: RemoveTransfers never deletes the data of a transfer that
\* is still listed, whatever fails and whoever else removes it.
THEOREM DataIsLast == Spec => []DataOutlivesTransfer
<1>1. IInv => DataOutlivesTransfer
  BY DEF IInv
<1> QED  BY <1>1, Invariant, PTL

\* RemovedOnRequest: filterMatchingTransferIds and the delete flag let nothing go
\* that no caller named.
THEOREM OnlyOnRequest == Spec => []RemovedOnRequest
<1>1. IInv => RemovedOnRequest
  BY DEF IInv
<1> QED  BY <1>1, Invariant, PTL

\* SuccessIsRemoval: RemoveTransfers without an error leaves none of its transfers
\* listed and none of the data it matched and was to delete.
THEOREM SuccessIsARemoval == Spec => []SuccessIsRemoval
<1>1. IInv => SuccessIsRemoval
  BY DEF IInv, LoopInv, Consistent, SuccessIsRemoval
<1> QED  BY <1>1, Invariant, PTL

-----------------------------------------------------------------------------
(* The calls and their contract.                                           *)

\* The start of a call is the contract's.
LEMMA StartBegins ==
  ASSUME IInv, NEW c \in Calls, NEW S \in SUBSET Transfers, NEW b \in BOOLEAN,
         pc[c] = "idle",
         pc' = [pc EXCEPT ![c] = "list"],
         ids' = [ids EXCEPT ![c] = S],
         deletes' = [deletes EXCEPT ![c] = b],
         UNCHANGED <<listed, data>>
  PROVE  Contract!Begin(c, S, b)
<1>1. callState[c] = "idle" /\ callState' = [callState EXCEPT ![c] = "open"]
  BY DEF callState, IInv, TypeOK
<1> QED  BY <1>1 DEF Contract!Begin

\* Every other step of a call is its work, with the result the caller sees.
LEMMA AttemptWorks ==
  ASSUME IInv, IInv', NEW c \in Calls, Attempt(c)
  PROVE  \E result \in {"open", "success", "failed"} : Contract!Work(c, result)
<1>1. Kept(c)
  BY CallStep
<1>3. pc[c] \in {"list", "cancel", "delete"} /\ pc'[c] # "idle"
  <2>1. pc[c] \in {"list", "cancel", "delete"}
    BY DEF Attempt, ListNone, ListSome, ListFails, Cancel, CancelFails, Delete, DeleteFails
  <2>2. \E p \in Ended \cup {"list", "cancel", "delete"} : pc' = [pc EXCEPT ![c] = p]
    <3>1. AttemptFails(c) => <2>2
      BY DEF AttemptFails, Ended
    <3>2. \A t : Through(c, t) => <2>2
      BY DEF Through, Ended
    <3>3. ListNone(c) \/ ListSome(c) => <2>2
      BY DEF ListNone, ListSome, Ended
    <3>4. \A t \in Transfers : Cancel(c, t) => <2>2
      BY <3>2 DEF Cancel, Ended
    <3> QED
      BY <3>1, <3>2, <3>3, <3>4 DEF Attempt, ListFails, CancelFails, Delete, DeleteFails
  <2> QED  BY <2>1, <2>2 DEF IInv, TypeOK, Ended
<1>4. PICK result \in {"open", "success", "failed"} : callState'[c] = result
  BY <1>3 DEF callState
<1>5. callState[c] = "open" /\ callState' = [callState EXCEPT ![c] = result]
  <2>1. callState[c] = "open"
    BY <1>3 DEF callState
  <2>2. \A d \in Calls \ {c} : pc'[d] = pc[d]
    BY <1>1 DEF Kept, OnlyMoves
  <2>3. \A d \in Calls \ {c} : callState'[d] = callState[d]
    BY <2>2 DEF callState
  <2>4. DOMAIN callState = Calls /\ DOMAIN callState' = Calls
    BY DEF callState
  <2>5. callState' = [d \in Calls |-> callState'[d]] /\ callState = [d \in Calls |-> callState[d]]
    BY DEF callState
  <2> QED  BY <1>4, <2>1, <2>3, <2>4, <2>5
<1>6. UNCHANGED <<ids, deletes>>
  BY <1>1, <1>3 DEF Kept
<1>7. Contract!TakesAway(c)
  BY <1>1, <1>6 DEF Kept, Contract!TakesAway
<1>8. result = "success" => ids[c] \cap listed' = {}
  <2>1. result = "success" => pc'[c] \in {"removed", "notfound"}
    BY <1>4 DEF callState
  <2> QED  BY <1>6, <2>1 DEF IInv, LoopInv, Consistent
<1> QED  BY <1>5, <1>6, <1>7, <1>8 DEF Contract!Work

\* Every step is a step of the contract, or changes nothing of it.
LEMMA ContractStep ==
  ASSUME IInv, IInv', [Next]_vars
  PROVE  [Contract!ContractNext]_(Contract!contractVars)
<1>1. CASE UNCHANGED vars
  BY <1>1 DEF vars, callVars, callState, Contract!contractVars
<1>2. ASSUME NEW c \in Calls, NEW t \in Transfers, StartCleanup(c, t)
      PROVE  Contract!ContractNext
  <2>1. {t} \in SUBSET Transfers /\ TRUE \in BOOLEAN
    OBVIOUS
  <2>2. Contract!Begin(c, {t}, TRUE)
    BY <1>2, <2>1, StartBegins DEF StartCleanup
  <2> QED  BY <2>1, <2>2 DEF Contract!ContractNext
<1>3. ASSUME NEW c \in Calls, NEW S \in SUBSET Transfers, NEW b \in BOOLEAN, StartRequest(c, S, b)
      PROVE  Contract!ContractNext
  BY <1>3, StartBegins DEF StartRequest, Contract!ContractNext
<1>4. ASSUME NEW c \in Calls, Attempt(c)  PROVE Contract!ContractNext
  BY <1>4, AttemptWorks DEF Contract!ContractNext
<1>5. ASSUME NEW t \in Transfers, Complete(t)  PROVE Contract!ContractNext
  BY <1>5 DEF Complete, callVars, callState, Contract!ContractNext, Contract!Arrive
<1> QED  BY <1>1, <1>2, <1>3, <1>4, <1>5 DEF Next

\* ContractSpec: the listings, cancellations and deletions of all calls and of all
\* their tries implement RemovalContract, in which a call takes away only what it
\* names, data last, and nothing once it is over.
THEOREM ImplementsContract == Spec => ContractSpec
<1>1. Init => Contract!ContractInit
  BY DEF Init, callState, Contract!ContractInit
<1>2. IInv /\ IInv' /\ [Next]_vars => [Contract!ContractNext]_(Contract!contractVars)
  BY ContractStep
<1> QED
  BY <1>1, <1>2, Invariant, PTL DEF Spec, ContractSpec, Contract!ContractSpec
=============================================================================
