--------------------------- MODULE TorrentAddProofs ---------------------------
(* Theorems about TorrentAdd for any calls and any account. *)
EXTENDS TorrentAdd, TLAPS

USE EntriesAssumption, NullAssumption

\* The inductive invariant.
IInv == TypeOK /\ CallInv /\ RefusedIsNotAdded /\ NothingOfBadRequests

\* No call has been received at first.
LEMMA InitInv == Init => IInv
<1> SUFFICES ASSUME Init  PROVE IInv
  OBVIOUS
<1>1. TypeOK /\ CallInv
  BY DEF Init, TypeOK, CallInv
<1>2. RefusedIsNotAdded /\ NothingOfBadRequests
  BY DEF Init, RefusedIsNotAdded, NothingOfBadRequests
<1> QED  BY <1>1, <1>2 DEF IInv

\* A call that is accepted carries a torrent, or nothing but a magnet link.
LEMMA AcceptedRequest ==
  ASSUME NEW r \in Requests, Refusal(r) = "none"
  PROVE  r.metainfo = "torrent" \/ (r.metainfo = "none" /\ r.magnet)
BY DEF Requests, Refusal

\* A refusal is an answer.
LEMMA RefusalIsAnswer ==
  ASSUME NEW r \in Requests
  PROVE  Refusal(r) \in {"none", "invalid", "error"}
BY DEF Refusal

\* A call is received, and refused or accepted.
LEMMA ReceiveStep ==
  ASSUME IInv, NEW c \in Calls, Refuse(c) \/ Accept(c)
  PROVE  IInv'
<1> USE DEF IInv
<1>1. req[c] \in Requests
  BY DEF TypeOK
<1>2. CASE Refuse(c)
  <2>1. Refusal(req[c]) \in {"invalid", "error"}
    BY <1>1, <1>2, RefusalIsAnswer DEF Refuse
  <2>2. TypeOK'
    BY <1>2, <2>1 DEF TypeOK, Refuse, Answer, Answers
  <2>3. CallInv'
    BY <1>2, <2>1 DEF TypeOK, CallInv, Refuse, Answer
  <2>4. RefusedIsNotAdded' /\ NothingOfBadRequests'
    BY <1>2 DEF TypeOK, CallInv, RefusedIsNotAdded, NothingOfBadRequests, Refuse, Answer,
                ByMetaInfo
  <2> QED  BY <2>2, <2>3, <2>4
<1>3. CASE Accept(c)
  <2>1. req[c].metainfo = "torrent" \/ (req[c].metainfo = "none" /\ req[c].magnet)
    BY <1>1, <1>3, AcceptedRequest DEF Accept
  <2>2. TypeOK'
    BY <1>3 DEF TypeOK, Accept
  <2>3. CallInv'
    BY <1>3, <2>1 DEF TypeOK, CallInv, Accept
  <2>4. RefusedIsNotAdded' /\ NothingOfBadRequests'
    BY <1>3 DEF TypeOK, CallInv, RefusedIsNotAdded, NothingOfBadRequests, Accept, ByMetaInfo
  <2> QED  BY <2>2, <2>3, <2>4
<1> QED  BY <1>2, <1>3

\* The label is searched for.
LEMMA SearchStep ==
  ASSUME IInv, NEW c \in Calls, FindDirectory(c) \/ NoDirectory(c)
  PROVE  IInv'
<1> USE DEF IInv
<1>1. TypeOK'
  BY DEF TypeOK, FindDirectory, IsDirectory, NoDirectory, Answer, Answers
<1>2. CASE FindDirectory(c)
  <2>1. CallInv'
    BY <1>2 DEF TypeOK, CallInv, FindDirectory, IsDirectory
  <2>2. RefusedIsNotAdded' /\ NothingOfBadRequests'
    BY <1>2 DEF TypeOK, CallInv, RefusedIsNotAdded, NothingOfBadRequests, FindDirectory,
                ByMetaInfo
  <2> QED  BY <1>1, <2>1, <2>2
<1>3. CASE NoDirectory(c)
  <2>1. CallInv'
    BY <1>3 DEF TypeOK, CallInv, NoDirectory, Answer
  <2>2. RefusedIsNotAdded' /\ NothingOfBadRequests'
    BY <1>3 DEF TypeOK, CallInv, RefusedIsNotAdded, NothingOfBadRequests, NoDirectory,
                Answer, ByMetaInfo
  <2> QED  BY <1>1, <2>1, <2>2
<1> QED  BY <1>2, <1>3

\* The transfer is created, or only the file is.
LEMMA CreateStep ==
  ASSUME IInv, NEW c \in Calls, Create(c) \/ NoTransferMade(c)
  PROVE  IInv'
<1> USE DEF IInv
<1>1. CASE Create(c)
  <2>1. parent[c] \in (IF labelled THEN Folders ELSE {Top})
    BY <1>1 DEF Create, CallInv
  <2>2. TypeOK'
    BY <1>1, <2>1 DEF TypeOK, Create
  <2>3. CallInv'
    BY <1>1, <2>1 DEF TypeOK, CallInv, Create
  <2>4. RefusedIsNotAdded'
    BY <1>1 DEF TypeOK, RefusedIsNotAdded, Create, ByMetaInfo
  <2>5. NothingOfBadRequests'
    BY <1>1 DEF TypeOK, CallInv, NothingOfBadRequests, Create, ByMetaInfo
  <2> QED  BY <2>2, <2>3, <2>4, <2>5
<1>2. CASE NoTransferMade(c)
  <2>1. TypeOK'
    BY <1>2 DEF TypeOK, NoTransferMade, Answer, Answers
  <2>2. CallInv'
    BY <1>2 DEF TypeOK, CallInv, NoTransferMade, Answer
  <2>3. RefusedIsNotAdded' /\ NothingOfBadRequests'
    BY <1>2 DEF TypeOK, CallInv, RefusedIsNotAdded, NothingOfBadRequests, NoTransferMade,
                Answer, ByMetaInfo
  <2> QED  BY <2>1, <2>2, <2>3
<1> QED  BY <1>1, <1>2

\* The call that created, or tried to, is answered.
LEMMA AnswerStep ==
  ASSUME IInv, NEW c \in Calls, CreateFails(c) \/ Added(c)
  PROVE  IInv'
<1> USE DEF IInv
<1>1. PICK a \in Answers :
        /\ pc[c] \in {"create", "created"}
        /\ Answer(c, a)
        /\ a = "added" \/ a = (IF ByMetaInfo(c) THEN "upload" ELSE "error")
        /\ UNCHANGED <<labelled, req, parent, saved, strays, there>>
  BY DEF CreateFails, Added, Failure, Answers
<1>2. TypeOK'
  BY <1>1 DEF TypeOK, Answer
<1>3. CallInv'
  BY <1>1 DEF TypeOK, CallInv, Answer, Answers
<1>4. RefusedIsNotAdded'
  BY <1>1 DEF TypeOK, RefusedIsNotAdded, Answer, ByMetaInfo
<1>5. NothingOfBadRequests'
  BY <1>1 DEF TypeOK, CallInv, NothingOfBadRequests, Answer, ByMetaInfo
<1> QED  BY <1>2, <1>3, <1>4, <1>5

\* An entry goes: no call's own state changes.
LEMMA DeleteStep ==
  ASSUME IInv, NEW e \in Entries, DeleteEntry(e)
  PROVE  IInv'
BY DEF IInv, DeleteEntry, callVars, TypeOK, CallInv, RefusedIsNotAdded, NothingOfBadRequests,
       ByMetaInfo

\* A stutter changes nothing.
LEMMA StutterStep ==
  ASSUME IInv, UNCHANGED vars
  PROVE  IInv'
BY DEF IInv, vars, callVars, TypeOK, CallInv, RefusedIsNotAdded, NothingOfBadRequests,
       ByMetaInfo

\* Every step of a call or of the owner keeps the invariant.
THEOREM CallsAreConsistent == Spec => []IInv
<1>1. Init => IInv
  BY InitInv
<1>2. IInv /\ [Next]_vars => IInv'
  <2> SUFFICES ASSUME IInv, [Next]_vars  PROVE IInv'
    OBVIOUS
  <2>1. CASE \E c \in Calls : Handle(c)
    <3> PICK c \in Calls : Handle(c)
      BY <2>1
    <3> QED  BY ReceiveStep, SearchStep, CreateStep, AnswerStep DEF Handle
  <2>2. CASE \E e \in Entries : DeleteEntry(e)
    BY <2>2, DeleteStep
  <2>3. CASE UNCHANGED vars
    BY <2>3, StutterStep
  <2> QED  BY <2>1, <2>2, <2>3 DEF Next
<1> QED  BY <1>1, <1>2, PTL DEF Spec

\* Types: a transfer is saved in a folder of the account or in none.
THEOREM AddTypes == Spec => []TypeOK
<1>1. IInv => TypeOK
  BY DEF IInv
<1> QED  BY <1>1, CallsAreConsistent, PTL

\* A refusal with a reason of the request's own leaves no transfer behind.
THEOREM RefusalsAddNothing == Spec => []RefusedIsNotAdded
<1>1. IInv => RefusedIsNotAdded
  BY DEF IInv
<1> QED  BY <1>1, CallsAreConsistent, PTL

\* Put.io is handed nothing of a request with a bad metainfo.
THEOREM BadRequestsStayLocal == Spec => []NothingOfBadRequests
<1>1. IInv => NothingOfBadRequests
  BY DEF IInv
<1> QED  BY <1>1, CallsAreConsistent, PTL
=============================================================================
