-------------------------- MODULE ImportWatchProofs --------------------------
(* Theorems about ImportWatch for any number of files and services, any page *)
(* size, and histories and faults up to any bound.                           *)
EXTENDS ImportWatch, TLAPS

USE SizesAssumption, ServicesAssumption

\* The inductive invariant: what it takes to prove that nothing is removed in
\* vain, and what the pages inspected so far say.
CoreInv == TypeOK /\ CustodyInv /\ PagesExist
IInv    == CoreInv /\ PagedInv

\* The bounds are numbers, and there is a first file and a first service.
LEMMA Sizes ==
  /\ NumFiles \in Nat /\ NumServices \in Nat /\ PageSize \in Nat
  /\ PageSize > 0 /\ MaxRecords \in Nat /\ MaxRecords > 0 /\ MaxFaults \in Nat
  /\ 1 \in Files /\ 1 \in Services
  /\ Files \subseteq Nat /\ 0 \notin Files
BY DEF Files, Services

\* A page begins behind what was inspected, or, where pages are counted from one, a
\* page before that, which is then full.
LEMMA PageStart ==
  ASSUME TypeOK, PagesExist, pc = "request"
  PROVE  /\ inspected \in Nat /\ Start \in Nat /\ inspected = page * PageSize
         /\ (page + 1) * PageSize = inspected + PageSize
         /\ \/ Start = inspected /\ (svc \notin FromOne \/ page = 0)
            \/ Start + PageSize = inspected /\ svc \in FromOne /\ page > 0
         /\ inspected <= Len(history[svc]) /\ (page > 0 => inspected < Len(history[svc]))
<1>1. page \in Nat /\ inspected = page * PageSize /\ (page > 0 => inspected < Len(history[svc]))
  BY DEF TypeOK, PagesExist
<1>2. page * PageSize \in Nat /\ (page + 1) * PageSize = page * PageSize + PageSize
  BY <1>1, Sizes
<1>3. page > 0 => (page - 1) * PageSize \in Nat /\ (page - 1) * PageSize + PageSize = page * PageSize
  BY <1>1, Sizes
<1>4. page = 0 => inspected = 0
  BY <1>1, Sizes
<1>5. Len(history[svc]) \in Nat
  BY DEF TypeOK
<1>6. inspected <= Len(history[svc])
  BY <1>1, <1>2, <1>4, <1>5
<1> QED  BY <1>1, <1>2, <1>3, <1>6, Sizes DEF Start

\* A page holds records of the history, and with it the count of inspected ones
\* reaches to where the next page begins or to where the history ends.
LEMMA PageLength ==
  ASSUME TypeOK, PagesExist, pc = "request"
  PROVE  /\ Len(Records) \in Nat
         /\ DOMAIN Records = 1 .. Len(Records)
         /\ \A k \in DOMAIN Records :
              Start + k \in DOMAIN history[svc] /\ Records[k] = history[svc][Start + k]
         /\ \/ Len(Records) = PageSize
            \/ Start = inspected /\ Start + Len(Records) = Len(history[svc])
<1> DEFINE total == Len(history[svc])
           last  == Start + PageSize
           end   == IF last <= total THEN last ELSE total
<1>1. history[svc] \in Seq(Record) /\ total \in Nat
  BY DEF TypeOK
<1>2. /\ Start \in Nat /\ Start <= total /\ last \in Nat
      /\ Start = inspected \/ last <= total
  BY <1>1, PageStart, Sizes
<1>3. Records = SubSeq(history[svc], Start + 1, end)
  BY DEF Records
<1>4. end \in Nat /\ Start <= end /\ end <= total
  BY <1>1, <1>2, Sizes
<1> HIDE DEF total, last, end
<1>5. /\ Len(Records) = end - Start /\ DOMAIN Records = 1 .. Len(Records)
      /\ \A k \in DOMAIN Records :
           Start + k \in DOMAIN history[svc] /\ Records[k] = history[svc][Start + k]
  <2>1. Len(Records) = end - Start /\ DOMAIN Records = 1 .. (end - Start)
    BY <1>1, <1>2, <1>3, <1>4 DEF total
  <2>2. \A k \in 1 .. (end - Start) :
          Records[k] = history[svc][Start + k] /\ Start + k \in DOMAIN history[svc]
    BY <1>1, <1>2, <1>3, <1>4 DEF total
  <2> QED  BY <2>1, <2>2
<1> QED  BY <1>1, <1>2, <1>4, <1>5, Sizes DEF end, total, last

-----------------------------------------------------------------------------
(* The steps, one lemma for each actor.                                    *)

\* The transfer has just been claimed.
LEMMA InitCore == Init => CoreInv
<1> SUFFICES ASSUME Init  PROVE CoreInv
  OBVIOUS
<1>1. \A s \in Services : history[s] \in Seq(Record) /\ Len(history[s]) <= 1
        /\ \A k \in DOMAIN history[s] : history[s][k] \in Earlier
  <2> SUFFICES ASSUME NEW s \in Services
               PROVE  history[s] \in Seq(Record) /\ Len(history[s]) <= 1
                        /\ \A k \in DOMAIN history[s] : history[s][k] \in Earlier
    OBVIOUS
  <2>1. history[s] = <<>> \/ \E f \in Earlier : history[s] = <<f>>
    BY DEF Init
  <2>2. CASE history[s] = <<>>
    BY <2>2
  <2>3. ASSUME NEW f \in Earlier, history[s] = <<f>>
        PROVE  history[s] \in Seq(Record) /\ Len(history[s]) <= 1
                 /\ \A k \in DOMAIN history[s] : history[s][k] \in Earlier
    <3>1. f \in Record
      BY DEF Record
    <3> QED  BY <2>3, <3>1
  <2> QED  BY <2>1, <2>2, <2>3
<1>2. TypeOK
  BY <1>1, Sizes DEF Init, TypeOK, Contents
<1>3. CustodyInv
  BY <1>1 DEF Init, CustodyInv
<1>4. PagesExist
  BY DEF Init, PagesExist
<1> QED  BY <1>2, <1>3, <1>4 DEF CoreInv

\* The download: what it closes is whole, or was taken while it was open.
LEMMA DownloadStep ==
  ASSUME CoreInv, Download
  PROVE  CoreInv'
<1> USE DEF CoreInv, watcherVars, arrVars
<1>1. ASSUME NEW f \in Files, CreateFile(f)  PROVE CoreInv'
  <2>1. TypeOK'
    BY <1>1 DEF CreateFile, TypeOK, Contents
  <2>2. CustodyInv'
    BY <1>1 DEF CreateFile, TypeOK, CustodyInv, Downloaded
  <2>3. PagesExist'
    BY <1>1 DEF CreateFile, PagesExist
  <2> QED  BY <2>1, <2>2, <2>3
<1>2. ASSUME NEW f \in Files, CloseFile(f)  PROVE CoreInv'
  <2>1. TypeOK'
    BY <1>2 DEF CloseFile, TypeOK, Contents
  <2>2. CustodyInv'
    BY <1>2 DEF CloseFile, TypeOK, CustodyInv, Downloaded
  <2>3. PagesExist'
    BY <1>2 DEF CloseFile, PagesExist
  <2> QED  BY <2>1, <2>2, <2>3
<1>3. CASE DownloadBreaks
  <2>1. disk' \in [Files -> Contents] /\ writing' = [f \in Files |-> "todo"]
    BY <1>3 DEF DownloadBreaks, TypeOK, Contents
  <2>2. TypeOK'
    BY <1>3, <2>1, Sizes DEF DownloadBreaks, Fault, TypeOK
  <2>3. CustodyInv'
    BY <1>3, <2>1 DEF DownloadBreaks, CustodyInv
  <2>4. PagesExist'
    BY <1>3 DEF DownloadBreaks, PagesExist
  <2> QED  BY <2>2, <2>3, <2>4
<1>4. CASE StartWatch
  <2>1. TypeOK'
    BY <1>4 DEF StartWatch, TypeOK
  <2>2. CustodyInv'
    BY <1>4 DEF StartWatch, CustodyInv, Downloaded
  <2>3. PagesExist'
    BY <1>4 DEF StartWatch, PagesExist
  <2> QED  BY <2>1, <2>2, <2>3
<1> QED  BY <1>1, <1>2, <1>3, <1>4 DEF Download

\* The loops over files and services stay within them, and begin with page 0.
LEMMA AskNextStep ==
  ASSUME TypeOK, pc = "request", AskNext
  PROVE  /\ pc' \in {"request", "waiting"}
         /\ file' \in Files /\ svc' \in Services
         /\ page' \in Nat /\ inspected' \in Nat /\ held' \in Nat
         /\ pc' = "request" => page' = 0 /\ inspected' = 0
<1>1. /\ file \in Files /\ svc \in Services /\ page \in Nat /\ inspected \in Nat
      /\ held \in Nat /\ \A s \in Services : Len(history[s]) \in Nat
      /\ NumFiles \in Nat /\ NumServices \in Nat
  BY Sizes DEF TypeOK
<1>2. CASE svc < NumServices /\ Ask(file, svc + 1) /\ pc' = pc
  BY <1>1, <1>2 DEF Ask, Services
<1>3. CASE svc = NumServices /\ file < NumFiles /\ Ask(file + 1, 1) /\ pc' = pc
  BY <1>1, <1>3, Sizes DEF Ask, Files
<1>4. CASE svc = NumServices /\ file = NumFiles /\ pc' = "waiting"
             /\ UNCHANGED <<file, svc, page, inspected, held>>
  BY <1>1, <1>4
<1> QED  BY <1>2, <1>3, <1>4 DEF AskNext

\* The watcher: it removes a file only behind a record of that file.
LEMMA WatcherStep ==
  ASSUME CoreInv, Watcher
  PROVE  CoreInv'
<1> USE DEF CoreInv, arrVars
<1>1. CASE Tick
  <2>1. TypeOK'
    BY <1>1, Sizes DEF Tick, Ask, TypeOK
  <2>2. CustodyInv'
    BY <1>1 DEF Tick, CustodyInv, Downloaded
  <2>3. PagesExist'
    BY <1>1, Sizes DEF Tick, Ask, PagesExist
  <2> QED  BY <2>1, <2>2, <2>3
<1>2. CASE FindImport
  <2>1. PICK k \in DOMAIN Records : Records[k] = file
    BY <1>2 DEF FindImport, IsImport
  <2>2. \E j \in DOMAIN history[svc] : history[svc][j] = file
    BY <1>2, <2>1, PageLength DEF FindImport
  <2>3. file \in Earlier \/ taken[file] # "none"
    BY <2>2 DEF CustodyInv, TypeOK
  <2>4. TypeOK'
    BY <1>2 DEF FindImport, TypeOK
  <2>5. CustodyInv'
    BY <1>2, <2>3 DEF FindImport, CustodyInv, Downloaded
  <2>6. PagesExist'
    BY <1>2 DEF FindImport, PagesExist
  <2> QED  BY <2>4, <2>5, <2>6
<1>3. CASE TurnPage
  <2>1. /\ pc = "request" /\ pc' = "request" /\ page' = page + 1
        /\ inspected' = inspected + Len(Records)
        /\ Len(history[svc]) > inspected + Len(Records)
        /\ UNCHANGED <<writing, file, svc, held, history, up, taken, disk, faults>>
    BY <1>3 DEF TurnPage, HasMore
  <2>2. Len(Records) \in Nat /\ inspected + Len(Records) = (page + 1) * PageSize
    <3>1. Len(history[svc]) \in Nat /\ inspected \in Nat
      BY DEF TypeOK
    <3> QED  BY <2>1, <3>1, PageStart, PageLength
  <2>3. TypeOK'
    BY <2>1, <2>2 DEF TypeOK
  <2>4. CustodyInv'
    BY <2>1 DEF CustodyInv, Downloaded
  <2>5. PagesExist'
    BY <2>1, <2>2 DEF PagesExist
  <2> QED  BY <2>3, <2>4, <2>5
<1>4. CASE NotImported
  <2>1. /\ pc = "request" /\ AskNext
        /\ UNCHANGED <<writing, history, up, taken, disk, faults>>
    BY <1>4 DEF NotImported
  <2>2. /\ pc' \in {"request", "waiting"}
        /\ file' \in Files /\ svc' \in Services
        /\ page' \in Nat /\ inspected' \in Nat /\ held' \in Nat
        /\ pc' = "request" => page' = 0 /\ inspected' = 0
    BY <2>1, AskNextStep
  <2>3. TypeOK'
    BY <2>1, <2>2 DEF TypeOK
  <2>4. CustodyInv'
    BY <2>1, <2>2 DEF CustodyInv, Downloaded
  <2>5. PagesExist'
    BY <2>2, Sizes DEF PagesExist
  <2> QED  BY <2>3, <2>4, <2>5
<1>5. CASE RequestFails
  BY <1>5 DEF RequestFails, TypeOK, CustodyInv, Downloaded, PagesExist
<1>6. CASE RemoveFile
  <2>1. TypeOK'
    BY <1>6 DEF RemoveFile, TypeOK, Contents
  <2>2. CustodyInv'
    BY <1>6 DEF RemoveFile, TypeOK, CustodyInv, Downloaded
  <2>3. PagesExist'
    BY <1>6 DEF RemoveFile, PagesExist
  <2> QED  BY <2>1, <2>2, <2>3
<1>7. CASE RemoveFails
  <2>1. TypeOK'
    BY <1>7, Sizes DEF RemoveFails, Fault, TypeOK
  <2>2. CustodyInv' /\ PagesExist'
    BY <1>7 DEF RemoveFails, CustodyInv, Downloaded, PagesExist
  <2> QED  BY <2>1, <2>2
<1> QED  BY <1>1, <1>2, <1>3, <1>4, <1>5, <1>6, <1>7 DEF Watcher

\* A record is prepended to the history of one service, and moves that service's
\* others down by one.
LEMMA Prepended ==
  ASSUME TypeOK, NEW s \in Services, NEW r \in Record, Prepend(s, r)
  PROVE  /\ history' \in [Services -> Seq(Record)]
         /\ \A u \in Services : Len(history'[u]) <= MaxRecords
         /\ \A u \in Services \ {s} : history'[u] = history[u]
         /\ Len(history'[s]) = Len(history[s]) + 1
         /\ history'[s][1] = r
         /\ \A k \in DOMAIN history'[s] :
              k = 1 \/ (k - 1 \in DOMAIN history[s] /\ history'[s][k] = history[s][k - 1])
         /\ \A u \in Services : Len(history'[u]) >= Len(history[u])
         /\ \A u \in Services : \A k \in DOMAIN history'[u] :
              history'[u][k] = r \/ \E j \in DOMAIN history[u] : history'[u][k] = history[u][j]
<1>1. history[s] \in Seq(Record) /\ Len(history[s]) \in Nat
  BY DEF TypeOK
<1> DEFINE h == <<r>> \o history[s]
<1>2. /\ h \in Seq(Record) /\ Len(h) = Len(history[s]) + 1 /\ h[1] = r
      /\ \A k \in DOMAIN h : k = 1 \/ (k - 1 \in DOMAIN history[s] /\ h[k] = history[s][k - 1])
  <2>1. /\ h \in Seq(Record) /\ Len(h) = Len(history[s]) + 1 /\ h[1] = r
        /\ DOMAIN h = 1 .. Len(history[s]) + 1 /\ DOMAIN history[s] = 1 .. Len(history[s])
    BY <1>1
  <2>2. \A j \in 1 .. Len(history[s]) : h[j + 1] = history[s][j]
    BY <1>1
  <2> HIDE DEF h
  <2>3. ASSUME NEW k \in DOMAIN h, k # 1
        PROVE  k - 1 \in DOMAIN history[s] /\ h[k] = history[s][k - 1]
    <3>1. k - 1 \in 1 .. Len(history[s]) /\ (k - 1) + 1 = k
      BY <1>1, <2>1, <2>3
    <3> QED  BY <2>1, <2>2, <3>1
  <2> QED  BY <2>1, <2>3
<1>3. history' = [history EXCEPT ![s] = h] /\ Len(history[s]) < MaxRecords
  BY DEF Prepend
<1> HIDE DEF h
<1>4. /\ history'[s] = h
      /\ \A u \in Services \ {s} : history'[u] = history[u]
      /\ history' \in [Services -> Seq(Record)]
  BY <1>2, <1>3 DEF TypeOK
<1>5. \A u \in Services : Len(history[u]) \in Nat /\ Len(history[u]) <= MaxRecords
  BY DEF TypeOK
<1>6. \A k \in DOMAIN h : h[k] = r \/ \E j \in DOMAIN history[s] : h[k] = history[s][j]
  BY <1>2
<1> QED  BY <1>2, <1>3, <1>4, <1>5, <1>6, Sizes

\* The *arr apps: a record is prepended for a file that is taken at once.
LEMMA ArrStep ==
  ASSUME CoreInv, NEW s \in Services,
         \/ \E f \in Files : ArrImports(s, f)
         \/ ArrRecords(s)
         \/ Outage(s) \/ Recover(s)
  PROVE  CoreInv'
<1> USE DEF CoreInv, watcherVars
<1>1. ASSUME NEW f \in Files, ArrImports(s, f)  PROVE CoreInv'
  <2>1. f \in Record /\ Prepend(s, f)
    BY <1>1 DEF ArrImports, Record
  <2>2. /\ disk[f] # "none" /\ disk[f] \in Contents
        /\ taken' = [taken EXCEPT ![f] = disk[f]]
        /\ disk' = [disk EXCEPT ![f] = disk[f]] \/ disk' = [disk EXCEPT ![f] = "none"]
        /\ UNCHANGED <<pc, writing, file, svc, page, inspected, held, up, faults>>
    BY <1>1 DEF ArrImports, TypeOK
  <2>3. TypeOK'
    <3>1. taken' \in [Files -> Contents] /\ disk' \in [Files -> Contents]
      BY <2>2 DEF TypeOK, Contents
    <3>2. /\ history' \in [Services -> Seq(Record)]
          /\ \A u \in Services : Len(history'[u]) <= MaxRecords
      BY <2>1, Prepended
    <3> QED  BY <2>2, <3>1, <3>2 DEF TypeOK
  <2>4. \A g \in Files : taken'[g] = taken[g] \/ taken'[g] # "none"
    BY <2>2 DEF TypeOK
  <2>5. CustodyInv'
    <3>1. \A g \in Files :
            /\ writing'[g] = "open" => disk'[g] = "partial" \/ taken'[g] # "none"
            /\ writing'[g] = "done" /\ g \notin Earlier => disk'[g] = "whole" \/ taken'[g] # "none"
      BY <2>2 DEF CustodyInv, TypeOK
    <3>2. \A u \in Services : \A k \in DOMAIN history'[u] :
            history'[u][k] \in Files \ Earlier => taken'[history'[u][k]] # "none"
      <4> SUFFICES ASSUME NEW u \in Services, NEW k \in DOMAIN history'[u],
                          history'[u][k] \in Files \ Earlier
                   PROVE  taken'[history'[u][k]] # "none"
        OBVIOUS
      <4>1. CASE history'[u][k] = f
        BY <2>2, <4>1 DEF TypeOK
      <4>2. ASSUME NEW j \in DOMAIN history[u], history'[u][k] = history[u][j]
            PROVE  taken'[history'[u][k]] # "none"
        BY <2>4, <4>2 DEF CustodyInv
      <4> QED  BY <2>1, Prepended, <4>1, <4>2
    <3>3. /\ pc' = "remove" => file' \in Earlier \/ taken'[file'] # "none"
          /\ pc' # "downloading" => Downloaded'
      BY <2>2, <2>4 DEF CustodyInv, Downloaded, TypeOK
    <3> QED  BY <3>1, <3>2, <3>3 DEF CustodyInv
  <2>6. PagesExist'
    <3>1. Len(history'[svc]) \in Nat /\ Len(history[svc]) \in Nat /\ Len(history'[svc]) >= Len(history[svc])
      BY <2>1, Prepended, <2>3 DEF TypeOK
    <3> QED  BY <2>2, <3>1 DEF PagesExist, TypeOK
  <2> QED  BY <2>3, <2>5, <2>6
<1>2. CASE ArrRecords(s)
  <2>1. /\ 0 \in Record /\ Prepend(s, 0)
        /\ UNCHANGED <<pc, writing, file, svc, page, inspected, held, up, taken, disk, faults>>
    BY <1>2 DEF ArrRecords, Record
  <2>2. TypeOK'
    BY <2>1, Prepended DEF TypeOK
  <2>3. CustodyInv'
    <3>1. \A u \in Services : \A k \in DOMAIN history'[u] :
            history'[u][k] \in Files \ Earlier => taken'[history'[u][k]] # "none"
      BY <2>1, Prepended, Sizes DEF CustodyInv
    <3> QED  BY <2>1, <3>1 DEF CustodyInv, Downloaded
  <2>4. PagesExist'
    <3>1. Len(history'[svc]) \in Nat /\ Len(history[svc]) \in Nat /\ Len(history'[svc]) >= Len(history[svc])
      BY <2>1, Prepended, <2>2 DEF TypeOK
    <3> QED  BY <2>1, <3>1 DEF PagesExist, TypeOK
  <2> QED  BY <2>2, <2>3, <2>4
<1>3. CASE Outage(s) \/ Recover(s)
  <2>1. /\ up' \subseteq Configured /\ faults' \in 0 .. MaxFaults
        /\ UNCHANGED <<pc, writing, file, svc, page, inspected, held, history, taken, disk>>
    BY <1>3, Sizes DEF Outage, Recover, Fault, TypeOK
  <2>2. TypeOK'
    BY <2>1 DEF TypeOK
  <2> QED  BY <2>1, <2>2 DEF CustodyInv, Downloaded, PagesExist
<1> QED  BY <1>1, <1>2, <1>3

\* The pages inspected so far: a check begins with none, each page adds what was
\* found not to be the import, and a record that arrives moves them down.
LEMMA PagedStep ==
  ASSUME IInv, [Next]_vars, TypeOK'
  PROVE  PagedInv'
<1> USE DEF watcherVars, arrVars
<1>1. TypeOK /\ PagesExist /\ PagedInv
  BY DEF IInv, CoreInv
<1>2. ASSUME NEW f \in Files, NEW s \in Services, pc' = "request", Ask(f, s),
             history' = history
      PROVE  PagedInv'
  <2>1. Len(history[s]) \in Nat
    BY <1>1 DEF TypeOK
  <2>2. held' = Len(history'[svc']) /\ page' = 0 /\ DOMAIN history'[svc'] = 1 .. held'
    BY <1>1, <1>2, <2>1 DEF Ask, TypeOK
  <2>3. Start' = 0
    BY <2>2, Sizes DEF Start
  <2> QED  BY <2>1, <2>2, <2>3, <1>2 DEF PagedInv, Ask
<1>3. CASE Tick
  BY <1>2, <1>3, Sizes DEF Tick
<1>4. CASE TurnPage
  <2>1. /\ pc = "request"
        /\ \A k \in DOMAIN Records : Records[k] # file
        /\ page' = page + 1 /\ Len(history[svc]) > inspected + Len(Records)
        /\ UNCHANGED <<file, svc, held, history>>
    BY <1>4 DEF TurnPage, IsImport, HasMore
  <2>2. /\ inspected \in Nat /\ Start \in Nat /\ Start' \in Nat /\ Len(Records) \in Nat
        /\ Start' <= Start + Len(Records)
    <3>1. page \in Nat /\ Len(history[svc]) \in Nat
      BY <1>1 DEF TypeOK
    <3>2. Len(Records) = PageSize /\ Len(Records) \in Nat
      BY <1>1, <2>1, <3>1, PageStart, PageLength
    <3>3. Start' = IF svc \in FromOne THEN inspected ELSE inspected + PageSize
      <4>1. (page + 1) - 1 = page /\ page + 1 > 0
        BY <3>1
      <4>2. Start' = IF svc \in FromOne THEN page * PageSize ELSE (page + 1) * PageSize
        BY <2>1, <4>1 DEF Start
      <4> QED  BY <1>1, <2>1, <4>2, PageStart
    <3> QED  BY <1>1, <2>1, <3>1, <3>2, <3>3, PageStart, Sizes
  <2>3. SUFFICES ASSUME NEW k \in DOMAIN history[svc],
                        k <= Start', Len(history[svc]) - k < held
                 PROVE  history[svc][k] # file
    BY <1>1, <2>1 DEF PagedInv
  <2>4. k \in Nat
    BY <1>1 DEF TypeOK
  <2>5. CASE k <= Start
    BY <1>1, <2>1, <2>3, <2>5 DEF PagedInv
  <2>6. CASE k > Start
    <3>1. k - Start \in DOMAIN Records /\ Start + (k - Start) = k
      BY <1>1, <2>1, <2>2, <2>3, <2>4, <2>6, PageLength
    <3>2. Records[k - Start] = history[svc][k]
      BY <1>1, <2>1, <3>1, PageLength
    <3> QED  BY <2>1, <3>1, <3>2
  <2> QED  BY <2>2, <2>4, <2>5, <2>6
<1>5. CASE NotImported
  <2>1. /\ pc = "request" /\ AskNext /\ history' = history
        /\ file \in Files /\ svc \in Services
    BY <1>1, <1>5 DEF NotImported, TypeOK
  <2>2. CASE svc < NumServices /\ Ask(file, svc + 1) /\ pc' = pc
    <3>1. svc + 1 \in Services
      BY <2>1, <2>2, Sizes DEF Services
    <3> QED  BY <1>2, <2>1, <2>2, <3>1
  <2>3. CASE svc = NumServices /\ file < NumFiles /\ Ask(file + 1, 1) /\ pc' = pc
    <3>1. file + 1 \in Files
      BY <2>1, <2>3, Sizes DEF Files
    <3> QED  BY <1>2, <2>1, <2>3, <3>1, Sizes
  <2>4. CASE pc' = "waiting"
    BY <2>4 DEF PagedInv
  <2> QED  BY <2>1, <2>2, <2>3, <2>4 DEF AskNext
<1>6. ASSUME NEW s \in Services, NEW r \in Record, Prepend(s, r), UNCHANGED watcherVars
      PROVE  PagedInv'
  <2>1. SUFFICES ASSUME pc = "request"  PROVE PagedInv'
    BY <1>6 DEF PagedInv
  <2>2. CASE svc # s
    <3>1. svc \in Services /\ history'[svc] = history[svc]
      BY <1>1, <1>6, <2>2, Prepended DEF TypeOK
    <3> QED  BY <1>1, <1>6, <2>1, <3>1 DEF PagedInv, Start
  <2>3. CASE svc = s
    <3>1. /\ Len(history[s]) \in Nat /\ Len(history'[s]) = Len(history[s]) + 1
          /\ history'[s] \in Seq(Record) /\ DOMAIN history'[s] = 1 .. Len(history'[s])
          /\ held \in Nat
      BY <1>1, <1>6, Prepended DEF TypeOK
    <3>0. Start \in Nat /\ Start' = Start
      <4>1. Start' = Start
        BY <1>6 DEF Start
      <4> QED  BY <1>1, <2>1, <4>1, PageStart
    <3>2. held <= Len(history[s])
      BY <1>1, <2>1, <2>3 DEF PagedInv
    <3>3. ASSUME NEW k \in DOMAIN history'[s], k <= Start, Len(history'[s]) - k < held
          PROVE  history'[s][k] # file
      <4>1. k \in Nat /\ k # 1
        BY <3>0, <3>1, <3>2, <3>3
      <4>2. k - 1 \in DOMAIN history[s] /\ history'[s][k] = history[s][k - 1]
        BY <1>1, <1>6, <4>1, Prepended
      <4>3. k - 1 <= Start /\ Len(history[s]) - (k - 1) < held
        BY <3>0, <3>1, <3>3, <4>1
      <4> QED  BY <1>1, <2>1, <2>3, <4>2, <4>3 DEF PagedInv
    <3>4. held <= Len(history'[s])
      BY <3>1, <3>2
    <3> QED  BY <1>6, <2>1, <2>3, <3>0, <3>3, <3>4 DEF PagedInv
  <2> QED  BY <2>2, <2>3
<1>7. CASE \E s \in Services : (\E f \in Files : ArrImports(s, f)) \/ ArrRecords(s)
  BY <1>6, <1>7 DEF ArrImports, ArrRecords, Record
<1>8. CASE \E s \in Services : Outage(s) \/ Recover(s)
  BY <1>1, <1>8 DEF Outage, Recover, PagedInv, Start
<1>9. CASE Download
  BY <1>9 DEF Download, CreateFile, CloseFile, DownloadBreaks, StartWatch, PagedInv, Start
<1>10. CASE FindImport \/ RequestFails \/ RemoveFile \/ RemoveFails
  BY <1>10 DEF FindImport, RequestFails, RemoveFile, RemoveFails, PagedInv, Start
<1>11. CASE UNCHANGED vars
  BY <1>1, <1>11 DEF vars, PagedInv, Start
<1> QED  BY <1>3, <1>4, <1>5, <1>7, <1>8, <1>9, <1>10, <1>11 DEF Next, Watcher

\* The invariant holds at first, and every step keeps it.
LEMMA InitInv == Init => IInv
BY InitCore DEF Init, IInv, PagedInv

LEMMA InvStep == IInv /\ [Next]_vars => IInv'
<1> SUFFICES ASSUME IInv, [Next]_vars  PROVE IInv'
  OBVIOUS
<1>1. CoreInv
  BY DEF IInv
<1>2. CoreInv'
  <2>1. CASE UNCHANGED vars
    BY <1>1, <2>1
       DEF CoreInv, TypeOK, CustodyInv, Downloaded, PagesExist, vars, watcherVars, arrVars
  <2>2. CASE Next
    BY <1>1, <2>2, DownloadStep, WatcherStep, ArrStep DEF Next
  <2> QED  BY <2>1, <2>2
<1>3. TypeOK'
  BY <1>2 DEF CoreInv
<1> QED  BY <1>2, <1>3, PagedStep DEF IInv

\* The invariant holds throughout.
LEMMA Invariant == Spec => []IInv
BY InitInv, InvStep, PTL DEF Spec

-----------------------------------------------------------------------------
\* TypeOK: the loops of checkForImported stay within the files and services, for
\* any number of either.
THEOREM ImportTypes == Spec => []TypeOK
<1>1. IInv => TypeOK
  BY DEF IInv, CoreInv
<1> QED  BY <1>1, Invariant, PTL

\* KeptUntilTaken: what was downloaded is on disk, whole, unless an *arr app has
\* taken that very file, or had imported one under its path before, through any
\* retries of the download and any growth of the histories.
THEOREM DownloadsAreKept == Spec => []KeptUntilTaken
<1>1. IInv => KeptUntilTaken
  BY DEF IInv, CoreInv, CustodyInv, Downloaded, KeptUntilTaken
<1> QED  BY <1>1, Invariant, PTL

\* PagesExist: the unbounded loop of CheckImported asks for a further page only
\* where the history has one, for any page size and growing histories.
THEOREM PagingEnds == Spec => []PagesExist
<1>1. IInv => PagesExist
  BY DEF IInv, CoreInv
<1> QED  BY <1>1, Invariant, PTL

\* NoneOverlooked: when CheckImported says that a file is not imported, it was not
\* when the check began, wherever in the history the import would have been, but on
\* the oldest page of a service that counts its pages from one, and however many
\* records came in between two of its pages.
THEOREM NothingIsOverlooked == Spec => NoneOverlooked
<1>1. ASSUME IInv, [Next]_vars
      PROVE  [NotImported =>
                \A k \in DOMAIN history[svc] :
                  /\ Len(history[svc]) - k < held
                  /\ Reachable(svc, k) \/ Len(history[svc]) <= PageSize
                  => history[svc][k] # file]_vars
  <2>1. TypeOK /\ PagesExist /\ PagedInv
    BY <1>1 DEF IInv, CoreInv
  <2>2. SUFFICES ASSUME NotImported, NEW k \in DOMAIN history[svc], Len(history[svc]) - k < held,
                        Reachable(svc, k) \/ Len(history[svc]) <= PageSize
                 PROVE  history[svc][k] # file
    OBVIOUS
  <2>3. /\ pc = "request" /\ \A j \in DOMAIN Records : Records[j] # file
        /\ Len(history[svc]) <= inspected + Len(Records)
        /\ Len(history[svc]) \in Nat /\ k \in 1 .. Len(history[svc])
    BY <2>1, <2>2 DEF NotImported, IsImport, HasMore, TypeOK
  <2>4. /\ inspected \in Nat /\ Start \in Nat /\ Len(Records) \in Nat
        /\ DOMAIN Records = 1 .. Len(Records)
    BY <2>1, <2>3, PageStart, PageLength
  <2>5. k <= Start + Len(Records)
    <3>1. CASE Start = inspected
      BY <2>3, <2>4, <3>1
    <3>2. CASE Start # inspected
      <4>1. /\ svc \in FromOne /\ Start + PageSize = inspected /\ Len(Records) = PageSize
            /\ inspected < Len(history[svc])
        BY <2>1, <2>3, <3>2, PageStart, PageLength
      <4>2. Len(history[svc]) - k >= PageSize
        BY <2>2, <2>3, <2>4, <4>1, Sizes DEF Reachable
      <4> QED  BY <2>3, <2>4, <4>1, <4>2, Sizes
    <3> QED  BY <3>1, <3>2
  <2>6. CASE k <= Start
    BY <2>1, <2>2, <2>3, <2>6 DEF PagedInv
  <2>7. CASE k > Start
    <3>1. k - Start \in DOMAIN Records /\ Start + (k - Start) = k
      BY <2>3, <2>4, <2>5, <2>7
    <3> QED  BY <2>1, <2>3, <3>1, PageLength
  <2> QED  BY <2>3, <2>4, <2>6, <2>7
<1> QED  BY <1>1, Invariant, PTL DEF Spec, NoneOverlooked
=============================================================================
