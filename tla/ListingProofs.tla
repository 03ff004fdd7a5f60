---------------------------- MODULE ListingProofs ----------------------------
(* Theorems about Listing for any transfers, any trees of files and any      *)
(* number of failed requests.                                                *)
EXTENDS Listing, TLAPS

USE RootAssumption, NamesAssumption, NullAssumption, FaultsAssumption

\* The trees, but for that every node lies below a root.
LEMMA Tree ==
  /\ Kind \in [Nodes -> {"folder", "file", "other"}]
  /\ Children \in [Nodes -> SUBSET Nodes]
  /\ \A n \in Nodes : \A m \in Children[n] :
       Home[m] = Home[n] /\ Kind[n] = "folder" /\ \A t \in Transfers : m # Root[t]
BY TreeAssumption

\* The inductive invariant.
IInv == TypeOK /\ PathInv

\* A path joined to a name is a path with the same first segment.
LEMMA JoinKeepsRoot ==
  ASSUME NEW base \in Paths, NEW n \in Nodes
  PROVE  Join(base, n) \in Paths /\ Join(base, n)[1] = base[1]
<1>1. NodeName[n] \in Names
  OBVIOUS
<1> QED  BY <1>1 DEF Join, Paths

\* The base path of a walk.
LEMMA RootIsPath ==
  ASSUME NEW t \in Transfers
  PROVE  RootPath(t) \in Paths /\ RootPath(t)[1] = NodeName[Root[t]]
<1>1. NodeName[Root[t]] \in Names
  OBVIOUS
<1> QED  BY <1>1 DEF RootPath, Paths

\* LocalName is a path, and if derived from files whose paths start with the
\* name of their transfer's root, it is that name.
LEMMA LocalNameIsRoot ==
  ASSUME NEW t \in Transfers, NEW F \in SUBSET File,
         \A f \in F : f.of = t /\ f.path[1] = NodeName[Root[f.of]]
  PROVE  /\ LocalName(t, F) \in Paths
         /\ Derived(F) \in BOOLEAN
         /\ Derived(F) => LocalName(t, F) = <<NodeName[Root[t]]>>
<1>1. NodeName[Root[t]] \in Names /\ TransferName[t] \in Names
  OBVIOUS
<1>2. \A nm \in Names : <<nm>> \in Paths
  BY DEF Paths
<1>3. Derived(F) \in BOOLEAN
  BY DEF Derived, IsBareFile, SharesRoot
<1>4. CASE Derived(F)
  <2>1. F # {}
    BY <1>4 DEF Derived, IsBareFile, SharesRoot
  <2>2. (CHOOSE f \in F : TRUE) \in F
    BY <2>1
  <2>3. LocalName(t, F) = <<NodeName[Root[t]]>>
    BY <1>4, <2>2 DEF LocalName
  <2> QED  BY <1>1, <1>2, <1>3, <2>3
<1>5. CASE ~Derived(F)
  BY <1>1, <1>2, <1>3, <1>5 DEF LocalName
<1> QED  BY <1>4, <1>5

\* What lies under a single name starts with it.
LEMMA UnderRoot ==
  ASSUME NEW nm \in Names, NEW p \in Paths
  PROVE  Under(<<nm>>, p) <=> p[1] = nm
BY DEF Under, Paths

\* What is on disk after a write was there before or has just been written.
LEMMA WriteAdds ==
  ASSUME NEW D, NEW W
  PROVE  Write(D, W) \subseteq D \cup W
BY DEF Write

\* Faults stay within their bound.
LEMMA FaultsBounded ==
  ASSUME TypeOK, Fault \/ UNCHANGED faults
  PROVE  faults' \in 0 .. MaxFaults
<1>1. faults \in 0 .. MaxFaults /\ MaxFaults \in Nat
  BY DEF TypeOK
<1> QED  BY <1>1 DEF Fault

\* The initial state.
LEMMA InitInv == Init => IInv
BY DEF Init, IInv, TypeOK, PathInv, Callers

\* A walk's files and folders keep the root's name in front.
LEMMA ListStep ==
  ASSUME IInv, NEW c \in Callers, List(c)
  PROVE  IInv'
<1> USE DEF IInv, worldVars
<1>a. UNCHANGED <<complete, present, status, disk, advertised>> /\ (Fault \/ UNCHANGED faults)
  <2>1. CASE ListTransfers(c) \/ EndWalk(c)
    BY <2>1 DEF ListTransfers, EndWalk
  <2>2. ASSUME NEW t \in Transfers, SkipTransfer(c, t) \/ ListUnfinished(c, t) \/ StartWalk(c, t)
        PROVE  UNCHANGED <<complete, present, status, disk, advertised>> /\ (Fault \/ UNCHANGED faults)
    BY <2>2 DEF SkipTransfer, ListUnfinished, StartWalk, FailsFor
  <2>3. ASSUME NEW v \in folders[c], VisitFile(c, v) \/ VisitFolder(c, v) \/ VisitFails(c, v)
        PROVE  UNCHANGED <<complete, present, status, disk, advertised>> /\ (Fault \/ UNCHANGED faults)
    BY <2>3 DEF VisitFile, VisitFolder, VisitFails, FailsFor
  <2> QED  BY <2>1, <2>2, <2>3 DEF List
<1>0. UNCHANGED <<complete, present, status, disk, advertised>> /\ faults' \in 0 .. MaxFaults
  BY <1>a, FaultsBounded
<1>1. CASE ListTransfers(c)
  BY <1>0, <1>1 DEF ListTransfers, TypeOK, PathInv
<1>2. ASSUME NEW t \in Transfers, SkipTransfer(c, t) \/ ListUnfinished(c, t)  PROVE IInv'
  <2>1. /\ UNCHANGED <<pc, snap, cur, folders, found, broken>>
        /\ todo' = [todo EXCEPT ![c] = @ \ {t}]
        /\ listed' = listed \/ listed' = [listed EXCEPT ![c] = @ \cup {t}]
    BY <1>2 DEF SkipTransfer, ListUnfinished
  <2>2. TypeOK'
    BY <1>0, <2>1 DEF TypeOK
  <2> QED  BY <1>0, <2>1, <2>2 DEF PathInv
<1>3. ASSUME NEW t \in Transfers, StartWalk(c, t)  PROVE IInv'
  <2>1. [node |-> Root[t], path |-> RootPath(t)] \in Visit
    BY RootIsPath DEF Visit
  <2>2. TypeOK'
    BY <1>0, <1>3, <2>1 DEF StartWalk, TypeOK
  <2>3. PathInv'
    BY <1>0, <1>3, RootIsPath DEF StartWalk, TypeOK, PathInv
  <2> QED  BY <2>2, <2>3
<1>4. ASSUME NEW v \in folders[c], VisitFile(c, v)  PROVE IInv'
  <2>1. v \in Visit /\ cur[c] \in Transfers /\ v.path[1] = NodeName[Root[cur[c]]]
    BY <1>4 DEF VisitFile, TypeOK, PathInv
  <2>2. [of |-> cur[c], node |-> v.node, path |-> v.path] \in File
    BY <2>1 DEF Visit, File
  <2>3. TypeOK'
    BY <1>0, <1>4, <2>2 DEF VisitFile, TypeOK
  <2>4. PathInv'
    BY <1>0, <1>4, <2>1 DEF VisitFile, TypeOK, PathInv
  <2> QED  BY <2>3, <2>4
<1>5. ASSUME NEW v \in folders[c], VisitFolder(c, v)  PROVE IInv'
  <2> DEFINE S == Children[v.node] \cap present
             A == {[node |-> m, path |-> Join(v.path, m)] : m \in Nested(v.node, S)}
             B == {[of |-> cur[c], node |-> m, path |-> Join(v.path, m)] :
                     m \in {k \in S : Kind[k] = "file"}}
  <2>1. v \in Visit /\ cur[c] \in Transfers /\ v.path[1] = NodeName[Root[cur[c]]]
    BY <1>5 DEF VisitFolder, TypeOK, PathInv
  <2>2. v.path \in Paths /\ v.node \in Nodes /\ S \subseteq Nodes
    BY <2>1, Tree DEF Visit
  <2> HIDE DEF S
  <2>3. \A m \in S : Join(v.path, m) \in Paths /\ Join(v.path, m)[1] = NodeName[Root[cur[c]]]
    <3> SUFFICES ASSUME NEW m \in S
                 PROVE  Join(v.path, m) \in Paths /\ Join(v.path, m)[1] = NodeName[Root[cur[c]]]
      OBVIOUS
    <3>1. m \in Nodes
      BY <2>2
    <3>2. Join(v.path, m) \in Paths /\ Join(v.path, m)[1] = v.path[1]
      BY <2>2, <3>1, JoinKeepsRoot
    <3> QED  BY <2>1, <3>2
  <2>4. A \subseteq Visit /\ \A a \in A : a.path[1] = NodeName[Root[cur[c]]]
    BY <2>2, <2>3 DEF Visit, Nested
  <2>5. B \subseteq File /\ \A b \in B : b.of = cur[c] /\ b.path[1] = NodeName[Root[cur[c]]]
    BY <2>1, <2>2, <2>3 DEF File
  <2>6. /\ folders' = [folders EXCEPT ![c] = (@ \ {v}) \cup A]
        /\ found' = [found EXCEPT ![c] = @ \cup B]
        /\ pc[c] = "walk"
        /\ UNCHANGED <<pc, snap, todo, cur, listed, broken>>
    BY <1>5 DEF VisitFolder, S
  <2> HIDE DEF A, B
  <2>7. TypeOK'
    BY <1>0, <2>4, <2>5, <2>6 DEF TypeOK
  <2>8. PathInv'
    BY <1>0, <2>4, <2>5, <2>6 DEF TypeOK, PathInv
  <2> QED  BY <2>7, <2>8
<1>6. ASSUME NEW v \in folders[c], VisitFails(c, v)  PROVE IInv'
  <2>1. cur[c] \in Transfers
    BY <1>6 DEF VisitFails, PathInv
  <2> QED  BY <1>0, <1>6, <2>1 DEF VisitFails, TypeOK, PathInv
<1>7. CASE EndWalk(c)
  <2>1. cur[c] \in Transfers
    BY <1>7 DEF EndWalk, PathInv
  <2> QED  BY <1>0, <1>7, <2>1 DEF EndWalk, TypeOK, PathInv
<1> QED  BY <1>1, <1>2, <1>3, <1>4, <1>5, <1>6, <1>7 DEF List

\* Forgetting a listing keeps the invariant of the calls.
LEMMA ForgetStep ==
  ASSUME IInv, NEW c \in Callers, Forget(c), pc[c] # "walk",
         UNCHANGED <<worldVars, status, disk, faults>>,
         advertised' \subseteq Advert,
         \A a \in advertised' : a.derived => a.name = <<NodeName[Root[a.of]]>>
  PROVE  IInv'
BY DEF IInv, TypeOK, PathInv, Forget, worldVars

\* torrent-get advertises, where it can derive it, the name of the root.
LEMMA AdvertiseStep ==
  ASSUME IInv, Advertise
  PROVE  IInv'
<1>1. \A t \in listed["rpc"] :
        /\ LocalName(t, FilesOf("rpc", t)) \in Paths
        /\ Derived(FilesOf("rpc", t)) \in BOOLEAN
        /\ Derived(FilesOf("rpc", t)) => LocalName(t, FilesOf("rpc", t)) = <<NodeName[Root[t]]>>
  <2> SUFFICES ASSUME NEW t \in listed["rpc"]
               PROVE  /\ LocalName(t, FilesOf("rpc", t)) \in Paths
                      /\ Derived(FilesOf("rpc", t)) \in BOOLEAN
                      /\ Derived(FilesOf("rpc", t)) =>
                           LocalName(t, FilesOf("rpc", t)) = <<NodeName[Root[t]]>>
    OBVIOUS
  <2>1. t \in Transfers
    BY DEF IInv, TypeOK, Callers
  <2>2. /\ FilesOf("rpc", t) \in SUBSET File
        /\ \A f \in FilesOf("rpc", t) : f.of = t /\ f.path[1] = NodeName[Root[f.of]]
    BY DEF IInv, TypeOK, PathInv, Callers, FilesOf
  <2> QED  BY <2>1, <2>2, LocalNameIsRoot
<1>2. listed["rpc"] \subseteq Transfers
  BY DEF IInv, TypeOK, Callers
<1> DEFINE Shown(t) == [of       |-> t,
                        name     |-> LocalName(t, FilesOf("rpc", t)),
                        derived  |-> Derived(FilesOf("rpc", t)),
                        fetched  |-> t \in snap["rpc"]]
<1>3. \A t \in listed["rpc"] :
        Shown(t) \in Advert /\ (Shown(t).derived => Shown(t).name = <<NodeName[Root[Shown(t).of]]>>)
  <2> SUFFICES ASSUME NEW t \in listed["rpc"]
               PROVE  /\ Shown(t) \in Advert
                      /\ Shown(t).derived => Shown(t).name = <<NodeName[Root[Shown(t).of]]>>
    OBVIOUS
  <2> DEFINE nm == LocalName(t, FilesOf("rpc", t))
             dv == Derived(FilesOf("rpc", t))
             fn == t \in snap["rpc"]
  <2>1. t \in Transfers /\ nm \in Paths /\ dv \in BOOLEAN /\ fn \in BOOLEAN
    BY <1>1, <1>2
  <2>2. dv => nm = <<NodeName[Root[t]]>>
    BY <1>1
  <2>3. Shown(t) = [of |-> t, name |-> nm, derived |-> dv, fetched |-> fn]
    OBVIOUS
  <2> HIDE DEF nm, dv, fn, Shown
  <2>4. Shown(t) \in Advert
    BY <2>1, <2>3 DEF Advert
  <2>5. Shown(t).of = t /\ Shown(t).name = nm /\ Shown(t).derived = dv
    BY <2>3
  <2> QED  BY <2>2, <2>4, <2>5
<1>4. advertised' = {Shown(t) : t \in listed["rpc"]}
  BY DEF Advertise
<1> HIDE DEF Shown
<1>5. /\ advertised' \subseteq Advert
      /\ \A a \in advertised' : a.derived => a.name = <<NodeName[Root[a.of]]>>
  BY <1>3, <1>4
<1> QED  BY <1>5, ForgetStep DEF Advertise, Callers

\* What the downloader writes keeps the root's name in front.
LEMMA DownloadStep ==
  ASSUME IInv, NEW t \in Transfers,
         DownloadWhole(t) \/ DownloadBreaks(t) \/ FilesMissing(t)
  PROVE  IInv'
<1>1. disk' \subseteq disk \cup FilesOf("poll", t)
  <2>1. CASE DownloadWhole(t)
    BY <2>1, WriteAdds DEF DownloadWhole
  <2>2. CASE DownloadBreaks(t) \/ FilesMissing(t)
    <3>1. PICK R \in SUBSET LocalOutput(t, FilesOf("poll", t)), W \in SUBSET FilesOf("poll", t) :
               disk' = Write(disk \ R, W)
      <4>1. CASE DownloadBreaks(t)
        BY <4>1 DEF DownloadBreaks
      <4>2. CASE FilesMissing(t)
        BY <4>2 DEF FilesMissing
      <4> QED  BY <2>2, <4>1, <4>2
    <3>2. disk' \subseteq (disk \ R) \cup W
      BY <3>1, WriteAdds
    <3> QED  BY <3>2
  <2> QED  BY <2>1, <2>2
<1>2. FilesOf("poll", t) \subseteq found["poll"] /\ "poll" \in Callers
  BY DEF FilesOf, Callers
<1>3. /\ status' \in [Transfers -> {"open", "downloaded", "missing"}]
      /\ todo' \in [Callers -> SUBSET Transfers]
  <2>1. Taken(t) /\ status' \in {status, [status EXCEPT ![t] = "downloaded"],
                                  [status EXCEPT ![t] = "missing"]}
    <3>1. CASE DownloadWhole(t)
      BY <3>1 DEF DownloadWhole
    <3>2. CASE DownloadBreaks(t)
      BY <3>2 DEF DownloadBreaks
    <3>3. CASE FilesMissing(t)
      BY <3>3 DEF FilesMissing
    <3> QED  BY <3>1, <3>2, <3>3
  <2> QED  BY <2>1 DEF Taken, IInv, TypeOK
<1>5. faults' \in 0 .. MaxFaults
  <2>1. Fault \/ UNCHANGED faults
    BY DEF DownloadWhole, DownloadBreaks, FilesMissing, FailsFor
  <2> QED  BY <2>1, FaultsBounded DEF IInv
<1>4. UNCHANGED <<complete, present, pc, snap, cur, folders, listed, found, broken, advertised>>
  BY DEF DownloadWhole, DownloadBreaks, FilesMissing, Taken, worldVars
<1> QED  BY <1>1, <1>2, <1>3, <1>4, <1>5 DEF IInv, TypeOK, PathInv

\* Every step keeps the invariant.
LEMMA InvStep == IInv /\ [Next]_vars => IInv'
<1> SUFFICES ASSUME IInv, [Next]_vars  PROVE IInv'
  OBVIOUS
<1>1. CASE UNCHANGED vars
  BY <1>1 DEF IInv, TypeOK, PathInv, vars, worldVars, callVars
<1>2. ASSUME NEW t \in Transfers, SeedboxCompletes(t)  PROVE IInv'
  BY <1>2 DEF SeedboxCompletes, IInv, TypeOK, PathInv, callVars
<1>3. ASSUME NEW t \in Transfers, PassSettled(t)  PROVE IInv'
  <2>1. /\ UNCHANGED <<pc, snap, cur, folders, listed, found, broken, complete, present,
                       status, disk, advertised, faults>>
        /\ todo' = [todo EXCEPT !["poll"] = @ \ {t}]
    BY <1>3 DEF PassSettled, Taken, worldVars
  <2>2. TypeOK'
    BY <2>1 DEF IInv, TypeOK, Callers
  <2> QED  BY <2>1, <2>2 DEF IInv, PathInv
<1>4. ASSUME NEW n \in Nodes, LoseNode(n)  PROVE IInv'
  BY <1>4 DEF LoseNode, Fault, IInv, TypeOK, PathInv, callVars
<1>5. CASE StartBatch
  BY <1>5 DEF StartBatch, IInv, TypeOK, PathInv, worldVars, Callers
<1>6. CASE EndBatch
  <2>1. advertised' \subseteq Advert /\ \A a \in advertised' : a.derived => a.name = <<NodeName[Root[a.of]]>>
    BY <1>6 DEF EndBatch, IInv, TypeOK, PathInv
  <2> QED  BY <1>6, <2>1, ForgetStep DEF EndBatch, Callers
<1> QED  BY <1>1, <1>2, <1>3, <1>4, <1>5, <1>6, ListStep, AdvertiseStep, DownloadStep DEF Next

\* The invariant holds throughout.
LEMMA Invariant == Spec => []IInv
BY InitInv, InvStep, PTL DEF Spec

\* TypeOK: the two listings and the disk keep their types, and every path has a
\* first segment.
THEOREM ListingTypes == Spec => []TypeOK
<1>1. IInv => TypeOK
  BY DEF IInv
<1> QED  BY <1>1, Invariant, PTL

\* AdvertisedIsWritten: a derived name that torrent-get advertises is that of
\* the entry under which the downloader wrote, or will write, everything of the
\* transfer, for any trees and however much of them either listing missed.
THEOREM PathsAgree == Spec => []AdvertisedIsWritten
<1>1. IInv => AdvertisedIsWritten
  <2> SUFFICES ASSUME IInv, NEW a \in advertised, NEW d \in disk, a.derived, a.of = d.of
               PROVE  Under(a.name, d.path)
    BY DEF AdvertisedIsWritten
  <2>1. d.path \in Paths /\ d.of \in Transfers
    BY DEF IInv, TypeOK, File
  <2>2. a.name = <<NodeName[Root[d.of]]>> /\ d.path[1] = NodeName[Root[d.of]]
    BY DEF IInv, PathInv
  <2>3. NodeName[Root[d.of]] \in Names
    BY <2>1
  <2> QED  BY <2>1, <2>2, <2>3, UnderRoot
<1> QED  BY <1>1, Invariant, PTL

\* OnlyOwnOutput: neither removeLocalOutput nor a download touches a file of
\* another transfer.
THEOREM OutputsAreApart == Spec => OnlyOwnOutput
<1>1. IInv /\ [Next]_vars
        => [\A d \in disk \ disk' : d.of \in todo["poll"] \ todo'["poll"]]_vars
  <2> SUFFICES ASSUME IInv, Next, NEW d \in disk, d \notin disk'
               PROVE  d.of \in todo["poll"] \ todo'["poll"]
    OBVIOUS
  <2>1. d.path \in Paths /\ d.of \in Transfers /\ d.path[1] = NodeName[Root[d.of]]
    BY DEF IInv, TypeOK, PathInv, File
  <2>2. PICK t \in Transfers : DownloadWhole(t) \/ DownloadBreaks(t) \/ FilesMissing(t)
    BY DEF Next, SeedboxCompletes, PassSettled, LoseNode, List, ListTransfers, SkipTransfer,
           ListUnfinished, StartWalk, VisitFile, VisitFolder, VisitFails, EndWalk,
           Advertise, StartBatch, EndBatch
  <2>3. t \in todo["poll"] \ todo'["poll"]
    BY <2>2 DEF DownloadWhole, DownloadBreaks, FilesMissing, Taken, IInv, TypeOK, Callers
  <2>4. /\ FilesOf("poll", t) \in SUBSET File
        /\ \A f \in FilesOf("poll", t) : f.of = t /\ f.path[1] = NodeName[Root[f.of]]
    BY DEF IInv, TypeOK, PathInv, Callers, FilesOf
  <2>5. \/ d \in LocalOutput(t, FilesOf("poll", t))
        \/ \E f \in FilesOf("poll", t) : f.path = d.path
    BY <2>2 DEF DownloadWhole, DownloadBreaks, FilesMissing, Write
  <2>6. d \in LocalOutput(t, FilesOf("poll", t)) => d.path[1] = NodeName[Root[t]]
    <3> SUFFICES ASSUME Derived(FilesOf("poll", t)),
                        Under(LocalName(t, FilesOf("poll", t)), d.path)
                 PROVE  d.path[1] = NodeName[Root[t]]
      BY DEF LocalOutput
    <3>1. LocalName(t, FilesOf("poll", t)) = <<NodeName[Root[t]]>>
      BY <2>4, LocalNameIsRoot
    <3>2. NodeName[Root[t]] \in Names
      OBVIOUS
    <3> QED  BY <2>1, <3>1, <3>2, UnderRoot
  <2>7. NodeName[Root[d.of]] = NodeName[Root[t]]
    BY <2>1, <2>4, <2>5, <2>6
  <2> QED  BY <2>1, <2>3, <2>7
<1> QED  BY <1>1, Invariant, PTL DEF Spec, OnlyOwnOutput

-----------------------------------------------------------------------------
(* What a listing finds.  WalkInv, caller by caller.                        *)
USE Tree

\* The folders that wait are in the tree where their paths say, and a file not
\* found yet lies in every closed set that holds them.
FrontierInv(c) ==
  pc[c] = "walk" =>
    /\ \A v \in folders[c] : Home[v.node] = cur[c] /\ Spells(v.path, v.node)
    /\ cur[c] \notin broken[c] =>
         \A S \in SUBSET Nodes :
           Closed(S) /\ (\A v \in folders[c] : v.node \in S) =>
             \A n \in present \ S :
               IsFileOf(n, cur[c]) => \E f \in found[c] : f.of = cur[c] /\ f.node = n

\* The caller's part of UnbrokenIsWhole, and of PathsInTree.
WholeInv(c) ==
  /\ pc[c] = "idle" => listed[c] = {}
  /\ \A t \in (listed[c] \cap snap[c]) \ broken[c] :
       \A n \in present : IsFileOf(n, t) => \E f \in found[c] : f.of = t /\ f.node = n
TreeInv(c) ==
  \A f \in found[c] : f.of = Home[f.node] /\ Spells(f.path, f.node)

CallerInv(c) == FrontierInv(c) /\ WholeInv(c) /\ TreeInv(c)

\* A folder is there as long as one of its entries is.
ParentsPresent == \A n \in Nodes : Children[n] \cap present # {} => n \in present

\* WalkInv is what it says of each caller, and of the account.
LEMMA WalkInvParts == WalkInv <=> ParentsPresent /\ \A c \in Callers : CallerInv(c)
BY DEF WalkInv, ParentsPresent, CallerInv, FrontierInv, WholeInv, TreeInv, FilesOf,
       UnbrokenIsWhole, PathsInTree

\* And so after a step.
LEMMA WalkInvPartsNext == WalkInv' <=> ParentsPresent' /\ \A c \in Callers : CallerInv(c)'
BY DEF WalkInv, ParentsPresent, CallerInv, FrontierInv, WholeInv, TreeInv, FilesOf,
       UnbrokenIsWhole, PathsInTree

\* The root's name alone leads to the root.
LEMMA SpellsRoot ==
  ASSUME NEW t \in Transfers
  PROVE  Spells(RootPath(t), Root[t])
<1>1. Root[t] \in Nodes /\ Home[Root[t]] = t
  OBVIOUS
<1> DEFINE q == [i \in 1 .. 1 |-> Root[t]]
<1>2. /\ q \in [1 .. 1 -> {m \in Nodes : Home[m] = Home[Root[t]]}]
      /\ q[1] = Root[t]
  BY <1>1
<1>3. Len(RootPath(t)) = 1 /\ RootPath(t)[1] = NodeName[Root[t]]
  BY DEF RootPath
<1>4. /\ \A i \in 1 .. 1 : NodeName[q[i]] = RootPath(t)[i]
      /\ \A i \in 1 .. 1 - 1 : q[i + 1] \in Children[q[i]]
  BY <1>2, <1>3
<1> HIDE DEF q
<1> QED  BY <1>1, <1>2, <1>3, <1>4 DEF Spells

\* A path to a folder and the name of an entry lead to the entry.
LEMMA SpellsChild ==
  ASSUME NEW base \in Paths, NEW n \in Nodes, NEW m \in Children[n], Spells(base, n)
  PROVE  Home[m] = Home[n] /\ Spells(Join(base, m), m)
<1>1. m \in Nodes /\ Home[m] = Home[n]
  OBVIOUS
<1> DEFINE H == {k \in Nodes : Home[k] = Home[n]}
           l == Len(base)
<1>2. PICK q \in [1 .. l -> H] :
        /\ q[1] = Root[Home[n]] /\ q[l] = n
        /\ \A i \in 1 .. l : NodeName[q[i]] = base[i]
        /\ \A i \in 1 .. l - 1 : q[i + 1] \in Children[q[i]]
  BY DEF Spells
<1>3. l \in Nat /\ l >= 1
  BY DEF Paths
<1>4. NodeName[m] \in Names /\ base \in Seq(Names)
  BY <1>1 DEF Paths
<1>5. /\ Len(Join(base, m)) = l + 1
      /\ \A i \in 1 .. l : Join(base, m)[i] = base[i]
      /\ Join(base, m)[l + 1] = NodeName[m]
  BY <1>3, <1>4 DEF Join
<1> HIDE DEF l
<1> DEFINE r == [i \in 1 .. l + 1 |-> IF i <= l THEN q[i] ELSE m]
<1>6. m \in H
  BY <1>1
<1> HIDE DEF H
<1>7. r \in [1 .. l + 1 -> H]
  BY <1>2, <1>3, <1>6
<1>8. r[1] = Root[Home[n]] /\ r[l + 1] = m
  BY <1>2, <1>3
<1>9. \A i \in 1 .. l + 1 : NodeName[r[i]] = Join(base, m)[i]
  BY <1>2, <1>3, <1>5
<1>10. \A i \in 1 .. (l + 1) - 1 : r[i + 1] \in Children[r[i]]
  <2> SUFFICES ASSUME NEW i \in 1 .. (l + 1) - 1  PROVE r[i + 1] \in Children[r[i]]
    OBVIOUS
  <2>1. CASE i = l
    BY <1>2, <1>3, <2>1
  <2>2. CASE i # l
    <3>1. i \in 1 .. l - 1
      BY <1>3, <2>2
    <3>2. r[i] = q[i] /\ r[i + 1] = q[i + 1]
      BY <1>3, <3>1
    <3> QED  BY <1>2, <3>1, <3>2
  <2> QED  BY <2>1, <2>2
<1> HIDE DEF r
<1>11. H = {k \in Nodes : Home[k] = Home[m]} /\ Root[Home[n]] = Root[Home[m]]
  BY <1>1 DEF H
<1>12. Spells(Join(base, m), m)
  <2> DEFINE p == Join(base, m)
  <2>1. Len(p) = l + 1 /\ r[1] = Root[Home[m]] /\ r[Len(p)] = m
    BY <1>5, <1>8, <1>11
  <2>2. r \in [1 .. Len(p) -> {k \in Nodes : Home[k] = Home[m]}]
    BY <1>5, <1>7, <1>11
  <2>3. \A i \in 1 .. Len(p) : NodeName[r[i]] = p[i]
    BY <1>9, <2>1
  <2>4. \A i \in 1 .. Len(p) - 1 : r[i + 1] \in Children[r[i]]
    BY <1>10, <2>1
  <2> HIDE DEF p
  <2>5. Spells(p, m)
    BY <2>1, <2>2, <2>3, <2>4 DEF Spells
  <2> QED  BY <2>5 DEF p
<1> QED  BY <1>1, <1>12

\* A caller that does not move keeps its invariant while the account loses nodes.
LEMMA OthersWalk ==
  ASSUME NEW c \in Callers, CallerInv(c), present' \subseteq present,
         pc'[c] = pc[c], snap'[c] = snap[c], cur'[c] = cur[c], folders'[c] = folders[c],
         listed'[c] = listed[c], found'[c] = found[c], broken'[c] = broken[c]
  PROVE  CallerInv(c)'
<1>1. FrontierInv(c)'
  BY DEF CallerInv, FrontierInv
<1>2. WholeInv(c)'
  BY DEF CallerInv, WholeInv
<1>3. TreeInv(c)'
  BY DEF CallerInv, TreeInv
<1> QED  BY <1>1, <1>2, <1>3 DEF CallerInv

\* Every node of a transfer lies in every closed set that holds its root.
LEMMA BelowRoot ==
  ASSUME NEW t \in Transfers, NEW S \in SUBSET Nodes, Closed(S), Root[t] \in S,
         NEW n \in Nodes, Home[n] = t
  PROVE  n \in S
<1> DEFINE T == S \cup {m \in Nodes : Home[m] # t}
<1>1. T \in SUBSET Nodes /\ \A u \in Transfers : Root[u] \in T
  OBVIOUS
<1>2. Closed(T)
  <2> SUFFICES ASSUME NEW a \in T, NEW b \in Children[a]  PROVE b \in T
    BY DEF Closed
  <2>1. a \in Nodes /\ b \in Nodes /\ Home[b] = Home[a]
    BY <1>1
  <2> QED  BY <2>1 DEF Closed
<1>3. T = Nodes
  BY <1>1, <1>2, TreeAssumption
<1> QED  BY <1>3

\* The walk begins at the root, below which everything is.
LEMMA StartWalkStep ==
  ASSUME IInv, NEW c \in Callers, CallerInv(c), NEW t \in Transfers, StartWalk(c, t)
  PROVE  CallerInv(c)'
<1> DEFINE v0 == [node |-> Root[t], path |-> RootPath(t)]
<1>1. /\ pc'[c] = "walk" /\ cur'[c] = t /\ folders'[c] = {v0}
      /\ UNCHANGED <<snap, listed, found, broken, present>>
  BY DEF StartWalk, IInv, TypeOK, worldVars
<1>2. v0.node = Root[t] /\ v0.path = RootPath(t) /\ Root[t] \in Nodes /\ Home[Root[t]] = t
  OBVIOUS
<1> HIDE DEF v0
<1>3. FrontierInv(c)'
  <2>1. \A v \in folders'[c] : Home[v.node] = cur'[c] /\ Spells(v.path, v.node)
    BY <1>1, <1>2, SpellsRoot
  <2>2. ASSUME NEW S \in SUBSET Nodes, Closed(S), \A v \in folders'[c] : v.node \in S,
               NEW n \in present' \ S, IsFileOf(n, cur'[c])
        PROVE  FALSE
    <3>1. n \in Nodes /\ Home[n] = t
      BY <1>1, <2>2 DEF IInv, TypeOK, IsFileOf
    <3> QED  BY <1>1, <1>2, <2>2, <3>1, BelowRoot
  <2> QED  BY <2>1, <2>2 DEF FrontierInv
<1>4. WholeInv(c)' /\ TreeInv(c)'
  BY <1>1 DEF CallerInv, WholeInv, TreeInv
<1> QED  BY <1>3, <1>4 DEF CallerInv

\* What found gains is in the tree, and takes nothing from a whole listing.
LEMMA FoundGrows ==
  ASSUME NEW c \in Callers, CallerInv(c), NEW B, found'[c] = found[c] \cup B,
         \A f \in B : f.of = Home[f.node] /\ Spells(f.path, f.node),
         UNCHANGED <<pc, snap, listed, present>>,
         broken[c] \subseteq broken'[c]
  PROVE  WholeInv(c)' /\ TreeInv(c)'
<1>1. WholeInv(c)'
  BY DEF CallerInv, WholeInv
<1>2. TreeInv(c)'
  BY DEF CallerInv, TreeInv
<1> QED  BY <1>1, <1>2

\* A node that is no folder has nothing below it.
LEMMA VisitFileStep ==
  ASSUME IInv, NEW c \in Callers, CallerInv(c), NEW v \in folders[c], VisitFile(c, v)
  PROVE  CallerInv(c)'
<1> DEFINE g == [of |-> cur[c], node |-> v.node, path |-> v.path]
<1>1. /\ pc[c] = "walk" /\ pc'[c] = "walk" /\ cur'[c] = cur[c]
      /\ folders'[c] = folders[c] \ {v} /\ found'[c] = found[c] \cup {g}
      /\ Kind[v.node] # "folder"
      /\ UNCHANGED <<pc, snap, listed, broken, present>>
  BY DEF VisitFile, IInv, TypeOK, worldVars
<1>2. g.of = cur[c] /\ g.node = v.node /\ g.path = v.path
  OBVIOUS
<1> HIDE DEF g
<1>3. v.node \in Nodes /\ Home[v.node] = cur[c] /\ Spells(v.path, v.node)
  BY <1>1 DEF CallerInv, FrontierInv, IInv, TypeOK, Visit
<1>4. WholeInv(c)' /\ TreeInv(c)'
  <2>1. \A f \in {g} : f.of = Home[f.node] /\ Spells(f.path, f.node)
    BY <1>2, <1>3
  <2>2. WholeInv(c)'
    BY <1>1 DEF CallerInv, WholeInv
  <2>3. TreeInv(c)'
    BY <1>1, <2>1 DEF CallerInv, TreeInv
  <2> QED  BY <2>2, <2>3
<1>5. Children[v.node] = {}
  BY <1>1, <1>3
<1>6. FrontierInv(c)'
  <2>1. ASSUME NEW S \in SUBSET Nodes, cur[c] \notin broken[c], Closed(S),
               \A w \in folders'[c] : w.node \in S,
               NEW n \in present' \ S, IsFileOf(n, cur'[c])
        PROVE  \E f \in found'[c] : f.of = cur'[c] /\ f.node = n
    <3> DEFINE T == S \cup {v.node}
    <3>1. T \in SUBSET Nodes /\ Closed(T) /\ \A w \in folders[c] : w.node \in T
      BY <1>1, <1>3, <1>5, <2>1 DEF Closed
    <3>2. CASE n = v.node
      BY <1>1, <1>2, <3>2
    <3>3. CASE n # v.node
      <4>1. n \in present \ T /\ IsFileOf(n, cur[c])
        BY <1>1, <2>1, <3>3
      <4> HIDE DEF T
      <4>2. \E f \in found[c] : f.of = cur[c] /\ f.node = n
        BY <1>1, <2>1, <3>1, <4>1 DEF CallerInv, FrontierInv
      <4> QED  BY <1>1, <4>2
    <3> QED  BY <3>2, <3>3
  <2> QED  BY <1>1, <2>1 DEF CallerInv, FrontierInv
<1> QED  BY <1>4, <1>6 DEF CallerInv

\* A folder hands on what is below it: its entries are found or wait themselves,
\* and below an entry that is gone nothing is left.
LEMMA VisitFolderStep ==
  ASSUME IInv, ParentsPresent, NEW c \in Callers, CallerInv(c), NEW v \in folders[c],
         VisitFolder(c, v)
  PROVE  CallerInv(c)'
<1> DEFINE S0 == Children[v.node] \cap present
           A == {[node |-> m, path |-> Join(v.path, m)] : m \in Nested(v.node, S0)}
           B == {[of |-> cur[c], node |-> m, path |-> Join(v.path, m)] :
                   m \in {k \in S0 : Kind[k] = "file"}}
<1>1. /\ pc[c] = "walk" /\ pc'[c] = "walk" /\ cur'[c] = cur[c]
      /\ folders'[c] = (folders[c] \ {v}) \cup A /\ found'[c] = found[c] \cup B
      /\ Kind[v.node] = "folder"
      /\ UNCHANGED <<pc, snap, listed, broken, present>>
  BY DEF VisitFolder, IInv, TypeOK, worldVars
<1>2. /\ v.node \in Nodes /\ v.path \in Paths
      /\ Home[v.node] = cur[c] /\ Spells(v.path, v.node)
  BY <1>1 DEF CallerInv, FrontierInv, IInv, TypeOK, Visit
<1>3. \A m \in S0 : /\ m \in Nodes /\ m \in Children[v.node] /\ m \in present
                    /\ Home[m] = cur[c] /\ Spells(Join(v.path, m), m)
  BY <1>2, SpellsChild
<1>4. /\ \A a \in A : a.node \in S0 /\ Home[a.node] = cur[c] /\ Spells(a.path, a.node)
      /\ \A m \in S0 : Kind[m] = "folder" => \E a \in A : a.node = m
  <2> HIDE DEF S0
  <2>1. \A a \in A : \E m \in S0 : a.node = m /\ a.path = Join(v.path, m)
    BY DEF Nested
  <2>2. \A m \in S0 : Kind[m] = "folder" =>
           [node |-> m, path |-> Join(v.path, m)] \in A
    BY DEF Nested
  <2> HIDE DEF A
  <2>3. ASSUME NEW m \in S0, Kind[m] = "folder"
        PROVE  \E a \in A : a.node = m
    <3> DEFINE r == [node |-> m, path |-> Join(v.path, m)]
    <3>1. r \in A
      BY <2>2, <2>3
    <3> QED  BY <3>1
  <2>4. ASSUME NEW a \in A
        PROVE  a.node \in S0 /\ Home[a.node] = cur[c] /\ Spells(a.path, a.node)
    <3>1. PICK m \in S0 : a.node = m /\ a.path = Join(v.path, m)
      BY <2>1
    <3> QED  BY <1>3, <3>1
  <2> QED  BY <2>3, <2>4
<1>5. /\ \A b \in B : b.of = cur[c] /\ Home[b.node] = cur[c] /\ Spells(b.path, b.node)
      /\ \A m \in S0 : Kind[m] = "file" => \E b \in B : b.of = cur[c] /\ b.node = m
  <2> HIDE DEF S0
  <2>1. \A b \in B : \E m \in S0 : b.of = cur[c] /\ b.node = m /\ b.path = Join(v.path, m)
    OBVIOUS
  <2>2. \A m \in S0 : Kind[m] = "file" =>
           [of |-> cur[c], node |-> m, path |-> Join(v.path, m)] \in B
    OBVIOUS
  <2> HIDE DEF B
  <2>3. ASSUME NEW m \in S0, Kind[m] = "file"
        PROVE  \E b \in B : b.of = cur[c] /\ b.node = m
    <3> DEFINE r == [of |-> cur[c], node |-> m, path |-> Join(v.path, m)]
    <3>1. r \in B
      BY <2>2, <2>3
    <3> QED  BY <3>1
  <2>4. ASSUME NEW b \in B
        PROVE  b.of = cur[c] /\ Home[b.node] = cur[c] /\ Spells(b.path, b.node)
    <3>1. PICK m \in S0 : b.of = cur[c] /\ b.node = m /\ b.path = Join(v.path, m)
      BY <2>1
    <3> QED  BY <1>3, <3>1
  <2> QED  BY <2>3, <2>4
<1> HIDE DEF A, B
<1>6. WholeInv(c)' /\ TreeInv(c)'
  BY <1>1, <1>5, FoundGrows
<1>7. FrontierInv(c)'
  <2>1. ASSUME NEW S \in SUBSET Nodes, cur[c] \notin broken[c], Closed(S),
               \A w \in folders'[c] : w.node \in S,
               NEW n \in present' \ S, IsFileOf(n, cur'[c])
        PROVE  \E f \in found'[c] : f.of = cur'[c] /\ f.node = n
    <3> DEFINE T == S \cup {v.node} \cup Children[v.node] \cup (Nodes \ present)
    <3>1. T \in SUBSET Nodes /\ \A w \in folders[c] : w.node \in T
      BY <1>1, <1>2, <2>1
    <3>2. Closed(T)
      <4> SUFFICES ASSUME NEW a \in T, NEW b \in Children[a]  PROVE b \in T
        BY DEF Closed
      <4>1. a \in Nodes /\ b \in Nodes /\ Kind[a] = "folder"
        BY <3>1
      <4>2. CASE a \in S
        BY <2>1, <4>2 DEF Closed
      <4>3. CASE a = v.node
        BY <4>3
      <4>4. CASE a \in Nodes \ present
        BY <4>1, <4>4 DEF ParentsPresent
      <4>5. CASE a \in Children[v.node] /\ a \in present
        <5>1. a \in S
          BY <1>1, <1>4, <2>1, <4>1, <4>5
        <5> QED  BY <2>1, <5>1 DEF Closed
      <4>6. a \in S \/ a = v.node \/ a \in Nodes \ present \/ (a \in Children[v.node] /\ a \in present)
        BY <4>1
      <4> HIDE DEF T
      <4> QED  BY <4>2, <4>3, <4>4, <4>5, <4>6
    <3>3. n \in present /\ n \in Nodes /\ Home[n] = cur[c] /\ IsFileOf(n, cur[c])
      BY <1>1, <2>1 DEF IsFileOf, IInv, TypeOK
    <3>4. CASE n \in Children[v.node]
      <4>1. \A t \in Transfers : n # Root[t]
        BY <1>2, <3>4
      <4>2. Kind[n] = "file"
        BY <3>3, <4>1, <1>1 DEF IsFileOf, IInv, PathInv
      <4>3. n \in S0
        BY <3>3, <3>4
      <4> QED  BY <1>1, <1>5, <4>2, <4>3
    <3>5. CASE n \notin Children[v.node]
      <4>1. n # v.node
        BY <1>1, <3>3 DEF IsFileOf
      <4>2. n \in present \ T
        BY <2>1, <3>3, <3>5, <4>1
      <4> HIDE DEF T
      <4>3. \E f \in found[c] : f.of = cur[c] /\ f.node = n
        BY <1>1, <2>1, <3>1, <3>2, <3>3, <4>2 DEF CallerInv, FrontierInv
      <4> QED  BY <1>1, <4>3
    <3> QED  BY <3>4, <3>5
  <2>2. \A w \in folders'[c] : Home[w.node] = cur'[c] /\ Spells(w.path, w.node)
    BY <1>1, <1>4 DEF CallerInv, FrontierInv
  <2> QED  BY <1>1, <2>1, <2>2 DEF FrontierInv
<1> QED  BY <1>6, <1>7 DEF CallerInv

\* A failed request is remembered.
LEMMA VisitFailsStep ==
  ASSUME IInv, NEW c \in Callers, CallerInv(c), NEW v \in folders[c], VisitFails(c, v)
  PROVE  CallerInv(c)'
<1>1. /\ pc'[c] = pc[c] /\ cur'[c] = cur[c] /\ folders'[c] \subseteq folders[c]
      /\ broken'[c] = broken[c] \cup {cur[c]}
      /\ UNCHANGED <<snap, listed, found, present>>
  BY DEF VisitFails, IInv, TypeOK, worldVars
<1> QED  BY <1>1 DEF CallerInv, FrontierInv, WholeInv, TreeInv

\* A walk that is over found everything, or remembers that it did not.
LEMMA EndWalkStep ==
  ASSUME IInv, NEW c \in Callers, CallerInv(c), EndWalk(c)
  PROVE  CallerInv(c)'
<1>1. /\ pc[c] = "walk" /\ folders[c] = {} /\ pc'[c] = "next"
      /\ listed'[c] = listed[c] \cup {cur[c]}
      /\ UNCHANGED <<snap, found, broken, present>>
  BY DEF EndWalk, IInv, TypeOK, worldVars
<1>2. Closed({}) /\ {} \in SUBSET Nodes
  BY DEF Closed
<1>3. cur[c] \notin broken[c] =>
        \A n \in present : IsFileOf(n, cur[c]) =>
          \E f \in found[c] : f.of = cur[c] /\ f.node = n
  BY <1>1, <1>2 DEF CallerInv, FrontierInv
<1>4. WholeInv(c)'
  BY <1>1, <1>3 DEF CallerInv, WholeInv
<1> QED  BY <1>1, <1>4 DEF CallerInv, FrontierInv, TreeInv

\* The steps of a listing keep every caller's invariant.
LEMMA ListWalk ==
  ASSUME IInv, WalkInv, NEW c \in Callers, List(c)
  PROVE  WalkInv'
<1>1. ParentsPresent /\ \A d \in Callers : CallerInv(d)
  BY WalkInvParts
<1>2. /\ present' = present
      /\ \A d \in Callers \ {c} :
           /\ pc'[d] = pc[d] /\ snap'[d] = snap[d] /\ cur'[d] = cur[d]
           /\ folders'[d] = folders[d] /\ listed'[d] = listed[d]
           /\ found'[d] = found[d] /\ broken'[d] = broken[d]
  <2> USE DEF IInv, TypeOK, worldVars
  <2>1. CASE ListTransfers(c) \/ EndWalk(c)
    BY <2>1 DEF ListTransfers, EndWalk
  <2>2. CASE \E t \in Transfers : SkipTransfer(c, t) \/ ListUnfinished(c, t) \/ StartWalk(c, t)
    BY <2>2 DEF SkipTransfer, ListUnfinished, StartWalk
  <2>3. CASE \E v \in folders[c] : VisitFile(c, v) \/ VisitFolder(c, v) \/ VisitFails(c, v)
    BY <2>3 DEF VisitFile, VisitFolder, VisitFails
  <2> QED  BY <2>1, <2>2, <2>3 DEF List
<1>3. \A d \in Callers \ {c} : CallerInv(d)'
  BY <1>1, <1>2, OthersWalk
<1>4. CallerInv(c)'
  <2>1. CASE ListTransfers(c)
    <3>1. /\ pc'[c] = "next"
          /\ pc[c] = "idle"
          /\ UNCHANGED <<listed, found, broken, present>>
      BY <2>1 DEF ListTransfers, IInv, TypeOK, worldVars
    <3>2. listed[c] = {}
      BY <1>1, <3>1 DEF CallerInv, WholeInv
    <3> QED  BY <1>1, <3>1, <3>2 DEF CallerInv, FrontierInv, WholeInv, TreeInv
  <2>2. ASSUME NEW t \in Transfers, SkipTransfer(c, t)  PROVE CallerInv(c)'
    BY <1>1, <2>2, OthersWalk DEF SkipTransfer, worldVars
  <2>3. ASSUME NEW t \in Transfers, ListUnfinished(c, t)  PROVE CallerInv(c)'
    <3>1. /\ t \notin snap[c] /\ listed'[c] = listed[c] \cup {t} /\ pc'[c] = pc[c]
          /\ UNCHANGED <<snap, cur, folders, found, broken, present>>
      BY <2>3 DEF ListUnfinished, IInv, TypeOK, worldVars
    <3>2. pc[c] # "idle"
      BY <2>3 DEF ListUnfinished
    <3> QED  BY <1>1, <3>1, <3>2 DEF CallerInv, FrontierInv, WholeInv, TreeInv
  <2> QED  BY <1>1, <2>1, <2>2, <2>3, StartWalkStep, VisitFileStep, VisitFolderStep,
              VisitFailsStep, EndWalkStep DEF List
<1> QED  BY <1>1, <1>2, <1>3, <1>4, WalkInvPartsNext DEF ParentsPresent

\* A caller that forgets its listing has nothing left to answer for.
LEMMA ForgetWalk ==
  ASSUME IInv, WalkInv, NEW c \in Callers, Forget(c), present' = present
  PROVE  WalkInv'
<1>1. ParentsPresent /\ \A d \in Callers : CallerInv(d)
  BY WalkInvParts
<1>2. /\ pc'[c] = "idle" /\ listed'[c] = {} /\ found'[c] = {}
      /\ \A d \in Callers \ {c} :
           /\ pc'[d] = pc[d] /\ snap'[d] = snap[d] /\ cur'[d] = cur[d]
           /\ folders'[d] = folders[d] /\ listed'[d] = listed[d]
           /\ found'[d] = found[d] /\ broken'[d] = broken[d]
  BY DEF Forget, IInv, TypeOK
<1>3. \A d \in Callers \ {c} : CallerInv(d)'
  BY <1>1, <1>2, OthersWalk
<1>4. CallerInv(c)'
  BY <1>2 DEF CallerInv, FrontierInv, WholeInv, TreeInv
<1> QED  BY <1>1, <1>3, <1>4, WalkInvPartsNext DEF ParentsPresent

\* Every step keeps WalkInv; the account loses leaves only.
LEMMA WalkStep == IInv /\ WalkInv /\ [Next]_vars => WalkInv'
<1> SUFFICES ASSUME IInv, WalkInv, [Next]_vars  PROVE WalkInv'
  OBVIOUS
<1>1. ParentsPresent /\ \A d \in Callers : CallerInv(d)
  BY WalkInvParts
<1>2. ASSUME UNCHANGED <<snap, cur, folders, listed, found, broken, present>>,
             \A d \in Callers : pc'[d] = pc[d]
      PROVE  WalkInv'
  <2>1. \A d \in Callers : CallerInv(d)'
    BY <1>1, <1>2, OthersWalk
  <2> QED  BY <1>1, <1>2, <2>1, WalkInvPartsNext DEF ParentsPresent
<1>3. CASE UNCHANGED vars
  BY <1>2, <1>3 DEF vars, worldVars, callVars
<1>4. ASSUME NEW t \in Transfers,
             \/ SeedboxCompletes(t) \/ PassSettled(t)
             \/ DownloadWhole(t) \/ DownloadBreaks(t) \/ FilesMissing(t)
      PROVE  WalkInv'
  BY <1>2, <1>4 DEF SeedboxCompletes, PassSettled, DownloadWhole, DownloadBreaks, FilesMissing,
                    Taken, worldVars, callVars
<1>5. ASSUME NEW n \in Nodes, LoseNode(n)  PROVE WalkInv'
  <2>1. present' = present \ {n} /\ Children[n] \cap present = {}
    BY <1>5 DEF LoseNode
  <2>2. \A d \in Callers : CallerInv(d)'
    BY <1>1, <1>5, <2>1, OthersWalk DEF LoseNode, callVars
  <2>3. ParentsPresent'
    BY <1>1, <2>1 DEF ParentsPresent
  <2> QED  BY <2>2, <2>3, WalkInvPartsNext
<1>6. CASE Advertise \/ EndBatch
  BY <1>6, ForgetWalk DEF Advertise, EndBatch, worldVars, Callers
<1>7. CASE StartBatch
  <2>1. /\ pc' = [pc EXCEPT !["poll"] = "batch"] /\ pc["poll"] = "next"
        /\ UNCHANGED <<snap, cur, folders, listed, found, broken, present>>
    BY <1>7 DEF StartBatch, worldVars
  <2>2. pc \in [Callers -> {"idle", "next", "walk", "batch"}]
    BY DEF IInv, TypeOK
  <2>3. ASSUME NEW d \in Callers  PROVE CallerInv(d)'
    <3>1. CASE d = "poll"
      BY <1>1, <2>1, <2>2, <3>1 DEF CallerInv, FrontierInv, WholeInv, TreeInv
    <3>2. CASE d # "poll"
      BY <1>1, <2>1, <2>2, <3>2, OthersWalk
    <3> QED  BY <3>1, <3>2
  <2> QED  BY <1>1, <2>1, <2>3, WalkInvPartsNext DEF ParentsPresent
<1> QED  BY <1>3, <1>4, <1>5, <1>6, <1>7, ListWalk DEF Next

\* At first nothing is listed and everything is there.
LEMMA InitWalk == Init => WalkInv
<1> SUFFICES ASSUME Init  PROVE WalkInv
  OBVIOUS
<1>1. ParentsPresent
  BY DEF Init, ParentsPresent
<1>2. \A c \in Callers : CallerInv(c)
  BY DEF Init, CallerInv, FrontierInv, WholeInv, TreeInv
<1> QED  BY <1>1, <1>2, WalkInvParts

\* WalkInv holds throughout.
LEMMA WalkInvariant == Spec => []WalkInv
BY InitWalk, WalkStep, Invariant, PTL DEF Spec

\* UnbrokenIsWhole: a listing in which no request failed names every file of its
\* transfers that is there, for any trees, whatever is deleted meanwhile.
THEOREM UnbrokenListings == Spec => []UnbrokenIsWhole
<1>1. WalkInv => UnbrokenIsWhole
  BY DEF WalkInv
<1> QED  BY <1>1, WalkInvariant, PTL

\* PathsInTree: the path of a listed file spells the chain of folders from its
\* transfer's root, for any trees.
THEOREM PathsSpellFolders == Spec => []PathsInTree
<1>1. WalkInv => PathsInTree
  BY DEF WalkInv
<1> QED  BY <1>1, WalkInvariant, PTL
=============================================================================
