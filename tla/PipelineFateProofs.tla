-------------------------- MODULE PipelineFateProofs --------------------------
(***************************************************************************)
(* What becomes of a claim and of a downloaded transfer: theorems about    *)
(* Pipeline that count and follow what its goroutines carry.               *)
(***************************************************************************)
EXTENDS PipelineProofs, FiniteSetTheorems

USE NullAssumption, SeedAssumption, DiscordAssumption, FaultAssumption

-----------------------------------------------------------------------------
(* Claims and those who carry them.                                        *)

\* The transfers the goroutines of one instance have in their hands.
InHand(i) == {claimT[i], dlT[i], notifT[i]}

\* A process that dies lets go of what its own goroutines carry, and nothing else.
LEMMA CrashDrops ==
  ASSUME TypeOK, NEW i \in Instances, Crash(i),
         NEW j \in Instances, NEW t \in Transfers, Holds(j, t)
  PROVE  Holds(j, t)' \/ t \in InHand(i)
BY DEF Crash, Resume, NotifyIdle, Holds, AtOrch, AtDl, AtNotif, InHand, TypeOK

\* A status update that fails lets go of the one event it was for.
LEMMA SettleFailsDrops ==
  ASSUME TypeOK, NEW i \in Instances, SettleFails(i),
         NEW j \in Instances, NEW t \in Transfers, Holds(j, t)
  PROVE  Holds(j, t)' \/ t = notifT[i]
BY DEF SettleFails, NotifyIdle, NotifyDone, Holds, AtOrch, AtDl, AtNotif, Results,
       orchVars, dlVars, TypeOK

\* Any other step hands a claim on within its instance or settles it.
LEMMA HandedOn ==
  ASSUME TypeOK, [Next]_vars,
         \A i \in Instances : ~Crash(i) /\ ~SettleFails(i),
         NEW j \in Instances, NEW t \in Transfers, Holds(j, t)
  PROVE  Holds(j, t)' \/ (SettleRow(j) /\ notifT[j] = t)
<1> USE DEF Holds, AtOrch, AtDl, AtNotif
<1>1. ASSUME NEW i \in Instances, Orchestrate(i)  PROVE Holds(j, t)'
  BY <1>1 DEF Orchestrate, Poll, SkipDownloaded, SelectRow, ClaimRow, ClaimLost, ClaimFails,
              QueueTransfer, Resume, dlVars, notifVars, TypeOK
<1>2. ASSUME NEW i \in Instances, Download(i)  PROVE Holds(j, t)'
  BY <1>2 DEF Download, GrabFiles, DownloadSucceeds, DownloadFails, FilesNotFound, orchVars,
              notifVars, Results, TypeOK
<1>3. ASSUME NEW i \in Instances, DeliverResult(i)  PROVE Holds(j, t)'
  BY <1>3 DEF DeliverResult, orchVars, Results, TypeOK
<1>4. ASSUME NEW i \in Instances, SettleRow(i)
      PROVE  Holds(j, t)' \/ (SettleRow(j) /\ notifT[j] = t)
  BY <1>4 DEF SettleRow, NotifyDone, orchVars, dlVars, Results, TypeOK
<1>5. ASSUME NEW i \in Instances, StartSeedWatch(i) \/ CleanupImported(i) \/ MessageSent(i)
      PROVE  Holds(j, t)'
  BY <1>5 DEF StartSeedWatch, CleanupImported, MessageSent, NotifyDone, NotifyIdle, orchVars,
              dlVars, Results, TypeOK
<1>6. ASSUME NEW i \in Instances, NEW u \in Transfers, AnnounceImported(i, u)
      PROVE  Holds(j, t)'
  BY <1>6 DEF AnnounceImported, orchVars, dlVars, Results, TypeOK
<1>7. ASSUME UNCHANGED <<orchVars, dlVars, notifVars>>  PROVE Holds(j, t)'
  BY <1>7 DEF orchVars, dlVars, notifVars
<1>8. \/ UNCHANGED <<orchVars, dlVars, notifVars>>
      \/ \E i \in Instances :
           \/ Orchestrate(i) \/ Download(i) \/ DeliverResult(i) \/ SettleRow(i)
           \/ StartSeedWatch(i) \/ CleanupImported(i) \/ MessageSent(i)
           \/ \E u \in Transfers : AnnounceImported(i, u)
  BY DEF Next, vars, Notify, Watch, CheckImported, CheckSeeding, WatcherPanics, World
<1> QED  BY <1>1, <1>2, <1>3, <1>4, <1>5, <1>6, <1>7, <1>8

\* A claim that is new, or that was in someone's hands, is an orphan after a step
\* only if the step dropped it.
LEMMA NewOrphan ==
  ASSUME TypeOK, ExclusiveClaim, [Next]_vars, NEW t \in Orphans', t \notin Orphans
  PROVE  \E j \in Instances : Holds(j, t) /\ ~Holds(j, t)' /\ ~(SettleRow(j) /\ notifT[j] = t)
<1>1. t \in Transfers /\ row'[t] = "downloading" /\ ~\E i \in Instances : Holds(i, t)'
  BY DEF Orphans
<1>2. row[t] = "downloading"
  <2>1. ASSUME NEW i \in Instances, ClaimRow(i), row[t] # "downloading"  PROVE FALSE
    <3>1. claimT[i] = t
      BY <1>1, <2>1 DEF ClaimRow, TypeOK
    <3>2. AtOrch(i, t)'
      BY <2>1, <3>1 DEF ClaimRow, AtOrch, TypeOK
    <3> QED  BY <1>1, <3>2 DEF Holds
  <2>2. ASSUME NEW i \in Instances, SettleRow(i), row[t] # "downloading"  PROVE FALSE
    BY <1>1, <2>2, StatusOfType DEF SettleRow, TypeOK
  <2> QED  BY <1>1, <2>1, <2>2, TableStep DEF tableVars
<1>3. PICK j \in Instances : Holds(j, t)
  BY <1>1, <1>2 DEF Orphans
<1>4. ~(SettleRow(j) /\ notifT[j] = t)
  BY <1>1, StatusOfType DEF SettleRow, TypeOK
<1> QED  BY <1>1, <1>3, <1>4

\* A fault orphans at most the three claims of one instance; no other step
\* orphans any.
LEMMA OrphanStep ==
  ASSUME TypeOK, ExclusiveClaim, [Next]_vars
  PROVE  \/ Orphans' \subseteq Orphans /\ faults <= faults'
         \/ \E i \in Instances : Orphans' \subseteq Orphans \cup InHand(i) /\ faults' = faults + 1
<1>1. ASSUME NEW i \in Instances, Crash(i)
      PROVE  Orphans' \subseteq Orphans \cup InHand(i) /\ faults' = faults + 1
  <2>1. ASSUME NEW t \in Orphans', t \notin Orphans  PROVE t \in InHand(i)
    BY <1>1, <2>1, NewOrphan, CrashDrops DEF Orphans
  <2> QED  BY <1>1, <2>1 DEF Crash, Fault
<1>2. ASSUME NEW i \in Instances, SettleFails(i)
      PROVE  Orphans' \subseteq Orphans \cup InHand(i) /\ faults' = faults + 1
  <2>1. ASSUME NEW t \in Orphans', t \notin Orphans  PROVE t \in InHand(i)
    BY <1>2, <2>1, NewOrphan, SettleFailsDrops DEF Orphans, InHand
  <2> QED  BY <1>2, <2>1 DEF SettleFails, Fault
<1>3. ASSUME \A i \in Instances : ~Crash(i) /\ ~SettleFails(i)
      PROVE  Orphans' \subseteq Orphans /\ faults <= faults'
  <2>1. Orphans' \subseteq Orphans
    BY <1>3, NewOrphan, HandedOn DEF Orphans
  <2>2. faults' = faults \/ faults' = faults + 1
    BY <1>3
    DEF Next, vars, Orchestrate, Poll, SkipDownloaded, SelectRow, ClaimRow, ClaimLost, ClaimFails,
        QueueTransfer, Download, GrabFiles, DownloadSucceeds, DownloadFails, FilesNotFound,
        DeliverResult, Notify, SettleRow, StartSeedWatch, CleanupImported, MessageSent, CleanupGivesUp,
        Watch, CheckImported, CheckSeeding, WatcherPanics, AnnounceImported, World, Fault
  <2> QED  BY <2>1, <2>2 DEF TypeOK
<1> QED  BY <1>1, <1>2, <1>3

\* One more element is at most one more.
LEMMA AddOne ==
  ASSUME NEW S, IsFiniteSet(S), NEW a
  PROVE  /\ IsFiniteSet(S \cup {a})
         /\ Cardinality(S \cup {a}) <= Cardinality(S) + 1
<1>1. IsFiniteSet(S \cup {a}) /\ Cardinality(S) \in Nat
  BY FS_AddElement, FS_CardinalityType
<1>2. Cardinality(S \cup {a}) = Cardinality(S) \/ Cardinality(S \cup {a}) = Cardinality(S) + 1
  BY FS_AddElement
<1> QED  BY <1>1, <1>2

\* Three more elements are at most three more.
LEMMA AddThree ==
  ASSUME NEW S, IsFiniteSet(S), NEW a, NEW b, NEW c
  PROVE  /\ IsFiniteSet(S \cup {a, b, c})
         /\ Cardinality(S \cup {a, b, c}) <= Cardinality(S) + 3
<1> DEFINE A == S \cup {a}  B == A \cup {b}  C == B \cup {c}
<1>1. IsFiniteSet(A) /\ Cardinality(A) <= Cardinality(S) + 1
  BY AddOne, Zenon
<1>2. IsFiniteSet(B) /\ Cardinality(B) <= Cardinality(A) + 1
  BY <1>1, AddOne, Zenon
<1>3. IsFiniteSet(C) /\ Cardinality(C) <= Cardinality(B) + 1
  BY <1>2, AddOne, Zenon
<1>4. C = S \cup {a, b, c}
  OBVIOUS
<1>5. /\ Cardinality(S) \in Nat /\ Cardinality(A) \in Nat
      /\ Cardinality(B) \in Nat /\ Cardinality(C) \in Nat
  <2> HIDE DEF A, B, C
  <2> QED  BY <1>1, <1>2, <1>3, FS_CardinalityType
<1> HIDE DEF A, B, C
<1> QED  BY <1>1, <1>2, <1>3, <1>4, <1>5

\* StrandedByFaultsOnly: every claim that nobody will release was dropped by a
\* fault, and no fault drops more than three.
THEOREM FaultsStrandAtMostThree == Spec => []StrandedByFaultsOnly
<1>1. Init => StrandedByFaultsOnly
  <2>1. Init => Orphans = {} /\ faults = 0
    BY DEF Init, Orphans
  <2> QED  BY <2>1, FS_EmptySet DEF StrandedByFaultsOnly
<1>2. ASSUME TypeOK, ExclusiveClaim, StrandedByFaultsOnly, [Next]_vars
      PROVE  StrandedByFaultsOnly'
  <2>1. /\ IsFiniteSet(Orphans) /\ Cardinality(Orphans) \in Nat
        /\ Cardinality(Orphans) <= 3 * faults /\ faults \in Nat /\ faults' \in Nat
    BY <1>2, TypeStep, FS_CardinalityType DEF StrandedByFaultsOnly, TypeOK
  <2>2. CASE Orphans' \subseteq Orphans /\ faults <= faults'
    <3>1. /\ IsFiniteSet(Orphans') /\ Cardinality(Orphans') \in Nat
          /\ Cardinality(Orphans') <= Cardinality(Orphans)
      BY <2>1, <2>2, FS_Subset, FS_CardinalityType
    <3> QED  BY <2>1, <2>2, <3>1 DEF StrandedByFaultsOnly
  <2>3. ASSUME NEW i \in Instances, Orphans' \subseteq Orphans \cup InHand(i), faults' = faults + 1
        PROVE  StrandedByFaultsOnly'
    <3> DEFINE U == Orphans \cup {claimT[i], dlT[i], notifT[i]}
    <3>1. /\ IsFiniteSet(U) /\ Cardinality(U) <= Cardinality(Orphans) + 3
      BY <2>1, AddThree
    <3>2. /\ IsFiniteSet(Orphans') /\ Cardinality(Orphans') \in Nat /\ Cardinality(U) \in Nat
          /\ Cardinality(Orphans') <= Cardinality(U)
      BY <2>3, <3>1, FS_Subset, FS_CardinalityType DEF InHand
    <3> HIDE DEF U
    <3> QED  BY <2>1, <2>3, <3>1, <3>2 DEF StrandedByFaultsOnly
  <2> QED  BY <1>2, <2>2, <2>3, OrphanStep
<1> QED  BY <1>1, <1>2, TypeInvariance, ClaimIsExclusive, PTL DEF Spec
-----------------------------------------------------------------------------
(* Downloaded transfers and those who watch them.                          *)

\* What the pipeline has seen of a transfer, it saw when it was ready.
SeenInv ==
  \A t \in Transfers :
    \/ row[t] # "absent"
    \/ \E i \in Instances : t \in batch[i] \/ (orch[i] = "claiming" /\ claimT[i] = t)
    => remote[t] # "fetching"

\* Only the world and a cleanup change what the seedbox lists.
LEMMA RemoteStep ==
  ASSUME TypeOK, [Next]_vars
  PROVE  World \/ UNCHANGED remote \/ \E u \in Transfers : Cleanup(u)
<1>1. ASSUME NEW i \in Instances, CleanupImported(i)
      PROVE  UNCHANGED remote \/ \E u \in Transfers : Cleanup(u)
  BY <1>1 DEF CleanupImported, CleanupGivesUp, worldVars, Events, TypeOK
<1>2. ASSUME NEW i \in Instances, NEW u \in Transfers, CheckSeeding(i, u)
      PROVE  UNCHANGED remote \/ Cleanup(u)
  BY <1>2 DEF CheckSeeding, CleanupGivesUp, worldVars
<1>3. \/ World \/ UNCHANGED remote
      \/ \E i \in Instances : CleanupImported(i) \/ \E u \in Transfers : CheckSeeding(i, u)
  BY DEF Next, vars, Orchestrate, Poll, SkipDownloaded, SelectRow, ClaimRow, ClaimLost,
         ClaimFails, QueueTransfer, Download, GrabFiles, DownloadSucceeds, DownloadFails,
         FilesNotFound, DeliverResult, Notify, SettleRow, SettleFails, StartSeedWatch,
         MessageSent, Watch, CheckImported, WatcherPanics, AnnounceImported, Crash, worldVars
<1> QED  BY <1>1, <1>2, <1>3

\* Nothing goes back to fetching.
LEMMA FetchedStays ==
  ASSUME TypeOK, [Next]_vars, NEW t \in Transfers, remote[t] # "fetching"
  PROVE  remote'[t] # "fetching"
<1>1. ASSUME World  PROVE remote'[t] # "fetching"
  BY <1>1 DEF World, SeedboxCompletes, RemoveRemotely, ReachRatio, ArrImports, TypeOK
<1>2. ASSUME NEW u \in Transfers, Cleanup(u)  PROVE remote'[t] # "fetching"
  BY <1>2 DEF Cleanup, TypeOK
<1> QED  BY <1>1, <1>2, RemoteStep

\* What left the seedbox does not come back.
LEMMA GoneStays ==
  ASSUME TypeOK, [Next]_vars, NEW t \in Transfers, remote[t] \in {"cleaned", "removed"}
  PROVE  remote'[t] = remote[t]
<1>1. ASSUME World  PROVE remote'[t] = remote[t]
  BY <1>1 DEF World, SeedboxCompletes, RemoveRemotely, ReachRatio, ArrImports, TypeOK
<1>2. ASSUME NEW u \in Transfers, Cleanup(u)  PROVE remote'[t] = remote[t]
  BY <1>2 DEF Cleanup, TypeOK
<1> QED  BY <1>1, <1>2, RemoteStep

\* Every step keeps that: a listing names ready transfers only.
LEMMA SeenStep ==
  ASSUME TypeOK, ExclusiveClaim, SeenInv, [Next]_vars
  PROVE  SeenInv'
<1> DEFINE At(t) == \E i \in Instances : t \in batch[i] \/ (orch[i] = "claiming" /\ claimT[i] = t)
<1>1. ASSUME NEW t \in Transfers, row'[t] # "absent", row[t] = "absent"  PROVE At(t)
  <2>1. ASSUME NEW i \in Instances, ClaimRow(i)  PROVE At(t)
    BY <1>1, <2>1 DEF ClaimRow, TypeOK
  <2>2. ASSUME NEW i \in Instances, SettleRow(i)  PROVE FALSE
    BY <1>1, <2>2, SettlesOwnClaim DEF SettleRow, TypeOK
  <2> QED  BY <1>1, <2>1, <2>2, TableStep DEF tableVars
<1>2. ASSUME NEW t \in Transfers, At(t)'  PROVE At(t) \/ remote[t] = "ready"
  <2>1. ASSUME NEW i \in Instances, Orchestrate(i)  PROVE At(t) \/ remote[t] = "ready"
    BY <1>2, <2>1
    DEF Orchestrate, Poll, SkipDownloaded, SelectRow, ClaimRow, ClaimLost, ClaimFails,
        QueueTransfer, Resume, Ready, TypeOK
  <2>2. ASSUME NEW i \in Instances, Crash(i)  PROVE At(t)
    BY <1>2, <2>2 DEF Crash, Resume, TypeOK
  <2>3. \/ UNCHANGED orchVars
        \/ \E i \in Instances : Orchestrate(i) \/ Crash(i)
    BY DEF Next, vars, Download, GrabFiles, DownloadSucceeds, DownloadFails, FilesNotFound,
           DeliverResult, Notify, SettleRow, SettleFails, StartSeedWatch, CleanupImported,
           MessageSent, Watch, CheckImported, CheckSeeding, WatcherPanics, AnnounceImported, World
  <2> QED  BY <1>2, <2>1, <2>2, <2>3 DEF orchVars
<1> QED  BY <1>1, <1>2, FetchedStays DEF SeenInv

\* While nothing fails, a watch ends only where the transfer leaves the seedbox.
LEMMA WatchEnds ==
  ASSUME TypeOK, [Next]_vars, faults' = 0,
         NEW j \in Instances, NEW t \in Transfers, Watched(j, t), remote'[t] = "ready"
  PROVE  Watched(j, t)'
<1> USE DEF Watched
<1>1. faults = 0 /\ \A k \in FaultKinds : ~Fault(k)
  <2>1. faults \in Nat /\ \A k \in FaultKinds : ~Fault(k)
    BY DEF Fault, TypeOK
  <2>2. faults' = faults \/ \E k \in FaultKinds : Fault(k)
    BY DEF Next, vars, Orchestrate, Poll, SkipDownloaded, SelectRow, ClaimRow, ClaimLost,
           ClaimFails, QueueTransfer, Download, GrabFiles, DownloadSucceeds, DownloadFails,
           FilesNotFound, DeliverResult, Notify, SettleRow, SettleFails, StartSeedWatch,
           CleanupImported, MessageSent, CleanupGivesUp, Watch, CheckImported, CheckSeeding,
           WatcherPanics, AnnounceImported, Crash, World, Fault
  <2> QED  BY <2>1, <2>2
<1>2. ASSUME NEW i \in Instances, SettleRow(i)  PROVE Watched(j, t)'
  BY <1>2 DEF SettleRow, WatcherAfter, NotifyDone, Results, TypeOK
<1>3. ASSUME NEW i \in Instances, StartSeedWatch(i)  PROVE Watched(j, t)'
  BY <1>3 DEF StartSeedWatch, NotifyDone, TypeOK
<1>4. ASSUME NEW i \in Instances, CleanupImported(i)  PROVE Watched(j, t)'
  <2>1. Cleanup(notifT[i]) /\ notif[i] = "imported" /\ NotifyDone(i) /\ UNCHANGED watch
    BY <1>1, <1>4 DEF CleanupImported, CleanupGivesUp, Fault
  <2>2. notifT[i] # t
    BY <2>1 DEF Cleanup, TypeOK
  <2> QED  BY <2>1, <2>2 DEF NotifyDone, TypeOK
<1>5. ASSUME NEW i \in Instances, DeliverResult(i) \/ MessageSent(i)  PROVE Watched(j, t)'
  BY <1>5 DEF DeliverResult, MessageSent, NotifyIdle, Results, TypeOK
<1>6. ASSUME NEW i \in Instances, NEW u \in Transfers, CheckImported(i, u)
      PROVE  Watched(j, t)'
  BY <1>6 DEF CheckImported, notifVars, TypeOK
<1>7. ASSUME NEW i \in Instances, NEW u \in Transfers, CheckSeeding(i, u)
      PROVE  Watched(j, t)'
  <2>1. \/ remote[u] # "ready" /\ UNCHANGED worldVars
        \/ Cleanup(u)
    BY <1>1, <1>7 DEF CheckSeeding, CleanupGivesUp, Fault
  <2>2. u # t
    BY <2>1 DEF Cleanup, worldVars, TypeOK
  <2> QED  BY <1>7, <2>2 DEF CheckSeeding, notifVars, TypeOK
<1>8. ASSUME NEW i \in Instances, NEW u \in Transfers, AnnounceImported(i, u)
      PROVE  Watched(j, t)'
  BY <1>8 DEF AnnounceImported, TypeOK
<1>9. ASSUME NEW i \in Instances,
             SettleFails(i) \/ Crash(i) \/ \E u \in Transfers : WatcherPanics(i, u)
      PROVE  FALSE
  BY <1>1, <1>9 DEF SettleFails, Crash, WatcherPanics, Fault
<1>10. \/ UNCHANGED <<watch, notifVars>>
       \/ \E i \in Instances :
            \/ SettleRow(i) \/ StartSeedWatch(i) \/ CleanupImported(i) \/ DeliverResult(i)
            \/ MessageSent(i) \/ SettleFails(i) \/ Crash(i)
            \/ \E u \in Transfers :
                 \/ CheckImported(i, u) \/ CheckSeeding(i, u)
                 \/ AnnounceImported(i, u) \/ WatcherPanics(i, u)
  BY DEF Next, vars, Orchestrate, Poll, SkipDownloaded, SelectRow, ClaimRow, ClaimLost,
         ClaimFails, QueueTransfer, Download, GrabFiles, DownloadSucceeds, DownloadFails,
         FilesNotFound, Notify, Watch, World
<1> QED
  BY <1>2, <1>3, <1>4, <1>5, <1>6, <1>7, <1>8, <1>9, <1>10 DEF notifVars

\* DownloadedIsFollowed: while nothing fails, someone watches every downloaded
\* transfer until it leaves the seedbox.
THEOREM DownloadedStaysFollowed == Spec => []DownloadedIsFollowed
<1>1. Init => SeenInv /\ DownloadedIsFollowed
  BY DEF Init, SeenInv, DownloadedIsFollowed
<1>2. ASSUME TypeOK, ExclusiveClaim, SeenInv, DownloadedIsFollowed, [Next]_vars
      PROVE  DownloadedIsFollowed'
  <2> SUFFICES ASSUME NEW t \in Transfers,
                      faults' = 0, row'[t] = "downloaded", remote'[t] = "ready"
               PROVE  \E i \in Instances : Watched(i, t)'
    BY DEF DownloadedIsFollowed
  <2>1. CASE row[t] = "downloaded"
    <3>1. remote[t] = "ready"
      <4>1. remote[t] # "fetching"
        BY <1>2, <2>1 DEF SeenInv
      <4>2. remote[t] \in {"cleaned", "removed"} => remote'[t] = remote[t]
        BY <1>2, GoneStays
      <4> QED  BY <1>2, <4>1, <4>2 DEF TypeOK, RemoteStates
    <3>2. faults = 0
      BY <1>2, OrphanStep DEF TypeOK
    <3> QED  BY <1>2, <2>1, <3>1, <3>2, WatchEnds DEF DownloadedIsFollowed
  <2>2. CASE row[t] # "downloaded"
    <3>1. PICK i \in Instances : SettleRow(i)
      BY <1>2, <2>2, TableStep DEF ClaimRow, tableVars, TypeOK
    <3>2. notif[i] = "finished" /\ notifT[i] = t
      BY <1>2, <2>2, <3>1, StatusOfType, SettlesOwnClaim DEF SettleRow, TypeOK
    <3> QED  BY <1>2, <3>1, <3>2 DEF SettleRow, WatcherAfter, Watched, TypeOK
  <2> QED  BY <2>1, <2>2
<1> QED  BY <1>1, <1>2, SeenStep, TypeInvariance, ClaimIsExclusive, PTL DEF Spec

-----------------------------------------------------------------------------
(* The life of a transfer.  Each step that the life can see is one of the    *)
(* following, and about one transfer.                                        *)

\* A row's status moves its transfer, and no other, to that status's stage.
LEMMA StageMoves ==
  ASSUME TypeOK, NEW t \in Transfers, NEW s \in Statuses, row' = [row EXCEPT ![t] = s],
         NEW g, g = (IF s = "downloading" THEN "held" ELSE IF s \in Settled THEN s ELSE "waiting")
  PROVE  lifeStage' = [lifeStage EXCEPT ![t] = g]
<1>1. lifeStage'[t] = g
  <2>1. row'[t] = s
    BY DEF TypeOK
  <2> QED  BY <2>1 DEF lifeStage, Settled
<1>2. \A u \in Transfers \ {t} : lifeStage'[u] = lifeStage[u]
  <2>1. \A u \in Transfers \ {t} : row'[u] = row[u]
    BY DEF TypeOK
  <2> QED  BY <2>1 DEF lifeStage
<1>3. /\ lifeStage = [u \in Transfers |-> lifeStage[u]]
      /\ lifeStage' = [u \in Transfers |-> lifeStage'[u]]
  BY DEF lifeStage
<1> QED  BY <1>1, <1>2, <1>3

\* The upsert claims what waits and the seedbox has.
LEMMA ClaimLives ==
  ASSUME TypeOK, SeenInv, NEW i \in Instances, ClaimRow(i)
  PROVE  Life!LifeNext
<1> DEFINE t == claimT[i]
<1>1. t \in Transfers /\ orch[i] = "claiming" /\ row[t] \in {"absent", "pending", "failed"}
  BY DEF ClaimRow, Claimable, TypeOK
<1>2. lifeStage[t] = "waiting" /\ remote[t] # "fetching"
  BY <1>1 DEF lifeStage, Settled, SeenInv
<1>3. lifeStage' = [lifeStage EXCEPT ![t] = "held"]
  BY <1>1, StageMoves DEF ClaimRow, Statuses
<1> QED  BY <1>1, <1>2, <1>3 DEF ClaimRow, worldVars, Life!LifeNext, Life!Claim, Life!MoveTo

\* The status update ends a claim, as downloaded only with the content.
LEMMA SettleLives ==
  ASSUME TypeOK, ExclusiveClaim, ContentInv, NEW i \in Instances, SettleRow(i)
  PROVE  Life!LifeNext
<1> DEFINE t == notifT[i]
<1>1. t \in Transfers /\ row[t] = "downloading" /\ notif[i] \in Results
  BY SettlesOwnClaim DEF SettleRow
<1>2. lifeStage[t] = "held"
  BY <1>1 DEF lifeStage, Settled
<1>3. UNCHANGED <<disk, imported, remote, ratio>> /\ row' = [row EXCEPT ![t] = StatusOf(notif[i])]
  BY DEF SettleRow, worldVars
<1> USE DEF Life!LifeNext, Life!MoveTo
<1>4. CASE notif[i] = "error"
  <2>1. lifeStage' = [lifeStage EXCEPT ![t] = "waiting"]
    BY <1>1, <1>3, <1>4, StageMoves DEF StatusOf, Statuses, Settled
  <2> QED  BY <1>1, <1>2, <1>3, <2>1 DEF Life!Fail
<1>5. CASE notif[i] = "missing"
  <2>1. lifeStage' = [lifeStage EXCEPT ![t] = "missing"]
    BY <1>1, <1>3, <1>5, StageMoves DEF StatusOf, Statuses, Settled
  <2> QED  BY <1>1, <1>2, <1>3, <2>1 DEF Life!Lose
<1>6. CASE notif[i] = "finished"
  <2>1. lifeStage' = [lifeStage EXCEPT ![t] = "downloaded"]
    BY <1>1, <1>3, <1>6, StageMoves DEF StatusOf, Statuses, Settled
  <2>2. disk[t] = "full" \/ imported[t]
    BY <1>1, <1>6 DEF ContentInv
  <2> QED  BY <1>1, <1>2, <1>3, <2>1, <2>2 DEF Life!Finish
<1> QED  BY <1>1, <1>4, <1>5, <1>6 DEF Results

\* A download writes under its claim.
LEMMA DownloadLives ==
  ASSUME TypeOK, ExclusiveClaim, NEW i \in Instances, Download(i)
  PROVE  Life!LifeNext
<1> DEFINE t == dlT[i]
<1>1. t \in Transfers /\ row[t] = "downloading"
  BY DEF Download, GrabFiles, DownloadSucceeds, DownloadFails, FilesNotFound, AtDl, Holds,
         ExclusiveClaim, HeldIsClaimed, TypeOK
<1>2. lifeStage[t] = "held" /\ UNCHANGED <<lifeStage, imported, remote, ratio>>
  BY <1>1
  DEF lifeStage, Settled, tableVars,
      Download, GrabFiles, DownloadSucceeds, DownloadFails, FilesNotFound
<1>3. \E c \in DiskStates : disk' = [disk EXCEPT ![t] = c]
  <2>1. CASE GrabFiles(i)
    BY <2>1 DEF GrabFiles, DiskStates
  <2>2. CASE DownloadSucceeds(i)
    BY <1>1, <2>2 DEF DownloadSucceeds, DiskStates, TypeOK
  <2>3. CASE DownloadFails(i) \/ FilesNotFound(i)
    BY <2>3 DEF DownloadFails, FilesNotFound, LeftOf, DiskStates
  <2> QED  BY <2>1, <2>2, <2>3 DEF Download
<1> QED  BY <1>1, <1>2, <1>3 DEF Life!LifeNext, Life!Write, Life!Contents, DiskStates

\* The watcher discards what is downloaded and was noticed as taken.
LEMMA DiscardLives ==
  ASSUME TypeOK, OneWatcher, NEW i \in Instances, NEW t \in Transfers, CheckImported(i, t)
  PROVE  Life!LifeNext \/ UNCHANGED Life!lifeVars
<1>1. row[t] = "downloaded" /\ Life!Noticed(t)
  BY DEF CheckImported, ImportSeen, OneWatcher, Watched, Life!Noticed
<1>2. lifeStage[t] = "downloaded" /\ UNCHANGED <<lifeStage, imported, remote, ratio>>
  BY <1>1 DEF lifeStage, Settled, CheckImported, tableVars
<1>3. CASE disk[t] = "none"
  <2>1. UNCHANGED disk
    BY <1>3 DEF CheckImported, LeftByRemoval, TypeOK
  <2> QED  BY <1>2, <2>1 DEF Life!lifeVars
<1>4. CASE disk[t] # "none"
  <2>1. \E d \in {"none", "partial"} : disk' = [disk EXCEPT ![t] = d]
    BY <1>4 DEF CheckImported, LeftByRemoval
  <2> QED  BY <1>1, <1>2, <1>4, <2>1 DEF Life!LifeNext, Life!Discard
<1> QED  BY <1>3, <1>4

\* A cleanup deletes what is downloaded, was noticed as taken and has seeded long enough.
LEMMA CleanupLives ==
  ASSUME TypeOK, NEW t \in Transfers, UNCHANGED row,
         row[t] = "downloaded", Life!Noticed(t), Seeding => ratio[t],
         Cleanup(t) \/ CleanupGivesUp
  PROVE  Life!LifeNext \/ UNCHANGED Life!lifeVars
<1>1. lifeStage[t] = "downloaded" /\ UNCHANGED lifeStage
  BY DEF lifeStage, Settled
<1>2. CASE Cleanup(t) /\ remote[t] = "ready"
  BY <1>1, <1>2 DEF Cleanup, Life!LifeNext, Life!Clean, Life!SeedboxTo
<1>3. CASE Cleanup(t) /\ remote[t] # "ready"
  BY <1>1, <1>3 DEF Cleanup, Life!lifeVars, TypeOK
<1>4. CASE CleanupGivesUp
  BY <1>1, <1>4 DEF CleanupGivesUp, worldVars, Life!lifeVars
<1> QED  BY <1>2, <1>3, <1>4

\* Both who run it know that: what they handle was noticed as taken, and with a ratio to wait
\* for only the seeding watcher does.
LEMMA CleanersLive ==
  ASSUME TypeOK, OneWatcher, ImportInv, NEW i \in Instances,
         CleanupImported(i) \/ \E t \in Transfers : CheckSeeding(i, t)
  PROVE  Life!LifeNext \/ UNCHANGED Life!lifeVars
<1>1. CASE CleanupImported(i)
  <2>1. /\ notifT[i] \in Transfers /\ notif[i] = "imported" /\ ~Seeding /\ UNCHANGED row
        /\ Cleanup(notifT[i]) \/ CleanupGivesUp
    BY <1>1 DEF CleanupImported, KeepsSeeding, Events, tableVars, TypeOK
  <2>2. row[notifT[i]] = "downloaded" /\ Life!Noticed(notifT[i])
    BY <2>1 DEF OneWatcher, Watched, ImportInv, Life!Noticed
  <2> QED  BY <2>1, <2>2, CleanupLives
<1>2. ASSUME NEW t \in Transfers, CheckSeeding(i, t)
      PROVE  Life!LifeNext \/ UNCHANGED Life!lifeVars
  <2>1. row[t] = "downloaded" /\ Life!Noticed(t) /\ UNCHANGED row
    BY <1>2 DEF CheckSeeding, OneWatcher, Watched, ImportInv, Life!Noticed, tableVars
  <2>2. CASE UNCHANGED worldVars
    BY <2>1, <2>2 DEF worldVars, lifeStage, Life!lifeVars
  <2>3. CASE ratio[t] /\ (Cleanup(t) \/ CleanupGivesUp)
    BY <2>1, <2>3, CleanupLives
  <2> QED  BY <1>2, <2>2, <2>3 DEF CheckSeeding
<1> QED  BY <1>1, <1>2

\* The seedbox and the *arr apps are the same in both.
LEMMA WorldLives ==
  ASSUME TypeOK, World
  PROVE  Life!LifeNext
<1>1. UNCHANGED lifeStage
  BY DEF World, tableVars, lifeStage
<1>2. PICK t \in Transfers :
        SeedboxCompletes(t) \/ RemoveRemotely(t) \/ ReachRatio(t) \/ ArrImports(t)
  BY DEF World
<1>3. SeedboxCompletes(t) => Life!Arrive(t)
  BY <1>1 DEF SeedboxCompletes, Life!Arrive, Life!SeedboxTo
<1>4. RemoveRemotely(t) => Life!Withdraw(t)
  BY <1>1 DEF RemoveRemotely, Life!Withdraw, Life!SeedboxTo
<1>5. ReachRatio(t) => Life!ReachRatio(t)
  BY <1>1 DEF ReachRatio, Life!ReachRatio
<1>6. ArrImports(t) => Life!Take(t)
  BY <1>1 DEF ArrImports, Life!Take
<1> QED  BY <1>2, <1>3, <1>4, <1>5, <1>6 DEF Life!LifeNext

\* Every step is a step in the life of one transfer, or one it does not see.
LEMMA LifeStep ==
  ASSUME TypeOK, ExclusiveClaim, OneWatcher, ContentInv, ImportInv, SeenInv, [Next]_vars
  PROVE  [Life!LifeNext]_(Life!lifeVars)
<1>1. ASSUME UNCHANGED <<row, worldVars>>  PROVE UNCHANGED Life!lifeVars
  BY <1>1 DEF worldVars, lifeStage, Life!lifeVars
<1>2. \/ UNCHANGED <<row, worldVars>> \/ World
      \/ \E i \in Instances :
           \/ ClaimRow(i) \/ SettleRow(i) \/ Download(i) \/ CleanupImported(i)
           \/ \E t \in Transfers : CheckImported(i, t) \/ CheckSeeding(i, t)
  BY DEF Next, vars, Orchestrate, Poll, SkipDownloaded, SelectRow, ClaimLost, ClaimFails,
         QueueTransfer, DeliverResult, Notify, SettleFails, StartSeedWatch, MessageSent, Watch,
         WatcherPanics, AnnounceImported, Crash, tableVars
<1> QED
  BY <1>1, <1>2, ClaimLives, SettleLives, DownloadLives, DiscardLives, CleanersLive, WorldLives

\* LifeSpec: whatever any number of instances, goroutines and faults do, each transfer
\* lives as its owner expects.
THEOREM ImplementsLife == Spec => LifeSpec
<1>1. Init => Life!LifeInit /\ SeenInv
  BY DEF Init, lifeStage, Settled, SeenInv, Life!LifeInit
<1>2. Spec => []SeenInv
  BY <1>1, SeenStep, TypeInvariance, ClaimIsExclusive, PTL DEF Spec
<1>3. TypeOK /\ ExclusiveClaim /\ OneWatcher /\ ContentInv /\ ImportInv /\ SeenInv /\ [Next]_vars
        => [UNCHANGED Life!lifeVars \/ Life!LifeNext]_(Life!lifeVars)
  BY LifeStep
<1> QED
  BY <1>1, <1>2, <1>3, TypeInvariance, ClaimIsExclusive, WatcherIsUnique, ContentInvariance,
     ImportInvariance, PTL DEF Spec, LifeSpec, Life!LifeSpec

-----------------------------------------------------------------------------
(* The downloads and their contract.                                       *)

\* The call of DownloadTransfer that WatchDownloads of i is in.
Call(i) == INSTANCE DownloadContract WITH
  phase <- dl[i],
  content <- disk[dlT[i]]

\* What a step of that call leaves alone.
OnlyCall(i) ==
  /\ dl' = [dl EXCEPT ![i] = dl'[i]]
  /\ disk' = [disk EXCEPT ![dlT[i]] = disk'[dlT[i]]]
  /\ UNCHANGED <<remote, ratio, imported, dlT, tableVars, orchVars, notifVars, watch, faults>>

\* A download is, for Pipeline, what DownloadContract says of one call, neither less
\* nor more, whatever became of its transfer on the seedbox: with TransferDownload's
\* ImplementsContract, no goroutine of a call can do anything to the pipeline that
\* Pipeline does not consider.
THEOREM DownloadIsContracted ==
  ASSUME TypeOK, NEW i \in Instances, dl[i] # "idle"
  PROVE  Download(i) <=> Call(i)!ContractNext /\ OnlyCall(i)
<1> DEFINE t == dlT[i]
<1>0. t \in Transfers
  BY DEF TypeOK
<1> USE DEF Call!Open, Call!Finish, Call!Fail, Call!Contents
<1>1. GrabFiles(i) <=> Call(i)!Open /\ OnlyCall(i)
  BY <1>0 DEF GrabFiles, OnlyCall, TypeOK
<1>2. DownloadSucceeds(i) <=> Call(i)!Finish /\ OnlyCall(i)
  BY <1>0 DEF DownloadSucceeds, OnlyCall, TypeOK
<1>3. DownloadFails(i) <=> Call(i)!Fail("error") /\ OnlyCall(i)
  BY <1>0 DEF DownloadFails, LeftOf, DiskStates, OnlyCall, TypeOK
<1>4. FilesNotFound(i) <=> Call(i)!Fail("missing") /\ OnlyCall(i)
  BY <1>0 DEF FilesNotFound, LeftOf, DiskStates, OnlyCall, TypeOK
<1> QED  BY <1>1, <1>2, <1>3, <1>4 DEF Download, Call!ContractNext
=============================================================================
