------------------------- MODULE SyncPipelineProofs -------------------------
(***************************************************************************)
(* Theorems about SyncPipeline, for any set of files, any number of        *)
(* workers, any capacities of the channels and any mixture of faults.      *)
(***************************************************************************)
EXTENDS SyncPipeline, SequenceTheorems, FiniteSetTheorems, TLAPS

USE DEF envVars, walkVars, poolVars, upVars, collVars

\* The files whose size and mtime still match their record.
Unchanged(p) == disk[p] # Absent /\ old[p] # Absent /\ old[p].sig = disk[p].sig

\* What may travel through the pipeline: the hash of an unchanged file is the
\* one of its record at every stage, and so is what is written for it.
GoodItem == {i \in Item : disk[i.path] # Absent /\ i.known = KnownHash(i.path)}
GoodResult ==
    {r \in Result :
        /\ disk[r.path] # Absent
        /\ r.hash \in IF Unchanged(r.path) THEN {old[r.path].hash}
                                          ELSE {NoHash, disk[r.path].hash}}
GoodChange == {c \in Change : Unchanged(c.path) => c.rec = old[c.path]}

Travelling ==
    /\ todo \cup seen \subseteq {p \in Path : disk[p] # Absent}
    /\ wpc = "send" => item \in GoodItem
    /\ work \in Seq(GoodItem)
    /\ \A w \in Worker : wst[w] = "busy" => held[w] \in GoodItem
    /\ results \in Seq(GoodResult)
    /\ cpc \in {"delete", "upsert"} => change \in GoodChange
    /\ cpc = "delete" => change.from \in Path

IInv == TypeOK /\ Travelling /\ NoLaundering

LEMMA IInvInit == Init => IInv
<1> SUFFICES ASSUME Init PROVE IInv
  OBVIOUS
<1> USE DEF Init
<1>1. /\ disk \in [Path -> File \cup {Absent}]
      /\ old \in [Path -> Record \cup {Absent}]
      /\ db = old /\ faults \subseteq Fault
  BY WorldsAssumption
<1>2. /\ work \in Seq(Item) /\ work \in Seq(GoodItem) /\ Len(work) <= WorkCap
      /\ results \in Seq(Result) /\ results \in Seq(GoodResult) /\ Len(results) <= ResultCap
  BY SizesAssumption
<1>3. wst \in [Worker -> {"idle", "busy", "gone"}] /\ held \in [Worker -> Item \cup {Absent}]
  OBVIOUS
<1>4. stats \in [added : Nat, modified : Nat, moved : Nat, removed : Nat]
  BY DEF NoStats
<1>5. TypeOK
  BY <1>1, <1>2, <1>3, <1>4 DEF TypeOK
<1>6. Travelling /\ NoLaundering
  BY <1>1, <1>2 DEF Travelling, NoLaundering
<1>. QED
  BY <1>5, <1>6 DEF IInv

\* The drive and the old records do not change, and so neither does what is good.
LEMMA Same ==
  ASSUME disk' = disk, old' = old
  PROVE  /\ GoodItem' = GoodItem /\ GoodResult' = GoodResult /\ GoodChange' = GoodChange
         /\ \A p : Unchanged(p)' = Unchanged(p)
  BY DEF GoodItem, GoodResult, GoodChange, Unchanged, KnownHash

\* The item the walker makes of a file it visits.
LEMMA VisitedIsGood ==
  ASSUME TypeOK, NEW p \in Path, disk[p] # Absent
  PROVE  [path |-> p, known |-> KnownHash(p)] \in GoodItem \cap Item
<1>1. KnownHash(p) \in Hash \cup {NoHash}
  BY NamesAssumption DEF TypeOK, KnownHash, Record
<1>. QED
  BY <1>1 DEF GoodItem, Item

\* The result a worker makes of an item: a known hash is passed on, and an
\* unchanged file has a known hash.
LEMMA ReplyIsGood ==
  ASSUME TypeOK, NEW i \in GoodItem,
         NEW h \in IF i.known # NoHash THEN {i.known} ELSE HashOf(i.path)
  PROVE  [path |-> i.path, hash |-> h] \in GoodResult \cap Result
<1>1. i \in Item /\ i.path \in Path /\ disk[i.path] # Absent /\ i.known = KnownHash(i.path)
  BY DEF GoodItem, Item
<1>2. disk[i.path].hash \in Hash
  BY <1>1 DEF TypeOK, File
<1>3. h \in Hash \cup {NoHash}
  BY <1>1, <1>2 DEF HashOf, Item
<1>4. h \in IF Unchanged(i.path) THEN {old[i.path].hash} ELSE {NoHash, disk[i.path].hash}
  <2>1. CASE Unchanged(i.path)
    <3>1. i.known = old[i.path].hash /\ old[i.path].hash \in Hash
      BY <1>1, <2>1 DEF Unchanged, KnownHash, TypeOK, Record
    <3>. QED
      BY <2>1, <3>1, NamesAssumption
  <2>2. CASE ~Unchanged(i.path)
    <3>1. i.known = NoHash
      BY <1>1, <2>2 DEF Unchanged, KnownHash
    <3>. QED
      BY <2>2, <3>1 DEF HashOf
  <2>. QED
    BY <2>1, <2>2
<1>. QED
  BY <1>1, <1>3, <1>4 DEF GoodResult, Result

\* What the collector finds at the head of results.
LEMMA ReceivedIsGood ==
  ASSUME TypeOK, Travelling, Receive
  PROVE  /\ Received \in GoodResult /\ Received \in Result
         /\ Received.path \in Path /\ disk[Received.path] \in File
         /\ Received.hash \in IF Unchanged(Received.path) THEN {old[Received.path].hash}
                                 ELSE {NoHash, disk[Received.path].hash}
         /\ results' \in Seq(GoodResult) /\ results' \in Seq(Result)
         /\ Len(results') <= ResultCap
<1>1. /\ Received \in GoodResult
      /\ results' \in Seq(GoodResult)
  BY HeadTailProperties DEF Travelling, Receive, Received
<1>2. /\ results' \in Seq(Result) /\ Len(results') = Len(results) - 1
      /\ Len(results) \in Nat
  BY HeadTailProperties, LenProperties DEF TypeOK, Receive
<1>3. Len(results') <= ResultCap
  BY <1>2, SizesAssumption DEF TypeOK
<1>. QED
  BY <1>1, <1>2, <1>3 DEF GoodResult, Result, TypeOK

\* The three records the collector may decide to write.
LEMMA ChangeIsGood ==
  ASSUME TypeOK, Travelling, Receive, Received.hash # NoHash,
         \/ CollectKnown \/ CollectMoved \/ CollectAdded
  PROVE  /\ change' \in GoodChange /\ change' \in Change
         /\ cpc' = "delete" => change'.from \in Path
         /\ stats' \in [added : Nat, modified : Nat, moved : Nat, removed : Nat]
<1> DEFINE p == Received.path
<1>1. /\ p \in Path /\ disk[p] \in File /\ Received.hash \in Hash
      /\ disk[p].sig \in Sig
      /\ Unchanged(p) => Received.hash = old[p].hash
  BY ReceivedIsGood DEF Result, File
<1>2. \A q \in Path : old[q] # Absent => old[q] \in Record
  BY DEF TypeOK
<1>3. stats \in [added : Nat, modified : Nat, moved : Nat, removed : Nat]
  BY DEF TypeOK
<1> HIDE DEF p
<1>4. CASE CollectKnown
  <2> DEFINE r == [sig |-> disk[p].sig, hash |-> Received.hash, hist |-> old[p].hist]
  <2>1. old[p] \in Record /\ change' = [path |-> p, from |-> Absent, rec |-> r]
    BY <1>1, <1>2, <1>4 DEF CollectKnown, p
  <2>2. r \in Record
    BY <1>1, <2>1 DEF Record
  <2>3. Unchanged(p) => r = old[p]
    BY <1>1, <2>1 DEF Unchanged, Record
  <2>4. stats' \in [added : Nat, modified : Nat, moved : Nat, removed : Nat]
    BY <1>3, <1>4 DEF CollectKnown
  <2>5. cpc' = "upsert"
    BY <1>4 DEF CollectKnown
  <2> HIDE DEF r
  <2>. QED
    BY <1>1, <2>1, <2>2, <2>3, <2>4, <2>5 DEF GoodChange, Change
<1>5. CASE CollectMoved
  <2>1. PICK q \in MovedFrom(p) :
          change' = [path |-> p, from |-> q,
                     rec |-> [sig |-> disk[p].sig, hash |-> old[q].hash,
                              hist |-> old[q].hist]]
    BY <1>5 DEF CollectMoved, p
  <2>2. q \in Path /\ old[q] \in Record
    BY <1>2 DEF MovedFrom
  <2>3. [sig |-> disk[p].sig, hash |-> old[q].hash, hist |-> old[q].hist] \in Record
    BY <1>1, <2>2 DEF Record
  <2>4. ~Unchanged(p)
    BY <1>5 DEF CollectMoved, Unchanged, p
  <2>5. stats' \in [added : Nat, modified : Nat, moved : Nat, removed : Nat]
    BY <1>3, <1>5 DEF CollectMoved
  <2>. QED
    BY <1>1, <2>1, <2>2, <2>3, <2>4, <2>5 DEF GoodChange, Change
<1>6. CASE CollectAdded
  <2> DEFINE r == [sig |-> disk[p].sig, hash |-> Received.hash, hist |-> Fresh]
  <2>1. /\ change' = [path |-> p, from |-> Absent, rec |-> r]
        /\ cpc' = "upsert"
    BY <1>6 DEF CollectAdded, p
  <2>2. r \in Record
    BY <1>1 DEF Record
  <2>3. ~Unchanged(p)
    BY <1>6 DEF CollectAdded, Unchanged, p
  <2>4. stats' \in [added : Nat, modified : Nat, moved : Nat, removed : Nat]
    BY <1>3, <1>6 DEF CollectAdded
  <2> HIDE DEF r
  <2>. QED
    BY <1>1, <2>1, <2>2, <2>3, <2>4 DEF GoodChange, Change
<1>. QED
  BY <1>4, <1>5, <1>6

LEMMA IInvStep == IInv /\ [Next]_vars => IInv'
<1> SUFFICES ASSUME IInv, [Next]_vars PROVE IInv'
  OBVIOUS
<1> USE DEF IInv
<1>1. CASE UNCHANGED vars
  BY <1>1, Same DEF vars, TypeOK, Travelling, NoLaundering, Unchanged
<1>2. ASSUME NEW p \in Path, Visit(p) PROVE IInv'
  <2>1. /\ item' \in GoodItem /\ item' \in Item
        /\ todo' \subseteq todo /\ p \in todo /\ seen' = seen \cup {p}
    BY <1>2, VisitedIsGood DEF Visit, Travelling
  <2>2. TypeOK'
    BY <1>2, <2>1 DEF Visit, TypeOK
  <2>3. Travelling'
    BY <1>2, <2>1, Same DEF Visit, Travelling
  <2>4. NoLaundering'
    BY <1>2 DEF Visit, NoLaundering
  <2>. QED
    BY <2>2, <2>3, <2>4
<1>3. ASSUME NEW p \in Path, VisitFails(p) PROVE IInv'
  BY <1>3, Same DEF TypeOK, Travelling, NoLaundering, VisitFails
<1>4. CASE SendWork
  <2>1. item \in GoodItem /\ item \in Item
    BY <1>4 DEF SendWork, Travelling, GoodItem
  <2>2. /\ work' \in Seq(Item) /\ work' \in Seq(GoodItem)
        /\ Len(work') = Len(work) + 1 /\ Len(work) \in Nat
    BY <1>4, <2>1, AppendProperties, LenProperties DEF SendWork, TypeOK, Travelling
  <2>3. Len(work') <= WorkCap
    BY <1>4, <2>2, SizesAssumption DEF SendWork
  <2>4. TypeOK'
    BY <1>4, <2>2, <2>3 DEF SendWork, TypeOK
  <2>5. Travelling'
    BY <1>4, <2>2, Same DEF SendWork, Travelling
  <2>6. NoLaundering'
    BY <1>4 DEF SendWork, NoLaundering
  <2>. QED
    BY <2>4, <2>5, <2>6
<1>5. CASE StopWalk
  BY <1>5, Same DEF TypeOK, Travelling, NoLaundering, StopWalk
<1>6. CASE FinishWalk
  BY <1>6, Same DEF TypeOK, Travelling, NoLaundering, FinishWalk
<1>7. ASSUME NEW w \in Worker, Take(w) PROVE IInv'
  <2>1. /\ Head(work) \in GoodItem /\ Head(work) \in Item
        /\ work' \in Seq(Item) /\ work' \in Seq(GoodItem)
        /\ Len(work') = Len(work) - 1 /\ Len(work) \in Nat
    BY <1>7, HeadTailProperties, LenProperties DEF Take, TypeOK, Travelling
  <2>2. Len(work') <= WorkCap
    BY <2>1, SizesAssumption DEF TypeOK
  <2>3. /\ wst' \in [Worker -> {"idle", "busy", "gone"}]
        /\ held' \in [Worker -> Item \cup {Absent}]
    BY <1>7, <2>1 DEF Take, TypeOK
  <2>4. TypeOK'
    BY <1>7, <2>1, <2>2, <2>3 DEF Take, TypeOK
  <2>5. \A v \in Worker : wst'[v] = "busy" => held'[v] \in GoodItem
    BY <1>7, <2>1 DEF Take, TypeOK, Travelling
  <2>6. Travelling'
    BY <1>7, <2>1, <2>5, Same DEF Take, Travelling
  <2>7. NoLaundering'
    BY <1>7 DEF Take, NoLaundering
  <2>. QED
    BY <2>4, <2>6, <2>7
<1>8. ASSUME NEW w \in Worker, Reply(w) PROVE IInv'
  <2>1. held[w] \in GoodItem
    BY <1>8 DEF Reply, Travelling
  <2>2. PICK h \in IF held[w].known # NoHash THEN {held[w].known} ELSE HashOf(held[w].path) :
          results' = Append(results, [path |-> held[w].path, hash |-> h])
    BY <1>8 DEF Reply
  <2>3. [path |-> held[w].path, hash |-> h] \in GoodResult \cap Result
    BY <2>1, ReplyIsGood
  <2>4. /\ results' \in Seq(Result) /\ results' \in Seq(GoodResult)
        /\ Len(results') = Len(results) + 1 /\ Len(results) \in Nat
    BY <2>2, <2>3, AppendProperties, LenProperties DEF TypeOK, Travelling
  <2>5. Len(results') <= ResultCap
    BY <1>8, <2>4, SizesAssumption DEF Reply
  <2>6. /\ wst' \in [Worker -> {"idle", "busy", "gone"}]
        /\ held' \in [Worker -> Item \cup {Absent}]
    BY <1>8 DEF Reply, TypeOK
  <2>7. TypeOK'
    BY <1>8, <2>4, <2>5, <2>6 DEF Reply, TypeOK
  <2>8. \A v \in Worker : wst'[v] = "busy" => held'[v] \in GoodItem
    BY <1>8 DEF Reply, TypeOK, Travelling
  <2>9. Travelling'
    BY <1>8, <2>4, <2>8, Same DEF Reply, Travelling
  <2>10. NoLaundering'
    BY <1>8 DEF Reply, NoLaundering
  <2>. QED
    BY <2>7, <2>9, <2>10
<1>9. ASSUME NEW w \in Worker, Exit(w) PROVE IInv'
  BY <1>9, Same DEF TypeOK, Travelling, NoLaundering, Exit
<1>10. CASE Load
  BY <1>10, Same DEF TypeOK, Travelling, NoLaundering, Load, Return
<1>11. CASE CollectCancelled
  <2>1. Receive
    BY <1>11 DEF CollectCancelled
  <2>2. TypeOK'
    BY <1>11, <2>1, ReceivedIsGood DEF CollectCancelled, Return, Receive, TypeOK
  <2>3. Travelling'
    BY <1>11, <2>1, ReceivedIsGood, Same DEF CollectCancelled, Return, Receive, Travelling
  <2>4. NoLaundering'
    BY <1>11 DEF CollectCancelled, NoLaundering
  <2>. QED
    BY <2>2, <2>3, <2>4
<1>12. CASE CollectError
  <2>1. Receive
    BY <1>12 DEF CollectError
  <2>2. TypeOK'
    BY <1>12, <2>1, ReceivedIsGood DEF CollectError, Receive, TypeOK
  <2>3. Travelling'
    BY <1>12, <2>1, ReceivedIsGood, Same DEF CollectError, Receive, Travelling
  <2>4. NoLaundering'
    BY <1>12 DEF CollectError, NoLaundering
  <2>. QED
    BY <2>2, <2>3, <2>4
<1>13. CASE CollectKnown
  <2>1. Receive /\ Received.hash # NoHash
    BY <1>13 DEF CollectKnown
  <2>2. /\ change' \in GoodChange /\ change' \in Change
        /\ cpc' = "delete" => change'.from \in Path
        /\ stats' \in [added : Nat, modified : Nat, moved : Nat, removed : Nat]
    BY <1>13, <2>1, ChangeIsGood
  <2>3. results' \in Seq(GoodResult) /\ results' \in Seq(Result) /\ Len(results') <= ResultCap
    BY <2>1, ReceivedIsGood
  <2>4. /\ UNCHANGED <<upVars, sweep, outcome, db, errs>>
        /\ cpc' \in {"delete", "upsert"}
    BY <1>13 DEF CollectKnown
  <2>5. TypeOK'
    BY <2>2, <2>3, <2>4 DEF TypeOK
  <2>6. Travelling'
    BY <2>2, <2>3, <2>4, Same DEF Travelling
  <2>7. NoLaundering'
    BY <2>4 DEF NoLaundering
  <2>. QED
    BY <2>5, <2>6, <2>7
<1>14. CASE CollectMoved
  <2>1. Receive /\ Received.hash # NoHash
    BY <1>14 DEF CollectMoved
  <2>2. /\ change' \in GoodChange /\ change' \in Change
        /\ cpc' = "delete" => change'.from \in Path
        /\ stats' \in [added : Nat, modified : Nat, moved : Nat, removed : Nat]
    BY <1>14, <2>1, ChangeIsGood
  <2>3. results' \in Seq(GoodResult) /\ results' \in Seq(Result) /\ Len(results') <= ResultCap
    BY <2>1, ReceivedIsGood
  <2>4. /\ UNCHANGED <<upVars, sweep, outcome, db, errs>>
        /\ cpc' \in {"delete", "upsert"}
    BY <1>14 DEF CollectMoved
  <2>5. TypeOK'
    BY <2>2, <2>3, <2>4 DEF TypeOK
  <2>6. Travelling'
    BY <2>2, <2>3, <2>4, Same DEF Travelling
  <2>7. NoLaundering'
    BY <2>4 DEF NoLaundering
  <2>. QED
    BY <2>5, <2>6, <2>7
<1>15. CASE CollectAdded
  <2>1. Receive /\ Received.hash # NoHash
    BY <1>15 DEF CollectAdded
  <2>2. /\ change' \in GoodChange /\ change' \in Change
        /\ cpc' = "delete" => change'.from \in Path
        /\ stats' \in [added : Nat, modified : Nat, moved : Nat, removed : Nat]
    BY <1>15, <2>1, ChangeIsGood
  <2>3. results' \in Seq(GoodResult) /\ results' \in Seq(Result) /\ Len(results') <= ResultCap
    BY <2>1, ReceivedIsGood
  <2>4. /\ UNCHANGED <<upVars, sweep, outcome, db, errs>>
        /\ cpc' \in {"delete", "upsert"}
    BY <1>15 DEF CollectAdded
  <2>5. TypeOK'
    BY <2>2, <2>3, <2>4 DEF TypeOK
  <2>6. Travelling'
    BY <2>2, <2>3, <2>4, Same DEF Travelling
  <2>7. NoLaundering'
    BY <2>4 DEF NoLaundering
  <2>. QED
    BY <2>5, <2>6, <2>7
<1>16. CASE DeleteMovedFrom
  BY <1>16, Same DEF TypeOK, Travelling, NoLaundering, DeleteMovedFrom, Applied
<1>17. CASE UpsertFile
  <2>1. /\ change \in GoodChange /\ change \in Change
        /\ change.path \in Path /\ change.rec \in Record
    BY <1>17 DEF UpsertFile, Travelling, GoodChange, Change
  <2>2. \/ db' = db
        \/ db' = [db EXCEPT ![change.path] = change.rec]
    BY <1>17 DEF UpsertFile
  <2>3. db' \in [Path -> Record \cup {Absent}] /\ errs' \subseteq Path
    BY <1>17, <2>1 DEF UpsertFile, TypeOK
  <2>4. TypeOK'
    BY <1>17, <2>3 DEF UpsertFile, TypeOK
  <2>5. Travelling'
    BY <1>17, Same DEF UpsertFile, Travelling
  <2>6. NoLaundering'
    <3>1. Unchanged(change.path) => change.rec = old[change.path]
      BY <2>1 DEF GoodChange
    <3>2. disk' = disk /\ old' = old
      BY <1>17 DEF UpsertFile
    <3>. QED
      BY <2>1, <2>2, <3>1, <3>2 DEF NoLaundering, TypeOK, Unchanged
  <2>. QED
    BY <2>4, <2>5, <2>6
<1>18. CASE AwaitWalker
  BY <1>18, Same DEF TypeOK, Travelling, NoLaundering, AwaitWalker, Leftover,
     Return
<1>19. CASE FinishSync
  BY <1>19, Same DEF TypeOK, Travelling, NoLaundering, FinishSync, Return
<1>20. ASSUME NEW p \in Path, SweepRecord(p) PROVE IInv'
  <2>1. db' \in [Path -> Record \cup {Absent}]
    BY <1>20 DEF SweepRecord, TypeOK
  <2>2. stats' \in [added : Nat, modified : Nat, moved : Nat, removed : Nat]
    <3>1. stats \in [added : Nat, modified : Nat, moved : Nat, removed : Nat]
      BY DEF TypeOK
    <3>2. stats' = [stats EXCEPT !.removed = stats.removed + 1]
      BY <1>20 DEF SweepRecord
    <3>. QED
      BY <3>1, <3>2
  <2>3. TypeOK'
    BY <1>20, <2>1, <2>2 DEF SweepRecord, TypeOK
  <2>4. Travelling'
    BY <1>20, Same DEF SweepRecord, Travelling
  <2>5. NoLaundering'
    BY <1>20 DEF SweepRecord, TypeOK, NoLaundering
  <2>. QED
    BY <2>3, <2>4, <2>5
<1>21. CASE Cancel
  BY <1>21, Same DEF TypeOK, Travelling, NoLaundering, Cancel
<1>22. CASE CloseProgress
  BY <1>22, Same DEF TypeOK, Travelling, NoLaundering, CloseProgress
<1>23. CASE Done
  BY <1>1, <1>23 DEF Done
<1>. QED
  BY <1>1, <1>2, <1>3, <1>4, <1>5, <1>6, <1>7, <1>8, <1>9, <1>10, <1>11,
     <1>12, <1>13, <1>14, <1>15, <1>16, <1>17, <1>18, <1>19, <1>20, <1>21,
     <1>22, <1>23 DEF Next, Walker, WorkerStep, Collector

\* Every variable keeps its type.
THEOREM SyncTypeCorrect == Spec => []TypeOK
<1>1. IInv => TypeOK
  BY DEF IInv
<1>. QED
  BY IInvInit, IInvStep, <1>1, PTL DEF Spec

\* A sync never replaces the record of a file whose size and mtime still match
\* it, whatever is cancelled, unreadable or not written meanwhile.
THEOREM SyncNeverLaunders == Spec => []NoLaundering
<1>1. IInv => NoLaundering
  BY DEF IInv
<1>. QED
  BY IInvInit, IInvStep, <1>1, PTL DEF Spec

\* While the sync is not cancelled it returns normally, or before the goroutines
\* are started, and in the first case only after the walker has finished.
Quiet ==
    /\ ~ctxDone /\ ~walkErr /\ ~panicked
    /\ cpc = "sweep" => wpc = "done"
    /\ cpc = "returned" => (outcome = "failed" \/ wpc = "done")
    /\ progClosed => cpc = "returned"

LEMMA QuietStep ==
  ASSUME "cancel" \notin faults, Quiet, [Next]_vars
  PROVE  Quiet'
<1> USE DEF Quiet
<1>1. CASE UNCHANGED vars
  BY <1>1 DEF vars
<1>2. CASE Walker
  <2>1. ASSUME NEW p \in Path, Visit(p) PROVE Quiet'
    <3>1. ~progClosed
      BY <2>1 DEF Visit, Running
    <3>. QED
      BY <2>1, <3>1 DEF Visit
  <2>2. ASSUME NEW p \in Path, VisitFails(p) PROVE Quiet'
    BY <2>2 DEF VisitFails
  <2>3. CASE SendWork
    BY <2>3 DEF SendWork, Running
  <2>4. CASE StopWalk
    BY <2>4 DEF StopWalk
  <2>5. CASE FinishWalk
    BY <2>5 DEF FinishWalk
  <2>. QED
    BY <1>2, <2>1, <2>2, <2>3, <2>4, <2>5 DEF Walker
<1>3. ASSUME NEW w \in Worker, WorkerStep(w) PROVE Quiet'
  BY <1>3 DEF WorkerStep, Take, Reply, Exit
<1>4. CASE Collector
  <2>1. CASE Load
    BY <2>1 DEF Load, Return
  <2>2. CASE CollectCancelled
    BY <2>2 DEF CollectCancelled
  <2>3. CASE CollectError \/ CollectKnown \/ CollectMoved \/ CollectAdded
    BY <2>3 DEF CollectError, CollectKnown, CollectMoved, CollectAdded, Receive
  <2>4. CASE DeleteMovedFrom \/ UpsertFile
    BY <2>4 DEF DeleteMovedFrom, UpsertFile
  <2>5. CASE AwaitWalker \/ FinishSync
    BY <2>5 DEF AwaitWalker, FinishSync, Return
  <2>6. ASSUME NEW p \in Path, SweepRecord(p) PROVE Quiet'
    BY <2>6 DEF SweepRecord
  <2>. QED
    BY <1>4, <2>1, <2>2, <2>3, <2>4, <2>5, <2>6 DEF Collector
<1>5. CASE Cancel \/ CloseProgress \/ Done
  BY <1>5 DEF Cancel, CloseProgress, Done, vars
<1>. QED
  BY <1>1, <1>2, <1>3, <1>4, <1>5 DEF Next

-----------------------------------------------------------------------------
(* What a sync that returns normally has written. *)

\* Where the path of a file that was seen may be: with the walker, in the channel
\* to the workers, with one of them, in the channel to the collector, or with it.
PathsOf(s) == {s[i].path : i \in 1 .. Len(s)}

InItem == IF wpc = "send" THEN {item.path} ELSE {}
InWork == PathsOf(work)
InHand == {held[w].path : w \in {v \in Worker : wst[v] = "busy"}}
InResults == PathsOf(results)
InChange == IF cpc \in {"delete", "upsert"} THEN {change.path} ELSE {}

\* The files that were seen and not collected yet, and those not settled yet.
Coming == InItem \cup InWork \cup InHand \cup InResults
InFlight == Coming \cup InChange

\* The records a sync may leave for the files it saw, and what it has to say of them.
Allowed == {c \in seen \X Record : Justified(c[1], c[2])}
Settled(p) ==
    \/ <<p, db[p]>> \in Allowed
    \/ p \in errs /\ db[p] \in {old[p], Absent}

\* No file that was seen gets lost between the walker and the database.
NoneLost ==
    /\ Coming \subseteq seen
    /\ \A p \in seen : p \in InFlight \/ Settled(p)

\* A record is the old one or one the sync may leave.  The record of a file that
\* is settled is not taken over: it was unseen when the collector chose it.
RecordsJustified ==
    /\ \A p \in Path : db[p] \in {old[p], Absent} \/ <<p, db[p]>> \in Allowed
    /\ cpc \in {"delete", "upsert"} => <<change.path, change.rec>> \in Allowed
    /\ cpc = "delete" =>
         /\ change.from # change.path
         /\ change.from \in seen => change.from \in Coming

\* A worker ends when the walker is done and the channel drained; the sweep starts
\* when all have ended and removes what is left of the files that were not seen.
Drained == wpc = "done" /\ work = <<>> /\ results = <<>> /\ ResultsClosed

Sweeping ==
    /\ \A w \in Worker : wst[w] = "gone" => wpc = "done" /\ work = <<>>
    /\ outcome = "ok" => cpc = "returned" /\ sweep = {}
    /\ cpc = "sweep" \/ outcome = "ok" =>
         /\ Drained /\ sweep \cap seen = {}
         /\ \A p \in Path \ seen : db[p] # Absent => p \in sweep

MirrorInv == IInv /\ Quiet /\ NoneLost /\ RecordsJustified /\ Sweeping

\* A path is in at most one of these places, and there once.
Once(s) == \A i, j \in 1 .. Len(s) : s[i].path = s[j].path => i = j

Distinct ==
    /\ Once(work) /\ Once(results)
    /\ \A v, w \in Worker :
         wst[v] = "busy" /\ wst[w] = "busy" /\ held[v].path = held[w].path => v = w
    /\ InItem \cap (InWork \cup InHand \cup InResults) = {}
    /\ InWork \cap (InHand \cup InResults) = {}
    /\ InHand \cap InResults = {}

\* The files that are new in the database, and were collected.
NewFiles == {p \in seen \ Coming : old[p] = Absent}

Counting ==
    /\ todo \cap seen = {}
    /\ errs \cap seen = {} => stats.added + stats.moved = Cardinality(NewFiles)
    /\ cpc \notin {"sweep", "returned"} => stats.removed = 0
    /\ cpc = "sweep" \/ outcome = "ok" =>
         stats.removed + Cardinality(sweep) = Cardinality(Leftover)

BalanceInv == MirrorInv /\ Distinct /\ Counting

LEMMA PathsAppend ==
  ASSUME NEW S, NEW s \in Seq(S), NEW e \in S
  PROVE  /\ PathsOf(Append(s, e)) = PathsOf(s) \cup {e.path}
         /\ Once(s) /\ e.path \notin PathsOf(s) => Once(Append(s, e))
<1>1. /\ Len(s) \in Nat /\ Len(Append(s, e)) = Len(s) + 1
      /\ \A i \in 1 .. Len(s) : Append(s, e)[i] = s[i]
      /\ Append(s, e)[Len(s) + 1] = e
  BY AppendProperties, LenProperties
<1>2. 1 .. Len(s) + 1 = (1 .. Len(s)) \cup {Len(s) + 1}
  BY <1>1
<1>3. PathsOf(Append(s, e)) = PathsOf(s) \cup {e.path}
  BY <1>1, <1>2 DEF PathsOf
<1>4. ASSUME Once(s), e.path \notin PathsOf(s) PROVE Once(Append(s, e))
  <2> SUFFICES ASSUME NEW i \in 1 .. Len(s) + 1, NEW j \in 1 .. Len(s) + 1,
                      Append(s, e)[i].path = Append(s, e)[j].path
               PROVE  i = j
    BY <1>1 DEF Once
  <2>1. \A k \in 1 .. Len(s) : s[k].path # e.path
    BY <1>4 DEF PathsOf
  <2>. QED
    BY <1>1, <1>2, <1>4, <2>1 DEF Once
<1>. QED
  BY <1>3, <1>4

LEMMA PathsTail ==
  ASSUME NEW S, NEW s \in Seq(S), s # <<>>
  PROVE  /\ PathsOf(s) = PathsOf(Tail(s)) \cup {Head(s).path}
         /\ Once(s) => Once(Tail(s)) /\ Head(s).path \notin PathsOf(Tail(s))
<1>1. /\ Len(s) \in Nat \ {0} /\ Head(s) = s[1] /\ Len(Tail(s)) = Len(s) - 1
      /\ \A i \in 1 .. Len(Tail(s)) : Tail(s)[i] = s[i + 1]
  BY HeadTailProperties, LenProperties, EmptySeq
<1>2. \A i \in 1 .. Len(s) : i = 1 \/ (i - 1 \in 1 .. Len(Tail(s)) /\ Tail(s)[i - 1] = s[i])
  BY <1>1
<1>3. PathsOf(s) = PathsOf(Tail(s)) \cup {Head(s).path}
  <2>1. ASSUME NEW i \in 1 .. Len(s) PROVE s[i].path \in PathsOf(Tail(s)) \cup {Head(s).path}
    <3>1. CASE i = 1
      BY <3>1, <1>1
    <3>2. CASE i - 1 \in 1 .. Len(Tail(s)) /\ Tail(s)[i - 1] = s[i]
      BY <3>2 DEF PathsOf
    <3>. QED
      BY <3>1, <3>2, <1>2
  <2>2. \A i \in 1 .. Len(Tail(s)) : i + 1 \in 1 .. Len(s)
    BY <1>1
  <2>3. PathsOf(Tail(s)) \cup {Head(s).path} \subseteq PathsOf(s)
    BY <1>1, <2>2 DEF PathsOf
  <2>4. PathsOf(s) \subseteq PathsOf(Tail(s)) \cup {Head(s).path}
    BY <2>1 DEF PathsOf
  <2>. QED
    BY <2>3, <2>4
<1>4. ASSUME Once(s) PROVE Once(Tail(s)) /\ Head(s).path \notin PathsOf(Tail(s))
  <2>1. \A i \in 1 .. Len(Tail(s)) : i + 1 \in 1 .. Len(s) /\ i + 1 # 1 /\ i \in Int
    BY <1>1
  <2>2. \A i, j \in 1 .. Len(Tail(s)) : i + 1 = j + 1 => i = j
    OBVIOUS
  <2>3. Once(Tail(s))
    BY <1>1, <1>4, <2>1, <2>2 DEF Once
  <2>4. 1 \in 1 .. Len(s)
    BY <1>1
  <2>5. Head(s).path \notin PathsOf(Tail(s))
    BY <1>1, <1>4, <2>1, <2>4 DEF Once, PathsOf
  <2>. QED
    BY <2>3, <2>5
<1>. QED
  BY <1>3, <1>4

\* How a path goes from one place to the next.
LEMMA SendPlaces ==
  ASSUME TypeOK, Travelling, SendWork
  PROVE  /\ InItem = {item.path} /\ InItem' = {} /\ InWork' = InWork \cup {item.path}
         /\ InHand' = InHand /\ InResults' = InResults
         /\ Once(work) /\ item.path \notin InWork => Once(work')
<1>1. work \in Seq(GoodItem) /\ item \in GoodItem /\ work' = Append(work, item)
  BY DEF Travelling, SendWork
<1>2. /\ PathsOf(work') = PathsOf(work) \cup {item.path}
      /\ Once(work) /\ item.path \notin PathsOf(work) => Once(work')
  BY <1>1, PathsAppend
<1>. QED
  BY <1>2 DEF SendWork, InItem, InWork, InHand, InResults, PathsOf

LEMMA TakePlaces ==
  ASSUME TypeOK, Travelling, ~ctxDone, NEW w \in Worker, Take(w)
  PROVE  /\ work # <<>>
         /\ InWork = InWork' \cup {Head(work).path}
         /\ InHand' = InHand \cup {Head(work).path}
         /\ InItem' = InItem /\ InResults' = InResults
         /\ Once(work) => Once(work') /\ Head(work).path \notin InWork'
         /\ \A v \in Worker : wst'[v] = "busy" =>
              IF v = w THEN held'[v] = Head(work)
                       ELSE wst[v] = "busy" /\ held'[v] = held[v]
         /\ \A v \in Worker : wst'[v] = "gone" => wst[v] = "gone"
<1>1. /\ work \in Seq(GoodItem) /\ work # <<>> /\ work' = Tail(work)
      /\ wst[w] = "idle"
      /\ wst' = [wst EXCEPT ![w] = "busy"] /\ held' = [held EXCEPT ![w] = Head(work)]
  BY DEF Travelling, Take
<1>2. /\ PathsOf(work) = PathsOf(work') \cup {Head(work).path}
      /\ Once(work) => Once(work') /\ Head(work).path \notin PathsOf(work')
  BY <1>1, PathsTail
<1>3. wst \in [Worker -> {"idle", "busy", "gone"}] /\ held \in [Worker -> Item \cup {Absent}]
  BY DEF TypeOK
<1>4. InHand' = InHand \cup {Head(work).path}
  BY <1>1, <1>3 DEF InHand
<1>5. /\ InWork = PathsOf(work) /\ InWork' = PathsOf(work')
      /\ InItem' = InItem /\ InResults' = InResults
  BY DEF Take, InItem, InWork, InResults, PathsOf
<1>6. \A v \in Worker : /\ v = w => wst'[v] = "busy" /\ held'[v] = Head(work)
                        /\ v # w => wst'[v] = wst[v] /\ held'[v] = held[v]
  BY <1>1, <1>3
<1>7. \A v \in Worker : wst'[v] = "gone" => wst[v] = "gone"
  BY <1>6
<1>. QED
  BY <1>1, <1>2, <1>4, <1>5, <1>6, <1>7

LEMMA ReplyPlaces ==
  ASSUME TypeOK, Travelling, NEW w \in Worker, Reply(w)
  PROVE  /\ wst[w] = "busy" /\ held[w].path \in InHand
         /\ InHand = InHand' \cup {held[w].path}
         /\ InResults' = InResults \cup {held[w].path}
         /\ InItem' = InItem /\ InWork' = InWork
         /\ Once(results) /\ held[w].path \notin InResults => Once(results')
         /\ \A v \in Worker : /\ wst'[v] = "busy" <=> wst[v] = "busy" /\ v # w
                              /\ wst'[v] = "busy" => held'[v] = held[v]
                              /\ wst'[v] = "gone" => wst[v] = "gone"
<1>1. PICK h \in IF held[w].known # NoHash THEN {held[w].known} ELSE HashOf(held[w].path) :
          results' = Append(results, [path |-> held[w].path, hash |-> h])
  BY DEF Reply
<1>2. /\ held[w] \in GoodItem /\ wst[w] = "busy"
      /\ wst' = [wst EXCEPT ![w] = "idle"] /\ held' = [held EXCEPT ![w] = Absent]
  BY DEF Reply, Travelling
<1>3. [path |-> held[w].path, hash |-> h] \in GoodResult \cap Result
  BY <1>1, <1>2, ReplyIsGood
<1>4. /\ PathsOf(results') = PathsOf(results) \cup {held[w].path}
      /\ Once(results) /\ held[w].path \notin PathsOf(results) => Once(results')
  <2>1. results \in Seq(Result)
    BY DEF TypeOK
  <2>. QED
    BY <1>1, <1>3, <2>1, PathsAppend
<1>5. wst \in [Worker -> {"idle", "busy", "gone"}] /\ held \in [Worker -> Item \cup {Absent}]
  BY DEF TypeOK
<1>6. \A v \in Worker : /\ wst'[v] = "busy" <=> wst[v] = "busy" /\ v # w
                        /\ wst'[v] = "busy" => held'[v] = held[v]
                        /\ wst'[v] = "gone" => wst[v] = "gone"
  BY <1>2, <1>5
<1>7. InHand = InHand' \cup {held[w].path}
  BY <1>2, <1>6 DEF InHand
<1>. QED
  BY <1>2, <1>4, <1>6, <1>7 DEF Reply, InItem, InWork, InResults, InHand, PathsOf

LEMMA ReceivePlaces ==
  ASSUME TypeOK, Travelling, Receive
  PROVE  /\ InResults = InResults' \cup {Received.path}
         /\ Once(results) => Once(results') /\ Received.path \notin InResults'
<1>1. results \in Seq(GoodResult) /\ results # <<>> /\ results' = Tail(results)
  BY DEF Travelling, Receive
<1>2. /\ PathsOf(results) = PathsOf(results') \cup {Head(results).path}
      /\ Once(results) => Once(results') /\ Head(results).path \notin PathsOf(results')
  BY <1>1, PathsTail
<1>. QED
  BY <1>2 DEF Received, InResults, PathsOf

\* Files are seen, never forgotten: what is justified stays so.
LEMMA AllowedKept ==
  ASSUME disk' = disk, old' = old, seen \subseteq seen'
  PROVE  Allowed \subseteq Allowed'
<1> SUFFICES ASSUME NEW p \in seen, NEW r \in Record, Justified(p, r)
             PROVE  Justified(p, r)'
  BY DEF Allowed
<1>1. \A q, t : TakenFrom(q, t)' = TakenFrom(q, t)
  BY DEF TakenFrom
<1>2. Twins(p)' = Twins(p) /\ Kept(p, r)' = Kept(p, r)
  BY DEF Twins, Kept
<1>3. Moved(p, r) \/ Mistaken(p, r) => (Moved(p, r) \/ Mistaken(p, r))'
  BY <1>1, <1>2 DEF Moved, Mistaken
<1>4. Added(p, r) => Added(p, r)'
  BY <1>2 DEF Added
<1>. QED
  BY <1>2, <1>3, <1>4 DEF Justified

\* A step that leaves the database alone: paths move on, none gets lost.
LEMMA MoveStep ==
  ASSUME MirrorInv, UNCHANGED <<disk, old, db>>,
         \/ UNCHANGED <<cpc, change>>
         \/ cpc \notin {"delete", "upsert"} /\ cpc' \notin {"delete", "upsert"},
         seen \subseteq seen', errs \subseteq errs',
         Coming \subseteq Coming', Coming' \subseteq seen', seen' \subseteq seen \cup Coming'
  PROVE  NoneLost' /\ RecordsJustified'
<1> USE DEF MirrorInv
<1>1. Allowed \subseteq Allowed'
  BY AllowedKept
<1>2. InChange' = InChange
  BY DEF InChange
<1>3. NoneLost'
  <2>1. ASSUME NEW p \in seen' PROVE p \in InFlight' \/ Settled(p)'
    <3>1. CASE p \in Coming'
      BY <3>1 DEF InFlight
    <3>2. CASE p \notin Coming'
      <4>1. p \in seen /\ p \notin Coming
        BY <3>2
      <4>. QED
        BY <1>1, <1>2, <4>1 DEF NoneLost, InFlight, Settled
    <3>. QED
      BY <3>1, <3>2
  <2>. QED
    BY <2>1 DEF NoneLost
<1>4. RecordsJustified'
  <2>1. \A p \in Path : db[p] \in {old[p], Absent} \/ <<p, db[p]>> \in Allowed'
    BY <1>1 DEF RecordsJustified
  <2>2. CASE UNCHANGED <<cpc, change>>
    BY <1>1, <2>1, <2>2 DEF RecordsJustified
  <2>3. CASE cpc' \notin {"delete", "upsert"}
    BY <2>1, <2>3 DEF RecordsJustified
  <2>. QED
    BY <2>2, <2>3
<1>. QED
  BY <1>3, <1>4

LEMMA MirrorWalker ==
  ASSUME MirrorInv, Walker
  PROVE  NoneLost' /\ RecordsJustified' /\ Sweeping'
<1> USE DEF MirrorInv
<1>1. Coming \subseteq seen
  BY DEF NoneLost
<1>2. ~(cpc = "sweep" \/ outcome = "ok") \/ wpc = "done"
  BY DEF Sweeping, Drained
<1>3. ASSUME NEW p \in Path, Visit(p) PROVE NoneLost' /\ RecordsJustified' /\ Sweeping'
  <2>1. InItem = {} /\ InItem' = {p}
    BY <1>3 DEF Visit, InItem
  <2>2. InWork' = InWork /\ InHand' = InHand /\ InResults' = InResults
    BY <1>3 DEF Visit, InWork, InHand, InResults, PathsOf
  <2>3. Coming' = Coming \cup {p} /\ seen' = seen \cup {p}
    BY <1>3, <2>1, <2>2 DEF Visit, Coming
  <2>4. UNCHANGED <<disk, old, db, cpc, change, errs>>
    BY <1>3 DEF Visit
  <2>5. NoneLost' /\ RecordsJustified'
    BY <1>1, <2>3, <2>4, MoveStep
  <2>. QED
    BY <1>2, <1>3, <2>5 DEF Visit, Sweeping
<1>4. ASSUME NEW p \in Path, VisitFails(p) PROVE NoneLost' /\ RecordsJustified' /\ Sweeping'
  <2>1. Coming' = Coming
    BY <1>4 DEF VisitFails, Coming, InItem, InWork, InHand, InResults, PathsOf
  <2>2. UNCHANGED <<disk, old, db, cpc, change, seen>> /\ errs \subseteq errs'
    BY <1>4 DEF VisitFails
  <2>3. NoneLost' /\ RecordsJustified'
    BY <1>1, <2>1, <2>2, MoveStep
  <2>. QED
    BY <1>4, <2>3 DEF VisitFails, Sweeping, Drained, ResultsClosed
<1>5. CASE SendWork
  <2>1. Coming' = Coming
    BY <1>5, SendPlaces DEF Coming, IInv
  <2>2. UNCHANGED <<disk, old, db, cpc, change, seen, errs>>
    BY <1>5 DEF SendWork
  <2>3. NoneLost' /\ RecordsJustified'
    BY <1>1, <2>1, <2>2, MoveStep
  <2>. QED
    BY <1>2, <1>5, <2>3 DEF SendWork, Sweeping
<1>6. CASE StopWalk
  BY <1>6 DEF StopWalk, Quiet
<1>7. CASE FinishWalk
  <2>1. Coming' = Coming
    BY <1>7 DEF FinishWalk, Coming, InItem, InWork, InHand, InResults, PathsOf
  <2>2. UNCHANGED <<disk, old, db, cpc, change, seen, errs>>
    BY <1>7 DEF FinishWalk
  <2>3. NoneLost' /\ RecordsJustified'
    BY <1>1, <2>1, <2>2, MoveStep
  <2>. QED
    BY <1>2, <1>7, <2>3 DEF FinishWalk, Sweeping
<1>. QED
  BY <1>3, <1>4, <1>5, <1>6, <1>7 DEF Walker

LEMMA MirrorWorker ==
  ASSUME MirrorInv, NEW w \in Worker, WorkerStep(w)
  PROVE  NoneLost' /\ RecordsJustified' /\ Sweeping'
<1> USE DEF MirrorInv
<1>1. Coming \subseteq seen /\ ~ctxDone /\ TypeOK /\ Travelling
  BY DEF NoneLost, Quiet, IInv
<1>2. cpc = "sweep" \/ outcome = "ok" => work = <<>> /\ \A v \in Worker : wst[v] = "gone"
  BY DEF Sweeping, Drained, ResultsClosed
<1>3. UNCHANGED <<disk, old, db, cpc, change, seen, errs, wpc, outcome, sweep>>
  BY DEF WorkerStep, Take, Reply, Exit
<1>4. CASE Take(w)
  <2>1. Coming' = Coming
    BY <1>1, <1>4, TakePlaces DEF Coming
  <2>2. NoneLost' /\ RecordsJustified'
    BY <1>1, <1>3, <2>1, MoveStep
  <2>3. /\ work # <<>> /\ \A v \in Worker : wst'[v] = "gone" => wst[v] = "gone"
    BY <1>1, <1>4, TakePlaces
  <2>4. ~(cpc' = "sweep" \/ outcome' = "ok")
    BY <1>2, <1>3, <2>3
  <2>. QED
    BY <2>2, <2>3, <2>4 DEF Sweeping
<1>5. CASE Reply(w)
  <2>1. Coming' = Coming
    BY <1>1, <1>5, ReplyPlaces DEF Coming
  <2>2. NoneLost' /\ RecordsJustified'
    BY <1>1, <1>3, <2>1, MoveStep
  <2>3. /\ wst[w] = "busy" /\ \A v \in Worker : wst'[v] = "gone" => wst[v] = "gone"
        /\ work' = work
    BY <1>1, <1>5, ReplyPlaces DEF Reply
  <2>4. ~(cpc' = "sweep" \/ outcome' = "ok")
    BY <1>2, <1>3, <2>3
  <2>. QED
    BY <1>3, <2>2, <2>3, <2>4 DEF Sweeping
<1>6. CASE Exit(w)
  <2>1. /\ wst[w] = "idle" /\ work = <<>> /\ wpc = "done"
        /\ wst' = [wst EXCEPT ![w] = "gone"] /\ UNCHANGED <<held, work, results>>
        /\ wst \in [Worker -> {"idle", "busy", "gone"}]
    BY <1>1, <1>6 DEF Exit, TypeOK
  <2>2. InHand' = InHand
    BY <2>1 DEF InHand
  <2>3. Coming' = Coming
    BY <1>3, <2>1, <2>2, <1>6 DEF Exit, Coming, InItem, InWork, InResults, PathsOf
  <2>4. NoneLost' /\ RecordsJustified'
    BY <1>1, <1>3, <2>3, MoveStep
  <2>. QED
    BY <1>2, <1>3, <2>1, <2>4 DEF Sweeping
<1>. QED
  BY <1>4, <1>5, <1>6 DEF WorkerStep

\* The record the collector is about to write, and the one it takes it over from.
LEMMA ChangeIsAllowed ==
  ASSUME TypeOK, Travelling, Received.path \in seen,
         CollectKnown \/ CollectMoved \/ CollectAdded
  PROVE  /\ change'.path = Received.path /\ <<Received.path, change'.rec>> \in Allowed
         /\ cpc' \in {"delete", "upsert"}
         /\ cpc' = "delete" => change'.from # Received.path /\ change'.from \notin seen
<1> DEFINE p == Received.path
<1>1. /\ Receive /\ Received.hash # NoHash /\ Received.hash \in Hash
      /\ p \in Path /\ p \in seen
      /\ disk[p] \in File /\ disk[p] # Absent /\ disk[p].sig \in Sig
      /\ Received.hash = IF Unchanged(p) THEN old[p].hash ELSE disk[p].hash
  <2>1. Receive /\ Received.hash # NoHash
    BY DEF CollectKnown, CollectMoved, CollectAdded
  <2>. QED
    BY <2>1, ReceivedIsGood, NamesAssumption DEF Result, File
<1>2. \A q \in Path : old[q] # Absent => old[q] \in Record
  BY DEF TypeOK
<1> HIDE DEF p
<1>3. CASE CollectKnown
  <2> DEFINE r == [sig |-> disk[p].sig, hash |-> Received.hash, hist |-> old[p].hist]
  <2>1. /\ old[p] # Absent /\ old[p] \in Record
        /\ change' = [path |-> p, from |-> Absent, rec |-> r] /\ cpc' = "upsert"
    BY <1>1, <1>2, <1>3 DEF CollectKnown, p
  <2>2. r \in Record
    BY <1>1, <2>1 DEF Record
  <2>3. Justified(p, r)
    BY <1>1, <2>1 DEF Justified, Kept, Unchanged
  <2>4. <<p, r>> \in Allowed
    BY <1>1, <2>2, <2>3 DEF Allowed
  <2> HIDE DEF r
  <2>. QED
    BY <2>1, <2>4 DEF p
<1>4. CASE CollectMoved
  <2>1. PICK q \in MovedFrom(p) :
          change' = [path |-> p, from |-> q,
                     rec |-> [sig |-> disk[p].sig, hash |-> old[q].hash,
                              hist |-> old[q].hist]]
    BY <1>4 DEF CollectMoved, p
  <2> DEFINE r == [sig |-> disk[p].sig, hash |-> old[q].hash, hist |-> old[q].hist]
  <2>2. /\ q \in Path /\ q # p /\ q \notin seen /\ old[q] # Absent /\ old[q] \in Record
        /\ old[q].sig = disk[p].sig /\ old[p] = Absent
    BY <1>2, <1>4 DEF MovedFrom, CollectMoved, p
  <2>3. r \in Record
    BY <1>1, <2>2 DEF Record
  <2>4. Justified(p, r)
    BY <1>1, <2>2 DEF Justified, Moved, Twins, TakenFrom
  <2>5. <<p, r>> \in Allowed
    BY <1>1, <2>3, <2>4 DEF Allowed
  <2>6. cpc' = "delete"
    BY <1>4 DEF CollectMoved
  <2>. QED
    BY <2>1, <2>2, <2>5, <2>6 DEF p
<1>5. CASE CollectAdded
  <2> DEFINE r == [sig |-> disk[p].sig, hash |-> Received.hash, hist |-> Fresh]
  <2>1. /\ old[p] = Absent /\ MovedFrom(p) = {}
        /\ change' = [path |-> p, from |-> Absent, rec |-> r] /\ cpc' = "upsert"
    BY <1>5 DEF CollectAdded, p
  <2>2. r \in Record
    BY <1>1 DEF Record
  <2>3. Justified(p, r)
    <3>1. r = [sig |-> disk[p].sig, hash |-> disk[p].hash, hist |-> Fresh]
      BY <1>1, <2>1 DEF Unchanged
    <3>2. Twins(p) \subseteq seen
      BY <2>1 DEF MovedFrom, Twins
    <3>. QED
      BY <2>1, <3>1, <3>2 DEF Justified, Added
  <2>4. <<p, r>> \in Allowed
    BY <1>1, <2>2, <2>3 DEF Allowed
  <2> HIDE DEF r
  <2>. QED
    BY <2>1, <2>4 DEF p
<1>. QED
  BY <1>3, <1>4, <1>5

LEMMA MirrorCollect ==
  ASSUME MirrorInv, CollectError \/ CollectKnown \/ CollectMoved \/ CollectAdded
  PROVE  NoneLost' /\ RecordsJustified' /\ Sweeping'
<1> USE DEF MirrorInv
<1> DEFINE p == Received.path
<1>1. TypeOK /\ Travelling
  BY DEF IInv
<1>2. /\ Receive /\ UNCHANGED <<upVars, db, outcome, sweep>> /\ cpc = "collect"
      /\ cpc' \in {"collect", "delete", "upsert"}
  BY DEF CollectError, CollectKnown, CollectMoved, CollectAdded, Receive
<1>3. InResults = InResults' \cup {p} /\ p \in Path
  BY <1>1, <1>2, ReceivePlaces, ReceivedIsGood
<1>4. InItem' = InItem /\ InWork' = InWork /\ InHand' = InHand
  BY <1>2 DEF InItem, InWork, InHand, PathsOf
<1>5. Coming = Coming' \cup {p} /\ p \in seen /\ Coming' \subseteq seen' /\ seen' = seen
  BY <1>2, <1>3, <1>4 DEF Coming, NoneLost
<1>6. Allowed \subseteq Allowed'
  BY <1>2, AllowedKept
<1>7. InFlight = Coming /\ cpc # "sweep" /\ outcome # "ok"
  BY <1>2 DEF InFlight, InChange, Sweeping
<1> HIDE DEF p
<1>8. \A q \in Path : db[q] \in {old[q], Absent} \/ <<q, db[q]>> \in Allowed'
  BY <1>6 DEF RecordsJustified
<1>9. CASE CollectError
  <2>1. UNCHANGED cpc /\ errs' = errs \cup {p}
    BY <1>9 DEF CollectError, p
  <2>2. ASSUME NEW q \in seen' PROVE q \in InFlight' \/ Settled(q)'
    <3>1. CASE q = p
      BY <1>2, <1>3, <1>6, <1>8, <2>1, <3>1 DEF Settled
    <3>2. CASE q # p /\ q \in Coming
      BY <1>5, <3>2 DEF InFlight
    <3>3. CASE q \notin Coming
      BY <1>2, <1>5, <1>6, <1>7, <2>1, <3>3 DEF NoneLost, Settled
    <3>. QED
      BY <3>1, <3>2, <3>3
  <2>3. NoneLost'
    BY <1>5, <2>2 DEF NoneLost
  <2>4. RecordsJustified'
    BY <1>2, <1>8, <2>1 DEF RecordsJustified
  <2>. QED
    BY <1>2, <1>7, <2>1, <2>3, <2>4 DEF Sweeping
<1>10. CASE CollectKnown \/ CollectMoved \/ CollectAdded
  <2>1. /\ change'.path = p /\ <<p, change'.rec>> \in Allowed'
        /\ cpc' \in {"delete", "upsert"}
        /\ cpc' = "delete" => change'.from # p /\ change'.from \notin seen
    BY <1>1, <1>5, <1>6, <1>10, ChangeIsAllowed DEF p
  <2>2. InFlight' = Coming
    BY <1>5, <2>1 DEF InFlight, InChange
  <2>3. errs' = errs
    BY <1>10 DEF CollectKnown, CollectMoved, CollectAdded
  <2>4. NoneLost'
    BY <1>2, <1>5, <1>6, <1>7, <2>2, <2>3 DEF NoneLost, Settled
  <2>5. RecordsJustified'
    BY <1>2, <1>5, <1>8, <2>1 DEF RecordsJustified
  <2>. QED
    BY <1>2, <1>7, <2>1, <2>4, <2>5 DEF Sweeping
<1>. QED
  BY <1>9, <1>10

\* The old record of a moved file is deleted: its own file, if it has been seen
\* by now, is still on its way.
LEMMA MirrorDelete ==
  ASSUME MirrorInv, "db" \notin faults, DeleteMovedFrom
  PROVE  NoneLost' /\ RecordsJustified' /\ Sweeping'
<1> USE DEF MirrorInv
<1>1. /\ cpc = "delete" /\ cpc' = "upsert" /\ UNCHANGED <<upVars, results, change, errs>>
      /\ db' = [db EXCEPT ![change.from] = Absent] /\ UNCHANGED <<outcome, sweep>>
  BY DEF DeleteMovedFrom, Applied, Quiet
<1>2. db \in [Path -> Record \cup {Absent}]
  BY DEF IInv, TypeOK
<1>3. Allowed \subseteq Allowed' /\ Coming' = Coming /\ InFlight' = InFlight
  BY <1>1, AllowedKept
  DEF Coming, InFlight, InItem, InWork, InHand, InResults, InChange, PathsOf
<1>4. \A p \in Path : db'[p] = db[p] \/ (db'[p] = Absent /\ p = change.from)
  BY <1>1, <1>2
<1>5. change.from \in seen => change.from \in InFlight
  BY <1>1 DEF RecordsJustified, InFlight
<1>6. NoneLost'
  <2>1. ASSUME NEW p \in seen PROVE p \in InFlight' \/ Settled(p)'
    <3>1. CASE p \in InFlight
      BY <1>3, <3>1
    <3>2. CASE p \notin InFlight
      <4>1. p # change.from /\ p \in Path
        BY <1>5, <3>2 DEF IInv, TypeOK
      <4>. QED
        BY <1>1, <1>3, <1>4, <3>2, <4>1 DEF NoneLost, Settled
    <3>. QED
      BY <3>1, <3>2
  <2>. QED
    BY <1>1, <1>3, <2>1 DEF NoneLost
<1>7. RecordsJustified'
  BY <1>1, <1>3, <1>4 DEF RecordsJustified
<1>. QED
  BY <1>1, <1>6, <1>7 DEF Sweeping

LEMMA MirrorUpsert ==
  ASSUME MirrorInv, "db" \notin faults, UpsertFile
  PROVE  NoneLost' /\ RecordsJustified' /\ Sweeping'
<1> USE DEF MirrorInv
<1>1. /\ cpc = "upsert" /\ cpc' = "collect" /\ UNCHANGED <<upVars, results, errs>>
      /\ db' = [db EXCEPT ![change.path] = change.rec] /\ UNCHANGED <<outcome, sweep>>
  BY DEF UpsertFile, Applied, Quiet
<1>2. db \in [Path -> Record \cup {Absent}]
  BY DEF IInv, TypeOK
<1>3. Allowed \subseteq Allowed' /\ Coming' = Coming /\ InFlight' = Coming
      /\ InFlight = Coming \cup {change.path}
  BY <1>1, AllowedKept
  DEF Coming, InFlight, InItem, InWork, InHand, InResults, InChange, PathsOf
<1>4. <<change.path, change.rec>> \in Allowed /\ change.path \in Path
  BY <1>1 DEF RecordsJustified, Allowed, IInv, TypeOK
<1>5. \A p \in Path : IF p = change.path THEN db'[p] = change.rec ELSE db'[p] = db[p]
  BY <1>1, <1>2
<1>6. NoneLost'
  <2>1. ASSUME NEW p \in seen PROVE p \in InFlight' \/ Settled(p)'
    <3>1. CASE p \in Coming
      BY <1>3, <3>1
    <3>2. CASE p = change.path
      <4>1. <<p, db'[p]>> \in Allowed'
        BY <1>3, <1>4, <1>5, <3>2
      <4>. QED
        BY <4>1 DEF Settled
    <3>3. CASE p \notin Coming /\ p # change.path
      <4>1. Settled(p) /\ p \in Path
        BY <1>3, <3>3 DEF NoneLost, IInv, TypeOK
      <4>. QED
        BY <1>1, <1>3, <1>5, <3>3, <4>1 DEF Settled
    <3>. QED
      BY <3>1, <3>2, <3>3
  <2>. QED
    BY <1>1, <1>3, <2>1 DEF NoneLost
<1>7. RecordsJustified'
  <2>1. ASSUME NEW p \in Path
        PROVE  db'[p] \in {old'[p], Absent} \/ <<p, db'[p]>> \in Allowed'
    <3>1. CASE p = change.path
      BY <1>3, <1>4, <1>5, <3>1
    <3>2. CASE p # change.path
      BY <1>1, <1>3, <1>5, <3>2 DEF RecordsJustified
    <3>. QED
      BY <3>1, <3>2
  <2>. QED
    BY <1>1, <2>1 DEF RecordsJustified
<1>. QED
  BY <1>1, <1>6, <1>7 DEF Sweeping

\* The sweep goes over what is left once nothing is on its way any more.
LEMMA MirrorAwait ==
  ASSUME MirrorInv, AwaitWalker
  PROVE  NoneLost' /\ RecordsJustified' /\ Sweeping'
<1> USE DEF MirrorInv
<1>1. /\ cpc = "collect" /\ results = <<>> /\ ResultsClosed /\ wpc = "done"
      /\ UNCHANGED <<upVars, results, change, db, stats, errs, outcome>>
      /\ sweep' = Leftover /\ cpc' = "sweep"
  BY DEF AwaitWalker, Quiet
<1>2. Coming' = Coming
  BY <1>1 DEF Coming, InItem, InWork, InHand, InResults, PathsOf
<1>3. NoneLost' /\ RecordsJustified'
  BY <1>1, <1>2, MoveStep DEF NoneLost
<1>4. work = <<>>
  BY <1>1, SizesAssumption DEF Sweeping, ResultsClosed
<1>5. Drained'
  BY <1>1, <1>4 DEF Drained, ResultsClosed
<1>6. \A p \in Path \ seen : db[p] # Absent => p \in Leftover
  BY DEF RecordsJustified, Leftover, Allowed
<1>. QED
  BY <1>1, <1>3, <1>5, <1>6 DEF Sweeping, Leftover

LEMMA MirrorSweep ==
  ASSUME MirrorInv, "db" \notin faults, NEW p \in Path, SweepRecord(p)
  PROVE  NoneLost' /\ RecordsJustified' /\ Sweeping'
<1> USE DEF MirrorInv
<1>1. /\ cpc = "sweep" /\ p \in sweep /\ sweep' = sweep \ {p}
      /\ db' = [db EXCEPT ![p] = Absent]
      /\ UNCHANGED <<upVars, results, cpc, change, outcome, errs>>
  BY DEF SweepRecord, Applied, Quiet
<1>2. p \notin seen /\ outcome # "ok"
  BY <1>1 DEF Sweeping
<1>3. \A q \in Path : IF q = p THEN db'[q] = Absent ELSE db'[q] = db[q]
  BY <1>1 DEF IInv, TypeOK
<1>4. Allowed \subseteq Allowed' /\ Coming' = Coming /\ InFlight' = InFlight
  BY <1>1, AllowedKept
  DEF Coming, InFlight, InItem, InWork, InHand, InResults, InChange, PathsOf
<1>5. NoneLost'
  <2>1. ASSUME NEW q \in seen PROVE q \in InFlight' \/ Settled(q)'
    <3>1. q # p /\ q \in Path
      BY <1>2 DEF IInv, TypeOK
    <3>. QED
      BY <1>1, <1>3, <1>4, <3>1 DEF NoneLost, Settled
  <2>. QED
    BY <1>1, <1>4, <2>1 DEF NoneLost
<1>6. RecordsJustified'
  BY <1>1, <1>3, <1>4 DEF RecordsJustified
<1>7. Sweeping'
  <2>1. Drained'
    BY <1>1 DEF Sweeping, Drained, ResultsClosed
  <2>. QED
    BY <1>1, <1>2, <1>3, <2>1 DEF Sweeping
<1>. QED
  BY <1>5, <1>6, <1>7

LEMMA MirrorInvStep ==
  ASSUME Undisturbed, MirrorInv, [Next]_vars
  PROVE  MirrorInv'
<1>0. "cancel" \notin faults /\ "db" \notin faults
  BY DEF Undisturbed
<1>1. IInv' /\ Quiet'
  BY <1>0, IInvStep, QuietStep DEF MirrorInv
<1>2. SUFFICES NoneLost' /\ RecordsJustified' /\ Sweeping'
  BY <1>1 DEF MirrorInv
<1>3. CASE UNCHANGED vars
  <2>1. Coming' = Coming
    BY <1>3 DEF vars, Coming, InItem, InWork, InHand, InResults, PathsOf
  <2>2. NoneLost' /\ RecordsJustified'
    BY <1>3, <2>1, MoveStep DEF vars, MirrorInv, NoneLost
  <2>3. Sweeping'
    BY <1>3 DEF vars, MirrorInv, Sweeping, Drained, ResultsClosed
  <2>. QED
    BY <2>2, <2>3
<1>4. CASE Walker
  BY <1>4, MirrorWalker
<1>5. ASSUME NEW w \in Worker, WorkerStep(w) PROVE NoneLost' /\ RecordsJustified' /\ Sweeping'
  BY <1>5, MirrorWorker
<1>6. CASE Load \/ FinishSync \/ CloseProgress
  <2>0. UNCHANGED <<disk, old, db, seen, errs, wpc, item, work, wst, held, results>>
    BY <1>6 DEF Load, FinishSync, CloseProgress
  <2>1. Coming' = Coming
    BY <2>0 DEF Coming, InItem, InWork, InHand, InResults, PathsOf
  <2>2. /\ UNCHANGED <<disk, old, db, seen, errs, wpc, work, wst, results>>
        /\ \/ UNCHANGED <<cpc, change>>
           \/ cpc \notin {"delete", "upsert"} /\ cpc' \notin {"delete", "upsert"}
    BY <1>6 DEF Load, FinishSync, CloseProgress, Return
  <2>3. NoneLost' /\ RecordsJustified'
    BY <2>1, <2>2, MoveStep DEF MirrorInv, NoneLost
  <2>4. Sweeping'
    BY <1>6, <2>2 DEF MirrorInv, Sweeping, Drained, ResultsClosed, Load, FinishSync,
       CloseProgress, Return
  <2>. QED
    BY <2>3, <2>4
<1>7. CASE CollectCancelled \/ Cancel
  BY <1>0, <1>7 DEF CollectCancelled, Cancel, MirrorInv, Quiet
<1>8. CASE CollectError \/ CollectKnown \/ CollectMoved \/ CollectAdded
  BY <1>8, MirrorCollect
<1>9. CASE DeleteMovedFrom \/ UpsertFile
  BY <1>0, <1>9, MirrorDelete, MirrorUpsert
<1>10. CASE AwaitWalker
  BY <1>10, MirrorAwait
<1>11. ASSUME NEW p \in Path, SweepRecord(p)
       PROVE  NoneLost' /\ RecordsJustified' /\ Sweeping'
  BY <1>0, <1>11, MirrorSweep
<1>12. CASE Done
  BY <1>3, <1>12 DEF Done
<1>. QED
  BY <1>3, <1>4, <1>5, <1>6, <1>7, <1>8, <1>9, <1>10, <1>11, <1>12 DEF Next, Collector

LEMMA MirrorInvInit == Init => MirrorInv
<1> SUFFICES ASSUME Init PROVE MirrorInv
  OBVIOUS
<1>1. Coming = {}
  BY DEF Init, Coming, InItem, InWork, InHand, InResults, PathsOf
<1>2. Quiet
  BY DEF Init, Quiet
<1>. QED
  BY <1>1, <1>2, IInvInit DEF Init, MirrorInv, NoneLost, RecordsJustified, Sweeping

\* When SyncDirectory has returned normally, nothing is on its way.
LEMMA NothingComing ==
  ASSUME MirrorInv, outcome = "ok"
  PROVE  /\ Coming = {} /\ InFlight = {} /\ sweep = {}
         /\ \A p \in seen : Settled(p)
         /\ \A p \in Path \ seen : db[p] = Absent
<1>1. /\ Drained /\ cpc = "returned" /\ sweep = {}
      /\ \A p \in Path \ seen : db[p] # Absent => p \in sweep
  BY DEF MirrorInv, Sweeping
<1>2. Coming = {} /\ InFlight = {}
  BY <1>1 DEF Drained, ResultsClosed, Coming, InFlight, InItem, InWork, InHand, InResults,
     InChange, PathsOf
<1>. QED
  BY <1>1, <1>2 DEF MirrorInv, NoneLost

\* What may go wrong is settled before the sync begins.
LEMMA FaultsStay == [Next]_vars => faults' = faults
<1> SUFFICES ASSUME [Next]_vars PROVE faults' = faults
  OBVIOUS
<1>1. CASE Walker
  BY <1>1 DEF Walker, Visit, VisitFails, SendWork, StopWalk, FinishWalk
<1>2. ASSUME NEW w \in Worker, WorkerStep(w) PROVE faults' = faults
  BY <1>2 DEF WorkerStep, Take, Reply, Exit
<1>3. CASE Collector
  BY <1>3 DEF Collector, Load, CollectCancelled, CollectError, CollectKnown, CollectMoved,
     CollectAdded, DeleteMovedFrom, UpsertFile, AwaitWalker, FinishSync, SweepRecord
<1>4. CASE Cancel \/ CloseProgress \/ Done \/ UNCHANGED vars
  BY <1>4 DEF Cancel, CloseProgress, Done, vars
<1>. QED
  BY <1>1, <1>2, <1>3, <1>4 DEF Next

\* A sync of any size that is not cancelled and whose statements take effect leaves
\* exactly the records of the files it saw: each is the old one with its history, or
\* taken over from a record of the same size and mtime, or new, whatever cannot be
\* walked or read and however the goroutines interleave.  (Whose file the record it
\* took over was is the matter of SyncMovesAreReal.)
THEOREM SyncMirrors == Spec => []SyncMirrorsDisk
<1> DEFINE I == Undisturbed => MirrorInv
<1>0. Init => I
  BY MirrorInvInit
<1>1. I /\ [Next]_vars => I'
  BY MirrorInvStep, FaultsStay DEF Undisturbed
<1>2. I => SyncMirrorsDisk
  <2> SUFFICES ASSUME MirrorInv, Undisturbed, outcome = "ok", NEW p \in Path
               PROVE  IF p \in seen
                      THEN \/ db[p] # Absent /\ Justified(p, db[p])
                           \/ p \in errs /\ db[p] \in {old[p], Absent}
                      ELSE db[p] = Absent
    BY DEF SyncMirrorsDisk
  <2>1. \A q, r : <<q, r>> \in Allowed => r # Absent /\ Justified(q, r)
    BY NamesAssumption DEF Allowed
  <2>. QED
    BY <2>1, NothingComing DEF Settled
<1>. QED
  BY <1>0, <1>1, <1>2, PTL DEF Spec

LEMMA FinitePaths ==
  ASSUME TypeOK
  PROVE  /\ IsFiniteSet(NewFiles) /\ IsFiniteSet(seen)
         /\ IsFiniteSet(sweep) /\ IsFiniteSet(Leftover)
<1>1. NewFiles \subseteq Path /\ seen \subseteq Path /\ sweep \subseteq Path /\ Leftover \subseteq Path
  BY DEF TypeOK, NewFiles, Leftover
<1>. QED
  BY <1>1, SizesAssumption, FS_Subset

\* A step that collects nothing and removes nothing leaves the counters right.
LEMMA CountSame ==
  ASSUME Counting, UNCHANGED <<old, stats, sweep>>, NewFiles' = NewFiles,
         todo' \cap seen' = {}, seen \subseteq seen', errs \subseteq errs',
         cpc' \notin {"sweep", "returned"} => cpc \notin {"sweep", "returned"},
         cpc' = "sweep" \/ outcome' = "ok" => (cpc = "sweep" \/ outcome = "ok") /\ seen' = seen
  PROVE  Counting'
<1>1. errs' \cap seen' = {} => errs \cap seen = {}
  OBVIOUS
<1>2. cpc' = "sweep" \/ outcome' = "ok" => Leftover' = Leftover
  BY DEF Leftover
<1>. QED
  BY <1>1, <1>2 DEF Counting

LEMMA BalanceWalker ==
  ASSUME BalanceInv, Walker
  PROVE  Distinct' /\ Counting'
<1> USE DEF BalanceInv, MirrorInv
<1>1. Coming \subseteq seen /\ todo \cap seen = {} /\ TypeOK /\ Travelling
  BY DEF NoneLost, Counting, IInv
<1>2. ~(cpc = "sweep" \/ outcome = "ok") \/ wpc = "done"
  BY DEF Sweeping, Drained
<1>3. ASSUME NEW p \in Path, Visit(p) PROVE Distinct' /\ Counting'
  <2>1. InItem = {} /\ InItem' = {p}
    BY <1>3 DEF Visit, InItem
  <2>2. InWork' = InWork /\ InHand' = InHand /\ InResults' = InResults
    BY <1>3 DEF Visit, InWork, InHand, InResults, PathsOf
  <2>3. Coming' = Coming \cup {p} /\ seen' = seen \cup {p} /\ p \notin seen
    BY <1>1, <1>3, <2>1, <2>2 DEF Visit, Coming
  <2>4. UNCHANGED <<old, stats, sweep, cpc, outcome, errs>> /\ todo' = todo \ {p}
    BY <1>3 DEF Visit
  <2>5. NewFiles' = NewFiles
    BY <1>1, <2>3, <2>4 DEF NewFiles
  <2>6. Counting'
    BY <1>1, <1>2, <1>3, <2>3, <2>4, <2>5, CountSame DEF Visit
  <2>7. p \notin InWork /\ p \notin InHand /\ p \notin InResults
    BY <1>1, <2>3 DEF Coming
  <2>8. Distinct'
    BY <1>3, <2>1, <2>2, <2>7 DEF Visit, Distinct, Once
  <2>. QED
    BY <2>6, <2>8
<1>4. ASSUME NEW p \in Path, VisitFails(p) PROVE Distinct' /\ Counting'
  <2>1. InItem' = InItem /\ InWork' = InWork /\ InHand' = InHand /\ InResults' = InResults
    BY <1>4 DEF VisitFails, InItem, InWork, InHand, InResults, PathsOf
  <2>2. /\ UNCHANGED <<old, stats, sweep, cpc, outcome, seen>>
        /\ todo' \subseteq todo /\ errs \subseteq errs'
    BY <1>4 DEF VisitFails
  <2>3. NewFiles' = NewFiles
    BY <2>1, <2>2 DEF NewFiles, Coming
  <2>4. Counting'
    BY <1>1, <2>2, <2>3, CountSame
  <2>5. Distinct'
    BY <1>4, <2>1 DEF VisitFails, Distinct, Once
  <2>. QED
    BY <2>4, <2>5
<1>5. CASE SendWork
  <2>1. /\ InItem = {item.path} /\ InItem' = {} /\ InWork' = InWork \cup {item.path}
        /\ InHand' = InHand /\ InResults' = InResults
        /\ Once(work) /\ item.path \notin InWork => Once(work')
    BY <1>1, <1>5, SendPlaces
  <2>2. UNCHANGED <<old, stats, sweep, cpc, outcome, seen, todo, errs, results, wst, held>>
    BY <1>5 DEF SendWork
  <2>3. NewFiles' = NewFiles
    BY <2>1, <2>2 DEF NewFiles, Coming
  <2>4. Counting'
    BY <1>1, <2>2, <2>3, CountSame
  <2>5. Once(work')
    BY <2>1 DEF Distinct
  <2>6. Distinct'
    BY <2>1, <2>2, <2>5 DEF Distinct, Once
  <2>. QED
    BY <2>4, <2>6
<1>6. CASE StopWalk
  BY <1>6 DEF StopWalk, Quiet
<1>7. CASE FinishWalk
  <2>1. InItem' = InItem /\ InWork' = InWork /\ InHand' = InHand /\ InResults' = InResults
    BY <1>7 DEF FinishWalk, InItem, InWork, InHand, InResults, PathsOf
  <2>2. UNCHANGED <<old, stats, sweep, cpc, outcome, seen, todo, errs>>
    BY <1>7 DEF FinishWalk
  <2>3. NewFiles' = NewFiles
    BY <2>1, <2>2 DEF NewFiles, Coming
  <2>4. Counting'
    BY <1>1, <2>2, <2>3, CountSame
  <2>5. Distinct'
    BY <1>7, <2>1 DEF FinishWalk, Distinct, Once
  <2>. QED
    BY <2>4, <2>5
<1>. QED
  BY <1>3, <1>4, <1>5, <1>6, <1>7 DEF Walker

LEMMA BalanceWorker ==
  ASSUME BalanceInv, NEW w \in Worker, WorkerStep(w)
  PROVE  Distinct' /\ Counting'
<1> USE DEF BalanceInv, MirrorInv
<1>1. ~ctxDone /\ todo \cap seen = {} /\ TypeOK /\ Travelling
  BY DEF Quiet, Counting, IInv
<1>2. UNCHANGED <<old, stats, sweep, cpc, outcome, seen, todo, errs>>
  BY DEF WorkerStep, Take, Reply, Exit
<1>3. Coming' = Coming => Counting'
  <2> SUFFICES ASSUME Coming' = Coming PROVE Counting'
    OBVIOUS
  <2>1. NewFiles' = NewFiles
    BY <1>2 DEF NewFiles
  <2>. QED
    BY <1>1, <1>2, <2>1, CountSame
<1>4. CASE Take(w)
  <2>1. /\ InWork = InWork' \cup {Head(work).path}
        /\ InHand' = InHand \cup {Head(work).path}
        /\ InItem' = InItem /\ InResults' = InResults
        /\ Once(work) => Once(work') /\ Head(work).path \notin InWork'
        /\ \A v \in Worker : wst'[v] = "busy" =>
              IF v = w THEN held'[v] = Head(work)
                       ELSE wst[v] = "busy" /\ held'[v] = held[v]
    BY <1>1, <1>4, TakePlaces
  <2>2. /\ Once(work') /\ Head(work).path \notin InWork' /\ Head(work).path \notin InHand
        /\ Head(work).path \notin InItem /\ Head(work).path \notin InResults
    BY <2>1 DEF Distinct
  <2>3. \A v \in Worker : wst[v] = "busy" => held[v].path # Head(work).path
    BY <2>2 DEF InHand
  <2>4. \A u, v \in Worker :
          wst'[u] = "busy" /\ wst'[v] = "busy" /\ held'[u].path = held'[v].path => u = v
    BY <2>1, <2>3 DEF Distinct
  <2>5. results' = results
    BY <1>4 DEF Take
  <2>6. Distinct'
    BY <2>1, <2>2, <2>4, <2>5 DEF Distinct, Once
  <2>. QED
    BY <1>3, <2>1, <2>6 DEF Coming
<1>5. CASE Reply(w)
  <2>1. /\ wst[w] = "busy" /\ held[w].path \in InHand
        /\ InHand = InHand' \cup {held[w].path}
        /\ InResults' = InResults \cup {held[w].path}
        /\ InItem' = InItem /\ InWork' = InWork
        /\ Once(results) /\ held[w].path \notin InResults => Once(results')
        /\ \A v \in Worker : /\ wst'[v] = "busy" <=> wst[v] = "busy" /\ v # w
                             /\ wst'[v] = "busy" => held'[v] = held[v]
    BY <1>1, <1>5, ReplyPlaces
  <2>2. held[w].path \notin InHand'
    BY <2>1 DEF Distinct, InHand
  <2>3. Once(results')
    BY <2>1 DEF Distinct
  <2>4. \A u, v \in Worker :
          wst'[u] = "busy" /\ wst'[v] = "busy" /\ held'[u].path = held'[v].path => u = v
    BY <2>1 DEF Distinct
  <2>5. work' = work
    BY <1>5 DEF Reply
  <2>6. Distinct'
    BY <2>1, <2>2, <2>3, <2>4, <2>5 DEF Distinct, Once
  <2>. QED
    BY <1>3, <2>1, <2>6 DEF Coming
<1>6. CASE Exit(w)
  <2>1. /\ wst[w] = "idle" /\ wst' = [wst EXCEPT ![w] = "gone"]
        /\ wst \in [Worker -> {"idle", "busy", "gone"}]
        /\ UNCHANGED <<held, work, results, wpc, item>>
    BY <1>1, <1>6 DEF Exit, TypeOK
  <2>2. \A v \in Worker : wst'[v] = "busy" <=> wst[v] = "busy"
    BY <2>1
  <2>3. InHand' = InHand
    BY <2>1, <2>2 DEF InHand
  <2>4. InItem' = InItem /\ InWork' = InWork /\ InResults' = InResults
    BY <2>1 DEF InItem, InWork, InResults, PathsOf
  <2>5. Distinct'
    BY <2>1, <2>2, <2>3, <2>4 DEF Distinct, Once
  <2>. QED
    BY <1>3, <2>3, <2>4, <2>5 DEF Coming
<1>. QED
  BY <1>4, <1>5, <1>6 DEF WorkerStep

\* What the collector does to the counters with a result it records.
LEMMA CountedOnce ==
  ASSUME TypeOK, CollectKnown \/ CollectMoved \/ CollectAdded
  PROVE  /\ stats'.removed = stats.removed
         /\ stats.added + stats.moved \in Nat
         /\ stats'.added + stats'.moved =
              IF old[Received.path] = Absent THEN stats.added + stats.moved + 1
                                             ELSE stats.added + stats.moved
<1>1. /\ stats \in [added : Nat, modified : Nat, moved : Nat, removed : Nat]
      /\ stats.added \in Nat /\ stats.moved \in Nat
  BY DEF TypeOK
<1>2. CASE CollectKnown
  <2>1. /\ old[Received.path] # Absent
        /\ stats' = stats \/ stats' = [stats EXCEPT !.modified = stats.modified + 1]
    BY <1>2 DEF CollectKnown
  <2>. QED
    BY <1>1, <2>1
<1>3. CASE CollectMoved
  <2>1. /\ old[Received.path] = Absent
        /\ stats' = [stats EXCEPT !.moved = stats.moved + 1]
    BY <1>3 DEF CollectMoved
  <2>. QED
    BY <1>1, <2>1
<1>4. CASE CollectAdded
  <2>1. /\ old[Received.path] = Absent
        /\ stats' = [stats EXCEPT !.added = stats.added + 1]
    BY <1>4 DEF CollectAdded
  <2>. QED
    BY <1>1, <2>1
<1>. QED
  BY <1>2, <1>3, <1>4

LEMMA BalanceCollect ==
  ASSUME BalanceInv, CollectError \/ CollectKnown \/ CollectMoved \/ CollectAdded
  PROVE  Distinct' /\ Counting'
<1> USE DEF BalanceInv, MirrorInv
<1> DEFINE p == Received.path
<1>1. TypeOK /\ Travelling
  BY DEF IInv
<1>2. /\ Receive /\ UNCHANGED <<upVars, db, outcome, sweep>> /\ cpc = "collect"
      /\ cpc' \in {"collect", "delete", "upsert"}
  BY DEF CollectError, CollectKnown, CollectMoved, CollectAdded, Receive
<1>3. /\ InResults = InResults' \cup {p} /\ p \in Path
      /\ Once(results) => Once(results') /\ p \notin InResults'
  BY <1>1, <1>2, ReceivePlaces, ReceivedIsGood
<1>4. InItem' = InItem /\ InWork' = InWork /\ InHand' = InHand
  BY <1>2 DEF InItem, InWork, InHand, PathsOf
<1>5. Once(results') /\ p \notin InResults' /\ p \notin InItem /\ p \notin InWork /\ p \notin InHand
  BY <1>3 DEF Distinct
<1>6. Distinct'
  BY <1>2, <1>3, <1>4, <1>5 DEF Distinct, Once
<1>7. /\ Coming = Coming' \cup {p} /\ p \notin Coming' /\ p \in Coming
      /\ p \in seen /\ seen' = seen
  BY <1>2, <1>3, <1>4, <1>5 DEF Coming, NoneLost
<1>8. outcome # "ok"
  BY <1>2 DEF Sweeping
<1> HIDE DEF p
<1>9. CASE CollectError
  <2>1. p \in errs' /\ stats' = stats /\ cpc' = cpc
    BY <1>9 DEF CollectError, p
  <2>. QED
    BY <1>2, <1>6, <1>7, <1>8, <2>1 DEF Counting
<1>10. CASE CollectKnown \/ CollectMoved \/ CollectAdded
  <2>1. /\ errs' = errs /\ stats'.removed = stats.removed
        /\ stats.added + stats.moved \in Nat
        /\ stats'.added + stats'.moved =
              IF old[p] = Absent THEN stats.added + stats.moved + 1
                                 ELSE stats.added + stats.moved
    BY <1>1, <1>10, CountedOnce DEF CollectKnown, CollectMoved, CollectAdded, p
  <2>2. NewFiles' = IF old[p] = Absent THEN NewFiles \cup {p} ELSE NewFiles
    BY <1>2, <1>7 DEF NewFiles
  <2>3. p \notin NewFiles /\ IsFiniteSet(NewFiles)
    BY <1>1, <1>7, FinitePaths DEF NewFiles
  <2>4. Cardinality(NewFiles \cup {p}) = Cardinality(NewFiles) + 1
    BY <2>3, FS_AddElement
  <2>5. errs' \cap seen' = {} => stats'.added + stats'.moved = Cardinality(NewFiles')
    BY <1>7, <2>1, <2>2, <2>4 DEF Counting
  <2>. QED
    BY <1>2, <1>6, <1>7, <1>8, <2>1, <2>5 DEF Counting
<1>. QED
  BY <1>9, <1>10

LEMMA BalanceSweep ==
  ASSUME BalanceInv, NEW p \in Path, SweepRecord(p)
  PROVE  Counting'
<1> USE DEF BalanceInv, MirrorInv
<1>1. /\ cpc = "sweep" /\ p \in sweep /\ sweep' = sweep \ {p}
      /\ UNCHANGED <<upVars, results, cpc, change, outcome, errs>>
      /\ stats' = [stats EXCEPT !.removed = stats.removed + 1]
  BY DEF SweepRecord
<1>2. TypeOK
  BY DEF IInv
<1>3. stats \in [added : Nat, modified : Nat, moved : Nat, removed : Nat]
  BY <1>2 DEF TypeOK
<1>4. /\ stats'.added = stats.added /\ stats'.moved = stats.moved
      /\ stats'.removed = stats.removed + 1 /\ stats.removed \in Nat
  BY <1>1, <1>3
<1>5. /\ Cardinality(sweep \ {p}) = Cardinality(sweep) - 1
      /\ Cardinality(sweep) \in Nat /\ Cardinality(Leftover) \in Nat
  BY <1>1, <1>2, FinitePaths, FS_RemoveElement, FS_CardinalityType
<1>6. Leftover' = Leftover /\ NewFiles' = NewFiles
  BY <1>1 DEF Leftover, NewFiles, Coming, InItem, InWork, InHand, InResults, PathsOf
<1>7. stats'.removed + Cardinality(sweep') = Cardinality(Leftover')
  BY <1>1, <1>4, <1>5, <1>6 DEF Counting
<1>. QED
  BY <1>1, <1>4, <1>6, <1>7 DEF Counting

LEMMA BalanceInvStep ==
  ASSUME Undisturbed, BalanceInv, [Next]_vars
  PROVE  BalanceInv'
<1>1. MirrorInv'
  BY MirrorInvStep DEF BalanceInv
<1>2. SUFFICES Distinct' /\ Counting'
  BY <1>1 DEF BalanceInv
<1>3. CASE Walker
  BY <1>3, BalanceWalker
<1>4. ASSUME NEW w \in Worker, WorkerStep(w) PROVE Distinct' /\ Counting'
  BY <1>4, BalanceWorker
<1>5. CASE CollectError \/ CollectKnown \/ CollectMoved \/ CollectAdded
  BY <1>5, BalanceCollect
<1>6. CASE CollectCancelled \/ Cancel
  BY <1>6 DEF CollectCancelled, Cancel, BalanceInv, MirrorInv, Quiet, Undisturbed
<1>7. ASSUME UNCHANGED <<old, walkVars, poolVars, work, results>>
      PROVE  Distinct' /\ NewFiles' = NewFiles
  <2>1. InItem' = InItem /\ InWork' = InWork /\ InHand' = InHand /\ InResults' = InResults
    BY <1>7 DEF InItem, InWork, InHand, InResults, PathsOf
  <2>2. NewFiles' = NewFiles
    BY <1>7, <2>1 DEF NewFiles, Coming
  <2>. QED
    BY <1>7, <2>1, <2>2 DEF BalanceInv, Distinct, Once
<1>8. CASE Load \/ DeleteMovedFrom \/ UpsertFile \/ FinishSync \/ CloseProgress \/ UNCHANGED vars
  <2>1. /\ UNCHANGED <<old, walkVars, poolVars, work, results, stats, sweep>>
        /\ errs \subseteq errs'
        /\ cpc' \notin {"sweep", "returned"} => cpc \notin {"sweep", "returned"}
        /\ cpc' = "sweep" \/ outcome' = "ok" => cpc = "sweep" \/ outcome = "ok"
    BY <1>8 DEF Load, DeleteMovedFrom, UpsertFile, FinishSync, CloseProgress, Return, vars
  <2>2. Distinct' /\ NewFiles' = NewFiles
    BY <1>7, <2>1
  <2>. QED
    BY <2>1, <2>2, CountSame DEF BalanceInv, Counting
<1>9. CASE AwaitWalker
  <2>1. /\ UNCHANGED <<old, walkVars, poolVars, work, results, stats, errs, outcome>>
        /\ cpc = "collect" /\ cpc' = "sweep" /\ sweep' = Leftover
    BY <1>9 DEF AwaitWalker, BalanceInv, MirrorInv, Quiet
  <2>2. Distinct' /\ NewFiles' = NewFiles
    BY <1>7, <2>1
  <2>3. Leftover' = Leftover /\ Cardinality(Leftover) \in Nat
    BY <2>1, FinitePaths, FS_CardinalityType DEF BalanceInv, MirrorInv, IInv, Leftover
  <2>. QED
    BY <2>1, <2>2, <2>3 DEF BalanceInv, Counting
<1>10. ASSUME NEW p \in Path, SweepRecord(p) PROVE Distinct' /\ Counting'
  <2>1. Distinct'
    BY <1>7, <1>10 DEF SweepRecord
  <2>. QED
    BY <1>10, <2>1, BalanceSweep
<1>11. CASE Done
  BY <1>8, <1>11 DEF Done
<1>. QED
  BY <1>3, <1>4, <1>5, <1>6, <1>8, <1>9, <1>10, <1>11 DEF Next, Collector

LEMMA BalanceInvInit == Init => BalanceInv
<1> SUFFICES ASSUME Init PROVE BalanceInv
  OBVIOUS
<1>1. InItem = {} /\ InWork = {} /\ InHand = {} /\ InResults = {}
  BY DEF Init, InItem, InWork, InHand, InResults, PathsOf
<1>2. Distinct
  BY <1>1 DEF Init, Distinct, Once
<1>3. NewFiles = {}
  BY DEF Init, NewFiles
<1>4. Counting
  BY <1>3, FS_EmptySet DEF Init, Counting, NoStats
<1>. QED
  BY <1>2, <1>4, MirrorInvInit DEF BalanceInv

LEMMA DisjointUnion ==
  ASSUME NEW S, NEW T, IsFiniteSet(S), IsFiniteSet(T), S \cap T = {}
  PROVE  /\ Cardinality(S) \in Nat /\ Cardinality(T) \in Nat
         /\ Cardinality(S \cup T) = Cardinality(S) + Cardinality(T)
<1>1. /\ Cardinality(S) \in Nat /\ Cardinality(T) \in Nat
      /\ Cardinality(S \cup T) = Cardinality(S) + Cardinality(T) - Cardinality(S \cap T)
  BY FS_Union, FS_CardinalityType
<1>2. Cardinality(S \cap T) = 0
  BY FS_EmptySet
<1>. QED
  BY <1>1, <1>2

\* The counters of a sync of any size that is not cancelled and whose statements take
\* effect account for the records that came and went, if no file was unreadable.
THEOREM SyncBalances == Spec => []CounterBalance
<1> DEFINE I == Undisturbed => BalanceInv
<1>0. Init => I
  BY BalanceInvInit
<1>1. I /\ [Next]_vars => I'
  BY BalanceInvStep, FaultsStay DEF Undisturbed
<1>2. ASSUME BalanceInv, outcome = "ok", errs \cap seen = {}
      PROVE  Cardinality({p \in Path : db[p] # Absent}) + stats.removed
               = Cardinality({p \in Path : old[p] # Absent}) + stats.added + stats.moved
  <2> DEFINE before == {p \in Path : old[p] # Absent}
  <2>1. MirrorInv /\ TypeOK /\ seen \subseteq Path
    BY <1>2 DEF BalanceInv, MirrorInv, IInv, TypeOK
  <2>2. {p \in Path : db[p] # Absent} = seen
    <3>1. \A q \in seen : <<q, db[q]>> \in Allowed
      BY <1>2, <2>1, NothingComing DEF Settled
    <3>2. \A q \in seen : db[q] # Absent
      BY <3>1, NamesAssumption DEF Allowed
    <3>. QED
      BY <1>2, <2>1, <3>2, NothingComing
  <2>3. stats.added + stats.moved = Cardinality(NewFiles)
    BY <1>2 DEF BalanceInv, Counting
  <2>4. stats.removed = Cardinality(Leftover)
    <3>1. sweep = {} /\ stats.removed + Cardinality(sweep) = Cardinality(Leftover)
      BY <1>2, <2>1, NothingComing DEF BalanceInv, Counting
    <3>2. stats.removed \in Nat
      BY <2>1 DEF TypeOK
    <3>. QED
      BY <3>1, <3>2, FS_EmptySet
  <2>5. /\ IsFiniteSet(before) /\ IsFiniteSet(NewFiles) /\ IsFiniteSet(seen)
        /\ IsFiniteSet(Leftover)
    BY <2>1, FinitePaths, SizesAssumption, FS_Subset
  <2>6. seen \cup Leftover = before \cup NewFiles
    BY <1>2, <2>1, NothingComing DEF Leftover, NewFiles
  <2>7. seen \cap Leftover = {} /\ before \cap NewFiles = {}
    BY DEF Leftover, NewFiles
  <2> HIDE DEF before
  <2>8. /\ Cardinality(seen \cup Leftover) = Cardinality(seen) + Cardinality(Leftover)
        /\ Cardinality(seen) \in Nat /\ Cardinality(Leftover) \in Nat
    BY <2>5, <2>7, DisjointUnion
  <2>9. /\ Cardinality(before \cup NewFiles) = Cardinality(before) + Cardinality(NewFiles)
        /\ Cardinality(before) \in Nat /\ Cardinality(NewFiles) \in Nat
    BY <2>5, <2>7, DisjointUnion
  <2>10. stats.added \in Nat /\ stats.moved \in Nat
    BY <2>1 DEF TypeOK
  <2>11. Cardinality(seen) + stats.removed = Cardinality(before) + stats.added + stats.moved
    BY <2>3, <2>4, <2>6, <2>8, <2>9, <2>10
  <2>. QED
    BY <2>2, <2>11 DEF before
<1>3. I => CounterBalance
  BY <1>2 DEF CounterBalance
<1>. QED
  BY <1>0, <1>1, <1>3, PTL DEF Spec

\* Of such a sync what the documents promise is true: every file it saw has a record
\* of its size and mtime, or an error, and no other record is left.  (A cancellation
\* or a statement that fails breaks it.)
THEOREM SyncIsComplete == Spec => [](Undisturbed => SyncComplete)
<1>1. SyncMirrorsDisk => (Undisturbed => SyncComplete)
  <2> SUFFICES ASSUME SyncMirrorsDisk, Undisturbed, outcome = "ok", NEW p \in Path
               PROVE  /\ p \in seen \ errs => db[p] # Absent /\ db[p].sig = disk[p].sig
                      /\ p \notin seen => db[p] = Absent
    BY DEF SyncComplete
  <2>. QED
    BY DEF SyncMirrorsDisk, Justified
<1>. QED
  BY <1>1, SyncMirrors, PTL

-----------------------------------------------------------------------------
(* What holds whatever is cancelled, unreadable or not written. *)

RecordJustified ==
    \A p \in Path : db[p] \in {old[p], Absent} \/ (p \in seen /\ Justified(p, db[p]))

JustInv ==
    /\ IInv /\ Coming \subseteq seen
    /\ \A p \in Path : db[p] \in {old[p], Absent} \/ <<p, db[p]>> \in Allowed
    /\ cpc \in {"delete", "upsert"} => <<change.path, change.rec>> \in Allowed

LEMMA JustWalker ==
  ASSUME JustInv, Walker
  PROVE  Coming' \subseteq seen'
<1> USE DEF JustInv
<1>1. ASSUME NEW p \in Path, Visit(p) PROVE Coming' \subseteq seen'
  BY <1>1 DEF Visit, Coming, InItem, InWork, InHand, InResults, PathsOf
<1>2. ASSUME NEW p \in Path, VisitFails(p) PROVE Coming' \subseteq seen'
  BY <1>2 DEF VisitFails, Coming, InItem, InWork, InHand, InResults, PathsOf
<1>3. CASE SendWork
  BY <1>3, SendPlaces DEF SendWork, Coming, IInv
<1>4. CASE StopWalk \/ FinishWalk
  BY <1>4 DEF StopWalk, FinishWalk, Coming, InItem, InWork, InHand, InResults, PathsOf
<1>. QED
  BY <1>1, <1>2, <1>3, <1>4 DEF Walker

LEMMA JustWorker ==
  ASSUME JustInv, NEW w \in Worker, WorkerStep(w)
  PROVE  Coming' \subseteq seen'
<1> USE DEF JustInv
<1>1. TypeOK /\ Travelling /\ seen' = seen
  BY DEF IInv, WorkerStep, Take, Reply, Exit
<1>2. CASE Take(w) /\ ~ctxDone
  BY <1>1, <1>2, TakePlaces DEF Coming
<1>3. CASE Take(w) /\ ctxDone
  <2>1. /\ work \in Seq(GoodItem) /\ work # <<>> /\ work' = Tail(work)
        /\ wst' = [wst EXCEPT ![w] = "gone"] /\ held' = held
        /\ UNCHANGED <<wpc, item, results>>
    BY <1>1, <1>3 DEF Travelling, Take
  <2>2. PathsOf(work') \subseteq PathsOf(work)
    BY <2>1, PathsTail
  <2>3. InHand' \subseteq InHand
    BY <1>1, <2>1 DEF InHand, TypeOK
  <2>4. InWork' \subseteq InWork /\ InItem' = InItem /\ InResults' = InResults
    BY <2>1, <2>2 DEF InWork, InItem, InResults, PathsOf
  <2>. QED
    BY <1>1, <2>3, <2>4 DEF Coming
<1>4. CASE Reply(w)
  BY <1>1, <1>4, ReplyPlaces DEF Coming
<1>5. CASE Exit(w)
  <2>1. /\ wst' = [wst EXCEPT ![w] = "gone"] /\ UNCHANGED <<held, wpc, item, work, results>>
    BY <1>5 DEF Exit
  <2>2. InHand' \subseteq InHand
    BY <1>1, <2>1 DEF InHand, TypeOK
  <2>. QED
    BY <1>1, <2>1, <2>2 DEF Coming, InWork, InItem, InResults, PathsOf
<1>. QED
  BY <1>2, <1>3, <1>4, <1>5 DEF WorkerStep

LEMMA JustInvStep == JustInv /\ [Next]_vars => JustInv'
<1> SUFFICES ASSUME JustInv, [Next]_vars PROVE JustInv'
  OBVIOUS
<1>1. IInv' /\ TypeOK /\ Travelling
  BY IInvStep DEF JustInv, IInv
<1>2. ASSUME UNCHANGED <<disk, old, db>>, seen \subseteq seen', Coming' \subseteq seen',
             \/ UNCHANGED <<cpc, change>>
             \/ cpc' \notin {"delete", "upsert"}
      PROVE  JustInv'
  <2>1. Allowed \subseteq Allowed'
    BY <1>2, AllowedKept
  <2>. QED
    BY <1>1, <1>2, <2>1 DEF JustInv
<1>3. CASE Walker
  <2>1. UNCHANGED <<disk, old, db, cpc, change>> /\ seen \subseteq seen'
    BY <1>3 DEF Walker, Visit, VisitFails, SendWork, StopWalk, FinishWalk
  <2>. QED
    BY <1>2, <1>3, <2>1, JustWalker
<1>4. ASSUME NEW w \in Worker, WorkerStep(w) PROVE JustInv'
  <2>1. UNCHANGED <<disk, old, db, cpc, change, seen>>
    BY <1>4 DEF WorkerStep, Take, Reply, Exit
  <2>. QED
    BY <1>2, <1>4, <2>1, JustWorker
<1>5. ASSUME Receive, UNCHANGED upVars
      PROVE  Coming' \subseteq seen' /\ Received.path \in seen
  <2>1. InResults = InResults' \cup {Received.path}
    BY <1>1, <1>5, ReceivePlaces
  <2>2. InItem' = InItem /\ InWork' = InWork /\ InHand' = InHand /\ seen' = seen
    BY <1>5 DEF InItem, InWork, InHand, PathsOf
  <2>. QED
    BY <2>1, <2>2 DEF JustInv, Coming
<1>6. CASE CollectCancelled \/ CollectError
  <2>1. /\ Receive /\ UNCHANGED upVars /\ UNCHANGED <<db, change>>
        /\ cpc' \in {"collect", "returned"}
    BY <1>6 DEF CollectCancelled, CollectError, Receive, Return
  <2>. QED
    BY <1>2, <1>5, <2>1
<1>7. CASE CollectKnown \/ CollectMoved \/ CollectAdded
  <2>1. Receive /\ UNCHANGED upVars /\ UNCHANGED db
    BY <1>7 DEF CollectKnown, CollectMoved, CollectAdded
  <2>2. Coming' \subseteq seen' /\ Received.path \in seen
    BY <1>5, <2>1
  <2>3. /\ change'.path = Received.path /\ <<Received.path, change'.rec>> \in Allowed
    BY <1>1, <1>7, <2>2, ChangeIsAllowed
  <2>4. Allowed \subseteq Allowed'
    BY <2>1, AllowedKept
  <2>5. <<change'.path, change'.rec>> \in Allowed'
    BY <2>3, <2>4
  <2>. QED
    BY <1>1, <2>1, <2>2, <2>4, <2>5 DEF JustInv
<1>8. ASSUME UNCHANGED <<upVars, results>>, NEW p \in Path,
             \/ db' = db
             \/ db' = [db EXCEPT ![p] = Absent]
             \/ <<p, change.rec>> \in Allowed /\ db' = [db EXCEPT ![p] = change.rec],
             \/ UNCHANGED change /\ cpc \in {"delete", "upsert"}
             \/ cpc' \notin {"delete", "upsert"}
      PROVE  JustInv'
  <2>1. Allowed \subseteq Allowed' /\ Coming' = Coming
    BY <1>8, AllowedKept DEF Coming, InItem, InWork, InHand, InResults, PathsOf
  <2>2. \A q \in Path : \/ db'[q] = db[q]
                        \/ db'[q] = Absent
                        \/ <<q, db'[q]>> \in Allowed
    BY <1>1, <1>8 DEF TypeOK
  <2>3. \A q \in Path : db'[q] \in {old'[q], Absent} \/ <<q, db'[q]>> \in Allowed'
    BY <1>8, <2>1, <2>2 DEF JustInv
  <2>4. cpc' \in {"delete", "upsert"} => <<change'.path, change'.rec>> \in Allowed'
    BY <1>8, <2>1 DEF JustInv
  <2>. QED
    BY <1>1, <1>8, <2>1, <2>3, <2>4 DEF JustInv
<1>9. CASE DeleteMovedFrom
  BY <1>1, <1>8, <1>9 DEF DeleteMovedFrom, Travelling
<1>10. CASE UpsertFile
  <2>1. change.path \in Path /\ <<change.path, change.rec>> \in Allowed
    BY <1>10 DEF UpsertFile, JustInv, Allowed, IInv, TypeOK
  <2>. QED
    BY <1>8, <1>10, <2>1 DEF UpsertFile
<1>11. ASSUME NEW p \in Path, SweepRecord(p) PROVE JustInv'
  BY <1>8, <1>11 DEF SweepRecord
<1>12. CASE Load \/ AwaitWalker \/ FinishSync \/ Cancel \/ CloseProgress \/ UNCHANGED vars
  <2>1. /\ UNCHANGED <<walkVars, poolVars, work, results, disk, old, db, change>>
        /\ UNCHANGED cpc \/ cpc' \notin {"delete", "upsert"}
    BY <1>12 DEF Load, AwaitWalker, FinishSync, Cancel, CloseProgress, Return, vars
  <2>2. Coming' = Coming /\ seen' = seen
    BY <2>1 DEF Coming, InItem, InWork, InHand, InResults, PathsOf
  <2>. QED
    BY <1>2, <2>1, <2>2 DEF JustInv
<1>13. CASE Done
  BY <1>12, <1>13 DEF Done
<1>. QED
  BY <1>3, <1>4, <1>6, <1>7, <1>9, <1>10, <1>11, <1>12, <1>13 DEF Next, Collector

LEMMA JustInvInit == Init => JustInv
<1> SUFFICES ASSUME Init PROVE JustInv
  OBVIOUS
<1>1. Coming = {}
  BY DEF Init, Coming, InItem, InWork, InHand, InResults, PathsOf
<1>. QED
  BY <1>1, IInvInit DEF Init, JustInv

\* At every moment of every sync, cancelled and failing ones included, a record is
\* the one the sync found, or gone, or one that its file and the old records justify.
THEOREM SyncWritesJustified == Spec => []RecordJustified
<1>1. Init => JustInv
  BY JustInvInit
<1>2. JustInv => RecordJustified
  BY DEF JustInv, RecordJustified, Allowed
<1>. QED
  BY <1>1, <1>2, JustInvStep, PTL DEF Spec

\* No file of the drive that is new to the database has a twin that is still there.
NoDuplicates ==
    \A p \in Path : disk[p] # Absent /\ old[p] = Absent =>
        \A q \in Twins(p) : disk[q] = Absent

\* What is written is then a kept record, that of a file that is gone, or a new one.
NothingMistaken ==
    NoDuplicates =>
        \A p \in Path :
            \/ db[p] \in {old[p], Absent}
            \/ p \in seen /\ (Kept(p, db[p]) \/ Moved(p, db[p]) \/ Added(p, db[p]))

\* Duplicates are the only way to a mistaken move: on a drive without them no sync
\* takes over the record of a file that is still there, in any order of visit, with
\* any number of workers, cancelled and failing syncs included.
THEOREM SyncMovesAreReal == Spec => []NothingMistaken
<1>1. Init => JustInv
  BY JustInvInit
<1>2. JustInv => NothingMistaken
  <2> SUFFICES ASSUME JustInv, NoDuplicates, NEW p \in Path, db[p] \notin {old[p], Absent}
               PROVE  p \in seen /\ (Kept(p, db[p]) \/ Moved(p, db[p]) \/ Added(p, db[p]))
    BY DEF NothingMistaken
  <2>1. p \in seen /\ Justified(p, db[p])
    BY DEF JustInv, Allowed
  <2>2. \A q \in seen : q \in Path /\ disk[q] # Absent
    BY DEF JustInv, IInv, Travelling
  <2>3. ~Mistaken(p, db[p])
    BY <2>1, <2>2 DEF Mistaken, NoDuplicates
  <2>. QED
    BY <2>1, <2>3 DEF Justified
<1>. QED
  BY <1>1, <1>2, JustInvStep, PTL DEF Spec

-----------------------------------------------------------------------------
(* How a sync ends, cancelled or not. *)

\* No goroutine is left behind by a normal return.
ReturnsClean == outcome = "ok" => wpc = "done" /\ ResultsClosed

\* Until SyncDirectory has returned somebody can proceed: each line is the guard of
\* an action, or those of actions that leave out no case.
NeverStuck ==
    \/ cpc \in {"returned", "load", "delete", "upsert", "sweep"}
    \/ cpc = "collect" /\ results # <<>>
    \/ cpc = "collect" /\ results = <<>> /\ ResultsClosed /\ wpc = "done"
    \/ \E w \in Worker : wst[w] = "busy" /\ Len(results) < ResultCap
    \/ Running /\ \E w \in Worker : wst[w] = "idle" /\ (work # <<>> \/ wpc = "done")
    \/ Running /\ wpc = "walk"
    \/ Running /\ wpc = "send" /\ (Len(work) < WorkCap \/ ctxDone)

EndInv ==
    /\ TypeOK
    /\ outcome = "none" <=> cpc # "returned"
    /\ progClosed => cpc = "returned"
    /\ cpc = "sweep" \/ outcome = "ok" => wpc = "done" /\ ResultsClosed
    /\ panicked => outcome = "cancelled"
    /\ \A w \in Worker : wst[w] = "gone" => ctxDone \/ wpc = "done"

LEMMA EndInvStep == EndInv /\ TypeOK' /\ [Next]_vars => EndInv'
<1> SUFFICES ASSUME EndInv, TypeOK', [Next]_vars PROVE EndInv'
  OBVIOUS
<1> USE DEF EndInv
<1>1. CASE UNCHANGED vars
  BY <1>1 DEF vars, ResultsClosed
<1>2. ASSUME NEW p \in Path, Visit(p) PROVE EndInv'
  <2>1. /\ wpc = "walk" /\ Running
        /\ UNCHANGED <<cpc, outcome, ctxDone, progClosed, wst>>
        /\ panicked' => panicked \/ progClosed
    BY <1>2 DEF Visit
  <2>2. outcome # "ok" /\ cpc # "sweep" /\ outcome # "failed"
    BY <2>1 DEF Running
  <2>3. progClosed => outcome = "cancelled"
    BY <2>2 DEF TypeOK
  <2>4. \A w \in Worker : wst'[w] = "gone" => ctxDone'
    BY <2>1
  <2>. QED
    BY <2>1, <2>2, <2>3, <2>4
<1>3. ASSUME NEW p \in Path, VisitFails(p) PROVE EndInv'
  BY <1>3 DEF VisitFails, ResultsClosed
<1>4. CASE SendWork \/ StopWalk \/ FinishWalk
  BY <1>4 DEF SendWork, StopWalk, FinishWalk, ResultsClosed
<1>5. ASSUME NEW w \in Worker, WorkerStep(w) PROVE EndInv'
  <2>1. /\ UNCHANGED <<wpc, cpc, outcome, ctxDone, progClosed, panicked>>
        /\ wst[w] \in {"idle", "busy"}
    BY <1>5 DEF WorkerStep, Take, Reply, Exit
  <2>2. ~(cpc = "sweep" \/ outcome = "ok")
    BY <2>1 DEF ResultsClosed
  <2>3. \A v \in Worker : wst'[v] = "gone" => wst[v] = "gone" \/ ctxDone \/ wpc = "done"
    BY <1>5 DEF WorkerStep, Take, Reply, Exit, TypeOK
  <2>. QED
    BY <2>1, <2>2, <2>3
<1>6. CASE Load
  BY <1>6 DEF Load, Return, ResultsClosed
<1>7. CASE CollectCancelled
  BY <1>7 DEF CollectCancelled, Return, Receive, ResultsClosed
<1>8. CASE CollectError \/ CollectKnown \/ CollectMoved \/ CollectAdded
  BY <1>8 DEF CollectError, CollectKnown, CollectMoved, CollectAdded, Receive, ResultsClosed
<1>9. CASE DeleteMovedFrom \/ UpsertFile
  BY <1>9 DEF DeleteMovedFrom, UpsertFile, ResultsClosed
<1>10. CASE AwaitWalker \/ FinishSync
  BY <1>10 DEF AwaitWalker, FinishSync, Return, ResultsClosed
<1>11. ASSUME NEW p \in Path, SweepRecord(p) PROVE EndInv'
  BY <1>11 DEF SweepRecord, ResultsClosed
<1>12. CASE Cancel \/ CloseProgress
  BY <1>12 DEF Cancel, CloseProgress, ResultsClosed
<1>13. CASE Done
  BY <1>1, <1>13 DEF Done
<1>. QED
  BY <1>1, <1>2, <1>3, <1>4, <1>5, <1>6, <1>7, <1>8, <1>9, <1>10, <1>11, <1>12, <1>13
     DEF Next, Walker, Collector

LEMMA EndInvAlways == Spec => []EndInv
<1>1. Init => EndInv
  <2> SUFFICES ASSUME Init PROVE EndInv
    OBVIOUS
  <2>1. TypeOK
    BY IInvInit DEF IInv
  <2>. QED
    BY <2>1 DEF Init, EndInv
<1>2. EndInv /\ TypeOK' /\ [Next]_vars => EndInv'
  BY EndInvStep
<1>. QED
  BY <1>1, <1>2, SyncTypeCorrect, PTL DEF Spec

\* The only sync that can send an event on the progress channel after its caller has
\* closed it is a cancelled one: its collector does not wait for the walker.
THEOREM SyncNeverSendsAfterClose == Spec => []NoSendAfterClose
<1>1. EndInv => NoSendAfterClose
  BY DEF EndInv, NoSendAfterClose
<1>. QED
  BY <1>1, EndInvAlways, PTL

\* However a sync is cancelled or fails: when it returns normally its walker and its
\* workers have ended.
THEOREM SyncReturnsClean == Spec => []ReturnsClean
<1>1. EndInv => ReturnsClean
  BY DEF EndInv, ReturnsClean
<1>. QED
  BY <1>1, EndInvAlways, PTL

\* The bounded channels never leave the walker, the workers and the collector waiting
\* for each other, for any number of files and workers, any capacities and any faults:
\* the part of SyncReturns that is not about fairness.
THEOREM SyncNeverStuck == Spec => []NeverStuck
<1>1. EndInv => NeverStuck
  <2> SUFFICES ASSUME EndInv, cpc = "collect", results = <<>> PROVE NeverStuck
    BY DEF EndInv, TypeOK, NeverStuck
  <2> USE DEF EndInv
  <2>1. Running
    BY DEF Running
  <2>2. Len(results) < ResultCap
    BY SizesAssumption
  <2>3. CASE \E w \in Worker : wst[w] = "busy"
    BY <2>2, <2>3 DEF NeverStuck
  <2>4. CASE ResultsClosed
    <3>1. wpc = "done" \/ ctxDone
      BY <2>4, SizesAssumption DEF ResultsClosed
    <3>. QED
      BY <2>1, <2>4, <3>1 DEF NeverStuck, TypeOK
  <2>5. CASE \E w \in Worker : wst[w] = "idle"
    <3>1. work = <<>> => Len(work) < WorkCap
      BY SizesAssumption
    <3>. QED
      BY <2>1, <2>5, <3>1 DEF NeverStuck, TypeOK
  <2>. QED
    BY <2>3, <2>4, <2>5 DEF TypeOK, ResultsClosed
<1>. QED
  BY <1>1, EndInvAlways, PTL
=============================================================================
