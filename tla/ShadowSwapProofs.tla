-------------------------- MODULE ShadowSwapProofs --------------------------
(***************************************************************************)
(* Theorems about ShadowSwap, for any number of processes, readers, files, *)
(* runs and writes.                                                        *)
(***************************************************************************)
EXTENDS ShadowSwap, TLAPS

USE DEF dirVars, canaryVars, jobVars, handleVars, logVars, readerVars,
        faultVars, sideVars

\* A process knows its run while it has one, and its file while it has a handle.
Owned ==
    \A p \in Proc :
        /\ pc[p] # "idle" => run[p] \in Run
        /\ pc[p] \in {"copy"} \cup Working => fd[p] \in Inode

TInv == TypeOK /\ Owned

LEMMA TInvInit == Init => TInv
<1> SUFFICES ASSUME Init PROVE TInv
  OBVIOUS
<1>1. TypeOK
  <2> USE BoundsAssumption DEF Init, Working
  <2>1. started \in 0 .. MaxRuns
    OBVIOUS
  <2>2. nwrites \in [Proc -> 0 .. MaxWrites]
    OBVIOUS
  <2>3. run \in [Proc -> Run \cup {0}]
    OBVIOUS
  <2>4. /\ file \in [Inode -> SUBSET Write]
        /\ snap \in [Reader -> SUBSET Write]
        /\ sum \in [Proc -> SUBSET Write]
    OBVIOUS
  <2>. QED
    BY <2>1, <2>2, <2>3, <2>4 DEF TypeOK
<1>2. Owned
  BY DEF Init, Owned, Working
<1>. QED
  BY <1>1, <1>2 DEF TInv

LEMMA TInvStep == TInv /\ [Next]_vars => TInv'
<1> SUFFICES ASSUME TInv, [Next]_vars PROVE TInv'
  OBVIOUS
<1> USE NoFileAssumption, BoundsAssumption DEF TInv, TypeOK, Owned, Go, Working
<1>1. CASE UNCHANGED vars
  BY <1>1 DEF vars
<1>2. ASSUME NEW p \in Proc, Start(p) PROVE TInv'
  BY <1>2 DEF Start, Run
<1>3. ASSUME NEW p \in Proc, RemoveStale(p) PROVE TInv'
  BY <1>3 DEF RemoveStale
<1>4. ASSUME NEW p \in Proc, CreateShadow(p) PROVE TInv'
  BY <1>4 DEF CreateShadow, Live
<1>5. ASSUME NEW p \in Proc, CreateShadowFails(p) PROVE TInv'
  BY <1>5 DEF CreateShadowFails
<1>6. ASSUME NEW p \in Proc, Copy(p) PROVE TInv'
  BY <1>6 DEF Copy, Rows
<1>7. ASSUME NEW p \in Proc, CopyFails(p) PROVE TInv'
  BY <1>7 DEF CopyFails
<1>8. ASSUME NEW p \in Proc, OpenSQLite(p) PROVE TInv'
  BY <1>8 DEF OpenSQLite, Rows, Replayed, Live, Write, Schema
<1>9. ASSUME NEW p \in Proc, OpenSQLiteFails(p) PROVE TInv'
  BY <1>9 DEF OpenSQLiteFails
<1>10. ASSUME NEW p \in Proc, WriteRecord(p) PROVE TInv'
  BY <1>10 DEF WriteRecord, Put, Write
<1>11. ASSUME NEW p \in Proc, WorkDone(p) PROVE TInv'
  BY <1>11 DEF WorkDone
<1>12. ASSUME NEW p \in Proc, WorkFails(p) PROVE TInv'
  BY <1>12 DEF WorkFails
<1>13. ASSUME NEW p \in Proc, PostCheck(p) PROVE TInv'
  BY <1>13 DEF PostCheck
<1>14. ASSUME NEW p \in Proc, InsertRunHistory(p) PROVE TInv'
  BY <1>14 DEF InsertRunHistory, Put, Write
<1>15. ASSUME NEW p \in Proc, Commit(p) PROVE TInv'
  BY <1>15 DEF Commit
<1>16. ASSUME NEW p \in Proc, CommitFails(p) PROVE TInv'
  BY <1>16 DEF CommitFails
<1>17. ASSUME NEW p \in Proc, Rollback(p) PROVE TInv'
  BY <1>17 DEF Rollback
<1>18. ASSUME NEW p \in Proc, ComputeChecksum(p) PROVE TInv'
  BY <1>18 DEF ComputeChecksum, Rows
<1>19. ASSUME NEW p \in Proc, TruncateCanary(p) PROVE TInv'
  BY <1>19 DEF TruncateCanary
<1>20. ASSUME NEW p \in Proc, WriteCanary(p) PROVE TInv'
  BY <1>20 DEF WriteCanary
<1>21. ASSUME NEW p \in Proc, SealFails(p) PROVE TInv'
  BY <1>21 DEF SealFails
<1>22. ASSUME NEW p \in Proc, Crash(p) PROVE TInv'
  BY <1>22 DEF Crash
<1>23. ASSUME NEW r \in Reader, ReaderOpen(r) PROVE TInv'
  BY <1>23 DEF ReaderOpen
<1>24. ASSUME NEW r \in Reader, ReaderClose(r) PROVE TInv'
  BY <1>24 DEF ReaderClose
<1>25. CASE CanaryVanishes
  BY <1>25 DEF CanaryVanishes
<1>26. CASE CanaryTouched
  BY <1>26 DEF CanaryTouched
<1>. QED
  BY <1>1, <1>2, <1>3, <1>4, <1>5, <1>6, <1>7, <1>8, <1>9, <1>10, <1>11,
     <1>12, <1>13, <1>14, <1>15, <1>16, <1>17, <1>18, <1>19, <1>20, <1>21,
     <1>22, <1>23, <1>24, <1>25, <1>26 DEF Next, ProcStep

\* Every variable keeps its type, with or without overlapping runs: no process
\* ever uses a handle it does not have or a run number beyond the bound.
THEOREM TypeCorrect == Spec => []TypeOK
<1>1. TInv => TypeOK
  BY DEF TInv
<1>. QED
  BY TInvInit, TInvStep, <1>1, PTL DEF Spec

-----------------------------------------------------------------------------
(* One run at a time. *)

\* At most one process is in a run.
Alone == \A p, q \in Proc : pc[p] # "idle" /\ pc[q] # "idle" => p = q

\* The running process holds the file that the shadow's name is bound to, and
\* what it works on is whole.
Placed ==
    \A p \in Proc :
        /\ pc[p] \in {"copy"} \cup Working => fd[p] = shadow
        /\ pc[p] = "copy" => src[p] = prod
        /\ pc[p] = "open" => shadow \in Inode
        /\ pc[p] \in {"copy", "open"} \cup Working => shadow \notin torn

\* bitrot.db is whole, and never the file a run writes to.
Apart == prod \notin torn /\ (prod # NoFile => prod # shadow)

\* A reader's file is whole, still holds what it held, and is not written to.
Watched ==
    \A r \in Reader : rd[r] # NoFile =>
        rd[r] # shadow /\ rd[r] \notin torn /\ file[rd[r]] = snap[r]

Structure == Alone /\ Placed /\ Apart /\ Watched

LEMMA StructureInit == Init => Structure
  BY NoFileAssumption DEF Init, Structure, Alone, Placed, Apart, Watched, Working

LEMMA AloneStep == ASSUME Exclusive, TInv, Alone, [Next]_vars PROVE Alone'
<1> USE DEF TInv, TypeOK, Alone, Go, Working
<1>1. CASE UNCHANGED vars
  BY <1>1 DEF vars
<1>2. ASSUME NEW p \in Proc, Start(p) PROVE Alone'
  BY <1>2 DEF Start
<1>3. ASSUME NEW p \in Proc, RemoveStale(p) PROVE Alone'
  BY <1>3 DEF RemoveStale
<1>4. ASSUME NEW p \in Proc, CreateShadow(p) PROVE Alone'
  BY <1>4 DEF CreateShadow, Live
<1>5. ASSUME NEW p \in Proc, CreateShadowFails(p) PROVE Alone'
  BY <1>5 DEF CreateShadowFails
<1>6. ASSUME NEW p \in Proc, Copy(p) PROVE Alone'
  BY <1>6 DEF Copy, Rows
<1>7. ASSUME NEW p \in Proc, CopyFails(p) PROVE Alone'
  BY <1>7 DEF CopyFails
<1>8. ASSUME NEW p \in Proc, OpenSQLite(p) PROVE Alone'
  BY <1>8 DEF OpenSQLite, Rows, Replayed, Live, Write, Schema
<1>9. ASSUME NEW p \in Proc, OpenSQLiteFails(p) PROVE Alone'
  BY <1>9 DEF OpenSQLiteFails
<1>10. ASSUME NEW p \in Proc, WriteRecord(p) PROVE Alone'
  BY <1>10 DEF WriteRecord, Put
<1>11. ASSUME NEW p \in Proc, WorkDone(p) PROVE Alone'
  BY <1>11 DEF WorkDone
<1>12. ASSUME NEW p \in Proc, WorkFails(p) PROVE Alone'
  BY <1>12 DEF WorkFails
<1>13. ASSUME NEW p \in Proc, PostCheck(p) PROVE Alone'
  BY <1>13 DEF PostCheck
<1>14. ASSUME NEW p \in Proc, InsertRunHistory(p) PROVE Alone'
  BY <1>14 DEF InsertRunHistory, Put
<1>15. ASSUME NEW p \in Proc, Commit(p) PROVE Alone'
  BY <1>15 DEF Commit
<1>16. ASSUME NEW p \in Proc, CommitFails(p) PROVE Alone'
  BY <1>16 DEF CommitFails
<1>17. ASSUME NEW p \in Proc, Rollback(p) PROVE Alone'
  BY <1>17 DEF Rollback
<1>18. ASSUME NEW p \in Proc, ComputeChecksum(p) PROVE Alone'
  BY <1>18 DEF ComputeChecksum, Rows
<1>19. ASSUME NEW p \in Proc, TruncateCanary(p) PROVE Alone'
  BY <1>19 DEF TruncateCanary
<1>20. ASSUME NEW p \in Proc, WriteCanary(p) PROVE Alone'
  BY <1>20 DEF WriteCanary
<1>21. ASSUME NEW p \in Proc, SealFails(p) PROVE Alone'
  BY <1>21 DEF SealFails
<1>22. ASSUME NEW p \in Proc, Crash(p) PROVE Alone'
  BY <1>22 DEF Crash
<1>23. ASSUME NEW r \in Reader, ReaderOpen(r) PROVE Alone'
  BY <1>23 DEF ReaderOpen
<1>24. ASSUME NEW r \in Reader, ReaderClose(r) PROVE Alone'
  BY <1>24 DEF ReaderClose
<1>25. CASE CanaryVanishes
  BY <1>25 DEF CanaryVanishes
<1>26. CASE CanaryTouched
  BY <1>26 DEF CanaryTouched
<1>. QED
  BY <1>1, <1>2, <1>3, <1>4, <1>5, <1>6, <1>7, <1>8, <1>9, <1>10, <1>11,
     <1>12, <1>13, <1>14, <1>15, <1>16, <1>17, <1>18, <1>19, <1>20, <1>21,
     <1>22, <1>23, <1>24, <1>25, <1>26 DEF Next, ProcStep

LEMMA StructureStep ==
  ASSUME Exclusive, TInv, Structure, [Next]_vars PROVE Structure'
<1>1. Alone'
  BY AloneStep DEF Structure
<1>2. Placed' /\ Apart' /\ Watched'
  <2> USE NoFileAssumption DEF TInv, TypeOK, Owned, Structure, Alone, Placed, Apart,
      Watched, Go, Working
  <2>1. CASE UNCHANGED vars
    BY <2>1 DEF vars
  <2>2. ASSUME NEW p \in Proc, Start(p) PROVE Placed' /\ Apart' /\ Watched'
    BY <2>2 DEF Start
  <2>3. ASSUME NEW p \in Proc, RemoveStale(p) PROVE Placed' /\ Apart' /\ Watched'
    BY <2>3 DEF RemoveStale
  <2>4. ASSUME NEW p \in Proc, CreateShadow(p) PROVE Placed' /\ Apart' /\ Watched'
    BY <2>4 DEF CreateShadow, Live
  <2>5. ASSUME NEW p \in Proc, CreateShadowFails(p) PROVE Placed' /\ Apart' /\ Watched'
    BY <2>5 DEF CreateShadowFails
  <2>6. ASSUME NEW p \in Proc, Copy(p) PROVE Placed' /\ Apart' /\ Watched'
    <3>1. shadow \in Inode /\ fd[p] = shadow /\ src[p] \notin torn
      BY <2>6 DEF Copy
    <3>2. /\ torn' = torn /\ prod' = prod /\ shadow' = shadow /\ rd' = rd /\ snap' = snap
          /\ \A i \in Inode \ {shadow} : file'[i] = file[i]
          /\ shadow \notin torn
      BY <2>6, <3>1 DEF Copy
    <3>3. Apart' /\ Watched'
      BY <3>1, <3>2
    <3>4. Placed'
      BY <2>6, <3>1, <3>2 DEF Copy
    <3>. QED
      BY <3>3, <3>4
  <2>7. ASSUME NEW p \in Proc, CopyFails(p) PROVE Placed' /\ Apart' /\ Watched'
    BY <2>7 DEF CopyFails
  <2>8. ASSUME NEW p \in Proc, OpenSQLite(p) PROVE Placed' /\ Apart' /\ Watched'
    BY <2>8 DEF OpenSQLite, Rows, Replayed, Live, Write, Schema
  <2>9. ASSUME NEW p \in Proc, OpenSQLiteFails(p) PROVE Placed' /\ Apart' /\ Watched'
    BY <2>9 DEF OpenSQLiteFails
  <2>10. ASSUME NEW p \in Proc, WriteRecord(p) PROVE Placed' /\ Apart' /\ Watched'
    BY <2>10 DEF WriteRecord, Put
  <2>11. ASSUME NEW p \in Proc, WorkDone(p) PROVE Placed' /\ Apart' /\ Watched'
    BY <2>11 DEF WorkDone
  <2>12. ASSUME NEW p \in Proc, WorkFails(p) PROVE Placed' /\ Apart' /\ Watched'
    BY <2>12 DEF WorkFails
  <2>13. ASSUME NEW p \in Proc, PostCheck(p) PROVE Placed' /\ Apart' /\ Watched'
    BY <2>13 DEF PostCheck
  <2>14. ASSUME NEW p \in Proc, InsertRunHistory(p) PROVE Placed' /\ Apart' /\ Watched'
    BY <2>14 DEF InsertRunHistory, Put
  <2>15. ASSUME NEW p \in Proc, Commit(p) PROVE Placed' /\ Apart' /\ Watched'
    BY <2>15 DEF Commit
  <2>16. ASSUME NEW p \in Proc, CommitFails(p) PROVE Placed' /\ Apart' /\ Watched'
    BY <2>16 DEF CommitFails
  <2>17. ASSUME NEW p \in Proc, Rollback(p) PROVE Placed' /\ Apart' /\ Watched'
    BY <2>17 DEF Rollback
  <2>18. ASSUME NEW p \in Proc, ComputeChecksum(p) PROVE Placed' /\ Apart' /\ Watched'
    BY <2>18 DEF ComputeChecksum, Rows
  <2>19. ASSUME NEW p \in Proc, TruncateCanary(p) PROVE Placed' /\ Apart' /\ Watched'
    BY <2>19 DEF TruncateCanary
  <2>20. ASSUME NEW p \in Proc, WriteCanary(p) PROVE Placed' /\ Apart' /\ Watched'
    BY <2>20 DEF WriteCanary
  <2>21. ASSUME NEW p \in Proc, SealFails(p) PROVE Placed' /\ Apart' /\ Watched'
    BY <2>21 DEF SealFails
  <2>22. ASSUME NEW p \in Proc, Crash(p) PROVE Placed' /\ Apart' /\ Watched'
    BY <2>22 DEF Crash
  <2>23. ASSUME NEW r \in Reader, ReaderOpen(r) PROVE Placed' /\ Apart' /\ Watched'
    BY <2>23 DEF ReaderOpen
  <2>24. ASSUME NEW r \in Reader, ReaderClose(r) PROVE Placed' /\ Apart' /\ Watched'
    BY <2>24 DEF ReaderClose
  <2>25. CASE CanaryVanishes
    BY <2>25 DEF CanaryVanishes
  <2>26. CASE CanaryTouched
    BY <2>26 DEF CanaryTouched
  <2>. QED
    BY <2>1, <2>2, <2>3, <2>4, <2>5, <2>6, <2>7, <2>8, <2>9, <2>10, <2>11,
       <2>12, <2>13, <2>14, <2>15, <2>16, <2>17, <2>18, <2>19, <2>20, <2>21,
       <2>22, <2>23, <2>24, <2>25, <2>26 DEF Next, ProcStep
<1>. QED
  BY <1>1, <1>2 DEF Structure

-----------------------------------------------------------------------------
(* bitrot.db is replaced, never written to. *)

LEMMA Frame ==
  ASSUME TInv, Structure, [Next]_vars, prod # NoFile
  PROVE  file'[prod] = file[prod] /\ (prod \in torn') = (prod \in torn)
<1> USE NoFileAssumption DEF TInv, TypeOK, Owned, Structure, Placed, Apart, Go, Working
<1> DEFINE Same == file'[prod] = file[prod] /\ (prod \in torn') = (prod \in torn)
<1> SUFFICES Same
  OBVIOUS
<1>1. CASE UNCHANGED vars
  BY <1>1 DEF vars
<1>2. ASSUME NEW p \in Proc, Start(p) PROVE Same
  BY <1>2 DEF Start
<1>3. ASSUME NEW p \in Proc, RemoveStale(p) PROVE Same
  BY <1>3 DEF RemoveStale
<1>4. ASSUME NEW p \in Proc, CreateShadow(p) PROVE Same
  BY <1>4 DEF CreateShadow, Live
<1>5. ASSUME NEW p \in Proc, CreateShadowFails(p) PROVE Same
  BY <1>5 DEF CreateShadowFails
<1>6. ASSUME NEW p \in Proc, Copy(p) PROVE Same
  BY <1>6 DEF Copy, Rows
<1>7. ASSUME NEW p \in Proc, CopyFails(p) PROVE Same
  BY <1>7 DEF CopyFails
<1>8. ASSUME NEW p \in Proc, OpenSQLite(p) PROVE Same
  BY <1>8 DEF OpenSQLite, Rows, Replayed, Live, Write, Schema
<1>9. ASSUME NEW p \in Proc, OpenSQLiteFails(p) PROVE Same
  BY <1>9 DEF OpenSQLiteFails
<1>10. ASSUME NEW p \in Proc, WriteRecord(p) PROVE Same
  BY <1>10 DEF WriteRecord, Put
<1>11. ASSUME NEW p \in Proc, WorkDone(p) PROVE Same
  BY <1>11 DEF WorkDone
<1>12. ASSUME NEW p \in Proc, WorkFails(p) PROVE Same
  BY <1>12 DEF WorkFails
<1>13. ASSUME NEW p \in Proc, PostCheck(p) PROVE Same
  BY <1>13 DEF PostCheck
<1>14. ASSUME NEW p \in Proc, InsertRunHistory(p) PROVE Same
  BY <1>14 DEF InsertRunHistory, Put
<1>15. ASSUME NEW p \in Proc, Commit(p) PROVE Same
  BY <1>15 DEF Commit
<1>16. ASSUME NEW p \in Proc, CommitFails(p) PROVE Same
  BY <1>16 DEF CommitFails
<1>17. ASSUME NEW p \in Proc, Rollback(p) PROVE Same
  BY <1>17 DEF Rollback
<1>18. ASSUME NEW p \in Proc, ComputeChecksum(p) PROVE Same
  BY <1>18 DEF ComputeChecksum, Rows
<1>19. ASSUME NEW p \in Proc, TruncateCanary(p) PROVE Same
  BY <1>19 DEF TruncateCanary
<1>20. ASSUME NEW p \in Proc, WriteCanary(p) PROVE Same
  BY <1>20 DEF WriteCanary
<1>21. ASSUME NEW p \in Proc, SealFails(p) PROVE Same
  BY <1>21 DEF SealFails
<1>22. ASSUME NEW p \in Proc, Crash(p) PROVE Same
  BY <1>22 DEF Crash
<1>23. ASSUME NEW r \in Reader, ReaderOpen(r) PROVE Same
  BY <1>23 DEF ReaderOpen
<1>24. ASSUME NEW r \in Reader, ReaderClose(r) PROVE Same
  BY <1>24 DEF ReaderClose
<1>25. CASE CanaryVanishes
  BY <1>25 DEF CanaryVanishes
<1>26. CASE CanaryTouched
  BY <1>26 DEF CanaryTouched
<1>. QED
  BY <1>1, <1>2, <1>3, <1>4, <1>5, <1>6, <1>7, <1>8, <1>9, <1>10, <1>11,
     <1>12, <1>13, <1>14, <1>15, <1>16, <1>17, <1>18, <1>19, <1>20, <1>21,
     <1>22, <1>23, <1>24, <1>25, <1>26 DEF Next, ProcStep

LEMMA StructureInvariant ==
  ASSUME Exclusive PROVE Spec => [](TInv /\ Structure)
<1>1. TInv /\ Structure /\ [Next]_vars => (TInv /\ Structure)'
  BY TInvStep, StructureStep
<1>. QED
  BY TInvInit, StructureInit, <1>1, PTL DEF Spec

\* One run at a time, the file that is bitrot.db is never modified in place,
\* whatever the run does, wherever it fails or crashes and whoever reads.
THEOREM ProdNeverModified == ASSUME Exclusive PROVE Spec => NeverModifiedInPlace
<1>1. TInv /\ Structure /\ [Next]_vars =>
        [prod # NoFile => /\ file'[prod] = file[prod]
                          /\ (prod \in torn') = (prod \in torn)]_vars
  BY Frame
<1>. QED
  BY StructureInvariant, <1>1, PTL DEF Spec, NeverModifiedInPlace

\* One run at a time, a reader sees one committed database until it closes it,
\* across any number of commits in between.
THEOREM ReadersSeeSnapshots == ASSUME Exclusive PROVE Spec => []ReaderSnapshot
<1>1. Structure => ReaderSnapshot
  BY DEF Structure, Watched, ReaderSnapshot
<1>. QED
  BY StructureInvariant, <1>1, PTL

-----------------------------------------------------------------------------
(* What bitrot.db contains. *)

Committed == {w \in acked : w[1] \in committed}
Mine(p) == {w \in acked : w[1] = run[p]}

\* Runs are numbered as they start; a run that has not committed is not among
\* the committed ones, and one that has not opened its shadow has written nothing.
Numbered ==
    /\ \A r \in committed : r <= started
    /\ \A w \in acked : w[1] <= started
    /\ \A p \in Proc :
        /\ pc[p] # "idle" => run[p] <= started
        /\ pc[p] \in {"clear", "create", "copy",
            "open"} \cup Working => run[p] \notin committed
        /\ pc[p] \in {"clear", "create", "copy", "open"} => Mine(p) = {}

\* There is no journal to replay, nothing committed is missing from bitrot.db, nor
\* from the shadow that is to replace it, which also holds the current run's effects.
Kept ==
    /\ journal = {}
    /\ committed # {} => prod # NoFile
    /\ Committed \subseteq Rows(prod)
    /\ \A p \in Proc :
        /\ pc[p] = "open" => Rows(prod) \subseteq file[shadow]
        /\ pc[p] \in Working => Committed \cup Mine(p) \subseteq file[shadow]

Contents == Numbered /\ Kept

LEMMA ContentsInit == Init => Contents
  BY DEF Init, Contents, Numbered, Kept, Committed, Mine, Rows, Working

LEMMA NumberedStep ==
  ASSUME TInv, Structure, Numbered, [Next]_vars PROVE Numbered'
<1> USE BoundsAssumption DEF TInv, TypeOK, Owned, Structure, Alone, Numbered, Mine, Run,
    Go, Working
<1>1. CASE UNCHANGED vars
  BY <1>1 DEF vars
<1>2. ASSUME NEW p \in Proc, Start(p) PROVE Numbered'
  BY <1>2 DEF Start, Write, Schema
<1>3. ASSUME NEW p \in Proc, RemoveStale(p) PROVE Numbered'
  BY <1>3 DEF RemoveStale
<1>4. ASSUME NEW p \in Proc, CreateShadow(p) PROVE Numbered'
  BY <1>4 DEF CreateShadow, Live
<1>5. ASSUME NEW p \in Proc, CreateShadowFails(p) PROVE Numbered'
  BY <1>5 DEF CreateShadowFails
<1>6. ASSUME NEW p \in Proc, Copy(p) PROVE Numbered'
  BY <1>6 DEF Copy, Rows
<1>7. ASSUME NEW p \in Proc, CopyFails(p) PROVE Numbered'
  BY <1>7 DEF CopyFails
<1>8. ASSUME NEW p \in Proc, OpenSQLite(p) PROVE Numbered'
  BY <1>8 DEF OpenSQLite, Rows, Replayed, Live, Write, Schema
<1>9. ASSUME NEW p \in Proc, OpenSQLiteFails(p) PROVE Numbered'
  BY <1>9 DEF OpenSQLiteFails
<1>10. ASSUME NEW p \in Proc, WriteRecord(p) PROVE Numbered'
  BY <1>10 DEF WriteRecord, Put, Write, Schema
<1>11. ASSUME NEW p \in Proc, WorkDone(p) PROVE Numbered'
  BY <1>11 DEF WorkDone
<1>12. ASSUME NEW p \in Proc, WorkFails(p) PROVE Numbered'
  BY <1>12 DEF WorkFails
<1>13. ASSUME NEW p \in Proc, PostCheck(p) PROVE Numbered'
  BY <1>13 DEF PostCheck
<1>14. ASSUME NEW p \in Proc, InsertRunHistory(p) PROVE Numbered'
  BY <1>14 DEF InsertRunHistory, Put, Write, Schema
<1>15. ASSUME NEW p \in Proc, Commit(p) PROVE Numbered'
  BY <1>15 DEF Commit
<1>16. ASSUME NEW p \in Proc, CommitFails(p) PROVE Numbered'
  BY <1>16 DEF CommitFails
<1>17. ASSUME NEW p \in Proc, Rollback(p) PROVE Numbered'
  BY <1>17 DEF Rollback
<1>18. ASSUME NEW p \in Proc, ComputeChecksum(p) PROVE Numbered'
  BY <1>18 DEF ComputeChecksum, Rows
<1>19. ASSUME NEW p \in Proc, TruncateCanary(p) PROVE Numbered'
  BY <1>19 DEF TruncateCanary
<1>20. ASSUME NEW p \in Proc, WriteCanary(p) PROVE Numbered'
  BY <1>20 DEF WriteCanary
<1>21. ASSUME NEW p \in Proc, SealFails(p) PROVE Numbered'
  BY <1>21 DEF SealFails
<1>22. ASSUME NEW p \in Proc, Crash(p) PROVE Numbered'
  BY <1>22 DEF Crash
<1>23. ASSUME NEW r \in Reader, ReaderOpen(r) PROVE Numbered'
  BY <1>23 DEF ReaderOpen
<1>24. ASSUME NEW r \in Reader, ReaderClose(r) PROVE Numbered'
  BY <1>24 DEF ReaderClose
<1>25. CASE CanaryVanishes
  BY <1>25 DEF CanaryVanishes
<1>26. CASE CanaryTouched
  BY <1>26 DEF CanaryTouched
<1>. QED
  BY <1>1, <1>2, <1>3, <1>4, <1>5, <1>6, <1>7, <1>8, <1>9, <1>10, <1>11,
     <1>12, <1>13, <1>14, <1>15, <1>16, <1>17, <1>18, <1>19, <1>20, <1>21,
     <1>22, <1>23, <1>24, <1>25, <1>26 DEF Next, ProcStep

LEMMA KeptStep ==
  ASSUME Exclusive, ~CrashInTransaction, TInv, Structure, Contents, [Next]_vars
  PROVE  Kept'
<1> USE NoFileAssumption DEF TInv, TypeOK, Owned, Structure, Alone, Placed, Apart,
    Contents, Numbered, Kept, Committed, Mine, Rows, Go, Working
<1>1. CASE UNCHANGED vars
  BY <1>1 DEF vars
<1>2. ASSUME NEW p \in Proc, Start(p) PROVE Kept'
  BY <1>2 DEF Start
<1>3. ASSUME NEW p \in Proc, RemoveStale(p) PROVE Kept'
  BY <1>3 DEF RemoveStale
<1>4. ASSUME NEW p \in Proc, CreateShadow(p) PROVE Kept'
  BY <1>4 DEF CreateShadow, Live
<1>5. ASSUME NEW p \in Proc, CreateShadowFails(p) PROVE Kept'
  BY <1>5 DEF CreateShadowFails
<1>6. ASSUME NEW p \in Proc, Copy(p) PROVE Kept'
  BY <1>6 DEF Copy, Rows
<1>7. ASSUME NEW p \in Proc, CopyFails(p) PROVE Kept'
  BY <1>7 DEF CopyFails
<1>8. ASSUME NEW p \in Proc, OpenSQLite(p) PROVE Kept'
  BY <1>8 DEF OpenSQLite, Rows, Replayed, Live, Write, Schema
<1>9. ASSUME NEW p \in Proc, OpenSQLiteFails(p) PROVE Kept'
  BY <1>9 DEF OpenSQLiteFails
<1>10. ASSUME NEW p \in Proc, WriteRecord(p) PROVE Kept'
  BY <1>10 DEF WriteRecord, Put
<1>11. ASSUME NEW p \in Proc, WorkDone(p) PROVE Kept'
  BY <1>11 DEF WorkDone
<1>12. ASSUME NEW p \in Proc, WorkFails(p) PROVE Kept'
  BY <1>12 DEF WorkFails
<1>13. ASSUME NEW p \in Proc, PostCheck(p) PROVE Kept'
  BY <1>13 DEF PostCheck
<1>14. ASSUME NEW p \in Proc, InsertRunHistory(p) PROVE Kept'
  BY <1>14 DEF InsertRunHistory, Put
<1>15. ASSUME NEW p \in Proc, Commit(p) PROVE Kept'
  BY <1>15 DEF Commit
<1>16. ASSUME NEW p \in Proc, CommitFails(p) PROVE Kept'
  BY <1>16 DEF CommitFails
<1>17. ASSUME NEW p \in Proc, Rollback(p) PROVE Kept'
  BY <1>17 DEF Rollback
<1>18. ASSUME NEW p \in Proc, ComputeChecksum(p) PROVE Kept'
  BY <1>18 DEF ComputeChecksum, Rows
<1>19. ASSUME NEW p \in Proc, TruncateCanary(p) PROVE Kept'
  BY <1>19 DEF TruncateCanary
<1>20. ASSUME NEW p \in Proc, WriteCanary(p) PROVE Kept'
  BY <1>20 DEF WriteCanary
<1>21. ASSUME NEW p \in Proc, SealFails(p) PROVE Kept'
  BY <1>21 DEF SealFails
<1>22. ASSUME NEW p \in Proc, Crash(p) PROVE Kept'
  BY <1>22 DEF Crash
<1>23. ASSUME NEW r \in Reader, ReaderOpen(r) PROVE Kept'
  BY <1>23 DEF ReaderOpen
<1>24. ASSUME NEW r \in Reader, ReaderClose(r) PROVE Kept'
  BY <1>24 DEF ReaderClose
<1>25. CASE CanaryVanishes
  BY <1>25 DEF CanaryVanishes
<1>26. CASE CanaryTouched
  BY <1>26 DEF CanaryTouched
<1>. QED
  BY <1>1, <1>2, <1>3, <1>4, <1>5, <1>6, <1>7, <1>8, <1>9, <1>10, <1>11,
     <1>12, <1>13, <1>14, <1>15, <1>16, <1>17, <1>18, <1>19, <1>20, <1>21,
     <1>22, <1>23, <1>24, <1>25, <1>26 DEF Next, ProcStep

LEMMA ContentsInvariant ==
  ASSUME Exclusive, ~CrashInTransaction
  PROVE  Spec => [](TInv /\ Structure /\ Contents)
<1>1. TInv /\ Structure /\ Contents /\ [Next]_vars => (TInv /\ Structure /\ Contents)'
  BY TInvStep, StructureStep, NumberedStep, KeptStep DEF Contents
<1>. QED
  BY TInvInit, StructureInit, ContentsInit, <1>1, PTL DEF Spec

-----------------------------------------------------------------------------
(* And bitrot.db holds nothing else. *)

Exact ==
    /\ ProdIsCommittedRuns
    /\ \A p \in Proc :
        /\ pc[p] = "open" => file[shadow] = Rows(prod)
        /\ pc[p] \in Working => file[shadow] = {Schema} \cup Committed \cup Mine(p)

LEMMA ExactInit == Init => Exact
  BY DEF Init, Exact, ProdIsCommittedRuns, Rows, Working

\* A statement of the current run, done or failed, leaves the committed ones alone.
LEMMA ExactPut ==
  ASSUME Exclusive, TInv, Structure, Contents, Exact,
         NEW p \in Proc, NEW w \in Write, w[1] = run[p], pc[p] \in Working, Put(p, w),
         \A q \in Proc \ {p} : pc'[q] = pc[q], pc'[p] \in Working,
         prod' = prod, shadow' = shadow, run' = run, committed' = committed
  PROVE  Exact'
<1> USE NoFileAssumption DEF TInv, TypeOK, Owned, Structure
<1>1. /\ shadow \in Inode /\ fd[p] = shadow /\ prod # shadow
      /\ run[p] \notin committed
      /\ \A q \in Proc : pc'[q] # "idle" => q = p
  BY DEF Alone, Placed, Apart, Contents, Numbered, Working
<1>2. Committed' = Committed
  BY <1>1 DEF Committed, Put
<1>3. Rows(prod)' = Rows(prod) /\ ProdIsCommittedRuns'
  BY <1>1, <1>2 DEF Rows, Exact, ProdIsCommittedRuns, Committed, Put
<1>4. file'[shadow] = {Schema} \cup Committed' \cup Mine(p)'
  <2>1. file[shadow] = {Schema} \cup Committed \cup Mine(p)
    BY DEF Exact
  <2>2. CASE UNCHANGED <<file, acked>>
    BY <1>2, <2>1, <2>2 DEF Mine
  <2>3. CASE file' = [file EXCEPT ![fd[p]] = @ \cup {w}] /\ acked' = acked \cup {w}
    <3>1. Mine(p)' = Mine(p) \cup {w}
      BY <2>3 DEF Mine
    <3>. QED
      BY <1>1, <1>2, <2>1, <2>3, <3>1
  <2>. QED
    BY <2>2, <2>3 DEF Put
<1>. QED
  BY <1>1, <1>3, <1>4 DEF Exact, Working

LEMMA ExactStep ==
  ASSUME Exclusive, ~CrashInTransaction, TInv, Structure, Contents, Exact, [Next]_vars
  PROVE  Exact'
<1> USE NoFileAssumption DEF TInv, TypeOK, Owned, Structure, Alone, Placed, Apart,
    Contents, Numbered, Kept, Exact, ProdIsCommittedRuns, Committed, Mine, Rows, Go, Working
<1>1. CASE UNCHANGED vars
  BY <1>1 DEF vars
<1>2. ASSUME NEW p \in Proc, Start(p) PROVE Exact'
  BY <1>2 DEF Start
<1>3. ASSUME NEW p \in Proc, RemoveStale(p) PROVE Exact'
  BY <1>3 DEF RemoveStale
<1>4. ASSUME NEW p \in Proc, CreateShadow(p) PROVE Exact'
  BY <1>4 DEF CreateShadow, Live
<1>5. ASSUME NEW p \in Proc, CreateShadowFails(p) PROVE Exact'
  BY <1>5 DEF CreateShadowFails
<1>6. ASSUME NEW p \in Proc, Copy(p) PROVE Exact'
  BY <1>6 DEF Copy, Rows
<1>7. ASSUME NEW p \in Proc, CopyFails(p) PROVE Exact'
  BY <1>7 DEF CopyFails
<1>8. ASSUME NEW p \in Proc, OpenSQLite(p) PROVE Exact'
  BY <1>8 DEF OpenSQLite, Rows, Replayed, Live, Write, Schema
<1>9. ASSUME NEW p \in Proc, OpenSQLiteFails(p) PROVE Exact'
  BY <1>9 DEF OpenSQLiteFails
<1>10. ASSUME NEW p \in Proc, WriteRecord(p) PROVE Exact'
  <2>1. <<run[p], nwrites[p] + 1>> \in Write
    BY <1>10, BoundsAssumption DEF WriteRecord, Write
  <2>2. /\ pc[p] \in Working /\ pc'[p] \in Working /\ \A q \in Proc \ {p} : pc'[q] = pc[q]
        /\ prod' = prod /\ shadow' = shadow /\ run' = run /\ committed' = committed
    BY <1>10 DEF WriteRecord
  <2>3. Put(p, <<run[p], nwrites[p] + 1>>)
    BY <1>10 DEF WriteRecord
  <2>. QED
    BY <2>1, <2>2, <2>3, ExactPut
<1>11. ASSUME NEW p \in Proc, WorkDone(p) PROVE Exact'
  BY <1>11 DEF WorkDone
<1>12. ASSUME NEW p \in Proc, WorkFails(p) PROVE Exact'
  BY <1>12 DEF WorkFails
<1>13. ASSUME NEW p \in Proc, PostCheck(p) PROVE Exact'
  BY <1>13 DEF PostCheck
<1>14. ASSUME NEW p \in Proc, InsertRunHistory(p) PROVE Exact'
  <2>1. <<run[p], 0>> \in Write
    BY <1>14, BoundsAssumption DEF InsertRunHistory, Write
  <2>2. /\ pc[p] \in Working /\ pc'[p] \in Working /\ \A q \in Proc \ {p} : pc'[q] = pc[q]
        /\ prod' = prod /\ shadow' = shadow /\ run' = run /\ committed' = committed
    BY <1>14 DEF InsertRunHistory
  <2>3. Put(p, <<run[p], 0>>)
    BY <1>14 DEF InsertRunHistory
  <2>. QED
    BY <2>1, <2>2, <2>3, ExactPut
<1>15. ASSUME NEW p \in Proc, Commit(p) PROVE Exact'
  BY <1>15 DEF Commit
<1>16. ASSUME NEW p \in Proc, CommitFails(p) PROVE Exact'
  BY <1>16 DEF CommitFails
<1>17. ASSUME NEW p \in Proc, Rollback(p) PROVE Exact'
  BY <1>17 DEF Rollback
<1>18. ASSUME NEW p \in Proc, ComputeChecksum(p) PROVE Exact'
  BY <1>18 DEF ComputeChecksum, Rows
<1>19. ASSUME NEW p \in Proc, TruncateCanary(p) PROVE Exact'
  BY <1>19 DEF TruncateCanary
<1>20. ASSUME NEW p \in Proc, WriteCanary(p) PROVE Exact'
  BY <1>20 DEF WriteCanary
<1>21. ASSUME NEW p \in Proc, SealFails(p) PROVE Exact'
  BY <1>21 DEF SealFails
<1>22. ASSUME NEW p \in Proc, Crash(p) PROVE Exact'
  BY <1>22 DEF Crash
<1>23. ASSUME NEW r \in Reader, ReaderOpen(r) PROVE Exact'
  BY <1>23 DEF ReaderOpen
<1>24. ASSUME NEW r \in Reader, ReaderClose(r) PROVE Exact'
  BY <1>24 DEF ReaderClose
<1>25. CASE CanaryVanishes
  BY <1>25 DEF CanaryVanishes
<1>26. CASE CanaryTouched
  BY <1>26 DEF CanaryTouched
<1>. QED
  BY <1>1, <1>2, <1>3, <1>4, <1>5, <1>6, <1>7, <1>8, <1>9, <1>10, <1>11,
     <1>12, <1>13, <1>14, <1>15, <1>16, <1>17, <1>18, <1>19, <1>20, <1>21,
     <1>22, <1>23, <1>24, <1>25, <1>26 DEF Next, ProcStep

LEMMA ExactInvariant ==
  ASSUME Exclusive, ~CrashInTransaction
  PROVE  Spec => [](TInv /\ Structure /\ Contents /\ Exact)
<1>1. TInv /\ Structure /\ Contents /\ Exact /\ [Next]_vars
        => (TInv /\ Structure /\ Contents /\ Exact)'
  BY TInvStep, StructureStep, NumberedStep, KeptStep, ExactStep DEF Contents
<1>. QED
  BY TInvInit, StructureInit, ContentsInit, ExactInit, <1>1, PTL DEF Spec

\* One run at a time, and no crash inside a transaction: bitrot.db holds exactly
\* the effects acknowledged to the runs that committed.
THEOREM ProdIsExact ==
  ASSUME Exclusive, ~CrashInTransaction PROVE Spec => []ProdIsCommittedRuns
<1>1. Exact => ProdIsCommittedRuns
  BY DEF Exact
<1>. QED
  BY ExactInvariant, <1>1, PTL

\* Under the same assumptions the swap implements the atomic database: a step
\* commits one run as a whole, or bitrot.db stays as it is.
THEOREM SwapImplementsAtomicDb ==
  ASSUME Exclusive, ~CrashInTransaction PROVE Spec => AtomicCommit
<1>1. Init => Abstract!AInit
  BY DEF Init, Abstract!AInit, Rows
<1>2. TInv /\ Structure /\ Contents /\ Exact /\ [Next]_vars
        => [Abstract!ANext]_(Abstract!avars)
  <2> SUFFICES ASSUME TInv, Structure, Contents, Exact, [Next]_vars
               PROVE  [Abstract!ANext]_(Abstract!avars)
    OBVIOUS
  <2>1. ASSUME NEW p \in Proc, Commit(p) PROVE Abstract!ANext
    <3> DEFINE W == {Schema} \cup Mine(p)
    <3> USE <2>1 DEF Commit, Working, TInv, TypeOK, Owned, Structure, Placed
    <3>1. run[p] \in Run /\ run[p] \notin committed /\ shadow \in Inode
      BY DEF Contents, Numbered
    <3>2. W \in SUBSET WritesOf(run[p])
      BY <3>1 DEF Mine, WritesOf, Write, Schema
    <3>3. Rows(shadow) = {Schema} \cup Committed \cup Mine(p)
      BY <3>1, NoFileAssumption DEF Exact, Rows
    <3>4. Rows(prod) \cup {Schema} = Committed \cup {Schema}
      BY DEF Exact, ProdIsCommittedRuns, Contents, Kept, Committed, Rows
    <3>5. Rows(prod)' = Rows(shadow)
      BY DEF Rows
    <3>6. Abstract!ACommit(run[p], W)
      BY <3>1, <3>3, <3>4, <3>5 DEF Abstract!ACommit
    <3>. QED
      BY <3>1, <3>2, <3>6 DEF Abstract!ANext
  <2>2. ASSUME prod' = prod, committed' = committed PROVE UNCHANGED Abstract!avars
    BY <2>2, Frame DEF Rows, Abstract!avars
  <2>3. CASE \A p \in Proc : ~Commit(p)
    <3>1. prod' = prod /\ committed' = committed
      BY <2>3 DEF Next, ProcStep, vars, Start, RemoveStale, CreateShadow,
         CreateShadowFails, Copy, CopyFails, OpenSQLite, OpenSQLiteFails,
         WriteRecord, WorkDone, WorkFails, PostCheck, InsertRunHistory,
         CommitFails, Rollback, ComputeChecksum, TruncateCanary,
         WriteCanary, SealFails, Crash, ReaderOpen, ReaderClose,
         CanaryVanishes, CanaryTouched
    <3>. QED
      BY <2>2, <3>1
  <2>. QED
    BY <2>1, <2>3
<1>. QED
  BY ExactInvariant, <1>1, <1>2, PTL DEF Spec, AtomicCommit, Abstract!ASpec

-----------------------------------------------------------------------------
(* What a run leaves behind. *)

\* The processes that have made a shadow and have to commit or remove it.
Holding == {"copy", "open", "rollback"} \cup Working

\* A shadow that no failure is known to have left belongs to a run.
Cleared == shadow # NoFile /\ ~litter => \E p \in Proc : pc[p] \in Holding

LEMMA ClearedStep ==
  ASSUME TypeOK, Cleared, [Next]_vars PROVE Cleared'
<1> USE NoFileAssumption DEF TypeOK, Cleared, Holding, Working, Go
<1>1. CASE UNCHANGED vars
  BY <1>1 DEF vars
<1>2. ASSUME NEW p \in Proc, Start(p) PROVE Cleared'
  BY <1>2 DEF Start
<1>3. ASSUME NEW p \in Proc, RemoveStale(p) PROVE Cleared'
  BY <1>3 DEF RemoveStale
<1>4. ASSUME NEW p \in Proc, CreateShadow(p) PROVE Cleared'
  BY <1>4 DEF CreateShadow, Live
<1>5. ASSUME NEW p \in Proc, CreateShadowFails(p) PROVE Cleared'
  BY <1>5 DEF CreateShadowFails
<1>6. ASSUME NEW p \in Proc, Copy(p) PROVE Cleared'
  BY <1>6 DEF Copy
<1>7. ASSUME NEW p \in Proc, CopyFails(p) PROVE Cleared'
  BY <1>7 DEF CopyFails
<1>8. ASSUME NEW p \in Proc, OpenSQLite(p) PROVE Cleared'
  BY <1>8 DEF OpenSQLite, Live
<1>9. ASSUME NEW p \in Proc, OpenSQLiteFails(p) PROVE Cleared'
  BY <1>9 DEF OpenSQLiteFails
<1>10. ASSUME NEW p \in Proc, WriteRecord(p) PROVE Cleared'
  BY <1>10 DEF WriteRecord
<1>11. ASSUME NEW p \in Proc, WorkDone(p) PROVE Cleared'
  BY <1>11 DEF WorkDone
<1>12. ASSUME NEW p \in Proc, WorkFails(p) PROVE Cleared'
  BY <1>12 DEF WorkFails
<1>13. ASSUME NEW p \in Proc, PostCheck(p) PROVE Cleared'
  BY <1>13 DEF PostCheck
<1>14. ASSUME NEW p \in Proc, InsertRunHistory(p) PROVE Cleared'
  BY <1>14 DEF InsertRunHistory
<1>15. ASSUME NEW p \in Proc, Commit(p) PROVE Cleared'
  BY <1>15 DEF Commit
<1>16. ASSUME NEW p \in Proc, CommitFails(p) PROVE Cleared'
  BY <1>16 DEF CommitFails
<1>17. ASSUME NEW p \in Proc, Rollback(p) PROVE Cleared'
  BY <1>17 DEF Rollback
<1>18. ASSUME NEW p \in Proc, ComputeChecksum(p) PROVE Cleared'
  BY <1>18 DEF ComputeChecksum
<1>19. ASSUME NEW p \in Proc, TruncateCanary(p) PROVE Cleared'
  BY <1>19 DEF TruncateCanary
<1>20. ASSUME NEW p \in Proc, WriteCanary(p) PROVE Cleared'
  BY <1>20 DEF WriteCanary
<1>21. ASSUME NEW p \in Proc, SealFails(p) PROVE Cleared'
  BY <1>21 DEF SealFails
<1>22. ASSUME NEW p \in Proc, Crash(p) PROVE Cleared'
  BY <1>22 DEF Crash
<1>23. ASSUME NEW r \in Reader, ReaderOpen(r) PROVE Cleared'
  BY <1>23 DEF ReaderOpen
<1>24. ASSUME NEW r \in Reader, ReaderClose(r) PROVE Cleared'
  BY <1>24 DEF ReaderClose
<1>25. CASE CanaryVanishes
  BY <1>25 DEF CanaryVanishes
<1>26. CASE CanaryTouched
  BY <1>26 DEF CanaryTouched
<1>. QED
  BY <1>1, <1>2, <1>3, <1>4, <1>5, <1>6, <1>7, <1>8, <1>9, <1>10, <1>11,
     <1>12, <1>13, <1>14, <1>15, <1>16, <1>17, <1>18, <1>19, <1>20, <1>21,
     <1>22, <1>23, <1>24, <1>25, <1>26 DEF Next, ProcStep

\* Whatever fails, and however many processes run on the drive, a run that has
\* ended leaves no shadow behind, but for the failures that cannot remove it.
THEOREM RunsCleanUp == Spec => []NoStaleShadow
<1>1. Init => TInv /\ Cleared
  BY TInvInit DEF Init, Cleared
<1>2. TInv /\ Cleared /\ [Next]_vars => (TInv /\ Cleared)'
  BY TInvStep, ClearedStep DEF TInv
<1>3. Cleared => NoStaleShadow
  BY DEF Cleared, NoStaleShadow, AtRest, Holding, Working
<1>. QED
  BY <1>1, <1>2, <1>3, PTL DEF Spec

Sealing == {"sum", "truncate", "seal"}

\* A checksum that no failure is known to have kept from being written is that
\* of bitrot.db, or a run is on its way to write it; the checksum in its hands
\* is that of bitrot.db as well.
Sealed ==
    /\ checksum # {} /\ ~unsealed =>
          checksum = Rows(prod) \/ \E p \in Proc : pc[p] \in Sealing
    /\ \A p \in Proc : pc[p] \in {"truncate", "seal"} => sum[p] = Rows(prod)
    /\ \A p \in Proc : pc[p] = "seal" => checksum = {}

LEMMA ProdSame ==
  ASSUME TInv, Structure, [Next]_vars, prod' = prod PROVE Rows(prod)' = Rows(prod)
BY Frame DEF Rows

LEMMA SealedStep ==
  ASSUME TInv, Structure, Sealed, [Next]_vars PROVE Sealed'
<1> DEFINE rows == Rows(prod)
<1>0. prod' = prod => rows' = rows
  BY ProdSame
<1> HIDE DEF rows
<1> DEFINE Fine == /\ checksum # {} /\ ~unsealed =>
                         checksum = rows \/ \E p \in Proc : pc[p] \in Sealing
                   /\ \A p \in Proc : pc[p] \in {"truncate", "seal"} => sum[p] = rows
                   /\ \A p \in Proc : pc[p] = "seal" => checksum = {}
<1>f. (Sealed <=> Fine) /\ (Sealed' <=> Fine')
  BY DEF Sealed, rows
<1> SUFFICES Fine'
  BY <1>f
<1> USE <1>0, <1>f DEF TInv, TypeOK, Structure, Alone, Sealing, Working, Go
<1>1. CASE UNCHANGED vars
  BY <1>1 DEF vars
<1>2. ASSUME NEW p \in Proc, Start(p) PROVE Fine'
  BY <1>2 DEF Start
<1>3. ASSUME NEW p \in Proc, RemoveStale(p) PROVE Fine'
  BY <1>3 DEF RemoveStale
<1>4. ASSUME NEW p \in Proc, CreateShadow(p) PROVE Fine'
  BY <1>4 DEF CreateShadow, Live
<1>5. ASSUME NEW p \in Proc, CreateShadowFails(p) PROVE Fine'
  BY <1>5 DEF CreateShadowFails
<1>6. ASSUME NEW p \in Proc, Copy(p) PROVE Fine'
  BY <1>6 DEF Copy
<1>7. ASSUME NEW p \in Proc, CopyFails(p) PROVE Fine'
  BY <1>7 DEF CopyFails
<1>8. ASSUME NEW p \in Proc, OpenSQLite(p) PROVE Fine'
  BY <1>8 DEF OpenSQLite, Live
<1>9. ASSUME NEW p \in Proc, OpenSQLiteFails(p) PROVE Fine'
  BY <1>9 DEF OpenSQLiteFails
<1>10. ASSUME NEW p \in Proc, WriteRecord(p) PROVE Fine'
  BY <1>10 DEF WriteRecord
<1>11. ASSUME NEW p \in Proc, WorkDone(p) PROVE Fine'
  BY <1>11 DEF WorkDone
<1>12. ASSUME NEW p \in Proc, WorkFails(p) PROVE Fine'
  BY <1>12 DEF WorkFails
<1>13. ASSUME NEW p \in Proc, PostCheck(p) PROVE Fine'
  BY <1>13 DEF PostCheck
<1>14. ASSUME NEW p \in Proc, InsertRunHistory(p) PROVE Fine'
  BY <1>14 DEF InsertRunHistory
<1>15. ASSUME NEW p \in Proc, Commit(p) PROVE Fine'
  BY <1>15 DEF Commit
<1>16. ASSUME NEW p \in Proc, CommitFails(p) PROVE Fine'
  BY <1>16 DEF CommitFails
<1>17. ASSUME NEW p \in Proc, Rollback(p) PROVE Fine'
  BY <1>17 DEF Rollback
<1>18. ASSUME NEW p \in Proc, ComputeChecksum(p) PROVE Fine'
  BY <1>18 DEF ComputeChecksum, rows
<1>19. ASSUME NEW p \in Proc, TruncateCanary(p) PROVE Fine'
  BY <1>19 DEF TruncateCanary
<1>20. ASSUME NEW p \in Proc, WriteCanary(p) PROVE Fine'
  BY <1>20 DEF WriteCanary
<1>21. ASSUME NEW p \in Proc, SealFails(p) PROVE Fine'
  BY <1>21 DEF SealFails
<1>22. ASSUME NEW p \in Proc, Crash(p) PROVE Fine'
  BY <1>22 DEF Crash
<1>23. ASSUME NEW r \in Reader, ReaderOpen(r) PROVE Fine'
  BY <1>23 DEF ReaderOpen
<1>24. ASSUME NEW r \in Reader, ReaderClose(r) PROVE Fine'
  BY <1>24 DEF ReaderClose
<1>25. CASE CanaryVanishes
  BY <1>25 DEF CanaryVanishes
<1>26. CASE CanaryTouched
  BY <1>26 DEF CanaryTouched
<1>. QED
  BY <1>1, <1>2, <1>3, <1>4, <1>5, <1>6, <1>7, <1>8, <1>9, <1>10, <1>11,
     <1>12, <1>13, <1>14, <1>15, <1>16, <1>17, <1>18, <1>19, <1>20, <1>21,
     <1>22, <1>23, <1>24, <1>25, <1>26 DEF Next, ProcStep

\* One run at a time, a stored checksum is that of bitrot.db between runs, unless
\* an interrupted or failed update of the canary left an older one.
THEOREM CanaryIsTrue == ASSUME Exclusive PROVE Spec => []CanaryMatches
<1>1. Init => Sealed
  BY DEF Init, Sealed
<1>2. TInv /\ Structure /\ Sealed /\ [Next]_vars => Sealed'
  BY SealedStep
<1>3. Sealed => CanaryMatches
  BY DEF Sealed, Sealing, CanaryMatches, AtRest
<1>. QED
  BY <1>1, <1>2, <1>3, StructureInvariant, PTL DEF Spec
=============================================================================
