------------------------ MODULE ScrubRotationProofs ------------------------
(***************************************************************************)
(* Theorems about ScrubRotation: its types, for any files, quotas, filters *)
(* and bounds, and how long a file may wait, for any files and quotas.     *)
(***************************************************************************)
EXTENDS ScrubRotation, FiniteSetTheorems, TLAPS

\* What a run selects are files with a record.
LEMMA SelectionsAreFiles == \A s \in Selections : s \subseteq File
BY DEF Selections, Eligible

\* Ages stay within their bound.
LEMMA OlderInRange ==
    ASSUME age \in [File -> 0 .. MaxAge], NEW f \in File
    PROVE  Older(f) \in 0 .. MaxAge
BY RotationAssumption DEF Older

\* A step of a run, of its context or of the disk keeps the types.
LEMMA ScrubTypeStep == ScrubTypeOK /\ [ScrubNext]_scrubVars => ScrubTypeOK'
<1> SUFFICES ASSUME ScrubTypeOK, [ScrubNext]_scrubVars PROVE ScrubTypeOK'
  OBVIOUS
<1> USE DEF ScrubTypeOK
<1>1. CASE BeginScrub
  <2>1. queue' \subseteq File
    BY <1>1, SelectionsAreFiles DEF BeginScrub
  <2>2. age' \in [File -> 0 .. MaxAge]
    BY <1>1, OlderInRange DEF BeginScrub
  <2>. QED
    BY <1>1, <2>1, <2>2 DEF BeginScrub
<1>2. ASSUME NEW f \in File, Validate(f) \/ Mismatch(f) \/ CheckFails(f)
      PROVE  ScrubTypeOK'
  BY <1>2 DEF Validate, Mismatch, CheckFails, Checking
<1>3. ASSUME NEW f \in File, CheckLost(f) PROVE ScrubTypeOK'
  <2>1. stops' \in 0 .. MaxStops
    BY <1>3, RotationAssumption DEF CheckLost
  <2>2. cancelled' \in BOOLEAN
    <3>1. CASE cancelled' = TRUE
      BY <3>1
    <3>2. CASE cancelled' = cancelled
      BY <3>2
    <3>. QED
      BY <1>3, <3>1, <3>2 DEF CheckLost
  <2>3. /\ queue' \subseteq File
        /\ UNCHANGED <<minAge, content, age, phase, validated, mismatched, reported, wait>>
    BY <1>3 DEF CheckLost, Checking
  <2>. QED
    BY <2>1, <2>2, <2>3
<1>4. CASE FinishScrub
  <2>1. age' \in [File -> 0 .. MaxAge]
    BY <1>4, RotationAssumption DEF FinishScrub
  <2>2. wait' \in [File -> 0 .. MaxAge]
    BY <1>4, RotationAssumption DEF FinishScrub
  <2>. QED
    BY <1>4, <2>1, <2>2 DEF FinishScrub
<1>5. CASE StopScrub
  BY <1>5 DEF StopScrub
<1>6. CASE CancelScrub
  BY <1>6, RotationAssumption DEF CancelScrub
<1>7. ASSUME NEW f \in File, Decay(f) PROVE ScrubTypeOK'
  BY <1>7, RotationAssumption DEF Decay, runVars
<1>8. ASSUME NEW f \in File, Restore(f) PROVE ScrubTypeOK'
  BY <1>8, RotationAssumption DEF Restore, runVars
<1>9. CASE LoseRun
  <2>1. stops' \in 0 .. MaxStops
    BY <1>9, RotationAssumption DEF LoseRun
  <2>. QED
    BY <1>9, <2>1 DEF LoseRun
<1>10. CASE UNCHANGED scrubVars
  BY <1>10 DEF scrubVars, runVars
<1>. QED
  BY <1>1, <1>2, <1>3, <1>4, <1>5, <1>6, <1>7, <1>8, <1>9, <1>10 DEF ScrubNext, ScrubStep

LEMMA ScrubTypeInit == ScrubInit => ScrubTypeOK
<1> SUFFICES ASSUME ScrubInit PROVE ScrubTypeOK
  OBVIOUS
<1>1. 0 \in 0 .. MaxAge /\ MaxAge \in 0 .. MaxAge /\ 0 \in 0 .. MaxStops
  BY RotationAssumption
<1>2. age \in [File -> 0 .. MaxAge] /\ wait \in [File -> 0 .. MaxAge]
  BY <1>1 DEF ScrubInit
<1>3. content \in [File -> {"good", "rotten", "unreadable"}]
  BY DEF ScrubInit
<1>4. minAge \in 0 .. MaxAge
  BY RotationAssumption DEF ScrubInit
<1>. QED
  BY <1>1, <1>2, <1>3, <1>4 DEF ScrubInit, ScrubTypeOK

\* Whatever is selected, checked, lost or restored, every variable of the
\* rotation keeps its type, ages and waits their bound.
THEOREM ScrubTypeCorrect == ScrubSpec => []ScrubTypeOK
<1>. QED
  BY ScrubTypeInit, ScrubTypeStep, PTL DEF ScrubSpec

-----------------------------------------------------------------------------
(* No good file waits for longer than the rotation needs to go round. *)

N == Cardinality(File)

\* The slots of a run that are left to good files.
Slots == Quota(N) - MaxBad

\* The quota is a number of files, and no more than there are.
LEMMA QuotaBounds ==
  ASSUME NEW k \in Nat
  PROVE  Quota(k) \in Nat /\ Quota(k) <= k /\ (k > 0 => Quota(k) > 0)
<1>1. (k * Percent) \div Whole \in Int
  BY RotationAssumption
<1>. QED
  BY <1>1 DEF Quota

LEMMA Numbers == N \in Nat /\ Quota(N) \in Nat /\ Quota(N) <= N /\ Slots \in Int
  BY FileAssumption, FS_CardinalityType, QuotaBounds, RotationAssumption DEF N, Slots

\* A multiple of a positive number grows with its factor, one by one.
LEMMA Multiples ==
  ASSUME NEW a \in Int, NEW b \in Int, NEW m \in Int, m > 0
  PROVE  /\ a * m \in Int /\ (a + 1) * m = a * m + m /\ (a + b) * m = a * m + b * m
         /\ (a - b) * m = a * m - b * m
         /\ a * m < b * m => a < b
         /\ a <= b => a * m <= b * m
  OBVIOUS

\* Without an age filter every file is eligible.
LEMMA SelectsOldest ==
  ASSUME ScrubTypeOK, minAge = 0, NEW s \in Selections
  PROVE  /\ s \subseteq File /\ Cardinality(s) = Quota(N)
         /\ \A f \in s, g \in File \ s : age[f] >= age[g]
<1>1. Eligible = File
  BY DEF ScrubTypeOK, Eligible
<1>. QED
  BY <1>1 DEF Selections, N

\* As long as the bound on ages is out of reach of the rotation.
Room == N + stops * Slots <= MaxAge * Slots

\* Since f was last verified the files d have been, once or more; each completed
\* run has verified Slots of them, but for k runs in which a check was lost.  The
\* other stops, up to s, have aged the files without completing a run.
Passed(f, d, k, s) ==
    /\ f \notin d
    /\ wait[f] * Slots <= Cardinality(d) + k * Slots
    /\ \A g \in d : /\ age[g] < age[f] \/ age[f] = MaxAge
                    /\ age[g] <= wait[f] + s - k

BetweenRuns ==
    phase = "idle" =>
        /\ ~cancelled
        /\ Room => \A f \in File : \E d \in SUBSET File, k \in 0 .. stops :
                       Passed(f, d, k, stops)

\* During a run: the files it selected, and the stops there were before it.
\* Unless there was one in this run, what it has checked is verified or bad.
InRun(sel, before) ==
    /\ Cardinality(sel) = Quota(N) /\ queue \subseteq sel /\ validated \subseteq sel
    /\ cancelled => before < stops
    /\ before = stops => sel \ (queue \cup validated) \subseteq Bad
    /\ \A f \in File : \E d \in SUBSET File, k \in 0 .. before :
         Passed(f, d, k, before + 1) /\ (f \notin sel => sel \cap d = {})

DuringRun ==
    phase = "scrub" =>
        /\ \A f \in File : age[f] >= 1
        /\ Room => \E sel \in SUBSET File, before \in 0 .. stops : InRun(sel, before)

FewBad == Cardinality(Bad) <= MaxBad

WaitInv == ScrubTypeOK /\ FewBad /\ BetweenRuns /\ DuringRun

LEMMA WaitInvInit == ScrubInit => WaitInv
<1> SUFFICES ASSUME ScrubInit PROVE WaitInv
  OBVIOUS
<1>1. ScrubTypeOK
  BY ScrubTypeInit
<1>2. FewBad
  <2>1. Bad = {}
    BY DEF ScrubInit, Bad
  <2>. QED
    BY <2>1, FS_EmptySet, RotationAssumption DEF FewBad
<1>3. ASSUME NEW f \in File PROVE Passed(f, {}, 0, stops)
  BY <1>3, Numbers, FS_EmptySet DEF ScrubInit, Passed
<1>4. BetweenRuns
  BY <1>3, RotationAssumption DEF ScrubInit, BetweenRuns
<1>. QED
  BY <1>1, <1>2, <1>4 DEF WaitInv, DuringRun, ScrubInit

\* Files turn bad one at a time, while there is room for one more.
LEMMA FewBadStep ==
  ASSUME ScrubTypeOK, FewBad, [ScrubNext]_scrubVars
  PROVE  FewBad'
<1>1. IsFiniteSet(Bad)
  BY FileAssumption, FS_Subset DEF Bad
<1>2. ASSUME NEW f \in File, Decay(f) PROVE FewBad'
  <2>1. Bad' \subseteq Bad \cup {f}
    BY <1>2 DEF Decay, Bad, ScrubTypeOK
  <2>2. /\ IsFiniteSet(Bad \cup {f})
        /\ Cardinality(Bad \cup {f}) <= Cardinality(Bad) + 1
    BY <1>1, FS_AddElement, FS_CardinalityType
  <2>3. Cardinality(Bad') <= Cardinality(Bad \cup {f}) /\ Cardinality(Bad') \in Nat
    BY <2>1, <2>2, FS_Subset, FS_CardinalityType
  <2>. QED
    BY <1>1, <1>2, <2>2, <2>3, FS_AddElement, FS_CardinalityType, RotationAssumption
       DEF Decay, FewBad
<1>3. ASSUME NEW f \in File, Restore(f) PROVE FewBad'
  <2>1. Bad' \subseteq Bad
    BY <1>3 DEF Restore, Bad, ScrubTypeOK
  <2>. QED
    BY <1>1, <2>1, FS_Subset, FS_CardinalityType, RotationAssumption DEF FewBad
<1>4. CASE UNCHANGED content
  BY <1>4 DEF FewBad, Bad
<1>5. ASSUME ScrubStep \/ CancelScrub \/ LoseRun \/ \E f \in File : CheckLost(f)
      PROVE  UNCHANGED content
  BY <1>5 DEF ScrubStep, BeginScrub, FinishScrub, StopScrub, Validate, Mismatch, CheckFails,
              CancelScrub, LoseRun, CheckLost
<1>. QED
  BY <1>2, <1>3, <1>4, <1>5 DEF ScrubNext, scrubVars

\* Stops only become more, and what room there is only becomes less.
LEMMA StopsGrow ==
  ASSUME ScrubTypeOK, Slots > 0, [ScrubNext]_scrubVars
  PROVE  /\ stops \in Nat /\ stops' \in Nat /\ stops <= stops'
         /\ Room' => Room
<1>1. stops \in Nat /\ stops' \in Nat /\ stops <= stops'
  <2>1. stops \in Nat
    BY RotationAssumption DEF ScrubTypeOK
  <2>2. stops' = stops \/ stops' = stops + 1
    BY DEF ScrubNext, scrubVars, ScrubStep, BeginScrub, FinishScrub, StopScrub, Validate, Mismatch, CheckFails,
       Checking, CheckLost, CancelScrub, LoseRun, Decay, Restore
  <2>. QED
    BY <2>1, <2>2
<1>2. stops * Slots <= stops' * Slots /\ stops * Slots \in Int /\ stops' * Slots \in Int
  <2>1. \A a, b \in Int : a * Slots \in Int /\ (a <= b => a * Slots <= b * Slots)
    BY Multiples, Numbers
  <2>. QED
    BY <1>1, <2>1
<1>3. MaxAge * Slots \in Int
  BY Multiples, Numbers, RotationAssumption
<1>. QED
  BY <1>1, <1>2, <1>3, Numbers DEF Room

\* While there is room, a file that has been passed is younger than the one it
\* passed: it cannot be selected before it.
LEMMA PassedIsYounger ==
  ASSUME ScrubTypeOK, Slots > 0, Room, NEW f \in File, NEW d \in SUBSET File,
         NEW k \in 0 .. stops, Passed(f, d, k, stops), NEW g \in d
  PROVE  age[g] < age[f]
<1>1. /\ wait[f] \in Nat /\ stops \in Nat /\ k \in Nat /\ age[g] \in Nat /\ MaxAge \in Nat
  BY RotationAssumption DEF ScrubTypeOK
<1>2. Cardinality(d) \in Nat /\ Cardinality(d) < N
  <2>1. f \notin d /\ IsFiniteSet(File \ {f}) /\ Cardinality(File \ {f}) = N - 1
    BY FileAssumption, FS_RemoveElement DEF Passed, N
  <2>2. d \in SUBSET (File \ {f})
    BY <2>1
  <2>. QED
    BY <2>1, <2>2, Numbers, FS_Subset, FS_CardinalityType
<1>3. /\ (wait[f] + stops - k) * Slots = wait[f] * Slots + stops * Slots - k * Slots
      /\ wait[f] * Slots \in Int /\ stops * Slots \in Int /\ k * Slots \in Int
      /\ MaxAge * Slots \in Int
  BY <1>1, Multiples, Numbers
<1>4. (wait[f] + stops - k) * Slots < MaxAge * Slots
  BY <1>2, <1>3, Numbers DEF Passed, Room
<1>5. wait[f] + stops - k < MaxAge
  BY <1>1, <1>4, Multiples, Numbers
<1>. QED
  BY <1>1, <1>5 DEF Passed

\* What does not touch the ages, the waits or the stops of the runs before does
\* not touch who has been passed.
LEMMA PassedSame ==
  ASSUME UNCHANGED <<age, wait>>, NEW f, NEW d, NEW k, NEW s, Passed(f, d, k, s)
  PROVE  Passed(f, d, k, s)'
  BY DEF Passed

LEMMA BeginStep ==
  ASSUME WaitInv, Slots > 0, minAge = 0, BeginScrub
  PROVE  BetweenRuns' /\ DuringRun'
<1> USE DEF WaitInv
<1>1. /\ age \in [File -> 0 .. MaxAge] /\ wait \in [File -> 0 .. MaxAge]
      /\ MaxAge \in Nat \ {0} /\ stops \in Nat
  BY RotationAssumption DEF ScrubTypeOK
<1>2. /\ phase = "idle" /\ phase' = "scrub" /\ queue' \in Selections /\ validated' = {}
      /\ age' = [f \in File |-> Older(f)] /\ UNCHANGED <<wait, stops, cancelled, content>>
  BY DEF BeginScrub
<1>3. \A f \in File : age'[f] >= 1
  BY <1>1, <1>2 DEF Older
<1>4. ASSUME Room, NEW sel \in SUBSET File, sel = queue', NEW before \in Nat, before = stops
      PROVE  InRun(sel, before)'
  <2>1. /\ Cardinality(sel) = Quota(N)
        /\ \A f \in sel, g \in File \ sel : age[f] >= age[g]
    BY <1>2, <1>4, SelectsOldest
  <2>2. ~cancelled'
    BY <1>2 DEF BetweenRuns
  <2>3. sel \ (queue' \cup validated') \subseteq Bad'
    BY <1>4
  <2>4. ASSUME NEW f \in File
        PROVE  \E d \in SUBSET File, k \in 0 .. before :
                 Passed(f, d, k, before + 1)' /\ (f \notin sel => sel \cap d = {})
    <3>1. PICK d \in SUBSET File, k \in 0 .. before : Passed(f, d, k, stops)
      BY <1>2, <1>4 DEF BetweenRuns
    <3>2. \A g \in d : age[g] < age[f]
      BY <1>4, <3>1, PassedIsYounger
    <3>3. f \notin sel => sel \cap d = {}
      <4> SUFFICES ASSUME f \notin sel, NEW g \in sel \cap d PROVE FALSE
        OBVIOUS
      <4>1. age[g] >= age[f] /\ age[g] < age[f] /\ age[g] \in Nat /\ age[f] \in Nat
        BY <1>1, <2>1, <3>2
      <4>. QED
        BY <4>1
    <3>4. ASSUME NEW g \in d
          PROVE  /\ age'[g] < age'[f] \/ age'[f] = MaxAge
                 /\ age'[g] <= wait[f] + (before + 1) - k
      <4>1. age[g] <= wait[f] + before - k /\ age[g] < age[f] /\ g \in File /\ k \in Nat
        BY <1>4, <3>1, <3>2 DEF Passed
      <4>2. /\ age'[g] = Older(g) /\ age'[f] = Older(f) /\ wait[f] \in Nat
            /\ age[g] \in 0 .. MaxAge /\ age[f] \in 0 .. MaxAge
        BY <1>1, <1>2, <4>1
      <4>. QED
        BY <1>1, <4>1, <4>2 DEF Older
    <3>5. Passed(f, d, k, before + 1)'
      BY <1>2, <3>1, <3>4 DEF Passed
    <3>. QED
      BY <3>1, <3>3, <3>5
  <2>. QED
    BY <1>2, <1>4, <2>1, <2>2, <2>3, <2>4 DEF InRun
<1>5. Room' => \E sel \in SUBSET File, before \in 0 .. stops' : InRun(sel, before)'
  <2>1. queue' \in SUBSET File /\ stops \in 0 .. stops'
    BY <1>1, <1>2, SelectsOldest
  <2>2. Room' => Room
    BY <1>2 DEF Room
  <2>. QED
    BY <1>1, <1>2, <1>4, <2>1, <2>2
<1>. QED
  BY <1>2, <1>3, <1>5 DEF BetweenRuns, DuringRun

\* The steps during a run leave its ages and waits alone.
LEMMA CheckStep ==
  ASSUME WaitInv, Slots > 0, [ScrubNext]_scrubVars, phase = "scrub", phase' = "scrub",
         UNCHANGED <<age, wait>>,
         queue' \subseteq queue, validated \subseteq validated',
         validated' \ validated \subseteq queue,
         \/ /\ UNCHANGED <<content, stops, cancelled>>
            /\ queue \ queue' \subseteq validated' \cup Bad
         \/ stops < stops'
  PROVE  BetweenRuns' /\ DuringRun'
<1> USE DEF WaitInv
<1>1. stops \in Nat /\ stops' \in Nat /\ (Room' => Room) /\ stops <= stops'
  BY StopsGrow
<1>2. UNCHANGED content => Bad' = Bad
  BY DEF Bad
<1>3. ASSUME Room' PROVE \E sel \in SUBSET File, before \in 0 .. stops' : InRun(sel, before)'
  <2>1. PICK sel \in SUBSET File, before \in 0 .. stops : InRun(sel, before)
    BY <1>1, <1>3 DEF DuringRun
  <2>2. before \in 0 .. stops' /\ before \in Nat
    BY <1>1, <2>1
  <2>3. Cardinality(sel) = Quota(N) /\ queue' \subseteq sel /\ validated' \subseteq sel
    <3>1. Cardinality(sel) = Quota(N) /\ queue \subseteq sel /\ validated \subseteq sel
      BY <2>1 DEF InRun
    <3>2. \A x \in validated' : x \in validated \/ x \in queue
      OBVIOUS
    <3>. QED
      BY <3>1, <3>2
  <2>4. cancelled' => before < stops'
    <3>1. CASE UNCHANGED <<stops, cancelled>>
      BY <2>1, <3>1 DEF InRun
    <3>2. CASE stops < stops'
      BY <1>1, <2>2, <3>2
    <3>. QED
      BY <3>1, <3>2
  <2>5. before = stops' => sel \ (queue' \cup validated') \subseteq Bad'
    BY <1>1, <1>2, <2>1, <2>2 DEF InRun
  <2>6. \A f \in File : \E d \in SUBSET File, k \in 0 .. before :
          Passed(f, d, k, before + 1)' /\ (f \notin sel => sel \cap d = {})
    <3> TAKE f \in File
    <3>1. PICK d \in SUBSET File, k \in 0 .. before :
            Passed(f, d, k, before + 1) /\ (f \notin sel => sel \cap d = {})
      BY <2>1 DEF InRun
    <3>2. Passed(f, d, k, before + 1)'
      BY <3>1, PassedSame
    <3>. QED
      BY <3>1, <3>2
  <2>7. InRun(sel, before)'
    BY <2>3, <2>4, <2>5, <2>6 DEF InRun
  <2>. QED
    BY <2>2, <2>7
<1>. QED
  BY <1>3 DEF BetweenRuns, DuringRun

\* A run that stops, or whose result is all that is kept, has aged the files by one
\* run, and one stop is its own.
LEMMA StopStep ==
  ASSUME WaitInv, Slots > 0, [ScrubNext]_scrubVars, StopScrub \/ LoseRun
  PROVE  BetweenRuns' /\ DuringRun'
<1> USE DEF WaitInv
<1>1. /\ UNCHANGED <<content, age, wait>> /\ phase = "scrub" /\ phase' = "idle"
      /\ ~cancelled' /\ stops \in Nat /\ stops' \in Nat
      /\ (cancelled /\ stops' = stops) \/ stops' = stops + 1
      /\ (Room' => Room)
  BY StopsGrow DEF StopScrub, LoseRun
<1>2. ASSUME Room, NEW f \in File
      PROVE  \E d \in SUBSET File, k \in 0 .. stops' : Passed(f, d, k, stops')
  <2>1. PICK sel \in SUBSET File, before \in 0 .. stops : InRun(sel, before)
    BY <1>1, <1>2 DEF DuringRun
  <2>2. before < stops' /\ before \in Nat
    BY <1>1, <2>1 DEF InRun
  <2>3. PICK d \in SUBSET File, k \in 0 .. before : Passed(f, d, k, before + 1)
    BY <2>1 DEF InRun
  <2>4. k \in 0 .. stops' /\ k \in Nat
    BY <1>1, <2>2
  <2>5. ASSUME NEW g \in d PROVE age[g] <= wait[f] + stops' - k
    <3>1. age[g] <= wait[f] + (before + 1) - k /\ age[g] \in Nat /\ wait[f] \in Nat
      BY <2>3 DEF Passed, ScrubTypeOK
    <3>. QED
      BY <1>1, <2>2, <2>4, <3>1
  <2>6. Passed(f, d, k, stops')
    BY <2>3, <2>5 DEF Passed
  <2>. QED
    BY <2>4, <2>6
<1>3. ASSUME Room', NEW f \in File
      PROVE  \E d \in SUBSET File, k \in 0 .. stops' : Passed(f, d, k, stops)'
  <2>1. PICK d \in SUBSET File, k \in 0 .. stops' : Passed(f, d, k, stops')
    BY <1>1, <1>2, <1>3
  <2>2. Passed(f, d, k, stops)'
    BY <1>1, <2>1 DEF Passed
  <2>. QED
    BY <2>2
<1>. QED
  BY <1>1, <1>3 DEF BetweenRuns, DuringRun

\* A completed run in which nothing was lost has verified at least Slots files.
LEMMA VerifiedFiles ==
  ASSUME WaitInv, NEW sel \in SUBSET File, NEW before, InRun(sel, before),
         before = stops, queue = {}
  PROVE  Cardinality(validated) \in Nat /\ Cardinality(validated) >= Slots
<1> USE DEF WaitInv
<1>1. sel \subseteq validated \cup Bad /\ validated \subseteq sel
  BY DEF InRun
<1>2. IsFiniteSet(validated) /\ IsFiniteSet(Bad)
  BY FileAssumption, FS_Subset DEF ScrubTypeOK, Bad
<1>3. /\ IsFiniteSet(validated \cup Bad)
      /\ Cardinality(validated \cup Bad) <= Cardinality(validated) + Cardinality(Bad)
      /\ Cardinality(validated) \in Nat /\ Cardinality(Bad) \in Nat
      /\ Cardinality(validated \cup Bad) \in Nat
  <2>1. IsFiniteSet(validated \cap Bad)
    BY <1>2, FS_Subset
  <2>2. /\ Cardinality(validated \cap Bad) \in Nat
        /\ Cardinality(validated) \in Nat /\ Cardinality(Bad) \in Nat
    BY <1>2, <2>1, FS_CardinalityType
  <2>3. /\ IsFiniteSet(validated \cup Bad)
        /\ Cardinality(validated \cup Bad)
             = Cardinality(validated) + Cardinality(Bad) - Cardinality(validated \cap Bad)
    BY <1>2, FS_Union
  <2>4. Cardinality(validated \cup Bad) \in Nat
    BY <2>3, FS_CardinalityType
  <2>. QED
    BY <2>2, <2>3, <2>4
<1>4. Cardinality(sel) <= Cardinality(validated \cup Bad)
  BY <1>1, <1>3, FS_Subset
<1>. QED
  BY <1>3, <1>4, Numbers, RotationAssumption DEF InRun, FewBad, Slots

\* A file that is good and was not verified by the run that ends has been passed
\* by those that were, or the run lost a check.
LEMMA FinishFile ==
  ASSUME WaitInv, Slots > 0, FinishScrub, NEW sel \in SUBSET File, NEW before \in 0 .. stops,
         InRun(sel, before), NEW f \in File, f \notin validated, content[f] = "good"
  PROVE  \E d \in SUBSET File, k \in 0 .. stops : Passed(f, d, k, stops)'
<1> USE DEF WaitInv
<1>1. /\ age \in [File -> 0 .. MaxAge] /\ wait \in [File -> 0 .. MaxAge]
      /\ MaxAge \in Nat \ {0} /\ stops \in Nat /\ before \in Nat /\ before <= stops
  BY RotationAssumption DEF ScrubTypeOK
<1>2. /\ queue = {} /\ stops' = stops /\ phase = "scrub"
      /\ age' = [g \in File |-> IF g \in validated THEN 0 ELSE age[g]]
      /\ wait'[f] = IF wait[f] = MaxAge THEN MaxAge ELSE wait[f] + 1
  BY DEF FinishScrub
<1>3. PICK d \in SUBSET File, k \in 0 .. before :
        Passed(f, d, k, before + 1) /\ (f \notin sel => sel \cap d = {})
  BY DEF InRun
<1>4. /\ k \in Nat /\ k <= before /\ wait[f] \in Nat /\ wait[f] <= MaxAge
      /\ wait[f] * Slots <= Cardinality(d) + k * Slots /\ f \notin d
  BY <1>1, <1>3 DEF Passed
<1>5. Cardinality(d) \in Nat
  BY FileAssumption, FS_Subset, FS_CardinalityType
<1>6. ASSUME NEW g \in d \cup validated
      PROVE  /\ age'[g] < age'[f] \/ age'[f] = MaxAge
             /\ age'[g] \in 0 .. MaxAge
             /\ age'[g] <= wait[f] + before + 1 - k
  <2>1. age'[f] = age[f] /\ age[f] \in Nat /\ age[f] >= 1 /\ g \in File
    BY <1>1, <1>2 DEF DuringRun, ScrubTypeOK
  <2>2. CASE g \in validated
    BY <1>1, <1>2, <1>4, <2>1, <2>2
  <2>3. CASE g \notin validated
    <3>1. /\ age'[g] = age[g] /\ age[g] \in 0 .. MaxAge
          /\ age[g] < age[f] \/ age[f] = MaxAge
          /\ age[g] <= wait[f] + (before + 1) - k
      BY <1>1, <1>2, <1>3, <1>6, <2>1, <2>3 DEF Passed
    <3>. QED
      BY <1>1, <1>4, <2>1, <3>1
  <2>. QED
    BY <2>2, <2>3
<1>7. CASE wait[f] = MaxAge
  <2>1. \A g \in d : age'[g] <= wait'[f] + stops - k
    BY <1>1, <1>2, <1>4, <1>6, <1>7
  <2>2. Passed(f, d, k, stops)'
    BY <1>2, <1>4, <1>6, <1>7, <2>1 DEF Passed
  <2>. QED
    BY <1>1, <1>4, <2>2
<1>8. CASE wait[f] # MaxAge /\ before < stops
  <2>1. /\ wait'[f] * Slots = wait[f] * Slots + Slots
        /\ (k + 1) * Slots = k * Slots + Slots
        /\ wait[f] * Slots \in Int /\ k * Slots \in Int
    BY <1>2, <1>4, <1>8, Multiples, Numbers
  <2>2. wait'[f] * Slots <= Cardinality(d) + (k + 1) * Slots
    BY <1>4, <1>5, <2>1, Numbers
  <2>3. ASSUME NEW g \in d PROVE age'[g] <= wait'[f] + stops - (k + 1)
    <3>1. age'[g] \in Nat /\ age'[g] <= wait[f] + before + 1 - k
      BY <1>1, <1>6
    <3>2. wait'[f] = wait[f] + 1 /\ before + 1 <= stops
      BY <1>1, <1>2, <1>8
    <3>. QED
      BY <1>1, <1>4, <3>1, <3>2
  <2>4. Passed(f, d, k + 1, stops)'
    BY <1>2, <1>4, <1>6, <2>2, <2>3 DEF Passed
  <2>5. k + 1 \in 0 .. stops
    BY <1>1, <1>4, <1>8
  <2>. QED
    BY <2>4, <2>5
<1>9. CASE wait[f] # MaxAge /\ before = stops
  <2> DEFINE e == d \cup validated
  <2>1. f \notin sel
    BY <1>2, <1>9 DEF InRun, Bad
  <2>2. d \cap validated = {}
    BY <1>3, <2>1 DEF InRun
  <2>3. Cardinality(validated) \in Nat /\ Cardinality(validated) >= Slots
    BY <1>2, <1>9, VerifiedFiles
  <2>4. IsFiniteSet(d) /\ IsFiniteSet(validated) /\ validated \subseteq File
    BY FileAssumption, FS_Subset DEF ScrubTypeOK
  <2>5. Cardinality(e) = Cardinality(d) + Cardinality(validated)
    <3>1. Cardinality(d \cap validated) = 0
      BY <2>2, FS_EmptySet
    <3>2. Cardinality(d \cup validated)
            = Cardinality(d) + Cardinality(validated) - Cardinality(d \cap validated)
      BY <2>4, FS_Union
    <3>. QED
      BY <1>5, <2>3, <3>1, <3>2
  <2>6. wait'[f] * Slots = wait[f] * Slots + Slots
        /\ wait[f] * Slots \in Int /\ k * Slots \in Int
    BY <1>2, <1>4, <1>9, Multiples, Numbers
  <2>7. wait'[f] * Slots <= Cardinality(e) + k * Slots
    BY <1>4, <1>5, <2>3, <2>5, <2>6, Numbers
  <2>8. \A g \in e : age'[g] <= wait'[f] + stops - k
    BY <1>1, <1>2, <1>4, <1>6, <1>9
  <2>9. f \notin e /\ e \in SUBSET File
    BY <1>4, <2>4
  <2>10. \A g \in e : age'[g] < age'[f] \/ age'[f] = MaxAge
    BY <1>6
  <2> HIDE DEF e
  <2>11. PICK c \in SUBSET File : c = e
    BY <2>9
  <2>12. Passed(f, c, k, stops)'
    BY <1>2, <2>7, <2>8, <2>9, <2>10, <2>11 DEF Passed
  <2>. QED
    BY <1>1, <1>4, <2>12
<1>. QED
  BY <1>1, <1>7, <1>8, <1>9

\* Who has been passed by a file depends on the ages and on its own wait.
LEMMA PassedKept ==
  ASSUME NEW f, UNCHANGED age, wait'[f] = wait[f], NEW d, NEW k, NEW s, Passed(f, d, k, s)
  PROVE  Passed(f, d, k, s)'
  BY DEF Passed

\* Nobody has been passed by a file that has not waited.
LEMMA PassedNone ==
  ASSUME NEW f \in File, wait'[f] = 0, NEW s
  PROVE  Passed(f, {}, 0, s)'
  BY Numbers, FS_EmptySet DEF Passed

LEMMA FinishStep ==
  ASSUME WaitInv, Slots > 0, [ScrubNext]_scrubVars, FinishScrub
  PROVE  BetweenRuns' /\ DuringRun'
<1> USE DEF WaitInv
<1>1. /\ phase = "scrub" /\ phase' = "idle" /\ ~cancelled' /\ stops' = stops /\ stops \in Nat
      /\ \A f \in File : f \in validated \/ content[f] # "good" => wait'[f] = 0
  BY StopsGrow DEF FinishScrub
<1>2. ASSUME Room', NEW f \in File
      PROVE  \E d \in SUBSET File, k \in 0 .. stops : Passed(f, d, k, stops)'
  <2>1. CASE f \in validated \/ content[f] # "good"
    <3>1. Passed(f, {}, 0, stops)'
      <4>1. wait'[f] = 0
        BY <1>1, <2>1
      <4>2. \A s : Passed(f, {}, 0, s)'
        BY <4>1, PassedNone
      <4>. QED
        BY <1>1, <4>2
    <3>2. 0 \in 0 .. stops
      BY <1>1
    <3>. QED
      BY <3>1, <3>2
  <2>2. CASE f \notin validated /\ content[f] = "good"
    <3>1. Room
      BY <1>1, <1>2 DEF Room
    <3>2. PICK sel \in SUBSET File, before \in 0 .. stops : InRun(sel, before)
      BY <1>1, <3>1 DEF DuringRun
    <3>. QED
      BY <2>2, <3>2, FinishFile
  <2>. QED
    BY <2>1, <2>2
<1>. QED
  BY <1>1, <1>2 DEF BetweenRuns, DuringRun

\* A file that turns bad waits no more, and no other file notices.
LEMMA DecayStep ==
  ASSUME WaitInv, Slots > 0, [ScrubNext]_scrubVars, NEW f \in File, Decay(f)
  PROVE  BetweenRuns' /\ DuringRun'
<1> USE DEF WaitInv
<1>1. /\ UNCHANGED <<age, phase, queue, validated, mismatched, cancelled, stops>>
      /\ wait'[f] = 0 /\ \A g \in File \ {f} : wait'[g] = wait[g]
      /\ stops \in Nat
  BY StopsGrow DEF Decay, runVars, ScrubTypeOK
<1>2. Bad \subseteq Bad'
  BY DEF Decay, Bad, ScrubTypeOK
<1>3. Room' => Room
  BY <1>1 DEF Room
<1>4. \A s : Passed(f, {}, 0, s)'
  BY <1>1, PassedNone
<1>5. ASSUME NEW g \in File \ {f}, NEW d, NEW k, NEW s, Passed(g, d, k, s)
      PROVE  Passed(g, d, k, s)'
  BY <1>1, <1>5, PassedKept
<1>6. BetweenRuns'
  <2> SUFFICES ASSUME phase = "idle", Room, NEW g \in File
               PROVE  \E d \in SUBSET File, k \in 0 .. stops : Passed(g, d, k, stops)'
    BY <1>1, <1>3 DEF BetweenRuns
  <2>1. CASE g = f
    BY <1>1, <1>4, <2>1
  <2>2. CASE g # f
    <3>1. PICK d \in SUBSET File, k \in 0 .. stops : Passed(g, d, k, stops)
      BY DEF BetweenRuns
    <3>2. Passed(g, d, k, stops)'
      BY <1>1, <2>2, <3>1 DEF Passed
    <3>. QED
      BY <3>2
  <2>. QED
    BY <2>1, <2>2
<1>7. DuringRun'
  <2>1. CASE phase = "scrub" /\ Room
    <3>1. PICK sel \in SUBSET File, before \in 0 .. stops : InRun(sel, before)
      BY <2>1 DEF DuringRun
    <3>2. before \in Nat
      BY <1>1
    <3>3. ASSUME NEW g \in File
          PROVE  \E d \in SUBSET File, k \in 0 .. before :
                   Passed(g, d, k, before + 1)' /\ (g \notin sel => sel \cap d = {})
      <4>1. CASE g = f
        BY <1>4, <3>2, <4>1
      <4>2. CASE g # f
        <5>1. PICK d \in SUBSET File, k \in 0 .. before :
                Passed(g, d, k, before + 1) /\ (g \notin sel => sel \cap d = {})
          BY <3>1 DEF InRun
        <5>2. Passed(g, d, k, before + 1)'
          BY <1>5, <4>2, <5>1
        <5>. QED
          BY <5>1, <5>2
      <4>. QED
        BY <4>1, <4>2
    <3>4. /\ Cardinality(sel) = Quota(N) /\ queue' \subseteq sel /\ validated' \subseteq sel
          /\ cancelled' => before < stops'
      BY <1>1, <3>1 DEF InRun
    <3>5. before = stops' => sel \ (queue' \cup validated') \subseteq Bad'
      BY <1>1, <1>2, <3>1 DEF InRun
    <3>6. InRun(sel, before)'
      BY <3>3, <3>4, <3>5 DEF InRun
    <3>. QED
      BY <1>1, <3>1, <3>6 DEF DuringRun
  <2>2. CASE ~(phase = "scrub" /\ Room)
    BY <1>1, <1>3, <2>2 DEF DuringRun
  <2>. QED
    BY <2>1, <2>2
<1>. QED
  BY <1>6, <1>7

\* A file that comes back between two runs is noticed by nobody; during a run, it
\* is a stop.
LEMMA RestoreStep ==
  ASSUME WaitInv, Slots > 0, [ScrubNext]_scrubVars, NEW f \in File, Restore(f)
  PROVE  BetweenRuns' /\ DuringRun'
<1> USE DEF WaitInv
<1>1. UNCHANGED <<age, wait, phase, queue, validated, cancelled>>
  BY DEF Restore, runVars
<1>2. CASE phase = "idle"
  <2>1. stops' = stops
    BY <1>2 DEF Restore
  <2>2. Room' => Room
    BY <2>1 DEF Room
  <2>3. ASSUME Room, NEW g \in File
        PROVE  \E d \in SUBSET File, k \in 0 .. stops : Passed(g, d, k, stops)'
    <3>1. PICK d \in SUBSET File, k \in 0 .. stops : Passed(g, d, k, stops)
      BY <1>2, <2>3 DEF BetweenRuns
    <3>. QED
      BY <1>1, <2>1, <3>1, PassedSame
  <2>. QED
    BY <1>1, <1>2, <2>1, <2>2, <2>3 DEF BetweenRuns, DuringRun
<1>3. CASE phase = "scrub"
  <2>1. stops < stops'
    BY <1>3, StopsGrow DEF Restore
  <2>. QED
    BY <1>1, <1>3, <2>1, CheckStep
<1>. QED
  BY <1>2, <1>3 DEF ScrubTypeOK

LEMMA WaitInvStep ==
  ASSUME WaitInv, Slots > 0, minAge = 0, [ScrubNext]_scrubVars
  PROVE  WaitInv'
<1>1. ScrubTypeOK' /\ FewBad'
  BY ScrubTypeStep, FewBadStep DEF WaitInv
<1>2. CASE BeginScrub
  BY <1>1, <1>2, BeginStep DEF WaitInv
<1>3. CASE FinishScrub
  BY <1>1, <1>3, FinishStep DEF WaitInv
<1>4. CASE StopScrub \/ LoseRun
  BY <1>1, <1>4, StopStep DEF WaitInv
<1>5. ASSUME NEW f \in File, Validate(f) \/ Mismatch(f) \/ CheckFails(f) PROVE WaitInv'
  <2>1. /\ phase = "scrub" /\ phase' = "scrub" /\ UNCHANGED <<content, age, wait, stops, cancelled>>
        /\ f \in queue /\ queue' = queue \ {f}
        /\ \/ validated' = validated \cup {f}
           \/ validated' = validated /\ content[f] # "good"
    BY <1>5 DEF Validate, Mismatch, CheckFails, Checking
  <2>2. f \in validated' \/ f \in Bad
    BY <2>1 DEF Bad
  <2>3. BetweenRuns' /\ DuringRun'
    BY <2>1, <2>2, CheckStep
  <2>. QED
    BY <1>1, <2>3 DEF WaitInv
<1>6. ASSUME NEW f \in File, CheckLost(f) PROVE WaitInv'
  <2>1. /\ phase = "scrub" /\ phase' = "scrub" /\ UNCHANGED <<content, age, wait, validated>>
        /\ queue' \subseteq queue /\ stops' = stops + 1
    BY <1>6 DEF CheckLost, Checking
  <2>2. stops < stops'
    BY <2>1, StopsGrow DEF WaitInv
  <2>3. BetweenRuns' /\ DuringRun'
    BY <2>1, <2>2, CheckStep
  <2>. QED
    BY <1>1, <2>3 DEF WaitInv
<1>7. CASE CancelScrub
  <2>1. /\ phase = "scrub" /\ phase' = "scrub" /\ UNCHANGED <<content, age, wait, validated, queue>>
        /\ stops' = stops + 1
    BY <1>7 DEF CancelScrub
  <2>2. stops < stops'
    BY <2>1, StopsGrow DEF WaitInv
  <2>3. BetweenRuns' /\ DuringRun'
    BY <2>1, <2>2, CheckStep
  <2>. QED
    BY <1>1, <2>3 DEF WaitInv
<1>8. ASSUME NEW f \in File, Decay(f) PROVE WaitInv'
  BY <1>1, <1>8, DecayStep DEF WaitInv
<1>9. ASSUME NEW f \in File, Restore(f) PROVE WaitInv'
  BY <1>1, <1>9, RestoreStep DEF WaitInv
<1>10. CASE UNCHANGED scrubVars
  BY <1>1, <1>10 DEF WaitInv, BetweenRuns, DuringRun, InRun, Passed, Room, Bad, scrubVars, runVars
<1>. QED
  BY <1>2, <1>3, <1>4, <1>5, <1>6, <1>7, <1>8, <1>9, <1>10 DEF ScrubNext, ScrubStep

\* Whoever has waited has been passed by fewer files than there are.
LEMMA WaitInvBounds ==
  ASSUME WaitInv, Slots > 0
  PROVE  BoundedWait
<1> USE DEF WaitInv
<1>1. /\ wait \in [File -> 0 .. MaxAge] /\ MaxAge \in Nat /\ stops \in Nat
      /\ phase \in {"idle", "scrub"}
  BY RotationAssumption DEF ScrubTypeOK
<1>2. \A a, b \in Int : a * Slots \in Int /\ (a <= b => a * Slots <= b * Slots)
  BY Multiples, Numbers
<1>3. ASSUME NEW f \in File PROVE wait[f] * Slots < N + stops * Slots
  <2>1. wait[f] \in Nat /\ wait[f] <= MaxAge
    BY <1>1
  <2>2. CASE Room
    <3>1. PICK d \in SUBSET File, k \in 0 .. stops :
            f \notin d /\ wait[f] * Slots <= Cardinality(d) + k * Slots
      <4>1. CASE phase = "idle"
        <5>1. PICK d \in SUBSET File, k \in 0 .. stops : Passed(f, d, k, stops)
          BY <2>2, <4>1 DEF BetweenRuns
        <5>. QED
          BY <5>1 DEF Passed
      <4>2. CASE phase = "scrub"
        <5>1. PICK sel \in SUBSET File, before \in 0 .. stops : InRun(sel, before)
          BY <2>2, <4>2 DEF DuringRun
        <5>2. PICK d \in SUBSET File, k \in 0 .. before : Passed(f, d, k, before + 1)
          BY <5>1 DEF InRun
        <5>3. k \in 0 .. stops
          BY <1>1
        <5>. QED
          BY <5>2, <5>3 DEF Passed
      <4>. QED
        BY <1>1, <4>1, <4>2
    <3>2. Cardinality(d) \in Nat /\ Cardinality(d) < N
      <4>1. IsFiniteSet(File \ {f}) /\ Cardinality(File \ {f}) = N - 1
        BY FileAssumption, FS_RemoveElement DEF N
      <4>2. d \in SUBSET (File \ {f})
        BY <3>1
      <4>. QED
        BY <4>1, <4>2, Numbers, FS_Subset, FS_CardinalityType
    <3>3. k * Slots <= stops * Slots /\ k * Slots \in Int /\ stops * Slots \in Int
      BY <1>1, <1>2
    <3>. QED
      BY <1>2, <2>1, <3>1, <3>2, <3>3, Numbers
  <2>3. CASE ~Room
    <3>1. wait[f] * Slots <= MaxAge * Slots
      BY <1>1, <1>2, <2>1
    <3>. QED
      BY <1>1, <1>2, <2>1, <2>3, <3>1, Numbers DEF Room
  <2>. QED
    BY <2>2, <2>3
<1>. QED
  BY <1>3 DEF BoundedWait, Slots, N

\* Whatever rots, vanishes and comes back, and however often a run is cancelled,
\* fails or loses a check: without an age filter a good file is verified again before
\* the others have gone round, one slot at least being left to good files, plus a run
\* per stop.  The bounds of the model do not matter: any number of files, any quota,
\* any number of bad files.
THEOREM WaitIsBounded == ScrubSpec => []BoundedWait
<1>1. CASE Slots > 0
  <2> DEFINE Inv == minAge = 0 => WaitInv
  <2>1. ScrubInit => Inv
    BY WaitInvInit
  <2>2. Inv /\ [ScrubNext]_scrubVars => Inv'
    <3>1. [ScrubNext]_scrubVars => minAge' = minAge
      BY DEF ScrubNext, scrubVars, ScrubStep, BeginScrub, FinishScrub, StopScrub, Validate,
         Mismatch, CheckFails, CheckLost, CancelScrub, LoseRun, Decay, Restore
    <3>. QED
      BY <1>1, <3>1, WaitInvStep
  <2>3. Inv => BoundedWait
    <3>1. CASE minAge = 0
      BY <1>1, <3>1, WaitInvBounds
    <3>2. CASE minAge # 0
      BY <3>2 DEF BoundedWait
    <3>. QED
      BY <3>1, <3>2
  <2> HIDE DEF Inv
  <2>. QED
    BY <2>1, <2>2, <2>3, PTL DEF ScrubSpec
<1>2. CASE ~(Slots > 0)
  <2>1. BoundedWait
    BY <1>2, Numbers, RotationAssumption DEF BoundedWait, Slots, N
  <2>. QED
    BY <2>1, PTL
<1>. QED
  BY <1>1, <1>2
=============================================================================
