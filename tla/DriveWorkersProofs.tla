------------------------- MODULE DriveWorkersProofs -------------------------
(* What Detect finds, for any drives, devices, disks and tables of mounts. *)
EXTENDS DriveWorkers, WellFoundedInduction, TLAPS

LEMMA MatchingAreBlock == \A p \in Target : DeviceForPath(p) \subseteq Block \cup {NoDevice}
BY DEF DeviceForPath, Matching, Mounted, Block

LEMMA NumWorkersInRange == \A d \in Block \cup {NoDevice} : NumWorkers(d) \in 1 .. MaxWorkers
BY WorkersAssumption DEF NumWorkers, DetectedWorkers

-----------------------------------------------------------------------------
(* Types. *)

LEMMA TypeInit == DrivesInit => DrivesTypeOK
<1> SUFFICES ASSUME DrivesInit PROVE DrivesTypeOK
  OBVIOUS
<1>1. PICK n \in 0 .. MaxLines : table \in [1 .. n -> Line]
  BY DEF DrivesInit
<1>2. n \in Nat /\ n <= MaxLines
  BY WorkersAssumption
<1>3. table \in Seq(Line) /\ Len(table) = n
  BY <1>1, <1>2
<1>4. 0 \in 0 .. MaxWorkers
  BY WorkersAssumption
<1>. QED
  BY <1>2, <1>3, <1>4 DEF DrivesInit, DrivesTypeOK

LEMMA TypeStep == DrivesTypeOK /\ [DrivesNext]_drivesVars => DrivesTypeOK'
<1> SUFFICES ASSUME DrivesTypeOK, [DrivesNext]_drivesVars PROVE DrivesTypeOK'
  OBVIOUS
<1> USE DEF DrivesTypeOK
<1>1. CASE StartRun \/ FinishRun
  BY <1>1 DEF StartRun, FinishRun
<1>2. ASSUME NEW p \in Target, Enter(p) PROVE DrivesTypeOK'
  BY <1>2 DEF Enter
<1>3. ASSUME NEW p \in Target, Detect(p) PROVE DrivesTypeOK'
  <2>1. PICK d \in DeviceForPath(p) : /\ device' = [device EXCEPT ![p] = d]
                                      /\ workers' = [workers EXCEPT ![p] = NumWorkers(d)]
    BY <1>3 DEF Detect
  <2>2. d \in Block \cup {NoDevice}
    BY MatchingAreBlock
  <2>3. NumWorkers(d) \in 0 .. MaxWorkers
    BY <2>2, NumWorkersInRange
  <2>. QED
    BY <1>3, <2>1, <2>2, <2>3 DEF Detect
<1>4. ASSUME NEW p \in Target, Leave(p) PROVE DrivesTypeOK'
  <2>1. 0 \in 0 .. MaxWorkers
    BY WorkersAssumption
  <2>. QED
    BY <1>4, <2>1 DEF Leave
<1>5. CASE UNCHANGED drivesVars
  BY <1>5 DEF drivesVars
<1>. QED
  BY <1>1, <1>2, <1>3, <1>4, <1>5 DEF DrivesNext

\* Every variable of the detection and of the run keeps its type, the table its
\* bound.
THEOREM DriveTypeCorrect == DrivesSpec => []DrivesTypeOK
BY TypeInit, TypeStep, PTL DEF DrivesSpec

-----------------------------------------------------------------------------
(* What a drive has is what Detect gave it. *)

Detected ==
    \A p \in Target : stage[p] = "hashing" =>
        device[p] \in DeviceForPath(p) /\ workers[p] = NumWorkers(device[p])

LEMMA DetectedStep == DrivesTypeOK /\ Detected /\ [DrivesNext]_drivesVars => Detected'
<1> SUFFICES ASSUME DrivesTypeOK, Detected, [DrivesNext]_drivesVars PROVE Detected'
  OBVIOUS
<1>1. table' = table
  BY DEF DrivesNext, StartRun, FinishRun, Enter, Detect, Leave, drivesVars
<1>2. \A p \in Target : DeviceForPath(p)' = DeviceForPath(p)
  BY <1>1 DEF DeviceForPath, Matching, Mounted, MountPoint, LastLine
<1>. SUFFICES ASSUME NEW p \in Target, stage'[p] = "hashing"
              PROVE  device'[p] \in DeviceForPath(p) /\ workers'[p] = NumWorkers(device'[p])
  BY <1>2 DEF Detected, NumWorkers, DetectedWorkers, KnownDisk
<1> USE DEF DrivesTypeOK, Detected
<1>3. CASE StartRun \/ FinishRun
  BY <1>3 DEF StartRun, FinishRun
<1>4. ASSUME NEW q \in Target, Enter(q) PROVE device'[p] \in DeviceForPath(p) /\ workers'[p] = NumWorkers(device'[p])
  BY <1>4 DEF Enter
<1>5. ASSUME NEW q \in Target, Detect(q) PROVE device'[p] \in DeviceForPath(p) /\ workers'[p] = NumWorkers(device'[p])
  <2>1. PICK d \in DeviceForPath(q) : /\ device' = [device EXCEPT ![q] = d]
                                      /\ workers' = [workers EXCEPT ![q] = NumWorkers(d)]
    BY <1>5 DEF Detect
  <2>2. CASE p = q
    BY <2>1, <2>2
  <2>3. CASE p # q
    BY <1>5, <2>1, <2>3 DEF Detect
  <2>. QED
    BY <2>2, <2>3
<1>6. ASSUME NEW q \in Target, Leave(q) PROVE device'[p] \in DeviceForPath(p) /\ workers'[p] = NumWorkers(device'[p])
  BY <1>6 DEF Leave
<1>7. CASE UNCHANGED drivesVars
  BY <1>7 DEF drivesVars
<1>. QED
  BY <1>3, <1>4, <1>5, <1>6, <1>7 DEF DrivesNext

LEMMA DetectedAlways == DrivesSpec => [](DrivesTypeOK /\ Detected)
<1>1. DrivesInit => Detected
  BY DEF DrivesInit, Detected
<1>. QED
  BY <1>1, TypeInit, TypeStep, DetectedStep, PTL DEF DrivesSpec

-----------------------------------------------------------------------------
(* The longest match is the deepest mount point. *)

\* The line that says what a drive is on is the one its device is found by.
LEMMA OwnLine ==
  ASSUME NEW p \in Target, MountedOnce(p), NEW i \in 1 .. Len(table), LineOf(p, i),
         DrivesTypeOK
  PROVE  MountPoint(table[i].dev) = table[i].at
<1> DEFINE IsLast(k) == /\ table[k].dev = table[i].dev
                        /\ \A j \in 1 .. Len(table) : table[j].dev = table[i].dev => j <= k
<1>1. \A j \in 1 .. Len(table) : table[j].dev = table[i].dev => j = i
  BY DEF MountedOnce
<1>2. i \in Nat
  BY DEF DrivesTypeOK
<1>3. IsLast(i)
  BY <1>1, <1>2
<1>4. LastLine(table[i].dev) \in 1 .. Len(table) /\ IsLast(LastLine(table[i].dev))
  BY <1>3 DEF LastLine
<1>5. LastLine(table[i].dev) = i
  BY <1>1, <1>4
<1>. QED
  BY <1>5 DEF MountPoint

Less == {pair \in Nat \X Nat : pair[1] < pair[2]}

LEMMA LessWellFounded == IsWellFoundedOn(Less, Nat)
BY NatLessThanWellFounded DEF OpToRel, Less

\* One of any lines of a table is the last.
LEMMA Last ==
  ASSUME NEW n \in Nat, NEW L, L \subseteq 1 .. n, L # {}
  PROVE  \E j \in L : \A k \in L : k <= j
<1> DEFINE After == {m \in Nat : \E j \in L : m = n - j}
<1>1. PICK i \in L : TRUE
  OBVIOUS
<1>2. n - i \in After /\ After \subseteq Nat
  BY <1>1
<1>3. PICK m \in After : \A k \in After : ~ (<<k, m>> \in Less)
  <2>. HIDE DEF After
  <2>. QED
    BY <1>2, LessWellFounded, WFMin
<1>4. \A k \in After : ~ (k < m)
  <2>. SUFFICES ASSUME NEW k \in After, k < m PROVE FALSE
    OBVIOUS
  <2>1. <<k, m>> \in Less
    BY DEF Less
  <2>. QED
    BY <2>1, <1>3
<1>5. PICK j \in L : m = n - j
  OBVIOUS
<1>6. ASSUME NEW k \in L PROVE k <= j
  <2>1. k \in 1 .. n /\ j \in 1 .. n
    OBVIOUS
  <2>2. n - k \in After
    BY <2>1
  <2>3. ~ (n - k < n - j)
    BY <2>2, <1>4, <1>5
  <2>. QED
    BY <2>1, <2>3
<1>. QED
  BY <1>6

\* The mount point that Detect goes by is that of some line of the device.
LEMMA SomeLine ==
  ASSUME NEW d \in Mounted, DrivesTypeOK
  PROVE  \E j \in 1 .. Len(table) : table[j].dev = d /\ table[j].at = MountPoint(d)
<1> DEFINE Lines == {j \in 1 .. Len(table) : table[j].dev = d}
<1>1. Lines # {} /\ Lines \subseteq 1 .. Len(table) /\ Len(table) \in Nat
  BY DEF Mounted, DrivesTypeOK
<1>2. \E j \in Lines : \A k \in Lines : k <= j
  <2>. HIDE DEF Lines
  <2>. QED
    BY <1>1, Last
<1>3. LastLine(d) \in 1 .. Len(table) /\ table[LastLine(d)].dev = d
  BY <1>2 DEF LastLine
<1>. QED
  BY <1>3 DEF MountPoint

LEMMA FoundIsOn ==
  ASSUME DrivesTypeOK, NEW p \in Target, NEW d \in Block, On(p, d), TextsAgree(p),
         MountedOnce(p), NEW e \in DeviceForPath(p)
  PROVE  e = d
<1>1. PICK i \in 1 .. Len(table) : LineOf(p, i) /\ table[i].dev = d
  BY DEF On
<1>2. d \in Matching(p) /\ MountPoint(d) = table[i].at
  BY <1>1, OwnLine DEF Matching, Mounted, TextsAgree, LineOf
<1>3. e \in Matching(p) /\ Length[MountPoint(d)] <= Length[MountPoint(e)]
  BY <1>2 DEF DeviceForPath
<1>4. PICK j \in 1 .. Len(table) : table[j].dev = e /\ table[j].at = MountPoint(e)
  BY <1>3, SomeLine DEF Matching
<1>5. <<table[j].at, p>> \in Holds
  BY <1>3, <1>4 DEF Matching, Mounted, TextsAgree
<1>6. table[j] \in Line /\ table[i] \in Line
  BY DEF DrivesTypeOK
<1>7. Length[table[i].at] \in Nat /\ Length[table[j].at] \in Nat
  BY <1>6, PlaceAssumption DEF Line
<1>8. table[j].at = table[i].at
  BY <1>1, <1>2, <1>3, <1>4, <1>5, <1>7 DEF LineOf
<1>. QED
  BY <1>1, <1>4, <1>8 DEF MountedOnce

\* In any table of mounts, for any drives, devices and texts: the device found for
\* a drive on a block device is the one it is on, if the texts of the block devices'
\* mount points agree for it and its own device is mounted once.
THEOREM DeviceIsFound == DrivesSpec => []DeepestMatch
<1>1. DrivesTypeOK /\ Detected => DeepestMatch
  BY FoundIsOn DEF Detected, DeepestMatch
<1>. QED
  BY <1>1, DetectedAlways, PTL

-----------------------------------------------------------------------------
(* When a rotational disk has one worker. *)

\* What it takes: the drives are on block devices that /sys/block lists and Detect
\* finds, and no two of them are on the same disk.
Separate ==
    /\ \A p \in Target : TextsAgree(p) /\ MountedOnce(p)
    /\ \A p \in Target : \A d \in Block : On(p, d) => KnownDisk(d)
    /\ \A p, q \in Target : \A d, e \in Block :
         On(p, d) /\ On(q, e) /\ DiskOf[d] = DiskOf[e] => p = q

\* Under these conditions, and whatever else is mounted, at most one worker hashes on
\* a rotational disk at any time.  They are the conditions that drive.go:20-21 leaves
\* out; the run drives shows what happens without them.
THEOREM WorkersOfSeparateDisks == DrivesSpec => [](Separate => OneWorkerPerDisk)
<1>1. DrivesTypeOK /\ Detected => (Separate => OneWorkerPerDisk)
  <2>. SUFFICES ASSUME DrivesTypeOK, Detected, Separate,
                       NEW p \in Target, NEW q \in Target, NEW d \in Block, NEW e \in Block,
                       stage[p] = "hashing", On(p, d), DiskOf[d] \in Rotational,
                       stage[q] = "hashing", On(q, e), DiskOf[e] = DiskOf[d]
                PROVE  p = q /\ workers[p] = 1
    BY DEF OneWorkerPerDisk
  <2>1. p = q
    BY DEF Separate
  <2>2. device[p] \in DeviceForPath(p) /\ workers[p] = NumWorkers(device[p])
    BY DEF Detected
  <2>3. device[p] = d
    BY <2>2, FoundIsOn DEF Separate
  <2>4. KnownDisk(d)
    BY DEF Separate
  <2>. QED
    BY <2>1, <2>2, <2>3, <2>4, WorkersAssumption DEF NumWorkers, DetectedWorkers
<1>. QED
  BY <1>1, DetectedAlways, PTL
=============================================================================
