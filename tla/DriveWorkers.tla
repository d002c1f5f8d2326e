---------------------------- MODULE DriveWorkers ----------------------------
(***************************************************************************)
(* Detect of internal/monitor/drive.go, which finds the disk of a drive in *)
(* the table of mounts, and its use in internal/coordinator/coordinator.go *)
(* by the drives that run at the same time: how many workers hash on which *)
(* disk.                                                                   *)
(*                                                                         *)
(* A place is a mount point or a target path, symbolic links resolved.     *)
(* Its text matters only for which places begin it and for its length.     *)
(* That is not the same as being below it: "/mnt/data" begins "/mnt/data2" *)
(* and "/mnt/my\040disk", a blank as /proc/mounts has it, begins nothing.  *)
(***************************************************************************)
EXTENDS Naturals, Sequences, FiniteSets

CONSTANTS
    Target,     \* the target paths
    Point,      \* the mount points
    Begins,     \* <<m, p>>: the text of m begins that of p (strings.HasPrefix)
    Holds,      \* <<m, p>>: p is m, or below it
    Length,     \* the length of the text of a place
    Device,     \* what may be mounted
    Kind,       \* "disk": /sys/block has its name, as of sda or md0; "part": as of
                \* sda1 or nvme0n1p1; "other": a block device neither it nor the
                \* name without its digits is listed of, as mmcblk0p1 or mapper/vg;
                \* "remote": not in /dev
    DiskOf,     \* the disk that a device is (on), for those in /dev
    Rotational, \* the disks that are
    NumCPU, MaxWorkers,
    MaxLines,   \* bound: lines of /proc/mounts
    NoDevice    \* no mount point was found

Block == {d \in Device : Kind[d] # "remote"}
Line == [dev : Device, at : Point]

ASSUME PlaceAssumption ==
    /\ Begins \subseteq Point \X Target /\ Holds \subseteq Point \X Target
    /\ Length \in [Point -> Nat \ {0}]
ASSUME DeviceAssumption ==
    /\ Kind \in [Device -> {"disk", "part", "other", "remote"}]
    /\ NoDevice \notin Device
ASSUME WorkersAssumption ==
    /\ IsFiniteSet(Target)
    /\ NumCPU \in Nat \ {0} /\ MaxWorkers \in Nat \ {0} /\ MaxLines \in Nat

VARIABLES
    table,      \* /proc/mounts: the later line covers the earlier at the same point
    stage,      \* a drive: "idle", at the semaphore ("waiting"), let in ("entered"),
                \* "hashing" or "ended"
    device,     \* the device that Detect found for a drive
    workers     \* the workers of a drive that is hashing

drivesVars == <<table, stage, device, workers>>

DrivesTypeOK ==
    /\ table \in Seq(Line) /\ Len(table) <= MaxLines
    /\ stage \in [Target -> {"idle", "waiting", "entered", "hashing", "ended"}]
    /\ device \in [Target -> Block \cup {NoDevice}]
    /\ workers \in [Target -> 0 .. MaxWorkers]

DrivesInit ==
    /\ table \in UNION {[1 .. n -> Line] : n \in 0 .. MaxLines}
    /\ stage = [p \in Target |-> "idle"]
    /\ device = [p \in Target |-> NoDevice]
    /\ workers = [p \in Target |-> 0]

-----------------------------------------------------------------------------
(* Detect. *)

\* parseMounts: a map by device, in which the last line stays.
Mounted == {table[i].dev : i \in 1 .. Len(table)} \cap Block
LastLine(d) ==
    CHOOSE i \in 1 .. Len(table) :
        table[i].dev = d /\ \A j \in 1 .. Len(table) : table[j].dev = d => j <= i
MountPoint(d) == table[LastLine(d)].at

Matching(p) == {d \in Mounted : <<MountPoint(d), p>> \in Begins}

\* A bug to catch: the first match is taken, not the longest.
FirstForPath(p) == IF Matching(p) = {} THEN {NoDevice} ELSE Matching(p)

\* deviceForPath: one with the longest match; the order of the map decides
\* between two at one point.
DeviceForPath(p) ==
    IF Matching(p) = {} THEN {NoDevice}
    ELSE {d \in Matching(p) :
             \A e \in Matching(p) : Length[MountPoint(e)] <= Length[MountPoint(d)]}

\* baseDevice and readRotational: the disk is found in /sys/block by the name
\* of the device, or by that without its partition.
KnownDisk(d) == d # NoDevice /\ Kind[d] \in {"disk", "part"}
DetectedWorkers(d) == IF KnownDisk(d) /\ DiskOf[d] \in Rotational THEN 1 ELSE NumCPU

NumWorkers(d) == IF DetectedWorkers(d) > MaxWorkers THEN MaxWorkers ELSE DetectedWorkers(d)

-----------------------------------------------------------------------------
(* Run. *)

In == {p \in Target : stage[p] \in {"entered", "hashing"}}

StartRun ==
    /\ \A p \in Target : stage[p] = "idle"
    /\ stage' = [p \in Target |-> "waiting"]
    /\ UNCHANGED <<table, device, workers>>

\* The semaphore has MaxWorkers places, or one for each drive.
Enter(p) ==
    /\ stage[p] = "waiting" /\ Cardinality(In) < MaxWorkers
    /\ stage' = [stage EXCEPT ![p] = "entered"]
    /\ UNCHANGED <<table, device, workers>>

\* The canary is there and the shadow open: the disk is looked for, and the
\* Syncer gets its workers.
Detect(p) ==
    /\ stage[p] = "entered"
    /\ stage' = [stage EXCEPT ![p] = "hashing"]
    /\ \E d \in DeviceForPath(p) :
          /\ device' = [device EXCEPT ![p] = d]
          /\ workers' = [workers EXCEPT ![p] = NumWorkers(d)]
    /\ UNCHANGED table

\* processDrive returns, before or after it has got as far as to sync.
Leave(p) ==
    /\ p \in In
    /\ stage' = [stage EXCEPT ![p] = "ended"]
    /\ device' = [device EXCEPT ![p] = NoDevice]
    /\ workers' = [workers EXCEPT ![p] = 0]
    /\ UNCHANGED table

\* Run returns; there may be another.
FinishRun ==
    /\ \A p \in Target : stage[p] = "ended"
    /\ stage' = [p \in Target |-> "idle"]
    /\ UNCHANGED <<table, device, workers>>

DrivesNext == StartRun \/ FinishRun \/ \E p \in Target : Enter(p) \/ Detect(p) \/ Leave(p)

DrivesSpec == DrivesInit /\ [][DrivesNext]_drivesVars

-----------------------------------------------------------------------------
(* Properties. *)

\* The line of the deepest mount point that holds p, the last one for it, ...
LineOf(p, i) ==
    /\ <<table[i].at, p>> \in Holds
    /\ \A j \in 1 .. Len(table) : <<table[j].at, p>> \in Holds =>
          \/ Length[table[j].at] < Length[table[i].at]
          \/ table[j].at = table[i].at /\ j <= i

\* ... says what p is on.
On(p, d) == \E i \in 1 .. Len(table) : LineOf(p, i) /\ table[i].dev = d

\* The text of a mount point tells whether it holds p, as far as Detect looks.
TextsAgree(p) ==
    \A i \in 1 .. Len(table) : table[i].dev \in Block =>
        (<<table[i].at, p>> \in Begins <=> <<table[i].at, p>> \in Holds)

\* What p is on is mounted nowhere else, and over no other device.
MountedOnce(p) ==
    \A i, j \in 1 .. Len(table) :
        LineOf(p, i) /\ (table[j].dev = table[i].dev \/ table[j].at = table[i].at) => j = i

\* The device found for a drive on a block device is the one it is on, whatever
\* else is mounted above, below or beside it, once or twice, remote or not, and
\* in whatever order the map gives it, as long as the texts of the mount points
\* agree and the drive's own device is mounted once.  (Each of these conditions
\* is needed, and so is a block device: a drive on a remote file system is given
\* the one that the remote one is mounted on.)
DeepestMatch ==
    \A p \in Target, d \in Block :
        stage[p] = "hashing" /\ On(p, d) /\ TextsAgree(p) /\ MountedOnce(p) => device[p] = d

\* At any time no more than one worker hashes on a rotational disk.
OneWorkerPerDisk ==
    \A p, q \in Target : \A d, e \in Block :
        /\ stage[p] = "hashing" /\ On(p, d) /\ DiskOf[d] \in Rotational
        /\ stage[q] = "hashing" /\ On(q, e) /\ DiskOf[e] = DiskOf[d]
        => p = q /\ workers[p] = 1
=============================================================================
