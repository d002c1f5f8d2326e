--------------------------- MODULE MCDriveWorkers ---------------------------
(* Instances of DriveWorkers: a rotational disk with a partition and a volume *)
(* on it, a solid-state disk and a remote file system; three target paths.    *)
EXTENDS DriveWorkers

CONSTANTS hdd, ssd,                 \* disks
          partn, volume, solid, nfs,\* devices
          root, data, blank,        \* "/", "/mnt/data", "/mnt/data/my disk"
          photos, music, data2      \* "/mnt/data/my disk/photos", "/mnt/data/music", "/mnt/data2"

Kinds == [d \in Device |->
    IF d = partn THEN "part" ELSE IF d = solid THEN "disk"
    ELSE IF d = volume THEN "other" ELSE "remote"]
Disks == [d \in Device |-> IF d = solid THEN ssd ELSE hdd]
Lengths == [m \in Point |-> IF m = root THEN 1 ELSE IF m = data THEN 9 ELSE 20]

Below == {<<m, p>> \in Point \X Target :
    m = root \/ (m = data /\ p # data2) \/ (m = blank /\ p = photos)}
\* strings.HasPrefix: the text "/mnt/data/my\040disk" begins no path.
Texts == {<<m, p>> \in Point \X Target : m # blank}
=============================================================================
