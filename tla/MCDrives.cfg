CONSTANTS
    hdd = hdd
    ssd = ssd
    partn = partn
    volume = volume
    solid = solid
    nfs = nfs
    root = root
    data = data
    blank = blank
    photos = photos
    music = music
    data2 = data2
    Target = {music, data2}
    Point = {root, data}
    Begins <- Texts
    Holds <- Below
    Length <- Lengths
    Device = {partn, solid}
    Kind <- Kinds
    DiskOf <- Disks
    Rotational = {hdd}
    NumCPU = 3
    MaxWorkers = 2
    MaxLines = 2
    NoDevice = NoDevice
SPECIFICATION DrivesSpec
INVARIANT OneWorkerPerDisk
