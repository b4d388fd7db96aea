-------------------------------- MODULE Dfs --------------------------------
(***************************************************************************)
(* The device file system: file descriptors with reference counts          *)
(* (dfs.c, dfs_posix.c, dfs_file.c), the table of mounted file systems     *)
(* (dfs_fs.c) and the volumes of the FAT driver (dfs_elm.c).               *)
(*                                                                         *)
(* A path is the sequence of its components.  fd_new, fd_get, fd_put, the  *)
(* lookup of a mounted file system and dfs_unmount hold fslock and are one *)
(* step each; the calls of the FAT driver in between are steps of their    *)
(* own, which succeed or fail.                                             *)
(***************************************************************************)
EXTENDS Integers, FiniteSets, SequencesExt

CONSTANTS
    Thread,     \* the threads that use files
    Admin,      \* the threads that mount, unmount and format
    FdMax,      \* DFS_FD_MAX
    SlotMax,    \* DFS_FILESYSTEMS_MAX
    VolMax,     \* _VOLUMES
    Device,     \* the block devices
    BigSector,  \* those with sectors larger than _MAX_SS
    Component,  \* what path names are made of
    Given,      \* the path names that programs pass: [abs, parts]
    MountNames, \* the ones passed to dfs_mount
    MaxDepth,   \* bound on the depth of the working directory
    Careful,    \* programs leave alone what another one is closing or unmounting
    Null

Fd == 0..FdMax - 1
Slot == 0..SlotMax - 1
Vol == 0..VolMax - 1

\* A path name: from the root or from the working directory, and its components.
Parts == Seq(Component \cup {"/"})
Name == [abs : BOOLEAN, parts : Parts]

ASSUME DfsAssumption ==
    /\ FdMax \in Nat /\ SlotMax \in Nat /\ VolMax \in Nat /\ MaxDepth \in Nat
    /\ BigSector \subseteq Device /\ Careful \in BOOLEAN
    /\ Given \subseteq Name /\ MountNames \subseteq Name
    /\ IsFiniteSet(Thread) /\ Thread \cap Admin = {}
    /\ Null \notin Nat /\ Null \notin Device /\ Null \notin Name /\ Null \notin Parts

VARIABLES
    fd_table,   \* the file descriptors
    fstab,      \* filesystem_table
    disk,       \* the device of each volume
    opened,     \* ref_count of the devices
    cwd,        \* working_directory
    owned,      \* the descriptors that programs got from open and have not closed
    live,       \* ghost: path names and file objects of descriptors on the heap
    wild,       \* a file system or file object was used that is gone
    pc          \* what each thread does next

vars == <<fd_table, fstab, disk, opened, cwd, owned, live, wild, pc>>

NoFd == [ref |-> 0, magic |-> FALSE, fs |-> Null, path |-> Null, data |-> "none",
         dir |-> FALSE]
NoFs == [path |-> Null, dev |-> Null, vol |-> Null]
Ready == [at |-> "user", op |-> Null, fd |-> Null, refs |-> 0, name |-> Null,
          fs |-> Null, path |-> Null, dev |-> Null, vol |-> Null, ok |-> TRUE]

Init ==
    /\ fd_table = [i \in Fd |-> NoFd]
    /\ fstab = [s \in Slot |-> NoFs]
    /\ disk = [v \in Vol |-> Null]
    /\ opened = [d \in Device |-> 0]
    /\ cwd = <<>>
    /\ owned = {} /\ live = 0 /\ wild = FALSE
    /\ pc = [t \in Thread \cup Admin |-> Ready]

-----------------------------------------------------------------------------
(* Paths.                                                                   *)

\* ".." at the root of an absolute path takes its first slash away; one more fails.
Up(d) ==
    IF d.parts # <<>> THEN [d EXCEPT !.parts = Front(@)]
    ELSE IF d.abs THEN [d EXCEPT !.abs = FALSE] ELSE Null

\* One component of a path name, from the directory d.
Part(d, c) ==
    IF d = Null THEN Null
    ELSE CASE c = "." -> d
           [] c = ".." -> Up(d)
           [] OTHER -> [d EXCEPT !.parts = Append(@, c)]

dfs_normalize_path(name) ==
    FoldLeft(Part, [abs |-> TRUE, parts |-> IF name.abs THEN <<>> ELSE cwd], name.parts)

\* The file system with the longest path, the last one of several.
dfs_filesystem_lookup(f) ==
    LET found == IF f = Null \/ ~f.abs THEN {}
                 ELSE {s \in Slot : fstab[s].path # Null /\ IsPrefix(fstab[s].path, f.parts)}
        best  == {s \in found : \A r \in found : Len(fstab[r].path) <= Len(fstab[s].path)}
    IN  IF found = {} THEN Null ELSE Max(best)

\* The path below the mount point, as dfs_file_open stores it ...
dfs_subdir(s, f) == <<"/">> \o SubSeq(f.parts, Len(fstab[s].path) + 1, Len(f.parts))

\* Slip: the path is not cut at the mount point.
MountPath_Full(s, f) == <<"/">> \o f.parts

\* ... and as fd_is_open compares it: nothing is left of the mount point itself.
MountPath(s, f) ==
    IF fstab[s].path # <<>> /\ f.parts = fstab[s].path THEN <<>> ELSE dfs_subdir(s, f)

fd_is_open(f) ==
    LET s == dfs_filesystem_lookup(f)
    IN  \E i \in Fd : fd_table[i].fs = s /\ s # Null /\ fd_table[i].path = MountPath(s, f)

-----------------------------------------------------------------------------
(* File descriptors.                                                        *)

fd_put(e) == IF e.ref = 1 THEN NoFd ELSE [e EXCEPT !.ref = @ - 1]

At(t, at) == ~wild /\ pc[t].at = at
Goto(t, r) == pc' = [pc EXCEPT ![t] = r]
Wild(t) == wild' = TRUE /\ UNCHANGED <<fd_table, live, owned, pc>>

\* fd_new and fd_get of open, opendir and mkdir: the first unused descriptor.
fd_new(t, op, name) ==
    /\ At(t, "user")
    /\ LET free == {i \in Fd : fd_table[i].ref = 0}
       IN  /\ free # {}
           /\ fd_table' = [fd_table EXCEPT ![Min(free)] =
                             [@ EXCEPT !.ref = 2, !.magic = TRUE]]
           /\ Goto(t, [Ready EXCEPT !.at = "lookup", !.op = op, !.fd = Min(free),
                                    !.refs = 2, !.name = name])
    /\ UNCHANGED <<fstab, disk, opened, cwd, owned, live, wild>>

\* A careful program opens nothing below a mount that is under way, and no file that
\* another one removes.
Settled(s, path) ==
    Careful => fstab[s].vol # Null
               /\ \A u \in Thread : ~(pc[u].at = "unlink" /\ pc[u].fs = s /\ pc[u].path = path)

\* dfs_file_open up to the call of the file system.
OpenLookup(t) ==
    /\ At(t, "lookup")
    /\ LET f == dfs_normalize_path(pc[t].name)
           s == dfs_filesystem_lookup(f)
       IN  IF s = Null
           THEN /\ Goto(t, [pc[t] EXCEPT !.at = "opened", !.ok = FALSE])
                /\ UNCHANGED <<fd_table, live>>
           ELSE /\ Settled(s, dfs_subdir(s, f))
                /\ fd_table' = [fd_table EXCEPT ![pc[t].fd] =
                        [@ EXCEPT !.fs = s, !.path = dfs_subdir(s, f), !.dir = FALSE]]
                /\ live' = live + 1
                /\ Goto(t, [pc[t] EXCEPT !.at = "open", !.fs = s])
    /\ UNCHANGED <<fstab, disk, opened, cwd, owned, wild>>

\* dfs_elm_open and what dfs_file_open makes of its result.
OpenCall(t) ==
    /\ At(t, "open")
    /\ LET i == pc[t].fd
           s == fstab[fd_table[i].fs]
       IN  \/ /\ s = NoFs
              /\ Wild(t)
           \/ /\ s.vol # Null
              /\ fd_table' = [fd_table EXCEPT ![i] = [@ EXCEPT !.data = "open",
                                                               !.dir = (pc[t].op # "open")]]
              /\ live' = live + 1
              /\ Goto(t, [pc[t] EXCEPT !.at = "opened"])
              /\ UNCHANGED <<owned, wild>>
           \/ /\ s # NoFs
              /\ fd_table' = [fd_table EXCEPT ![i].path = Null]
              /\ live' = live - 1
              /\ Goto(t, [pc[t] EXCEPT !.at = "opened", !.ok = FALSE])
              /\ UNCHANGED <<owned, wild>>
    /\ UNCHANGED <<fstab, disk, opened, cwd>>

\* The end of open, opendir and mkdir: success keeps one reference, failure none.
OpenDone(t) ==
    /\ At(t, "opened")
    /\ LET i == pc[t].fd
       IN  \/ /\ pc[t].ok /\ pc[t].op # "mkdir"
              /\ fd_table' = [fd_table EXCEPT ![i] = fd_put(@)]
              /\ owned' = owned \cup {i}
              /\ Goto(t, Ready)
           \/ /\ ~pc[t].ok
              /\ fd_table' = [fd_table EXCEPT ![i] = fd_put(fd_put(@))]
              /\ Goto(t, Ready)
              /\ UNCHANGED owned
           \* mkdir, and opendir when there is no memory for its DIR, close again.
           \/ /\ pc[t].ok /\ pc[t].op # "open"
              /\ Goto(t, [pc[t] EXCEPT !.at = "close"])
              /\ UNCHANGED <<fd_table, owned>>
    /\ UNCHANGED <<fstab, disk, opened, cwd, live, wild>>

\* fd_get of read, write, lseek, fstat, fsync, ioctl, readdir, telldir, seekdir.
fd_get(t, i) ==
    /\ At(t, "user") /\ i \in owned
    /\ fd_table[i].magic
    /\ fd_table' = [fd_table EXCEPT ![i].ref = @ + 1]
    /\ Goto(t, [Ready EXCEPT !.at = "use", !.fd = i, !.refs = 1])
    /\ UNCHANGED <<fstab, disk, opened, cwd, owned, live, wild>>

\* fd_get of close and closedir; the caller gives the descriptor up.
Close(t, i) ==
    /\ At(t, "user") /\ i \in owned
    /\ Careful => \A u \in Thread : pc[u].fd # i
    /\ fd_table[i].magic
    /\ fd_table' = [fd_table EXCEPT ![i].ref = @ + 1]
    /\ owned' = owned \ {i}
    /\ Goto(t, [Ready EXCEPT !.at = "close", !.op = "close", !.fd = i, !.refs = 2])
    /\ UNCHANGED <<fstab, disk, opened, cwd, live, wild>>

\* The object of the descriptor and its file system are still there.
Usable(i) == fd_table[i].data = "open" /\ fstab[fd_table[i].fs] # NoFs

\* dfs_file_read and its like, and fd_put.
Use(t) ==
    /\ At(t, "use")
    /\ LET i == pc[t].fd
       IN  IF Usable(i)
           THEN /\ fd_table' = [fd_table EXCEPT ![i] = fd_put(@)]
                /\ Goto(t, Ready)
                /\ UNCHANGED <<owned, live, wild>>
           ELSE Wild(t)
    /\ UNCHANGED <<fstab, disk, opened, cwd>>

\* dfs_file_close: f_close may fail for a file, not for a directory.
CloseCall(t) ==
    /\ At(t, "close")
    /\ LET i == pc[t].fd
       IN  \/ /\ ~Usable(i)
              /\ Wild(t)
           \/ /\ Usable(i)
              /\ fd_table' = [fd_table EXCEPT ![i] = [@ EXCEPT !.data = "freed", !.path = Null]]
              /\ live' = live - 2
              /\ Goto(t, [pc[t] EXCEPT !.at = "closed"])
              /\ UNCHANGED <<owned, wild>>
           \/ /\ Usable(i) /\ ~fd_table[i].dir
              /\ Goto(t, [pc[t] EXCEPT !.at = "closed", !.ok = FALSE])
              /\ UNCHANGED <<fd_table, live, owned, wild>>
    /\ UNCHANGED <<fstab, disk, opened, cwd>>

\* Slip: the descriptor is given back although the file stays open.
CloseDone_Anyway(t) ==
    /\ At(t, "closed")
    /\ fd_table' = [fd_table EXCEPT ![pc[t].fd] = fd_put(fd_put(@))]
    /\ Goto(t, Ready)
    /\ UNCHANGED <<fstab, disk, opened, cwd, owned, live, wild>>

\* fd_put twice, or once when close failed: the file is open then.
CloseDone(t) ==
    /\ At(t, "closed")
    /\ LET i == pc[t].fd
       IN  IF pc[t].ok
           THEN /\ fd_table' = [fd_table EXCEPT ![i] = fd_put(fd_put(@))]
                /\ UNCHANGED owned
           ELSE /\ fd_table' = [fd_table EXCEPT ![i] = fd_put(@)]
                /\ owned' = owned \cup {i}
    /\ Goto(t, Ready)
    /\ UNCHANGED <<fstab, disk, opened, cwd, live, wild>>

\* dfs_file_unlink (unlink and rmdir): look whether the file is open ...
dfs_file_unlink(t, name) ==
    /\ At(t, "user")
    /\ LET f == dfs_normalize_path(name)
           s == dfs_filesystem_lookup(f)
       IN  /\ s # Null /\ ~fd_is_open(f)
           /\ Careful => fstab[s].vol # Null
           /\ Goto(t, [Ready EXCEPT !.at = "unlink", !.fs = s, !.path = dfs_subdir(s, f)])
    /\ UNCHANGED <<fd_table, fstab, disk, opened, cwd, owned, live, wild>>

\* ... and have it removed.
Unlink(t) ==
    /\ At(t, "unlink")
    /\ IF fstab[pc[t].fs] = NoFs THEN Wild(t)
       ELSE Goto(t, Ready) /\ UNCHANGED <<fd_table, live, owned, wild>>
    /\ UNCHANGED <<fstab, disk, opened, cwd>>

\* chdir holds fslock from opendir to closedir: nothing else sees its descriptor.
chdir(t, name) ==
    /\ At(t, "user")
    /\ \E i \in Fd : fd_table[i].ref = 0
    /\ LET f == dfs_normalize_path(name)
           s == dfs_filesystem_lookup(f)
       IN  /\ s # Null /\ Len(f.parts) <= MaxDepth
           /\ fstab[s].vol # Null
           /\ cwd' = f.parts
    /\ UNCHANGED <<fd_table, fstab, disk, opened, owned, live, wild, pc>>

-----------------------------------------------------------------------------
(* Mounting.                                                                *)

\* get_disk
get_disk(d) ==
    LET found == {v \in Vol : disk[v] = d} IN IF found = {} THEN Null ELSE Min(found)

\* dfs_mount: a mount point other than the root must be a directory that opens.  A
\* careful program mounts a device once and waits for a mkfs of it.
dfs_mount(t, d, name) ==
    /\ At(t, "user")
    /\ LET f == dfs_normalize_path(name)
           s == dfs_filesystem_lookup(f)
       IN  /\ f # Null
           /\ f.parts # <<>> => s # Null /\ fstab[s].vol # Null
           /\ Careful => \A r \in Slot : fstab[r].dev # d
           /\ Goto(t, [Ready EXCEPT !.at = "register", !.dev = d, !.name = name, !.path = f.parts])
    /\ UNCHANGED <<fd_table, fstab, disk, opened, cwd, owned, live, wild>>

\* Take an entry of the table, unless the path as given is in it.
MountRegister(t) ==
    /\ At(t, "register")
    /\ LET free  == {s \in Slot : fstab[s] = NoFs}
           taken == \E s \in Slot : fstab[s].path # Null /\ pc[t].name.abs
                                    /\ fstab[s].path = pc[t].name.parts
       IN  IF free = {} \/ taken
           THEN Goto(t, Ready) /\ UNCHANGED fstab
           ELSE /\ fstab' = [fstab EXCEPT ![Min(free)] =
                               [path |-> pc[t].path, dev |-> pc[t].dev, vol |-> Null]]
                /\ Goto(t, [pc[t] EXCEPT !.at = "device", !.fs = Min(free)])
    /\ UNCHANGED <<fd_table, disk, opened, cwd, owned, live, wild>>

\* rt_device_open: a device that does not open clears the entry.
MountDevice(t) ==
    /\ At(t, "device")
    /\ \/ /\ opened' = [opened EXCEPT ![pc[t].dev] = @ + 1]
          /\ Goto(t, [pc[t] EXCEPT !.at = "claim"])
          /\ UNCHANGED fstab
       \/ /\ fstab' = [fstab EXCEPT ![pc[t].fs] = NoFs]
          /\ Goto(t, Ready)
          /\ UNCHANGED opened
    /\ UNCHANGED <<fd_table, disk, cwd, owned, live, wild>>

\* dfs_elm_mount: find a volume ...
MountClaim(t) ==
    /\ At(t, "claim")
    /\ LET v == get_disk(Null)
       IN  Goto(t, [pc[t] EXCEPT !.at = (IF v = Null THEN "undo" ELSE "install"), !.vol = v])
    /\ UNCHANGED <<fd_table, fstab, disk, opened, cwd, owned, live, wild>>

\* ... take it, with nothing locked; sectors that are too large end the mount here ...
MountInstall(t) ==
    /\ At(t, "install")
    /\ disk' = [disk EXCEPT ![pc[t].vol] = pc[t].dev]
    /\ Goto(t, [pc[t] EXCEPT !.at = (IF pc[t].dev \in BigSector THEN "undo" ELSE "fat")])
    /\ UNCHANGED <<fd_table, fstab, opened, cwd, owned, live, wild>>

\* Slip: the volume is kept when the file system is not valid.
MountFat_Kept(t) ==
    /\ At(t, "fat")
    /\ \/ /\ fstab' = [fstab EXCEPT ![pc[t].fs].vol = pc[t].vol]
          /\ Goto(t, Ready)
       \/ /\ Goto(t, [pc[t] EXCEPT !.at = "undo"])
          /\ UNCHANGED fstab
    /\ UNCHANGED <<fd_table, disk, opened, cwd, owned, live, wild>>

\* ... and mount the FAT file system on it, or give it back.
MountFat(t) ==
    /\ At(t, "fat")
    /\ \/ /\ fstab' = [fstab EXCEPT ![pc[t].fs].vol = pc[t].vol]
          /\ Goto(t, Ready)
          /\ UNCHANGED disk
       \/ /\ disk' = [disk EXCEPT ![pc[t].vol] = Null]
          /\ Goto(t, [pc[t] EXCEPT !.at = "undo"])
          /\ UNCHANGED fstab
    /\ UNCHANGED <<fd_table, opened, cwd, owned, live, wild>>

\* rt_device_close
DeviceClose(d) == [opened EXCEPT ![d] = IF @ = 0 THEN 0 ELSE @ - 1]

\* The mount failed: close the device and clear the entry.
MountUndo(t) ==
    /\ At(t, "undo")
    /\ opened' = DeviceClose(pc[t].dev)
    /\ fstab' = [fstab EXCEPT ![pc[t].fs] = NoFs]
    /\ Goto(t, Ready)
    /\ UNCHANGED <<fd_table, disk, cwd, owned, live, wild>>

\* Somebody has a file of it open or is in a call on it.
Busy(s) == \/ \E i \in Fd : fd_table[i].fs = s
           \/ \E u \in Thread \cup Admin : pc[u].fs = s

\* dfs_unmount and dfs_elm_unmount, which asserts that the mount is complete.
dfs_unmount(t, name) ==
    /\ At(t, "user")
    /\ LET f == dfs_normalize_path(name)
           found == {s \in Slot : f # Null /\ fstab[s].path = f.parts}
       IN  /\ f # Null /\ f.abs /\ found # {}
           /\ LET s == Min(found)
                  v == get_disk(fstab[s].dev)
              IN  /\ Careful => ~Busy(s)
                  /\ IF fstab[s].vol = Null
                     THEN wild' = TRUE /\ UNCHANGED <<fstab, disk, opened>>
                     ELSE /\ v # Null
                          /\ disk' = [disk EXCEPT ![v] = Null]
                          /\ opened' = DeviceClose(fstab[s].dev)
                          /\ fstab' = [fstab EXCEPT ![s] = NoFs]
                          /\ UNCHANGED wild
    /\ UNCHANGED <<fd_table, cwd, owned, live, pc>>

\* dfs_mkfs and dfs_elm_mkfs: a device that has no volume gets one for the time; the
\* result of rt_device_open is not looked at.
dfs_mkfs(t, d) ==
    /\ At(t, "user")
    /\ get_disk(d) = Null /\ get_disk(Null) # Null
    /\ disk' = [disk EXCEPT ![get_disk(Null)] = d]
    /\ \E ok \in BOOLEAN :
          /\ opened' = [opened EXCEPT ![d] = IF ok THEN @ + 1 ELSE @]
          /\ Goto(t, [Ready EXCEPT !.at = "format", !.dev = d, !.vol = get_disk(Null), !.ok = ok])
    /\ UNCHANGED <<fd_table, fstab, cwd, owned, live, wild>>

MkfsDone(t) ==
    /\ At(t, "format")
    /\ disk' = [disk EXCEPT ![pc[t].vol] = Null]
    /\ opened' = DeviceClose(pc[t].dev)
    /\ Goto(t, Ready)
    /\ UNCHANGED <<fd_table, fstab, cwd, owned, live, wild>>

-----------------------------------------------------------------------------

FileStep(t) ==
    \/ \E name \in Given : \/ \E op \in {"open", "opendir", "mkdir"} : fd_new(t, op, name)
                           \/ dfs_file_unlink(t, name) \/ chdir(t, name)
    \/ \E i \in Fd : fd_get(t, i) \/ Close(t, i)
    \/ OpenLookup(t) \/ OpenCall(t) \/ OpenDone(t)
    \/ Use(t) \/ CloseCall(t) \/ CloseDone(t) \/ Unlink(t)

AdminStep(t) ==
    \/ \E name \in MountNames : dfs_unmount(t, name) \/ \E d \in Device : dfs_mount(t, d, name)
    \/ \E d \in Device : dfs_mkfs(t, d)
    \/ MountRegister(t) \/ MountDevice(t) \/ MountClaim(t) \/ MountInstall(t)
    \/ MountFat(t) \/ MountUndo(t) \/ MkfsDone(t)

Next == (\E t \in Thread : FileStep(t)) \/ (\E t \in Admin : AdminStep(t))

Spec == Init /\ [][Next]_vars

-----------------------------------------------------------------------------

\* The references that calls under way hold.
Held(i) == SumFunction([t \in Thread |-> IF pc[t].fd = i THEN pc[t].refs ELSE 0])

\* A descriptor has as many references as there are programs and calls that may use
\* it, on every failure path: none is lost, which would use the table up, and none is
\* given back twice.  What is on the heap for descriptors belongs to one, and a call
\* never meets a file system or an object that is gone.
DescriptorsCounted ==
    /\ ~wild
    /\ \A i \in Fd : fd_table[i].ref = Held(i) + IF i \in owned THEN 1 ELSE 0
    /\ live = Cardinality({i \in Fd : fd_table[i].path # Null})
              + Cardinality({i \in Fd : fd_table[i].data = "open"})

\* Volumes and open devices belong to the mounted file systems, one each, and to the
\* mounts and formats under way, through every failure of a mount.
MountsAccounted ==
    /\ \A v \in Vol :
          LET users == {s \in Slot : fstab[s].vol = v}
              calls == {t \in Admin : pc[t].vol = v /\ pc[t].at \in {"fat", "format"}}
          IN  IF disk[v] = Null THEN users = {} /\ calls = {}
              ELSE /\ Cardinality(users) + Cardinality(calls) = 1
                   /\ \A s \in users : fstab[s].dev = disk[v]
    /\ \A d \in Device :
          opened[d] = Cardinality({s \in Slot : fstab[s].dev = d})
                      - Cardinality({t \in Admin : pc[t].at = "device" /\ pc[t].dev = d})
                      + Cardinality({t \in Admin : pc[t].at = "format" /\ pc[t].dev = d /\ pc[t].ok})

\* No open file is removed, however its name was spelled when it was opened and
\* whatever is mounted where.  (fd_is_open misses an open mount point, which FatFs
\* does not remove.)
UnlinksClosed ==
    \A t \in Thread : pc[t].at = "unlink" /\ pc[t].path # <<"/">> =>
        ~\E i \in Fd : fd_table[i].data = "open" /\ fd_table[i].fs = pc[t].fs
                       /\ fd_table[i].path = pc[t].path

=============================================================================
