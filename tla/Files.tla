------------------------------- MODULE Files -------------------------------
(***************************************************************************)
(* The file system (filesys/filesys.c, inode.c, directory.c, free-map.c,   *)
(* file.c) and the file descriptors and running executables of processes   *)
(* (userprog/syscall.c), with crashes of the machine.                      *)
(*                                                                         *)
(* One operation runs at a time: all but load hold the file system lock,   *)
(* and while a process is in load its parent sleeps in process_execute.    *)
(* An operation is cut into steps where it writes to the disk, so that the *)
(* machine can stop between two writes; op.at says what is left of it:     *)
(*    "idle"    no operation                                               *)
(*    "data", "write", "add", "undo"  in filesys_create, with an inode     *)
(*              sector allocated                                           *)
(*    "close"   closing the files of op.files, first to last               *)
(*    "free_inode", "free_data"  in inode_close of a removed file          *)
(* The length of a file and positions in it are in sectors.  What is on    *)
(* the disk: the free map, the entries of the root directory and the       *)
(* inodes.  Of the contents of files only which sectors a step writes is   *)
(* kept.                                                                   *)
(*                                                                         *)
(* The kernel may have no memory for the inode of a new file, for the      *)
(* buffer with which its directory entry is written, or to open a program. *)
(* An open, a remove or an allocation of sectors that fails for lack of    *)
(* memory changes nothing, and a read or write is cut short.  Left out are *)
(* lack of memory while the directory is searched, which dir_add takes to  *)
(* be impossible, and while released sectors are written to the free map.  *)
(***************************************************************************)
EXTENDS Lists

CONSTANTS
  Name,      \* file names
  Proc,      \* processes
  SectorCnt, \* size of the disk
  DirSize,   \* number of entries the root directory has room for
  MaxLength, \* the longest file asked for
  LastFd,    \* bound on the descriptors a process opens
  MaxMaps,   \* bound on the number of files mapped
  NULL

Sector == 0..(SectorCnt - 1)
Fd == 2..LastFd

\* struct file.
OpenFile == [inode : Sector, pos : 0..MaxLength, deny_write : BOOLEAN]

ASSUME FilesAssumption ==
  /\ SectorCnt \in Nat /\ SectorCnt >= 4
  /\ DirSize \in Nat /\ MaxLength \in Nat /\ LastFd \in Nat \ {0} /\ MaxMaps \in Nat
  /\ NULL \notin Nat \cup OpenFile
  /\ IsFiniteSet(Proc)

\* The inodes of the free map and of the root directory and their data.
System == 0..3

VARIABLES
  \* on the disk
  used,      \* the sectors marked in the free map
  entry,     \* entry[n]: inode sector in the directory entry of n, or NULL
  disk,      \* disk[s]: the inode in sector s, [start, length]
  \* in memory
  inode,     \* inode[s]: struct inode of sector s; open_cnt is 0 if there
             \*   is none
  fds,       \* fds[p][fd]: struct file of an open descriptor, or NULL
  next_fd,
  running,   \* the processes that there are
  executable,\* executable[p]: struct file of the program p runs, or NULL
  mapped,    \* the inodes of the struct files that mmap has reopened
  op,
  wrote,     \* the data sectors the last step has written
  lost       \* sectors that no file owns any more and that stay marked: not
             \*   in the code, for SectorsAccounted

diskVars == <<used, entry, disk>>
memVars == <<inode, fds, next_fd, running, executable, mapped>>
fileVars == <<diskVars, memVars, op, wrote, lost>>

Idle == [at |-> "idle"]

\* What is left in a sector that is no inode any more is never read.
Blank == [start |-> 0, length |-> 0]
NoInode == [open_cnt |-> 0, deny_write_cnt |-> 0, removed |-> FALSE]

\* filesys_init (true): an empty file system.
FilesInit ==
  /\ used = System
  /\ entry = [n \in Name |-> NULL]
  /\ disk = [s \in Sector |-> Blank]
  /\ inode = [s \in Sector |-> NoInode]
  /\ fds = [p \in Proc |-> [fd \in Fd |-> NULL]]
  /\ next_fd = [p \in Proc |-> 2]
  /\ running = {}
  /\ executable = [p \in Proc |-> NULL]
  /\ mapped = <<>>
  /\ op = Idle
  /\ wrote = {}
  /\ lost = {}

-----------------------------------------------------------------------------

Extent(start, cnt) == start..(start + cnt - 1)

\* The data sectors of the file whose inode is in s.
Data(s) == Extent(disk[s].start, disk[s].length)

\* Mutant: the last sector of the run is not looked at.
Fits_short(start, cnt) ==
  start + cnt <= SectorCnt /\ Extent(start, cnt - 1) \cap used = {}

\* cnt sectors from start are on the disk and free.
Fits(start, cnt) ==
  start + cnt <= SectorCnt /\ Extent(start, cnt) \cap used = {}

\* free_map_allocate: where bitmap_scan_and_flip finds cnt free sectors.
Found(cnt) == \E start \in 0..SectorCnt : Fits(start, cnt)
First(cnt) == CHOOSE start \in 0..SectorCnt :
                /\ Fits(start, cnt)
                /\ \A k \in 0..(start - 1) : ~ Fits(k, cnt)

Ready == op.at = "idle"

-----------------------------------------------------------------------------
(* filesys_create.                                                          *)

\* create up to the allocation of a sector for the inode; without one it
\* fails and nothing has changed.
create(n, length) ==
  /\ Ready
  /\ Found(1)
  /\ used' = used \cup {First(1)}
  /\ op' = [at |-> "data", name |-> n, length |-> length, sector |-> First(1)]
  /\ wrote' = {}
  /\ UNCHANGED <<entry, disk, memVars, lost>>

\* inode_create: memory for the inode and the data sectors are allocated, or
\* one of them cannot be.
inode_create ==
  /\ op.at = "data"
  /\ \/ /\ Found(op.length)
        /\ used' = used \cup Extent(First(op.length), op.length)
        /\ op' = [at |-> "write", name |-> op.name, length |-> op.length,
                  sector |-> op.sector, start |-> First(op.length)]
     \/ /\ op' = [at |-> "undo", sector |-> op.sector]
        /\ UNCHANGED used
  /\ wrote' = {}
  /\ UNCHANGED <<entry, disk, memVars, lost>>

\* inode_create: the inode and the zeros are written.
inode_create_write ==
  /\ op.at = "write"
  /\ disk' = [disk EXCEPT ![op.sector] =
                [start |-> op.start, length |-> op.length]]
  /\ wrote' = Extent(op.start, op.length)
  /\ op' = [at |-> "add", name |-> op.name, sector |-> op.sector]
  /\ UNCHANGED <<used, entry, memVars, lost>>

\* dir_add: fails if the name is taken, the directory has no room, or there
\* is no memory to write the entry.  The data sectors of the new inode are
\* then never released.
dir_add ==
  /\ op.at = "add"
  /\ \/ /\ entry[op.name] = NULL
        /\ Cardinality({n \in Name : entry[n] # NULL}) < DirSize
        /\ entry' = [entry EXCEPT ![op.name] = op.sector]
        /\ op' = Idle
        /\ UNCHANGED lost
     \/ /\ op' = [at |-> "undo", sector |-> op.sector]
        /\ lost' = lost \cup Data(op.sector)
        /\ UNCHANGED entry
  /\ wrote' = {}
  /\ UNCHANGED <<used, disk, memVars>>

\* filesys_create has failed: the inode sector is released.
filesys_create_undo ==
  /\ op.at = "undo"
  /\ used' = used \ {op.sector}
  /\ disk' = [disk EXCEPT ![op.sector] = Blank]
  /\ op' = Idle
  /\ wrote' = {}
  /\ UNCHANGED <<entry, memVars, lost>>

-----------------------------------------------------------------------------
(* Opening and closing.                                                     *)

\* inode_open: one more opener of the inode in s.
inode_open(s) ==
  LET i == inode[s]
  IN  [inode EXCEPT ![s] = IF i.open_cnt > 0
                             THEN [i EXCEPT !.open_cnt = i.open_cnt + 1]
                             ELSE [NoInode EXCEPT !.open_cnt = 1]]

File(s, deny) == [inode |-> s, pos |-> 0, deny_write |-> deny]

open(p, n) ==
  /\ Ready
  /\ p \in running
  /\ entry[n] # NULL
  /\ next_fd[p] \in Fd
  /\ inode' = inode_open(entry[n])
  /\ fds' = [fds EXCEPT ![p][next_fd[p]] = File(entry[n], FALSE)]
  /\ next_fd' = [next_fd EXCEPT ![p] = @ + 1]
  /\ wrote' = {}
  /\ UNCHANGED <<diskVars, running, executable, mapped, op, lost>>

\* deny_write_to_exec: the program of a new process is opened and writes to
\* it are denied, unless there is no memory to open it.  load opens it too,
\* and closes it again, and the process runs whether or not writes are denied.
deny_write_to_exec(p, n) ==
  /\ Ready
  /\ p \notin running
  /\ entry[n] # NULL
  /\ running' = running \cup {p}
  /\ \/ /\ inode' = [inode_open(entry[n]) EXCEPT ![entry[n]].deny_write_cnt = @ + 1]
        /\ executable' = [executable EXCEPT ![p] = File(entry[n], TRUE)]
     \/ UNCHANGED <<inode, executable>>
  /\ wrote' = {}
  /\ UNCHANGED <<diskVars, fds, next_fd, mapped, op, lost>>

\* mmap reopens the file and keeps it: no code closes it again.  A call that
\* does not return MMAP_ERROR then stops for ever in lock_acquire, since
\* mmap_lock is never initialised; a process may stop after any step here.
mmap(p, fd) ==
  /\ Ready
  /\ fds[p][fd] # NULL
  /\ Len(mapped) < MaxMaps
  /\ inode' = inode_open(fds[p][fd].inode)
  /\ mapped' = Append(mapped, fds[p][fd].inode)
  /\ wrote' = {}
  /\ UNCHANGED <<diskVars, fds, next_fd, running, executable, op, lost>>

\* The operation goes on with the files that are left to close.
Closing(files) == IF files = <<>> THEN Idle ELSE [at |-> "close", files |-> files]

close(p, fd) ==
  /\ Ready
  /\ fds[p][fd] # NULL
  /\ op' = Closing(<<fds[p][fd]>>)
  /\ fds' = [fds EXCEPT ![p][fd] = NULL]
  /\ wrote' = {}
  /\ UNCHANGED <<diskVars, inode, next_fd, running, executable, mapped, lost>>

\* The open files of p in the order of list_of_fds, which is that of the
\* descriptors.
OpenFiles(p) ==
  LET opened == list_keep([i \in 1..(LastFd - 1) |-> i + 1],
                          {fd \in Fd : fds[p][fd] # NULL})
  IN  [i \in DOMAIN opened |-> fds[p][opened[i]]]

Executable(p) == IF executable[p] = NULL THEN <<>> ELSE <<executable[p]>>

\* Mutant: the executable is not closed.
close_all_files_exe(p) ==
  /\ Ready
  /\ p \in running
  /\ op' = Closing(OpenFiles(p))
  /\ fds' = [fds EXCEPT ![p] = [fd \in Fd |-> NULL]]
  /\ next_fd' = [next_fd EXCEPT ![p] = 2]
  /\ running' = running \ {p}
  /\ executable' = [executable EXCEPT ![p] = NULL]
  /\ wrote' = {}
  /\ UNCHANGED <<diskVars, inode, mapped, lost>>

\* close_all_files, when p exits.
close_all_files(p) ==
  /\ Ready
  /\ p \in running
  /\ op' = Closing(OpenFiles(p) \o Executable(p))
  /\ fds' = [fds EXCEPT ![p] = [fd \in Fd |-> NULL]]
  /\ next_fd' = [next_fd EXCEPT ![p] = 2]
  /\ running' = running \ {p}
  /\ executable' = [executable EXCEPT ![p] = NULL]
  /\ wrote' = {}
  /\ UNCHANGED <<diskVars, inode, mapped, lost>>

\* file_close: writes are allowed again if the file denied them, and the
\* inode loses an opener.  The last one frees it, and its sectors if it was
\* removed.
file_close ==
  /\ op.at = "close"
  /\ LET f == Head(op.files)
         i == inode[f.inode]
     IN  /\ inode' = [inode EXCEPT ![f.inode] =
                        IF i.open_cnt = 1 THEN NoInode
                        ELSE [i EXCEPT !.open_cnt = i.open_cnt - 1,
                                       !.deny_write_cnt =
                                          i.deny_write_cnt - IF f.deny_write THEN 1 ELSE 0]]
         /\ op' = IF i.open_cnt = 1 /\ i.removed
                    THEN [at |-> "free_inode", sector |-> f.inode,
                          files |-> Tail(op.files)]
                    ELSE Closing(Tail(op.files))
  /\ wrote' = {}
  /\ UNCHANGED <<diskVars, fds, next_fd, running, executable, mapped, lost>>

\* inode_close of a removed file: its inode sector is released ...
inode_close_inode ==
  /\ op.at = "free_inode"
  /\ used' = used \ {op.sector}
  /\ op' = [op EXCEPT !.at = "free_data"]
  /\ wrote' = {}
  /\ UNCHANGED <<entry, disk, memVars, lost>>

\* ... and then its data sectors.
inode_close_data ==
  /\ op.at = "free_data"
  /\ used' = used \ Data(op.sector)
  /\ disk' = [disk EXCEPT ![op.sector] = Blank]
  /\ op' = Closing(op.files)
  /\ wrote' = {}
  /\ UNCHANGED <<entry, memVars, lost>>

\* Mutant: the inode is not marked as removed.
dir_remove_kept(n) ==
  /\ Ready
  /\ entry[n] # NULL
  /\ entry' = [entry EXCEPT ![n] = NULL]
  /\ inode' = inode_open(entry[n])
  /\ op' = Closing(<<File(entry[n], FALSE)>>)
  /\ wrote' = {}
  /\ UNCHANGED <<used, disk, fds, next_fd, running, executable, mapped, lost>>

\* dir_remove: the inode is opened, the entry erased, the inode marked as
\* removed, and closed.
dir_remove(n) ==
  /\ Ready
  /\ entry[n] # NULL
  /\ entry' = [entry EXCEPT ![n] = NULL]
  /\ inode' = [inode_open(entry[n]) EXCEPT ![entry[n]].removed = TRUE]
  /\ op' = Closing(<<File(entry[n], FALSE)>>)
  /\ wrote' = {}
  /\ UNCHANGED <<used, disk, fds, next_fd, running, executable, mapped, lost>>

-----------------------------------------------------------------------------
(* Reading and writing.                                                     *)

\* How many of size sectors from pos are in the file.
Within(s, pos, size) ==
  IF pos >= disk[s].length THEN 0
  ELSE IF size < disk[s].length - pos THEN size ELSE disk[s].length - pos

read(p, fd, size) ==
  /\ Ready
  /\ fds[p][fd] # NULL
  /\ LET f == fds[p][fd]
     IN  fds' = [fds EXCEPT ![p][fd].pos = @ + Within(f.inode, f.pos, size)]
  /\ wrote' = {}
  /\ UNCHANGED <<diskVars, inode, next_fd, running, executable, mapped, op, lost>>

\* Mutant: writes are not denied.
inode_write_at_any(s, pos, size) == Within(s, pos, size)

\* inode_write_at: how many sectors are written.
inode_write_at(s, pos, size) ==
  IF inode[s].deny_write_cnt > 0 THEN 0 ELSE Within(s, pos, size)

write(p, fd, size) ==
  /\ Ready
  /\ fds[p][fd] # NULL
  /\ LET f == fds[p][fd]
         n == inode_write_at(f.inode, f.pos, size)
     IN  /\ wrote' = Extent(disk[f.inode].start + f.pos, n)
         /\ fds' = [fds EXCEPT ![p][fd].pos = @ + n]
  /\ UNCHANGED <<used, entry, disk, inode, next_fd, running, executable, mapped, op, lost>>

seek(p, fd, pos) ==
  /\ Ready
  /\ fds[p][fd] # NULL
  /\ fds' = [fds EXCEPT ![p][fd].pos = pos]
  /\ wrote' = {}
  /\ UNCHANGED <<diskVars, inode, next_fd, running, executable, mapped, op, lost>>

-----------------------------------------------------------------------------
(* Crashes.                                                                 *)

Named == {entry[n] : n \in Name} \ {NULL}

\* The machine stops and starts again: the memory is empty, and
\* free_map_open reads the free map back.
crash ==
  /\ inode' = [s \in Sector |-> NoInode]
  /\ fds' = [p \in Proc |-> [fd \in Fd |-> NULL]]
  /\ next_fd' = [p \in Proc |-> 2]
  /\ running' = {}
  /\ executable' = [p \in Proc |-> NULL]
  /\ mapped' = <<>>
  /\ op' = Idle
  /\ lost' = used \ (System \cup Named \cup UNION {Data(s) : s \in Named})
  /\ wrote' = {}
  /\ disk' = [s \in Sector |-> IF s \in Named THEN disk[s] ELSE Blank]
  /\ UNCHANGED <<used, entry>>

FilesNext ==
  \/ \E n \in Name, length \in 0..MaxLength : create(n, length)
  \/ inode_create
  \/ inode_create_write
  \/ dir_add
  \/ filesys_create_undo
  \/ \E p \in Proc, n \in Name : open(p, n) \/ deny_write_to_exec(p, n)
  \/ \E p \in Proc, fd \in Fd : mmap(p, fd) \/ close(p, fd)
  \/ \E p \in Proc : close_all_files(p)
  \/ file_close
  \/ inode_close_inode
  \/ inode_close_data
  \/ \E n \in Name : dir_remove(n)
  \/ \E p \in Proc, fd \in Fd, size \in 1..MaxLength : read(p, fd, size) \/ write(p, fd, size)
  \/ \E p \in Proc, fd \in Fd, pos \in 0..MaxLength : seek(p, fd, pos)
  \/ crash

FilesSpec == FilesInit /\ [][FilesNext]_fileVars

-----------------------------------------------------------------------------
(* Properties.                                                              *)

\* The type of the state.
FilesTypeOK ==
  /\ used \subseteq Sector
  /\ entry \in [Name -> Sector \cup {NULL}]
  /\ disk \in [Sector -> [start : 0..SectorCnt, length : 0..MaxLength]]
  /\ inode \in [Sector -> [open_cnt : Nat, deny_write_cnt : Nat,
                           removed : BOOLEAN]]
  /\ fds \in [Proc -> [Fd -> OpenFile \cup {NULL}]]
  /\ next_fd \in [Proc -> 2..(LastFd + 1)]
  /\ running \subseteq Proc
  /\ executable \in [Proc -> OpenFile \cup {NULL}]
  /\ mapped \in Seq(Sector)
  /\ wrote \subseteq Sector
  /\ lost \subseteq Sector

ToClose == IF op.at \in {"close", "free_inode", "free_data"} THEN op.files ELSE <<>>

\* The struct files of the inode in s that satisfy P.
Openers(s, P(_)) ==
  LET Mine(f) == f # NULL /\ f.inode = s /\ P(f)
  IN  Cardinality({x \in Proc \X Fd : Mine(fds[x[1]][x[2]])})
      + Cardinality({p \in Proc : Mine(executable[p])})
      + Cardinality({i \in DOMAIN ToClose : Mine(ToClose[i])})

\* An inode is in memory as long as some struct file refers to it, its
\* open_cnt is their number, and its deny_write_cnt is the number of those
\* that deny writes.
\* This comes with the types of the state (FilesTypeOK).
OpenCounts ==
  /\ FilesTypeOK
  /\ \A s \in Sector :
       LET All(f) == TRUE
           Denying(f) == f.deny_write
       IN  /\ inode[s].open_cnt = Openers(s, All)
                                   + Cardinality({i \in DOMAIN mapped : mapped[i] = s})
           /\ inode[s].deny_write_cnt = Openers(s, Denying)

\* The files that own sectors: those with a name, the open ones, and the one
\* inode_close is about to release.
Owners ==
  Named \cup {s \in Sector : inode[s].open_cnt > 0}
        \cup (IF op.at = "free_inode" THEN {op.sector} ELSE {})

\* The sectors of the operation in progress that no file of Owners has.
InProgress ==
  CASE op.at \in {"data", "undo"} -> {op.sector}
    [] op.at = "write" -> {op.sector} \cup Extent(op.start, op.length)
    [] op.at = "add" -> {op.sector} \cup Data(op.sector)
    [] op.at = "free_data" -> Data(op.sector)
    [] OTHER -> {}

Owned(s) == {s} \cup Data(s)

\* No sector belongs to two files, to a file and the file system, or to a
\* file and an operation in progress, even if a removed file is still open,
\* and after a crash between any two writes; and no two names share a file.
SectorsDisjoint ==
  /\ \A s \in Owners : /\ Owned(s) \cap System = {}
                       /\ s \notin Data(s)
                       /\ Owned(s) \cap InProgress = {}
  /\ \A s, t \in Owners : s # t => Owned(s) \cap Owned(t) = {}
  /\ \A m, n \in Name : m # n /\ entry[m] # NULL => entry[m] # entry[n]

\* The free map marks exactly the sectors that are owned, and those that are
\* lost: the data of a file whose name could not be added, and what a crash
\* leaves behind of removed files and operations in progress.  A sector of an
\* open file is not released, and one that is closed and removed is.
SectorsAccounted ==
  /\ used = System \cup (UNION {Owned(s) : s \in Owners}) \cup InProgress \cup lost
  /\ lost \cap (System \cup (UNION {Owned(s) : s \in Owners}) \cup InProgress) = {}

\* The program a process runs from does not change while it runs, if
\* deny_write_to_exec could open it: writes to it are denied and its sectors
\* are not given to another file, even if it is removed.
RunningProgramUnchanged ==
  \A p \in Proc :
    executable[p] # NULL => Data(executable[p].inode) \cap wrote = {}

=============================================================================
