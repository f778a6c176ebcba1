# A TLA+ verification of GRAGE

GRAGE is a FAT32 file system over a RAID-1 of disk processes. `grage-pfs` is a
FUSE file system; it reads and writes sectors through `grage-praid`, the
coordinator, which spreads reads over and repeats writes on any number of
`grage-ppd` processes, each the keeper of one volume file and the simulation of
one disk's head. `grage-nipc` is the message format between them and
`grage-commons` the lists, queues, sockets and logging they share.

This directory models the parts that carry the program's own logic, checks them
with TLC on small instances, and proves the properties that hold for every
value of the constants with TLAPS. Line numbers in comments, in `PROJECT.json`
and below are those of the repository.

## 1. The system

| Component (source) | State | Operations | Talks to |
|---|---|---|---|
| PRAID entrypoint listener (`praid-entrypoint-listener.c`, `praid-ppd-synchronizer.c`) | which copy is on: `replicationStatusActive`, `syncState` | accept or turn away a disk or a PFS connection; choose the source of a copy; start it | storages (shared list), disks (socket) |
| PRAID connection thread (`praid-pfs-entrypoint.c`), one per PFS connection | an iterator over the list of storages | GET: choose a disk, queue; PUT: queue on every disk | PFS (socket), senders (queues) |
| PRAID sender and listener (`praid-ppd-thread.c`), two per disk | `pendingJobs`, `sendedJobs`, `pendingResponses`, `connected`, two mutexes | send the next job; relay an answer or a piece of a copy; dispose of a dead disk and hand its reads on | disk (socket), PFS connections (sockets) |
| PRAID balancer and list (`praid-balancer.c`, `praid-state.c`, `linux-commons-list.c`) | the list of storages | rank, select, append, unlink, iterate | every PRAID thread |
| PPD receiver (`ppd-praid-entrypoint.c`, `ppd-sync.c`) | volume file, its mapping, position of a copy | queue a job; send the volume; be written by a copy | PRAID (socket), worker (queue) |
| PPD planner (`ppd-queues.c`, `ppd-planifier-worker.c`, `ppd-algorythm-strategy.c`) | sorted job queue, head position | insert by seek time; take the next, move, read or write, answer | receiver, PRAID, console |
| PPD persistence (`ppd-persistence.c`, `ppd-state.c`) | the volume file and its mapping | map, unmap; read, write a sector | worker, receiver |
| PPD console (`ppd-launchConsole.c`, `ppd-console-entrypoint.c`, `grage-ppd-console`) | a socket, a condition variable, the head's walk | position, trace of a list of sectors, exit | service thread, worker |
| PFS connection pool and endpoint (`pfs-connection-pool.c`, `pfs-endpoint.c`) | the connections and who uses them | take, build, release; GET, PUT, block of 8 sectors | PRAID (sockets), FUSE threads |
| PFS caches (`pfs-cache.c`, `pfs-file-cache.c`) | cached FAT sectors; blocks of open files | get, put, evict, flush | endpoint |
| PFS clusters (`pfs-fat-utils.c`, `pfs-fat32.c`) | the FAT, `nextFreeCluster`, `Volume.fatLock`, the `FatFile` of an open file | allocate, chain, find the end, free; mount, flush, exit | caches, endpoint |
| PFS directories (`pfs-fat32.c`, `pfs-fuse.c`) | blocks of 32-byte entries | look up, list, create, remove, rename, move | clusters, endpoint |

How they interact: a FUSE thread takes a connection of the pool and writes a
request; the PRAID's thread for that connection queues jobs; a sender writes
them to its disk, where the receiver inserts them in the planner's queue and the
worker does them; the answer goes back through the disk's listener straight
into the socket of the connection that asked. When a disk joins, its volume is
overwritten by a copy that flows source → source's listener → new disk. When a
disk dies, its listener collects the two queues and hands the reads on.

What is hard: the PRAID's threads share the list of storages and the queues
almost without locks; a storage is linked and unlinked while PUTs walk the
list; a sender tests the copy's flag and acts later; an answer can be processed
before its job was recorded; a disk dies at any step; connections are passed
from thread to thread in the PFS and a block read holds some while it waits for
more; the planner's queue is sorted by the position of a head that moves while
the sort walks. `PROJECT.json` lists them all at their lines under `hazards`.

What would make each component correct:

* **PRAID**: every GET is answered, once, on the connection that sent it; every
  disk is sent the same writes of a connection in the same order and before the
  reads that follow them; a new disk ends up with what the source had and with
  everything written since; a disk's death loses no read and crosses no answer.
* **PPD**: no queued job is lost by the sorted insertion; requests of one sector
  are done in order; the mapping is that of the file whenever the worker may use
  it; two threads share the console's socket and neither takes what is meant for
  the other; the console's wait ends.
* **PFS pool**: a connection serves one thread at a time, none is lost, no
  thread reads another's sector, and block reads cannot wait for each other for
  ever.
* **PFS clusters**: no cluster is handed out twice, not after an exit either; the
  FAT links a file's clusters in the order they were given; a size is never more
  than the clusters there are for it.
* **PFS contents**: what is written is what is read, in its own place and nowhere
  else; a cache changes nothing of what its file sees, and nothing of it is lost.
* **PFS directories**: a name leads to one object, is found where its entry is,
  is listed exactly when it is found, and goes only when it was asked to go, also
  when a call that puts two blocks is cut in the middle.

## 2. Modules

| Module | What it is |
|---|---|
| `Praid` | the whole PRAID: entrypoint listener, connection threads, senders, listeners, list and balancer, with the disks and the file system as its surroundings |
| `PraidProofs` | inductive invariant of `Praid`, a second one for the order of reads and writes, and the theorems that follow |
| `PraidUpProofs` | two more invariants of `Praid` while no disk dies: where the GET is that has no answer yet, and the stages of a copy |
| `PfsPool` | the PFS's pool of connections, with single and block requests of FUSE threads |
| `PfsPoolProofs` | inductive invariant of `PfsPool`, the pigeonhole argument, the theorems |
| `PfsFat` | the clusters of the file system: FAT, FAT cache, allocation, open files, mount and exit, as FUSE threads and the console use them at the same time |
| `ClusterDispenser` | what `PfsFat` implements: a dispenser that gives nobody what it gave before |
| `PfsFatProofs` | inductive invariant of `PfsFat`, the refinement, a second invariant for the chains of plain runs, the theorems |
| `PfsDir` | the directories: lookup, listing and every call that changes entries, block by block, with crashes between blocks |
| `NameSpace` | what `PfsDir` implements: a tree of names |
| `PfsDirProofs` | what the loops of `PfsDir` compute, what each call makes of the blocks, its inductive invariant, the refinement, the theorems |
| `PfsFile` | the contents of one file: which sectors a read and a write reach, and the cache every open of it has |
| `PfsFileProofs` | inductive invariant of `PfsFile` and the theorems that follow |
| `PpdPlanner` | a disk's queue of jobs, sorted by seek distance while the head moves, its inserting threads and its worker |
| `PpdPlannerProofs` | inductive invariant of `PpdPlanner` and the theorems that follow |
| `PpdDisk` | a disk process in connect mode with its console: receiver, worker, service thread and the console process |
| `PpdDiskProofs` | the invariants of the mapping, of the console's socket and of a trace, and the theorems |
| `MCPraid`, `MCPfsPool`, `MCPfsFat`, `MCPfsDir`, `MCPfsFile`, `MCPpdPlanner`, `MCPpdDisk` | constants for TLC |

The systems stand beside each other, each seeing its neighbours through their
sockets. `PfsDir` serves one call at a time and takes clusters as given;
`PfsFat` has the calls that run at once and takes the layout of a directory
block as one step. `PfsFile` has what is in a file's clusters and takes its chain
from `PfsFat`: in order, growing at the end. `PfsPool` sees the PRAID as the other end of its sockets,
`Praid` sees a disk as something that does its jobs in any order, `PpdDisk`
takes any queued job, and `PpdPlanner` says which. `Praid`'s disk never loses a
job, which `planner_drop` shows a real one can; what `Praid` promises therefore
holds for disks whose queue is short or whose head is still.

### Praid

State: one variable per shared variable of the process, named as in the code,
plus a program counter and the locals of each kind of thread. A storage
(`PPDConnectionStorage`) and the disk it was built for are the same member of
`Ppd`; a disk that reconnects is another member. Sockets are FIFO queues.
`inbox[c]` is every response ever written to a PFS connection; `sentTo`,
`issued` and `snapshot` are history.

Actions are as large as the code's steps that other threads can tell apart, and
no larger. The ones where something can come between:

* `SelectMaster`, `AddPpdStorage`, then `SkipReplication` or `BeginReplication`,
  `FireActive`, `FireSynchronization`: the entrypoint listener, which chooses
  the source before the new storage is listed, sleeps three seconds, raises the
  flag, and only then names source and destiny
  (`praid-entrypoint-listener.c:31-81`, `praid-ppd-synchronizer.c:19-87`).
* `SelectForGet`, `QueueGet`: a storage is chosen, and may be dead when the job
  is queued on it. `PutNext`, `PutQueue`: the iterator has read the next pointer
  before its caller uses the storage; `unlinked` keeps the pointer of a node that
  has left the list, as the code never clears or frees it.
* `SenderTest`, `SenderWait` (spin, and the flag), `SenderSend` or `SenderQuit`
  (under the mutex), `SenderRecord`, `SenderCount`: the job is recorded after it
  has been sent. `CountRace` is the unlocked counter touched by sender and
  listener at once: either change may be lost.
* `ListenerAnswer`, `ListenerRespond`, `ListenerUnlist`; `ListenerSyncPut`,
  `ListenerSyncEnd`, `ListenerSyncStop`; `ListenerBlank`, `ListenerCollect`,
  `ListenerRemove`, `ListenerSelect`, `ListenerAssign`: answers, the relay of a
  copy, and disposal of the disk with the redistribution of its GETs.
* `SendToPpd`: to a dead disk a write is lost, or kills the PRAID (`praidUp`)
  since no process handles SIGPIPE. A NULL storage dereferenced ends it too.

The disks are as `Praid` needs them: they queue jobs, do them in any order
(the planner's order is not the arrival order), send their volume as the source
of a copy, are overwritten as its destiny, and die at any step.

### PfsPool

State: the list of connections by their number (`size`, `active`), the mutex
and who holds it, per thread its operation, the connections in its hands and
the sectors it has read, and per connection the GETs and answers in the socket.
The first inactive connection the code's walk finds is the inactive one with
the highest number, as the list grows at its head.

`ReuseConnection`, `BuildConnection` then `Handshake` or `HandshakeDenied`, and
`PoolFull` are the outcomes of `pfs_pool_getPooledConnection`; `Awake` ends the
second of sleep. The handshake is made with the mutex held, so `Unlocked` guards
every other use of the pool. `Send` and `Receive` are the requests, `Release`
gives the connections back one by one. A block needs `BlockSectors` connections
(8 in the code), taken one by one and kept (`pfs-fat-utils.c:1018-1027`).
Initially one connection exists: the reads at start (`pfs-launcher.c:85`) are
made before there are FUSE threads.

### PfsFat

State: the FAT on the volume and in the cache (`fat`, `cached`, `modificado`),
`nextFreeCluster` and the one FSInfo records, `fatLock`, the directory entries
as first cluster and size, one `FatFile` for each open file (`handle`), and the
stage of the process. A thread has a program counter and the locals of its call
(`loc`). A read of the FAT is `Hit`, or `Miss` then `Fill`: between the two
another thread may put and change the sector, and the late answer overwrites it.
A change is three steps too, since a sector is copied, changed and put back.

* `Mknod`, `Mkdir`, `Open`, `Write`, `TruncateUp`, `TruncateDown`, `Unlink`,
  `Close`, `Finfo` begin a call; the kernel's own locks (`Busy`, `Naming`) keep
  two writes of one file and two changes of one directory apart, nothing else.
* `Lock`, `Scan`, `Mark`, `Link`, `Unlock` are `assignCluster`
  (`pfs-fat-utils.c:524-633`): the scan reads the same sector again at its end,
  `PutEndOfChain` marks the entry *after* the cluster's, and `nextFreeCluster`
  moves only at the end. `FindEOC` goes along a chain, `GetBlock` and `PutBlock`
  read and write the directory block (`mkdir` too, which puts its entries into the
  block as it read it and so may undo what a file's call wrote there,
  `pfs-fat32.c:579-620`), `Walk` and `Data` find the cluster of a
  write, `Peek`, `FreeEntry`, `Shrink`, `After`, `Cut`, `Drop` free.
* `FlushPut`, `FlushClear`: a sector is written, and its mark falls afterwards.
* `Unmount`, `ExitFlush`, `ExitFsInfo`, `EarlyExit`, `Mount`: the launcher
  flushes and then records; the console's `exit(1)` may come before, or with the
  volume still mounted and calls under way, when `fusermount` has failed
  (`pfs-console.c:85` does not look). `NewProcess` is what the next mount starts from.

`given`, `reserved`, `chains` and `plain` are history. `plain` falls when
something was freed, a file was made longer behind the `FatFile` of one who has
it open, a flush unmarked a change it had not written, a late answer overwrote a
newer sector, or the end of a chain was marked past its sector: in the first four
the code loses changes of the FAT. In the last (`pfs-fat-utils.c:628`, the cluster
in the last entry of a sector) the cluster that is given next has no end: its entry
is 0, and the search for the end of its chain goes on in cluster 0.

`ClusterDispenser` is the abstract specification: `out` only grows, by what is
not in it. `Dispenses` says that `PfsFat` implements it with `out <- given`.

### PfsDir

State: `block`, the clusters of directories as arrays of entries, each with its
order byte, its attribute, its name or what it stands for; the call in progress
as the list of blocks it has still to put (`op`, `todo`); and `status`, `astray`
once the program has read past a block or asked for a cluster that does not
exist (undefined behaviour: nothing is said afterwards).

`Lookup`, `ReadDirectory`, `Emptiness`, `FreePair` are the loops of the code as
recursive functions, with their own ideas of where a cluster ends
(`BlockSlots`, `v->bpc / 32`, against `SectorSlots`, `v->bps / 32`, in
`Unlinked` and `Moved`). `Mknod`, `Mkdir`, `Unlink`, `Rmdir`, `Rename`, `Move`
compute the blocks, `PutBlock` writes the next, `Crash` leaves the rest out.
`Wiped` is a removed entry: one byte is set and the 31 that follow come from the
stack, so its attribute may say "long" (`Junk`).

`NameSpace` is the abstract specification: a step adds one entry under a free
name, removes one that may go, or renames one. `entries` is the refinement
mapping, what the blocks say. `KeepsNames` says that every single block that is
put is such a step.

### PfsFile

State: the sectors of the volume by cluster (`disk`; the k-th cluster of the file
is called `k`, and the directory's cluster holds the size), `length`, one
`FatFile` for each handle with its size, the seek (`number`, `offset`), the two
remembered clusters (`read`, `write` for `fileAbsoluteClusterNumberRead` and
`...Write`) and its cache, the configured size of a cache (`cacheMax`, 0 if there is none) and
the call of each FUSE thread. `truth`, `past`, `kept` and `got` are history: what should be where, whether the calls
so far were ones the code serves, and what the last read returned.

* `Open`, `Flush`, `Release`. A call has two steps, `BeginWrite`/`BeginRead` (the
  seek, stored in the shared `FatFile`, and for a write the extension and the new
  size in the directory) and `EndWrite`/`EndRead` (the transfer): between them
  another call on the same `FatFile` may seek.
* `WriteCluster` and `ReadCluster` are the rule for the cluster a transfer begins
  in: the n-th if nothing is remembered, otherwise the one after the remembered,
  wherever the call was to begin. `Written` puts what does not fit at the
  beginning of the same cluster; `ReadOn` goes on from the remembered cluster.
  Where a cluster that is none is asked for, the program goes astray and nothing
  is said afterwards (`GoAstray`).
* `Place`, `Evict`, `AddRecord`, `PutInFileCache`, `GetFileSector`, `Flushed` are
  `pfs-file-cache.c` and the code of `pfs-cache.c` it shares: the eviction takes
  the first record found and writes it, changed or not. `GetBlock` and
  `PutBlock` put it in front of the volume, sector by sector; a directory
  in the root is never cached.

### PpdPlanner

State: the list `jobsQueue`, its mutex, the head `posicionActual`; per
connection a thread and what it was sent; `aux` of the walk; the worker and its
job. `seen` and `sortedFor` are history: the positions of the head the walk in
progress, and the jobs of the list, were compared with. `dropped` is history too.

`Receive` is a request from the socket; in listen mode a connection waits for
the answer of its GET, under a PRAID it does not (`MaySend`). `PutFirst`, or
`Put` then `Walk` ... `WalkEnd` and `Link`, are `commons_list_addNode` step by
step, one comparison each (`linux-commons-list.c:53-90`): the walk starts by
comparing the *second* job, and `Link` compares the one it stopped at once more,
going behind it (`LinkAfter`) or, if the answer is no, in front of it *and of the
list* (`LinkInFront`). `PickFromQueue`, `DoJob`, `MoveHead` are the worker; the
last has no lock, so it may come between two comparisons.

The sectors per cylinder are set from a pointer (`ppd-configuration.c:181`), so
a sector divided by them is 0: the head's two words are always 0 and the sector,
and a move of the head is one step. The console's trace, which changes that, is
in `PpdDisk`.

### PpdDisk

State: `pc` of four threads of control; the volume as the length of its file, the
sectors that are mapped and what `diskStartAddress` is; the queue as a set; the head in its
two words and `perCylinder`, which is the pointer before the first trace and the
number of cylinders after; the walk of the head that is under way; and the two
directions of the console's socket.

* `Fork`, `Listen`, `Connect`, `Accept`, `AcceptAgain`: the console runs as soon
  as it is forked and tries to connect once.
* `ReceiveJob`, `ReceiveSyncPut`, `ReplicatePut`, `ReceiveSyncEnd`, then
  `InitializeVolumeSize`, `UnmapDevice`, `MapDevice`; `ReceiveSyncGet`,
  `Stream`; `Disconnected`: the receiver. The first piece of a copy truncates
  the file while it is mapped; the end unmaps and maps beside the worker. It
  unmaps with the size of the *new* volume (`ppd-sync.c:104-112`): a mapping that
  was longer keeps its tail, and one that was shorter takes with it what follows
  in memory, of which the process may die (`up'`). A sector is taken for a page.
* `PickFromQueue`, `ReadOrWrite`, `BeginTrace`, `TiempoConsumido`, `Signal`,
  `AnswerTrace`, `MoveHead`: the worker. An access outside the mapping or past
  the end of the file ends the process. The two words of the head are stored one
  after the other (`SetTrack`, `SetSector`), in the worker and in the service.
* `ServePosition`, `ServeCylinders`, `ServePerTrack`, `ServeTrace`, and under
  SSTF `QueueTrace`, `CondWait`: the job is queued before the mutex is taken, so
  the worker may signal first (`wakeUpLost`).
* `Info`, `Trace`, `Exit`, `Unconnected` are what may be typed; `PrintPosition`
  to `PrintTime` and `EndOfFile` are what the console does with what it is sent,
  each sector of a trace echoed before the next is computed. A typed number may
  be read with a digit of uninitialised memory behind it (`AsRead`). The sector of
  a trace is a product of C ints; `IntAssumption` says that for what may be typed
  it does not overflow `IntMax`. The shipped geometries are far from it, but a
  track number large enough gets there, the sooner before the first trace, when the
  factor is a pointer (`ppd-configuration.c:181`, `hazards`).

## 3. Runs

All runs allow termination (`CHECK_DEADLOCK FALSE`): bounded clients stop
sending.

| Run | Instance | States | Shows |
|---|---|---|---|
| `praid_serve` | 2 disks, 2 connections (2 requests and 1), no crash | 1.84 M | the k-th response answers the k-th GET |
| `praid_order` | 2 disks, one may die, 1 connection, 3 requests | 2.16 M | types; no job is in a sender's hands while orphans are collected; every disk gets the writes in order, with no gap and once, through unlinking and redistribution; no read reaches a disk before the writes that came first; a read is answered again only for a disk it was sent to that has died |
| `praid_join` | 3 disks join an empty system, 1 connection, 2 sectors | 887 k | copies are complete and undo no write; a disk being copied to gets no jobs |
| `praid_live` | third disk joins two, no crash, fair | 104 k | every GET is answered, every PUT is written on both disks, copies end |
| `pool` | 2 threads, 5 connections, blocks of 3, refusals, fair | 130 k | a connection is held by one thread, none is lost, no thread reads another's sector; blocks do not wait for each other for ever and operations end |
| `fat_share` | 2 threads, 2 files, 15 clusters, 3 FAT sectors of 8 entries, 3 calls, 2 mounts, early exits, fair | 240 k | each cluster is handed out once, sizes are backed, the FAT links files in order, calls end |
| `dir` | 2 names and a file with a short name only, 2 files, 2 directories, blocks of 6 entries in sectors of 4, crashes | 36 k | lookups are right, listings show what is found, every block put is a step of `NameSpace` |
| `planner_queue` | 2 connections (3 requests and 2), 3 sectors, both criteria, fair | 2.18 M | SSTF order, and the order of each sector, while the head stood still; an insertion under a still head keeps every job; all that is not lost is done |
| `ppd` | 3 cylinders of 2 sectors, 1 job, 1 copy, volumes of 2 and 3 sectors, 2 commands, both algorithms, fair | 624 k | turns on the console's socket, no death outside copies, traces arrive, commands are answered |
| `file` | 2 opens of a file of 3 sectors, one of them writes, 2 threads, 3 clusters of 2 sectors and the directory, calls at any offset: 3 without a cache, 2 with caches of 3 sectors | 0.97 M | what is written in the way the code serves goes where it should and harms nothing else; reads the code serves return it; a cache holds no more than it may, and neither a read, its evictions nor a flush changes what the open file sees |
| `planner_drop` (violated) | 1 connection, 4 requests, 4 sectors | | a job is lost when the head moves during an insertion |
| `dir_source` (violated) | a root of two clusters | | an entry of the second cluster is edited in the first |

Why the bounds are enough. Two disks are the fewest for which a walk, a choice
or a redistribution has an alternative; three are needed for a copy with a
bystander and for two copies in a row. Two connections are needed for answers to
come in each other's way, three requests of one connection for a write, a
redistributed read and a write around it. That no answer crosses to another
connection when disks die is not a run but a theorem, for every instance (`OwnAnswers`).
Two sectors are the fewest for which a copy has a middle.
`pool` sits exactly on the bound of the theorem `NoHoldAndWait`; with one
connection fewer the same property fails. `planner_queue` has two connections so
that one inserts while the other's job moves the head, and three sectors so that
the list has a near, a middle and a far job. In `fat_share` the first free
cluster lies in the second of three FAT sectors: chains are in a sector that the
mount did not cache, which is missed and filled; the last cluster of the volume is
the last entry of that sector, so allocation gets to the end of a sector, marks
past it, and goes on in the third, where the code puts no end to it; three calls are an
allocation, an extension of its chain and a call beside them, and the second
mount reads what the first exit recorded. In `dir` a block has more entries than
a sector, so that both ends of the code's loops are met, and is small enough to
get full; `dir_source` has three names and a root of two clusters, with blocks of
4 entries in sectors of 2. In `file` the unit is a sector and a cluster has two instead
of eight: enough for a call to begin inside a cluster and to go over its end. Three clusters are needed for a later call to have a
wrong one to go to; three calls are two that move the remembered cluster and one
that is misled by it. A write is at most a cluster, since without `big_writes` FUSE
writes a page at a time. A cache of three sectors overflows in the middle of a
block, the directory, which is outside the root, is cached too, and one write
and one read, or two, evict what was changed. Only one handle writes: two writers have their clusters in `PfsFat`. In `ppd` a copy may
make the volume longer or shorter than what is mapped; there is a second track to be reached, a sector that is not on
the disk, and a second command to meet what the first left behind. What is
proved is proved for all bounds (section 4). Symmetry is used over disks in
`praid_join`, over threads in `file`, and over names in `dir`, where the initial states name none; never
in a run with liveness.

Restrictions that are hypotheses, not bounds: `RemountKilled = FALSE` in
`fat_share` (after a kill before FSInfo is written clusters *are* handed out
again), `Junk = {FALSE}` in `dir` (a removed entry whose stack bytes say "long"
hides its neighbour), a crash in `mkdir` left out of `dir` (between its blocks
it leaves a directory without `.` and `..`, which `rmdir` takes for empty),
directories of one cluster in `dir` (`dir_source` is what happens with more), and
no move into the root in `dir` (`Into`: `moveFile` looks for free entries in the
cluster after the root's, or in sectors of the FAT, and never in the root's own).

Each property of a passing run has a mutant in `PROJECT.json`: an altered
operator in the module (its comment starts with "Altered") that replaces a
definition the way a plausible bug would, and makes TLC find the property
violated.

### Fairness

`Praid!Fairness`: weak fairness of every PRAID thread and of every disk's two
threads. They are POSIX threads that spin, block on a mutex another thread
releases within a bounded number of steps, or block on a socket; nothing in the
code disables a step forever once it is possible, so a fair scheduler is all
that is asked. Nothing is assumed of clients: connecting, sending and dying are
not fair. `PfsPool!Fairness`: the same for FUSE threads and for the answer at
the other end of each connection (which is `EveryGetAnswered` of `Praid`).
`PpdPlanner!Fairness`: the worker and every thread that is inserting.
`PfsFat!FairSpec`: every thread inside a call; who waits for `fatLock` gets it
because who has it goes on and no call takes it twice in a row without steps in
between, and the bounded calls make a queue of the rest. `PpdDisk!Fairness`:
launch, receiver's own steps, worker, service, and the console once a command
was typed; what the PRAID sends and what is typed is not fair.

### What the violated runs show

* `planner_drop`: `linux-commons-list.c:4-5` says the list is synchronised for
  adding and removing. The mutex is taken, but the order depends on the head,
  which moves outside it. Everything before the node the walk reached is lost.
* `dir_source`: `pfs-fat32.h:88` says that `FatFile.source` is the cluster that
  holds the directory entries of the file. It is the first cluster of the
  directory, whichever the entry was found in; the offset is in the right one.
  Removing, renaming or truncating then edits another file's entry.

Other disagreements that were met, without a run of their own: a job is sent to
a source or a bystander after a copy has begun, because the flag is read before
the mutex is waited for (`praid-ppd-thread.c:157-161`); when the destiny of a
copy dies the flag falls while the source goes on streaming, and a disk accepted
then may be sent the rest (`praid-entrypoint-listener.c:119-122`); the criterion
for LOOK is not an order and makes the head turn more often than LOOK would
(`ppd-algorythm-strategy.c:19`), so `SectorOrder` is stated for SSTF; a job leaves
the disk's head at a remainder by the wrong number
(`ppd-planifier-worker.c:88-90`), and a trace that starts past the end of its
track walks 2^32 sectors before it meets that end, where the requirements
(`TP-SO-2C2011.pdf`, page 15) ask for the sectors of the track; a console that is
started before the disk listens leaves it waiting for one
(`ppd-launchConsole.c:78`); truncate says that it sets the end of the chain in the
entry of the cluster it got to (`pfs-fat32.c:713`), but `markEndOfChain` writes the
entry after it, and that of the cluster goes on leading to the next one, which is
freed in the same call (`Cut`). In the contents of files (`PfsFile` has each of these
steps as the code does it): only the first write of an open file sets the
remembered cluster (`pfs-fat-utils.c:432`), and every later one goes to the cluster
after it (`pfs-fat32.c:366`), so a file written from its beginning has its third
cluster written into the second; after its first cluster a read goes on from
where the read before it ended (`pfs-fat32.c:432`); with a cache, the eight sectors
of a block are put without their offset (`pfs-fat-utils.c:959`), all of them the
first; and each open file has a cache of its own whose flush writes every record,
changed or not (`pfs-fat32.c:882`), so a reader that closes undoes what was
written through another, where the requirements (page 10) ask for one cache per
file.

### What the hypotheses of the properties say about the code

`EnoughConnections` is `MaxConnections > (BlockSectors - 1) * threads`. With the
code's block of 8 sectors and a pool of 16 connections, two concurrent block
reads are safe (16 > 14) and three are not; with fewer than 8 connections a
single block read never ends. No comment of the code promises otherwise, so this is
stated as the hypothesis of a theorem and not as a finding.

`AnswersMatch`, `CopyComplete`, `WritesNotUndone`, `NoJobsDuringCopy` and the
liveness properties of `Praid` hold for disks that stay up: they are checked so,
and the first four are proved so.
With a death in the wrong window a read can be answered twice or never (see
`hazards`): how often it can be is `ReadAgainOnlyAfterDeath`, that it may be lost
is not excluded. `ChainsHold` and `CallsEnd` are stated for `plain` runs (and
`CallsEnd` for a process that was not ended by the console),
`LookupsRight` and `ListsWhatIsFound` while no directory is full,
`CommandsAnswered` while no wake-up was lost. `FileHolds` and `ReadsRight` are
stated without a cache and for the calls the code serves (`kept`, `Served`): not
beside another call on the same `FatFile`; the first of an open file in the first
cluster or beginning inside one, since an offset at the beginning of a later
cluster is rounded to the one before; and a later one within the cluster after
the remembered one. The disagreements above are what is outside.

## 4. Proofs

`PraidProofs` proves, for any sets of disks and connections, any number of
requests and crashes (from `PraidAssumption` only):

* `Invariant`: `Spec => []IInv`. `TypeOK` is not inductive. A job leaves a
  queue's head, so the queue must be known not to be empty; `SenderInv` says that
  a sender at the lock has seen one and that nobody else takes it. A thread of
  a storage is started by `LaunchNewSlaveThread`, so it must not be running:
  `EntryInv` says that the disk the entrypoint is busy with has none. A crossed
  answer is excluded by `Known`: every job anywhere is the one issued under its
  connection and number, so relaying by `job.conn` is right. And sender and
  listener exclude each other because each phase that owns `disconnectionMutex`
  is tied to its value.
* `TypeCorrect`, `SourceExists` (`MasterExists`), `NoneInHands`
  (`NoJobInHands`), `OwnAnswers` (`AnswersIssued`) follow from it.

It adds, under the same assumption (which says that the disks of the initial
list are distinct):

* `OrderInvariant`. A PUT walks the list with no lock, so why does it come to
  every disk that is served, and to none twice? `ListInv`: the list keeps the
  order of the initial disks, later ones behind; a pointer of a node that has
  left the list leads forward, and past no initial disk that is still connected,
  because a disk is unlinked only after its own connection ended. `WalkInv`: a
  walk's iterator is ahead of the storage in its hands. `JobsInv` relates the two
  histories: a write of a connection is among what disk `d` was sent or has
  queued exactly when the walk of that write is not `Ahead` of `d`. `OrderlyInv`:
  in the sequence of all jobs of a disk each comes after the writes before it.
  Each step then either moves a walk past no disk that is served
  (`NextSkipsNone`), queues the write of a walk where it was missing
  (`QueueOrder`), or queues a read behind writes that are all there
  (`ReadQueued`, used for the PFS thread and for the redistribution of orphans).
* `WritesInOrder` (`PutsInOrder`), `ReadsAfterWrites` (`ReadsFollowWrites`).

`PraidUpProofs` proves what holds while no disk dies: the hypothesis is
`MaxCrash = 0`, with which no `PpdCrash` is possible (`UpStep`), and nothing else is
asked of the disks, connections, requests or schedules.

* `AnswersInOrder` (`AnswersMatch`). A job goes through six places: the hands of a
  connection thread, a storage's queue, the socket to the disk, the disk's queue,
  the socket back, the listener's hands. `AnswerInv`: the GETs of a connection are
  in one place at most and once in it, are its last request, and while there is one
  all before it have been answered (`Gets` is `inbox` with that one appended). A
  job that is recorded in `sendedJobs` is not in a place of the way, so it does not matter when
  `SenderRecord` and `ListenerUnlist` get to it. `Gets` is a recursive
  function over the requests; `FirstGetsStep` says what it is at 0 and at each
  successor, from which `GetsGrow` follows by the least natural where it would fail.
* `CopyIsAlone` (`NoJobsDuringCopy`), `CopyIsComplete` (`CopyComplete`),
  `CopyUndoesNothing` (`WritesNotUndone`). The pieces of a copy have no number: one
  lands where the one before it ended, after two sockets and a listener, with
  answers and jobs between them. `Stream(q, i, k, held)` says that the pieces in
  socket `q` are those of the sectors from `i` up to `k`, in order, each with all
  that was held there when the source was asked. `SourceAt`: a copy that is on is
  in one of four stages. Its source was asked (`Asked`), sends
  (`Streams`: the two sockets together reach from where the destiny's file ends to
  where the source reads), has sent all (`Ended`), or its listener has sent on
  the end (`Told`); a disk that is no source has none of these in its sockets.
  `DestinyAt`: a disk that receives has no job queued, and none comes before the
  end in its socket; below the position of its file it has what was held, above
  it nothing. `LaunchInv` is why there is one copy at a time, why its destiny has
  been sent nothing (`SenderWait` lets no job pass while the flag is up, and the flag is up
  before the threads of the new disk start), and why nobody
  but the entrypoint's launch starts one. The end then finds every
  sector written (`AllLanded`), and a piece a sector that holds nothing
  (`PieceLands`). Both compare positions with `None`, so `PraidAssumption` says
  that `None` is not a number.

`PfsPoolProofs` proves, for any finite set of threads and any sizes (from
`PoolAssumption`):

* `Invariant`: what a thread holds at every point (`ThreadAt`), who owns the
  mutex, that no connection beyond `size` is taken, `HeldByOne`, and
  `SocketInv`: a socket carries the one GET of the thread that holds it and has
  not read it, or nothing. The last is what makes it safe to pass a connection
  on: it is released only after its answer was read.
* `TypeCorrect`, `NoneShared` (`HeldByOne`), `OwnAnswers` (`OwnSectors`).
* `NoHoldAndWait`: if `EnoughConnections` then always `NeverAllWaiting`. If all
  waited with every connection taken, each connection would be in one of the
  first `BlockSectors - 1` slots of some thread: an injection of the connections
  into `Thread \X 1 .. BlockSectors - 1`, so there are no more connections than that.

`PfsFatProofs` proves, for any threads, files, calls and sizes of the FAT (from
`FatAssumption`), if `RemountKilled = FALSE`, that is, as long as a volume whose
process was killed before it recorded `nextFreeCluster` is not mounted again:

* `Invariant`: each program counter with the operations and locals it can have;
  who is between `Lock` and `Unlock` owns `fatLock`, works on `nextFreeCluster`
  and has found something beyond it; everything given lies below
  `nextFreeCluster`; after an orderly exit the recorded cluster is the one
  before it; and every size, on the volume, in a `FatFile` or in a call's locals,
  has room in the clusters reserved under its name, counting those the call has
  still to reserve.
* `TypeCorrect`, `SizesBacked` (`Backed`), `NoneTwice` and `Implements`
  (`Dispenses`, the refinement of `ClusterDispenser`) follow from it.

It proves `ChainsKept` (`ChainsHold`) under the same hypotheses.
`ChainsHold` speaks of moments when nobody is in the lock; in between a thread has
marked, but not linked, or linked what is in no chain yet, and others hold sectors
they have read. The invariant (`ChainsInv`) says of a plain run that there is a
function `own` from clusters to files such that (`Plainly`):

* `ChainShape`, `Linked`: chains have no cluster in common, lie below
  `nextFreeCluster`, and are linked in the FAT as it is seen through the cache, the
  one that `Unlock` is about to make longer excepted.
* `FreeAbove`: the entry of `nextFreeCluster` is marked, and those above it are
  free, but for the mark that the thread in the lock has just made.
* `Threads`: who is in the lock has the sector as it is in the cache, works on
  `nextFreeCluster` and the one after it, and links to the end of a chain that is its
  file's (`Locker`, `Extender`); who searches an end is on the chain of its file; an
  answer of the volume under way is what the cache lacks (`Answer`).
* `Entries`, `Handles`, `FilesApart`: an entry, and a `FatFile` that no write is using,
  names the first cluster of a chain that is the file's own by `own`, and a remembered
  end is the end of that chain; no two threads make one file longer.
* `UnmarkedWritten`: what is cached and not marked is on the volume, so that a mount
  sees what the exit saw.

Who owns a chain is not in the state: a `FatFile` that was never written back may be
the only one to know it. `Unlock` of a new chain chooses it, so `own` changes there and
only there, at a cluster that nobody names. That the scan stops at the very next
cluster (`FreeAbove`) is what makes the mark after the cluster's own entry harmless,
and the proof is where the end of a sector came up: there no mark is made, and the
invariant fails at the next allocation.

`PfsFileProofs` proves, for any opens, threads, calls, clusters and sectors and for
caches of any size (from `FileAssumption`, which says that a write ends within the
bound on the file's size):

* `Invariant`: `VolumeInv` (every sector holds what may be in it, and while the file
  has no cluster its entry says 0), `FileInv` (what is remembered of a file is within
  its chain, a cache is no longer than it may be and has no sector twice), `CallInv`
  (a call is on an open file, and one that was alone finds its own seek in the
  shared `FatFile`), `PastInv` (the history of the calls and the remembered cluster
  say the same), `TruthInv` (what was written in the way the code serves is in a
  cluster of the file) and `ReadsRight` itself.
* `Typed` (`TypeOK`), `Holds` (`FileHolds`), `ReadsAreRight` (`ReadsRight`),
  `Transparent` (`CacheIsTransparent`: reading, evicting and flushing leave what
  the `FatFile` sees of every sector as it was).

A transfer goes through a block sector by sector and through a chain cluster by
cluster, in recursive functions. What they compute is proved all the same:
each has a lemma with its value at 0 and its step (`GetStepByStep` and the like),
and a fact that holds at 0 and is kept by the step holds up to the bound, since
the least number where it fails would have one before it (`UpTo`, from the
well-foundedness of `<` alone).

`PpdPlannerProofs` proves, for any connections, requests and number of sectors
(from `PlannerAssumption`), over every interleaving with the head:

* `Invariant`: `Control` (who holds the mutex, that `aux` is on the list),
  `WalkInv` (as long as the walk has compared from one position only, the job it
  reached stays before the new one unless it is the first, and the next does
  not), `OnceInv` (a request not yet placed is later than all of its connection
  that are), `SortInv` and `OrderInv`. `WalkInv` is what makes the second
  comparison harmless: under a still head it can only fail at the first node, so
  nothing is in front of it to be lost (`StillInFront`). `LinkPlaces` then
  says that the new job is put behind all that are no farther and before all
  that are, from which both orders follow.
* `TypeCorrect`, `NothingTwice` (`DoneOnce`, which no run checks), `ShortestFirst`
  (`ShortestSeekFirst`), `SectorInOrder` (`SectorOrder`), `StillKeepsAll`
  (`KeptWhileStill`).

`PpdDiskProofs` proves, for any geometry, volume, jobs, copies and commands (from
`DiskAssumption`, which says that what is configured and asked for are words;
`IntAssumption` says for which inputs the model's product is the code's),
three invariants, the first two of which have nothing to do with each other:

* `VolumeInv`: between the end of a copy and the beginning of the next the
  mapping, the size and the file agree, and at every point of a copy's end what
  has been done of it. It gives `WholeFileMapped` (`MappingIsTheFile`, which no run checks) and
  `AccessIsSafe` (`DiesOnlyInCopy`).
* `TurnInv`: console and disk are together in one of five phases: at rest, asked,
  answered, a trace queued for the worker, or under way in one of the two
  threads. Each says what is in the socket and which thread may look at it;
  `TurnsHold` (`TakeTurns`) follows.
* `TraceInv`, on top of `TurnInv`: what each message means to who will read it
  (`AskInv`, `ToldInv`), that a trace waiting for the worker is for the sector that is
  wanted (`TraceJobInv`, through the multiplication and the division by `perCylinder`,
  before and after the first trace), that a trace under way is on the
  wanted track and stands where the console last printed (`WalkInv`), that jobs and
  head are words (`JobsInv`, `HeadInv`). `TypeCorrect` (`TypeOK`) follows with no
  hypothesis, and `TracesArrive` (`TraceArrives`) when `PerTrack <= Cylinders`.
  The hypothesis is the code's: `TiempoConsumido` takes the cylinders for the
  sectors of a track (`ppd-console-entrypoint.c:57`), and where the tracks are longer
  than that a sector past the end of the disk is in range for it. With the
  hypothesis a sector of the disk may still be refused, but what is traced is on it.
  `AfterTracks` is a recursive function, treated as those of `PfsFile` (`UpTo`).

`PfsDirProofs` proves, for any names, files, directories and blocks of any number of
entries in sectors of any size (from `DirAssumption`), under `OneBlock`, which is what
the run `dir` assumes too: every directory is one cluster, `Junk = {FALSE}`, nothing is
moved into the root and no crash comes within a mkdir. Without any one of them TLC finds
one of the properties violated, for the reasons given in section 3.

* What the loops compute. Each is a recursive function over positions of clusters;
  a lemma gives its step (`LookupSteps` and the like; that such a function exists is
  `WalkExists`, by the greatest place without a value), and a fact is carried from the
  end of the block back to where the loop starts. `LookupFacts`: a lookup finds the
  first entry of the name, comes to the end, or leaves a full block. `ListFacts`: a
  listing shows the entries (`Heads`) of a block that has an end, each and no others.
  `FreePairFacts`, `EmptinessFacts`: what is found free is free, and what is taken for
  empty holds no entry.
* `Invariant`: `Good` (a block is whole entries: behind the end only the end, `EndsLast`,
  and a long entry has its short one behind it, `InPairs`), `Fresh` (an object not made
  yet is in no entry, and the block of such a directory is blank), `WellMade` (a directory
  that can be found has its `.` and `..`: `Emptiness` starts behind them and would jump
  over an entry if there were none), `Alone` (a short entry that stands alone is of the
  file that had one first), and `Pending`: each block that the call has
  still to put keeps all this by the time it is put, in this order. `WellMade` is not
  kept between the two blocks of a mkdir, which is why a crash there is left out;
  a program that is astray need not keep it, since no call follows.
* `Edit` is a change of one entry, at one place or two, and its lemmas say what such a
  change leaves as it was (`EditGood`, `EditFresh`, `EditWellMade`, `EditAlone`,
  `EditEntries`). Every block of every call is one: `AddSafe`, `RemoveSafe`,
  `RenamePairSafe`, `PutShortSafe`, `DotsSafe`; a call is then one lemma (`MknodKeeps`
  to `MoveKeeps`).
* `TypeCorrect` (`TypeOK`), `LookupsCorrect` (`LookupsRight`), `ListingsCorrect`
  (`ListsWhatIsFound`) follow from it. `NamesKept` (`KeepsNames`, the refinement of
  `NameSpace`) has one more hypothesis, `OneShort`. It says nothing of a volume whose
  files all have long entries, as those made by this code have. If there are files
  without one, it lets there be one, with a short name that no call uses and that every
  new name is shortened to (the run's `SameShort`; the code appends `~1` to the first six
  letters and does not look whether that name is taken,
  `pfs_fat32_utils_loadEntryFilename`). A rename of such an entry changes only its short
  name, so with two of them the new one may be the other's.

Only model-checked: all liveness, `ReadAgainOnlyAfterDeath`, and `PfsDir` with more
clusters (`dir_source`).
Fairness and ENABLED are out of the prover's reach; so are the library's induction
theorems, which take an operator, but not induction itself (see `UpTo` above).

## 5. Not modelled, and why

* Torn list updates: linking and unlinking are atomic in `Praid` (the stale
  pointer that an iterator keeps is modelled).
* A PFS connection that closes in the middle of a request, and file descriptor
  numbers reused by the system for another connection.
* The bytes of messages, partial sends and receives; logging; configuration
  files; the parsing of a line of either console; the wrappers of
  `grage-commons` around the C library. They are wording and I/O; the values
  they deliver are constants or chosen freely.
* The delays of a disk, and of the head over sectors other than a trace's
  refusal; the contents of sectors in `PpdDisk` (in `Praid` a sector is the set of
  writes it holds). In `Praid` a source of a copy reads its volume sector by
  sector; the code reads it through a stdio buffer of eight sectors, so what is
  streamed may be some sectors older.
* The eviction of FAT sectors. It is the code that `PfsFile` has as `Evict`, on
  another list, but the FAT cache holds a fifth of the FAT and at least 102
  sectors: an instance of `PfsFat` that overflows it is out of TLC's reach. (A
  FAT sector driven out between its read and its put is added again unmarked:
  `hazards`.)
* Races within one transfer or flush of one file's cache, whose list has a mutex
  for linking only; two open files that write at once in `PfsFile`; the dump of
  the caches on a signal, which only reads them.
* `freeClusterCount` (only printed), the times of an entry.
* Several calls in one directory at once in `PfsDir`; the layout of a directory
  in `PfsFat`. The kernel serialises changes of one directory.
* Without a pool (`pfs.max.connections` 0) the PFS opens a connection for each
  request: `Praid` has it as `Pooled = FALSE`, `PfsPool` has not.
* Listen mode's accept and close of a file system; spurious wake-ups of the
  disk's condition variable.
* The test programs.

## 6. Plan

What would come next, in this order:

1. `Grage`: `Praid` with `PpdDisk` and `PpdPlanner` for its disks, and `PfsPool`
   in front of it; a read that overtakes a write over another connection
   (`pfs-endpoint.c:178`) is a property of the two together.
2. `RaidService`: an abstract read/write service and the refinement by `Praid`
   with disks that stay up, from `AnswersInOrder`, `WritesInOrder` and
   `CopyIsComplete`.
3. Proof: `ReadAgainOnlyAfterDeath`, by counting the places of a read as
   `AnswerInv` does, with one more place for each dead disk it was sent to.
