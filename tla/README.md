# A TLA+ specification of DazukoFS

DazukoFS is a stackable Linux filesystem. It lies over a directory and asks
processes in user space, before a file on the mount is opened, whether the open
may go on. This project models the decision, the devices and texts by which
user space takes part in it, the stacked filesystem and its page cache, and the
load of the module, in TLA+. TLC checks the models on small instances, and
TLAPS proves some of the properties for instances of every size.

Source names are kept: `release_event`, `mask_proc`, `group_count`, `todo`,
`working`, `use_count`, `error_out5` are what they are in the C files.

## 1. The system

### Components

| part | files | state | operations |
|---|---|---|---|
| access check | `event.c`, called from `file.c` | `proc_list`, `struct dazukofs_event` (`assigned`, `deny`, `deprecated`), `last_event_id` | `dazukofs_check_access()`: precheck, allocate, assign to all groups, wait, release |
| registered processes | `event.c`, `group_dev.c` | `todo_list` and `working_list` of a group, the tracked flag of an open device | open, release, read, write and poll of `/dev/dazukofs.N` |
| groups | `event.c` | `group_list`, `group_count`, `use_count`, `track_count`, `deprecated` | `dazukofs_add_group()`, `dazukofs_remove_group()`, `dazukofs_get_groups()` |
| control device | `ctrl_dev.c` | the snapshot a reader is given | parse `del=`, `add=`, `addtrack=`; read the list of groups |
| ignore device | `ign_dev.c` | `ign_list`, `private_data` of an open file | open, release; `dazukofs_check_ignore_process()` |
| load and unload | `super.c`, `dev.c`, the init and destroy functions of all others | caches, device numbers, class, cdevs, nodes, the filesystem type | `init_dazukofs_fs()`, `exit_dazukofs_fs()` |
| stacking | `inode.c`, `dentry.c`, `file.c`, `dazukofs_fs.h` | references to the lower dentry, mount, inode and file; copies of attributes | lookup, create, link, unlink, rename, open, release and the rest of the VFS operations |
| mount | `super.c` | superblock and root | `dazukofs_get_sb()`, statfs, evict, put_super |
| page cache | `mmap.c`, `file.c` | pages, size and position of the upper file | read, write, llseek, readdir, mmap, readpage, writepage |
| user space | `test/` | group id, event id and position of a handle | `libdazukofs`; `showfiles` |

### How they interact

An *anonymous process* opens a file on the mount. `dazukofs_check_access()`
takes `group_count_sem` for reading, allocates an event and one container for
each group, appends a container to the todo list of every group, and sleeps
until the count `evt->assigned` is zero. No signal ends that sleep.

A *registered process* reads `/dev/dazukofs.N`. It claims the first container
of group N (todo list to working list), and the file is opened for it. That
open goes through the same mount, so the process is put on `proc_list` first
and the nested `dazukofs_check_access()` lets it through. When the process
writes its answer, the container leaves the working list and `release_event()`
records a denial and decrements `assigned`.

A *control process* adds and deletes groups with `group_count_sem` held for
writing. A deleted group is marked deprecated, its containers are released and
everyone on its queues is woken; the structure is freed by a later add, when
its `use_count` is zero. A group added with `addtrack=` is also deleted by the
last tracked process that closes its device.

The *library* writes `add=NAME` to the control device, looks for `:NAME` in the
list it reads back, opens the device with the digit before it, and from then on
reads lines with an event id and writes answers with it.

The *stacked filesystem* keeps an upper dentry, inode and file for each lower
one in use. An operation on the upper object is handed to the lower one and the
attributes are copied back. `read(2)` and `write(2)` go to the lower file;
mapped pages belong to the upper inode and are copied in `readpage` and
`writepage`.

### What is hard

There are three locks (`group_count_sem`, `work_mutex`, `proc_mutex`) and one
more per event. Containers, groups and events are reached by pointers that are
kept over an unlock. A device keeps no pointer to its group but an id that may
go to another group. Sleepers depend on wake-ups that come after the unlock.
The load has 35 steps that may fail and devices that work before it is over.
Dentries and inodes exist twice and are released by two caches; an upper inode
is found by an address that is used again. A page is filled, written back and
marked outdated by three parties that share only its lock. Texts are cut by
buffers of 19, 32, 43 and 255 bytes.
`PROJECT.json` lists these hazards at their lines with the properties about
them.

### What correctness means

* An access is decided when every group that was asked has answered or is
  deleted, and it is denied exactly if one denied (`VerdictSound`,
  `ImplementsAccessControl`).
* The count an access waits for agrees with the lists, and an event lives
  exactly as long as somebody may look at it (`EventAccounting`, `HeldOnce`,
  `EventsAlive`, `RemovedGroupsEmpty`).
* Nobody sleeps through an event or an answer, and whoever reads or polls a
  group when it ends is told (`NoLostWakeup`, `PollersTold`,
  `EveryAccessReturns`, `RemovedGroupsLeft`; `PollersInterrupted`, which does
  not hold).
* The file that is opened for a registered process raises no event
  (`NoRecursion`).
* Counters of groups are exact and groups are freed when nobody uses them
  (`GroupCountExact`, `EnoughContainers`, `GroupsDistinct`, `UseCountExact`,
  `GroupsProtected`, `DeletedOnlyWhenEmpty`).
* Commands, lists and answers survive their buffers: a write stops at its
  first failing command, a list is whole and of one moment, an application gets
  the device of its group and its answer means what it meant (`WritesInOrder`,
  `OneList`, `ListFits`, `ClientServesItsGroup`, `AnswersArrive`).
* What the upper side uses is held below, and everything is given back
  (`HeldWhileUsed`, `OnlyKnownLeaks`); a name and a file above are the same
  name and file below, with the same attributes (`SameFile`, `NamesAgree`,
  `AttrsAgree`).
* No stale page is taken for a current one, sizes agree, reading on and
  `readdir` skip and repeat nothing, and every write ends
  (`UptodatePagesCurrent`, `SizesAgree`, `ReadsInSequence`, `WritesEnd`).
* Exactly the processes that have the ignore device open are hidden
  (`HiddenIffOpen`; `EntriesOwned`, which is proved).
* A load that fails leaves nothing behind, and nobody uses what has been
  released (`ReleasesExact`, made of `NothingLeft` and `ReleasesHeld`;
  `Nested`, `UsersServed`, `NodesLeadHome`).

## 2. The modules

    EventState      data of event.c, lists, wait queues, release_event
      CheckAccess   dazukofs_check_access()
      GroupDev      the group devices
      GroupCtrl     dazukofs_add_group(), dazukofs_remove_group()
    Events          the three together: Init, Next, Spec, properties, fairness
    AccessControl   what the event subsystem promises, without its mechanism
    MCEvents        symmetry for TLC
    EventsProofs    types, what a step leaves alone in other threads, and the
                    open for a registered process
      AccessProofs  events, lists and verdicts; the step simulation
        GroupProofs group list, group_count and use_count; sleepers

    IgnDev          the ignore device;   MCIgnDev;   IgnDevProofs
    ModuleLoad      load and unload;     MCModuleLoad; LoadProofs
    DevText         texts and library;   MCDevText;  DevTextProofs
    Stack           stacked filesystem;  MCStack;    StackProofs
    FileIO          page cache, I/O;     MCFileIO;   FileIOProofs

### Events and its parts

A thread is a process inside one call of the module. `pc[t]` is the point it
has reached, `cur`, `ec`, `mine`, `cnt`, `cmd`, `ans` and `pollq` are its C
locals. An action is one critical section of `work_mutex`, or one access to
shared state outside it. Where the code keeps a pointer over an unlock the
model has two actions, and what the pointer leads to may be gone in the second.

*Groups* are numbered in the order in which they are allocated and never
reused, so that a stale pointer can be told from a fresh one; the list is the
set of active and deprecated groups in that order, because the only way into
it is `list_add_tail()`. *Events* are their ids. A *container* is named by its
event and its group: it exists exactly as long as it is on one of the lists of
the group or a writer has taken it off.

*Memory that is gone.* A step that would follow a pointer to a freed container
or group, or past the containers that were allocated, is undefined. The model
records it in `fault` and stops. The inputs of `groups`, `delete`, `live` and
`tracking` can lead there (see the races below): their properties hold up to
that point.

*`group_count`.* `dazukofs_group_release_tracking()` changes it with
`work_mutex` only and `dazukofs_add_group()` with `group_count_sem` only. Both
are a load and a store in the model (`CloseTracked` and `StoreRemoved`;
`AddLoad` and `AddStore`). While the first one is between the two, `removing`
names its group and `work_mutex` counts as held.

*Wait queues.* `wait_event()` queues before it tests, so testing and falling
asleep are one step; no wait is exclusive, so a wake-up wakes all.

*The nested open.* A registered process in `open_file()` goes through the same
actions of `CheckAccess` as an anonymous one; `cur[t] # NoGroup` tells them
apart. `dentry_open()` may fail before it comes to `dazukofs_check_access()`
and after.

*Environment.* The constant `Env` says what may happen besides: allocation
failure, no descriptor, a file that cannot be opened, a bad buffer, a signal or
timeout, an answer written twice, an answer with the id of an event that
nobody was given, a read before the answer, a process that quits or dies, a
device opened before its group is there.

*History.* `vote[e][g]` is what became of event `e` in group `g`; it is read by
properties only.

### AccessControl

`asked[p][g]` goes from `none` to `pending` for all groups at once, then to
`allow`, `deny` or `gone`; the verdict is given when nothing is pending. In
`Events` the state of an access is the `vote` of the event the thread waits
for, and the verdict is what it has read before it releases the event.

### IgnDev

Entries have addresses (`Slots`) that are handed out again. A file points to
the entry made at its open, and `dazukofs_remove_ign()` searches the list for
an entry with the same pid. What an entry that is freed holds is any process
or none (`ReadsPid`).

### ModuleLoad

What is acquired is a set (`held`), the load a sequence of resources, a failure
the sequence of releases of the labels that follow. Processes open devices from
the moment node and cdev are there, during the load too. The kernel refuses an
unload while the module is in use, but nothing stops the undoing of a load that
failed: `FailsInUse` says whether that may happen while a device is open.

### DevText

A text is a sequence of commands, a command a key and a name, a name a word and
its length: enough to know where a buffer cuts it and which name is the end of
which. `Parsed` is what `strstr()` and the scan of `process_command()` find in
the 31 bytes that are copied; the commands are then carried out one at a time,
with other processes in between. `dazukofs_get_groups()` takes the lock anew
for each size of its buffer. Of the numbers in a line only the widths are kept,
in which the whole protocol between `dazukofs_group_read()`,
`dazukofs_get_access()`, `dazukofs_return_access()` and
`dazukofs_group_write()` is decided. Adding and deleting a group is one step:
`GroupCtrl` has its locks.

An unterminated text is followed by whatever is on the stack, since
`is_valid_char()` takes the `'\0'` for an allowed character; the name ends at
that `'\0'` all the same. `Parsed` follows it where it matters: an empty name at
the end of a text is accepted, and refused elsewhere.

### Stack

One directory, the root. `refs` counts references and allocated structures the
way the code's `dget()`, `mntget()`, `igrab()`, `kmem_cache_zalloc()` and their
opposites do; `Users` counts who will give one back. Lower and upper caches
drop what is unused at any time, lower inodes get addresses that are used
again, and a file lives on the disk by its names. Operations of a directory
hold its lock and are one step each, except that `dazukofs_interpose()` is cut
where the dentry becomes visible before its attributes (`fresh`). An open is
cut at `dazukofs_check_access()`, which may wait for long; the answer comes from
the model `Events`, here it may be either.

The code compiles differently for different kernels. The model follows
`dazukofs_get_sb()` as it is before 2.6.39, because from then on it never calls
`dazukofs_read_super()` ("FIXME!", `super.c:212`) and the root has no inode;
`Before36` chooses between the two forms of `dazukofs_create()` and
`dazukofs_open()`. In all else the branches do the same, where they compile:
for kernels before 3.2 `dazukofs_unlink()` and `dazukofs_rmdir()` set a field
`n_link`, which the model takes for `i_nlink`.

### FileIO

The contents of a page are the set of writes and stores it shows, so that two
pages are equal exactly if they show the same. A write goes through its steps
with `i_mutex` held: `vfs_write()` below, one locked page after the other marked
outdated, size and position copied. A fault locks the page before `readpage`
and a write-back before `writepage`; the lower page is read or written in a step
of its own. The reference `find_lock_page()` leaves behind pins the page.
`got[p]` is a history variable that only `ReadsInSequence` reads: where the
process chose to start, by a seek, a rewind or a write, and how often it was
given each byte or entry since.

## 3. The runs

| run | what it asks |
|---|---|
| `core` | two accesses, two groups, two readers who may share a device; opens and copies fail, signals, reads ahead, double answers: counts, lifetimes, verdicts, masking, no container in two places, refinement of `AccessControl` |
| `groups` | two control processes, three names, two devices, devices opened before there is a group, a hidden process: counters, ids, use counts, freeing |
| `delete` | a group is deleted and added again at any point of the work of two readers, one of whom polls: nothing left on the lists, no event slept through, pollers on the queue told of the end |
| `tracking` | tracked groups and their last processes, two accesses: the moment of the deletion, refinement of `AccessControl` when a group disappears |
| `live`, `live_crash` | liveness, see below |
| `ignore` | four processes on the ignore device, each opens it once |
| `load` | any step of the load fails, ten group devices, two processes that use the module during the load and after it |
| `text` | one application and one process on the control device: five texts, lists of 0 to 43 bytes against buffers of 18, 36 and 72, an application whose name is the end of other names, lines of 42 and 43 bytes |
| `stack` | two names, two files, two dentries and two inode addresses on each side, one process that opens and follows: references, identity, names, attributes |
| `fileio` | a writer, a process with a writable mapping, the write-back, one that reads, seeks, or reads a directory and rewinds; two pages: contents, sizes, what is read, end of writes |

Every property of these runs is broken by a change of the model that
corresponds to a plausible slip in the code; `PROJECT.json` names the changed
definitions, which stand before the right ones in the modules.

### Where code and documentation disagree

One run states what the README of DazukoFS says, and TLC finds an execution of
the code that contradicts it.

`README:146` warns of changes made below the
mount, "it may result in corrupt data or kernel crashes", and says that "As
long as /usr/local/games is ONLY modified through dazukofs, there should not be
any problems". In `unlink_race` all changes are made through the mount. A
process walks to a file and holds the upper dentry; before it opens the file,
another one deletes it. `dazukofs_unlink()` takes no reference on the lower
dentry, so `d_delete()` finds it held once and makes it negative, while the
upper dentry, held twice, is unhashed and keeps its inode. The open or `chmod`
that follows finds a lower dentry without an inode (`SameFile`).

The passing runs stay away from this and from the following cases by their
inputs or their properties, not by changes of the model. Each can be seen by
changing a run as said:

* `groups` with `addtrack` among the commands: `event.c:82` says that
  `group_count_sem` "protects: group_list, group_count", but the last tracked
  process that leaves changes `group_count` under `work_mutex`. One update is
  lost, and accesses allocate a wrong number of containers (`EnoughContainers`).
* `tracking` with `del` among the commands: a device opened for an earlier
  group with the same id is closed, and the group that has the id now is deleted
  under its process (`DeletedOnlyWhenEmpty`, against `README:263`).
* `delete` with `PollersInterrupted` among the invariants: `README:285` says that
  "When a group is deleted, any processes registered with that group will be
  interrupted", and `event.c:241` of `__remove_group()` that "Any processes
  waiting on the queue are woken". A process in `poll(2)` has found its group
  and given `work_mutex` back; the group is deleted and its `poll_queue` woken
  (`event.c:259`); then the process comes to `poll_wait()` (`event.c:1099`),
  sees an empty list, does not look at `grp->deprecated`, and sleeps on a queue
  that nobody wakes again. A poller that is on the queue already is woken, which
  is `PollersTold`.
* `ignore` with a process that has two files: both are closed, the second close
  reads the entry the first one freed, and the process may stay hidden
  (`HiddenIffOpen`, against `README:324`).
* `delete` and `live` do contain a group that is deleted between `claim_event()`
  and `open_file()`, with a reader that follows a freed container although
  `work_mutex` "protects: ... todo_list, working_list" (`event.c:85`). Such a
  behaviour ends there with `fault`.
* `stack` with `Fails = {"iget"}` or `{"di"}`: a failing `dazukofs_interpose()`
  makes `dazukofs_lookup()` and `dazukofs_read_super()` put references that the
  release of the dentry puts again, and `dazukofs_fill_super()` puts a root that
  is put later; a count becomes negative (`HeldWhileUsed`).
* `stack` with `Before36 = FALSE`: `dazukofs_create()` puts what it has not got,
  `dazukofs_open()` keeps what it should put (`HeldWhileUsed`).
* `stack` with files in `StatfsOn`: the lower dentry that `dazukofs_statfs()`
  has got stays unhashed under a deleted name, which cannot be used again
  (`NamesAgree`).
* `fileio` with a size below the present one in `TruncateTo`: pages keep what
  has been cut off (`UptodatePagesCurrent`). With `Grabs = {TRUE, FALSE}`, a
  page whose `dazukofs_writepage()` fails is clean and differs from the file.
* `text` with `IdDigits = {20}`: the id has wrapped and is printed as a negative
  number in an unsigned long; it is handed out, and the answer is cut and
  refused (`AnswersArrive`). With `LibReadLen = 30`, standing for a list longer
  than 255 bytes, the library does not find its group, and with a text that
  deletes it the library may serve another one (`ClientServesItsGroup`).
* `groups` with a poller: a poller stays on `grp->poll_queue` after
  `dazukofs_poll()` has dropped its use count (`event.c:1103`), so the group
  can be freed under it and `GroupsProtected` fails.
* `load` with `FailsInUse = TRUE`: a device that was opened during the load is
  open when a later step fails, and `dazukofs_destroy_events()` runs, which
  assumes that "everything else has been already cleaned up by the device
  layer" (`event.c:274`); `UsersServed` fails.
* `tracking` with `GROUP_COUNT = 1` and `MaxGroups = 3`: after lost updates of `group_count` the
  test for room (`event.c:443`) lets in a group that has no device;
  `GroupsDistinct` fails.

### Bounds

* Two accesses, two readers and two groups are the least that gives an event
  with several holders and a reader that comes too late. `live` has one
  access: with two groups at once its state graph is too large for checking
  liveness, and what a second group adds is in the invariants of `core`.
* `MaxGroups` is how many group structures are ever allocated: two or three, so
  that a group is deleted, freed, and its id goes to another one. It bounds
  `AddDown` (`FreshGroup`). `MaxEvents` bounds the accesses that start an event
  (`EventsLeft` in `DownRead`). `FreeIds` looks at `0 .. MaxGroups`: with at
  most `MaxGroups` groups one of these is free.
* `GROUP_COUNT` is 10 in the code. One or two devices fill up within the
  bounds, so that the case of no room happens; `load` uses 10.
* `Slots` is at least the number of files; the cache of the kernel has no bound.
* Processes of a kind, and names, are interchangeable and reduced by symmetry
  in the runs without liveness. Groups and events are numbers and ordered, so
  they are not.

* `text`: names of 1, 10, 27 and 35 characters give a list that just does not
  fit the first buffer, a name that is cut, and two commands in one write; an
  id and a descriptor of ten digits give lines on both sides of the limit.
  `MaxEvents` is the number of events, `ALLOCSIZE` stands for 256 and
  `LibReadLen` for 255. A control process writes before it reads.
* `stack`: two of everything is the least with a link, a rename over a file and
  an address that goes to another file. `MaxLeaks` bounds the steps that leak.
* `fileio`: `PAGE_SIZE = 2` and `MaxSize = 3` give two pages, a write over both
  and one that ends at a page boundary; `MaxWrites` bounds writes and stores
  together, `MaxSeek` the positions of the seeker: two bytes or entries are
  enough to skip one, or to give one twice.

Deadlock is not checked in the runs of `Events`: the system may come to rest,
with readers asleep for events nobody raises or because the bounds are used
up. That it does not come to rest too early is what `NoLostWakeup` and the
liveness runs say. All other runs check for deadlock.

### Fairness

* Weak fairness for every thread that is inside a call: the kernel runs what
  can run. It covers sleepers only once they are woken: no signal or timeout is
  ever bound to come.
* Strong fairness for the `down_read()` of the nested open: the semaphore
  queues its waiters, so a stream of writers cannot keep one out.
* Weak fairness for a process with an open device: it goes on reading and
  answers what it has read, or it quits. That is what the README asks of an
  application. Nobody has to open a device, open a file or give commands.

* In `FileIO`, weak fairness for a fault and a write-back inside their calls,
  and strong fairness for the steps of a writer: the waiters for a page lock
  queue. Nobody has to start a call.

`EveryAccessReturns` is about executions in which, from some time on, every
group has a process on its device; an execution that ends with the use of
freed memory is no counterexample. `live_crash` lets the only process of a
tracked group die at any time; a process is never obliged to come back.

## 4. What is proved

The proofs are for every value of the constants that satisfies the assumptions
of the modules: finitely many threads, a positive `GROUP_COUNT`, bounds that
are natural numbers, commands and environment choices from their sets; for
`IgnDev` only that `NoProc` and `NoSlot` are no process and no slot; for `Stack`
that objects of different kinds differ and there are finitely many
(`ObjectsApart`); for `DevText` that a text is a sequence of commands
(`TextsAssumption`) and that there are at most ten groups, so that an id is one
digit. TLC evaluates these assumptions in every run. What a theorem
assumes of the code beyond them is in its statement, and section 3 has what
happens without it.

* `EventsProofs!TypeCorrect`: `Spec => []TypeOK`. `TypeOK` is not inductive:
  that `todo[cur[t]]` is a list needs `cur[t]` to be a group at the points
  where it is used, and what a reader is given is the id of an event only if
  `ec` is set there. `LocalOK` says which locals are set at which `pc`, and
  `TypeInv == TypeOK /\ LocalOK` is inductive. The proof has one lemma for each
  action or group of like actions. `OthersUndisturbed` collects what a step of
  one thread leaves alone in the others: its locals, and its `pc` except for a
  wake-up. `AvailableIdType` shows that the search for a free id succeeds,
  because fewer groups are active than there are candidates.
* `EventsProofs!RecursionExcluded`: `Spec => []NoRecursion`. `MaskInv` adds to
  `TypeInv` that a thread in the nested open is masked from `mask_proc()` until
  it leaves the precheck, and that nobody else is. It is the reason why the
  `within_list` test after `dentry_open()` is enough when all groups vanish
  during the open and the precheck does not look at `proc_list`.
* `IgnDevProofs!IgnoreCorrect`: if no process opens the ignore device a second
  time, then `IgnSpec => [](HiddenIffOpen /\ EntriesOwned)`. The invariant
  needs `OneFileEach`: the entry is found by its pid, so it is the right one
  only because the process has no other. The case of two files in section 3
  shows that the assumption cannot be dropped.

* `AccessProofs`: six theorems without any hypothesis: failed allocations,
  signals, answers given twice and the death of a registered process at any
  point are all included. `AccessInv` adds to `TypeInv`, for each group, that its
  lists hold an event once (`QueueOK`); for each event, that the lists, the
  writers that release it, `vote` and `evt->assigned` tell the same story
  (`EventOK`); for each access, which state its event is in at its `pc`
  (`AccessOK`); and that an event has one owner. None of the properties is
  inductive by itself: `assigned` can only be kept exact by an answer if the
  container it releases was pending and on no other list. From `AccessInv`:
    + `EventsAccounted` (`EventAccounting`), `ContainersUnique` (`HeldOnce`),
      `NoEventFreedInUse` (`EventsAlive`), `VerdictCorrect` (`VerdictSound`),
      `RemovedStayEmpty` (`RemovedGroupsEmpty`);
    + `AccessControlImplemented`: `Spec => ImplementsAccessControl`. The initial
      states map to an initial state, and each step of a thread to `Submit`,
      `Answer`, `Withdraw`, `Decide`, `Return` or a stutter. Most steps change
      neither a vote nor an owner; for the others the invariant says that the
      answer was still owed and that a verdict is taken when nothing is.
* `GroupProofs`: `ListInv` says who holds `group_count_sem` at which `pc`, that
  names and ids on the list differ, and that what `dazukofs_add_group()` found
  free stays free until the group is linked. On top of it:
    + `CountInv`, if `NoTrackedRemoval` (there are no tracked groups, or no
      process leaves one): `CounterCorrect` (`GroupCountExact`),
      `ContainersSuffice` (`EnoughContainers`), `NamesAndIdsDistinct`
      (`GroupsDistinct`, of which the bound of the ids rests on the counter). The
      hypothesis is needed: `dazukofs_group_release_tracking()` changes
      `group_count` without the semaphore, see section 3.
    + `UseInv`, if `NoMixedRemoval` (there are no tracked groups, or no group is
      deleted by name): `UsesCounted` (`UseCountExact`). It says that a tracked
      device leads to an active group with its id, which is what
      `dazukofs_group_release_tracking()` relies on when it looks the group up
      again. `NoGroupFreedInUse` (`GroupsProtected`) also needs that there are no
      pollers: `poll(2)` stays on the queue in the group without a `use_count`.
      `LastOneDeletes` (`DeletedOnlyWhenEmpty`, an action property) also needs
      that all groups are tracked: a process that opened the device before
      `addtrack=` made its group a tracked one is not counted.
* `GroupProofs!NobodySleepsOn`: `Spec => []NoLostWakeup`, without hypothesis. The
  delicate case is a poller, which sleeps on the queue of the group its first
  call found and looks at the list of the group its last call found. `PollOK`
  says that these are the same group as long as the first is active, because
  ids differ (`ListInv`); a removed group has an empty list (`AccessInv`). For
  that reason the property says nothing of a poller on a removed group.
  `SleepingPollersTold` (`PollersTold`, an action property) does: no step lets
  such a poller sleep on that was asleep before it. What is left are
  pollers that go to sleep when the removal is over: the one described in section 3,
  and one that was woken, finds a new group with the same id and still is on
  the old queue, since only the first call of `dazukofs_poll()` queues.
* `FileIOProofs`: `FileInv` says who holds `i_mutex` and the page locks at which
  `pc`, that the loop of `mark_pages_outdated()` stays within the file, and that
  whatever is up to date, dirty, locked or mapped is in the page cache. From it
  `SizeCorrect` (`SizesAgree`), for any use of `dazukofs_setattr()`. `SequenceOK`
  adds that a seeker's start is not behind its position and that nothing from
  the position on has been given yet; it gives `NothingSkippedOrRepeated`
  (`ReadsInSequence`). `DataInv` adds that a page that has been
  copied and not yet unlocked equals the lower page unless it is dirty or a
  writer has still to mark it. It is inductive if `NoFailedWriteback` and
  `NoPageCutOff`, and gives `NoStalePages` (`UptodatePagesCurrent`). Section 3 has
  what happens without either. The last fact of `FileInv` is the one that is
  easily overlooked: a writer does not wait for the lock of a page that is not
  in the cache, which is right only because such a page is neither locked nor
  up to date.
* `DevTextProofs`: `ListInv` says that the list of a process that has the control
  device open is made once, by the first read, and that every piece it got came
  from that list, whatever was added, deleted or written in between. It gives
  `ListReadWhole` (`OneList`), if only a list is never `NoList`. `AnswerInv` says
  of each handle of the library that its position is 0 unless an event was
  handed out, and that it holds all of that event. It gives `AnswersTaken`
  (`AnswersArrive`) for ids of at most 11 digits: a positive `last_event_id`, an
  `int`, has 10. Section 3 has what happens once the id has wrapped. File
  descriptors and pids may have any width, because a line that is too long for
  `dazukofs_group_read()` is not handed out.
  Three more results need further invariants:
    + `CommandsRunInOrder` (`WritesInOrder`), without hypothesis. `WriteInv` says,
      for the place of the key a writer has come to, that what it has run are
      commands of its text at earlier places, that all but the last succeeded, and
      that an earlier command is missing only behind a failure.
    + `ListsFit` (`ListFits`). `NamesInv` says that there are at most `GROUP_COUNT`
      groups and that no name is longer than `LongestName`, the longest that the
      texts have after they are cut to the 27 characters that fit behind a
      key; `SizeInv`, that a list was made with room for all its lines. The
      width of a list is defined as the number of its characters, a cardinality
      (`Chars`), which grows and shrinks with the list without an induction.
    + `ClientsServeTheirGroups` (`ClientServesItsGroup`), if `OwnGroups`: the clients
      have different, nonempty names, no text of another process deletes one of
      them, and the library reads `LongestName + 3` bytes for each group. `OwnInv` says that from
      the end of the `add=` to its own `del=` there is a group with the client's
      name, in the list the client has read too, and that the id it found is the
      one of that group. The library's 255 bytes are enough for the ten groups
      of the code if no name has more than 22 characters. The library itself
      allows 20, so that only names written to the control device by hand, of
      23 to 27 characters, can break the condition.
* `LoadProofs`: for any number of group devices. `LoadInv` says that a load has
  acquired exactly the steps before the next one, and that while it is undone
  exactly what is left is still to be released, nothing before what needs it. It
  holds whatever fails and whoever uses the devices, and gives `UndoesWhatIsHeld`
  (`ReleasesHeld`) and `GroupNodesLeadHome` (`NodesLeadHome`). `UseInv` adds that
  the users of the devices, and what they have put on the lists, are gone before
  the caches they need. It is inductive if no step of the load fails while a
  device is open (`~FailsInUse`), and gives `LeavesNothing` (`ReleasesExact`),
  `OutlivesNothing` (`Nested`) and `UsersAreServed` (`UsersServed`).
* `StackProofs`: for any number of processes, dentries, inodes, files and names.
  `Fails = {}` and `Before36` are assumed throughout: with a failing
  `dazukofs_interpose()`, or the later forms of create and open, counts do become
  wrong.
    + `RefInv == Sound /\ HeldWhileUsed`: the counts cover the users, and therefore
      nothing that is used is pruned, forgotten or given another file. One
      lemma for each action shows how the users of each object change and
      that the counts change with them. It gives `CountsCoverUsers`
      (`HeldWhileUsed`) and `TwoLeaksOnly` (`OnlyKnownLeaks`, an action property).
    + `SameInv` adds that an address belongs to one file and an upper inode to the
      file at its address (`FileInv`), and that what a process works with leads to
      the same lower inode on both ways (`HeldInv`). It is inductive if `~Races`
      (the run `unlink_race` is the other case), and gives `BothWaysMeet`
      (`SameFile`) and `CopiesAgree` (`AttrsAgree`): what is changed through the
      lower dentry is what is copied through the lower inode.
    + `NameInv == CountInv /\ PairInv /\ DiskInv`: a lower dentry has its users and
      nothing else, an upper dentry and its lower one are hashed together, and the
      lower dcache shows the disk. It is what makes the two `d_delete()` of a
      removal do the same although they look at different counts. It gives
      `NamesAreShown` (`NamesAgree`) if statfs is only called for the root, where
      the reference it leaks does no harm.

Each inductive invariant was checked by TLC on small instances, with more
kinds of steps than the runs of section 3, before it was proved.

Only model-checked: liveness (`EveryAccessReturns`, `RemovedGroupsLeft`,
`WritesEnd`), which needs fairness and `ENABLED` and is outside the prover's
reach. Every invariant and every action property of the passing runs is stated
by a theorem.

## 5. What is not modelled

* Operations of the stacked filesystem that hand a call down and keep nothing:
  permission, getattr, ioctl, fasync, flush, fsync, `d_hash`, `d_compare`; times
  of files and directories; directories below the root and renames between
  directories, whose locks the VFS takes.
* `dazukofs_get_filename()` of the library, and `showfiles`: the readers of
  `Events` and the clients of `DevText` stand for it. The module `ooo` is empty.
* `dazukofs_fsync()` writes the lower file and not the dirty pages of the upper
  inode; what is on the disk is no part of the model.
* `dazukofs_mmap()` maps for writing as the code does; `README:155` still says
  that this results in an error, while `CHANGELOG` has patch-015, "implement mmap
  writing".
* A registered process that opens other files on the mount. The README of
  DazukoFS warns of it; the process can wait for itself.
* Two accesses with the same id after a full turn of the counter, the pid
  namespaces, and the descriptor and file that are handed to the registered
  process.
* What the code does and nothing says it should not: a write to the control
  device moves the position from which the list is read next; after an answer
  that is refused because the group or the event is gone, the handle is of no
  use until it is closed (`ReturnAccess` with `gone`); a page
  that is outdated stays in the page tables it is in, and the references that
  `find_lock_page()` and `grab_cache_page()` take are never given back. The
  models do the same, and no property is stated.
* `evt->assigned_mutex` as a lock: the sections under it are single steps.

## 6. Plan

The modules of the first plan are written: the control device and the lines of
the group devices, with the library, are `DevText`, references are `Stack`, the
page cache is `FileIO`; the theorems of section 4 cover all of them. What is
left is the composition of `IgnDev` with `Events`, with `Ignored` as the set of
hidden processes instead of a constant.
