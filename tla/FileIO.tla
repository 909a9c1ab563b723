------------------------------- MODULE FileIO -------------------------------
(***************************************************************************)
(* One regular file and one directory, used through the mount: file.c      *)
(* without open and release, and mmap.c.  read(2) and write(2) go to the   *)
(* lower file.  Mapped pages are pages of the upper inode, copied from the *)
(* lower file by dazukofs_readpage() and back by dazukofs_writepage().     *)
(*                                                                         *)
(* The contents of a page are the set of writes and stores it reflects.    *)
(***************************************************************************)
EXTENDS Integers, FiniteSets

CONSTANTS
    Writers,      \* processes that write
    Seekers,      \* processes that read and seek, or read the directory
    Mappers,      \* processes that map the file
    Flusher,      \* the kernel thread that writes dirty pages back
    Nobody,
    Mmaps,        \* mappings the processes ask for: "ro", "rw"
    Grabs,        \* what grab_cache_page() of a lower page may return
    TruncateTo,   \* sizes the file may be set to
    PAGE_SIZE,
    MaxSize,      \* bound: no position lies behind it
    MaxSeek,      \* bound: seekers do not move further by themselves
    MaxWrites     \* bound: writes and stores, all processes together

Procs == Writers \cup Seekers \cup Mappers

ASSUME FileAssumption ==
    /\ Flusher \notin Procs /\ Nobody \notin Procs \cup {Flusher}
    /\ Mmaps \subseteq {"ro", "rw"} /\ Grabs \subseteq BOOLEAN
    /\ PAGE_SIZE \in Nat \ {0} /\ MaxSize \in Nat /\ MaxWrites \in Nat
    /\ MaxSeek \in 0 .. MaxSize
    /\ TruncateTo \subseteq 0 .. MaxSize

Threads   == Procs \cup {Flusher}
Positions == 0 .. MaxSize
PageOf(n) == n \div PAGE_SIZE              \* n >> PAGE_SHIFT
Pages     == 0 .. PageOf(MaxSize)

VARIABLES
    lower,    \* lower[i]: page i of the lower file
    lsize,    \* i_size of the lower inode
    usize,    \* i_size of the upper inode
    page,     \* page[i]: page i of the upper inode
    lock,     \* lock[i]: who has locked it
    i_mutex,  \* who holds i_mutex of the upper inode
    kind,     \* kind[p]: the seeker p has the file or the directory open
    pos,      \* pos[p]: f_pos of its upper and of its lower file
    got,      \* got[p]: how often it was given a byte or an entry (history)
    vma,      \* vma[p]: how p has mapped the file
    pte,      \* pte[p]: the pages that are in the page table of p
    pc, job,  \* where a thread is in a call, and its locals
    count     \* writes and stores so far

fileVars == <<lower, lsize, usize, page, lock, i_mutex, kind, pos, got, vma,
              pte, pc, job, count>>

\* pinned: a reference that nobody gives back keeps the page from being reclaimed
NoPage == [in |-> FALSE, uptodate |-> FALSE, dirty |-> FALSE, pinned |-> FALSE,
           data |-> {}]

\* what is to be written where; the page a loop or a call is at
NoJob == [len |-> 0, at |-> 0, append |-> FALSE, page |-> 0]

\* nothing was given to p since it chose to go on at n
Start(n) == [from |-> n, times |-> [i \in Positions |-> 0]]

FileInit ==
    /\ lower = [i \in Pages |-> {}]
    /\ lsize \in {0, PAGE_SIZE} /\ usize = lsize
    /\ page = [i \in Pages |-> NoPage]
    /\ lock = [i \in Pages |-> Nobody]
    /\ i_mutex = Nobody
    /\ kind \in [Seekers -> {"file", "dir"}]
    /\ pos = [p \in Seekers |-> [up |-> 0, low |-> 0]]
    /\ got = [p \in Seekers |-> Start(0)]
    /\ vma = [p \in Mappers |-> "none"]
    /\ pte = [p \in Mappers |-> {}]
    /\ pc = [t \in Threads |-> "idle"]
    /\ job = [t \in Threads |-> NoJob]
    /\ count = 0

cacheVars == <<page, lock, vma, pte, kind>>
lowerVars == <<lower, lsize>>

Goto(t, l)   == pc' = [pc EXCEPT ![t] = l]
Unlock(i)    == lock' = [lock EXCEPT ![i] = Nobody]

\* the seeker p is given the n bytes or entries that start at a
Given(p, a, n) ==
    got' = [got EXCEPT ![p].times = [i \in Positions |->
                                       @[i] + (IF i \in a .. a + n - 1 THEN 1 ELSE 0)]]

\* p chooses where to go on
Restart(p, n) == got' = IF p \in Seekers THEN [got EXCEPT ![p] = Start(n)] ELSE got
-----------------------------------------------------------------------------
(***************************************************************************)
(* Positions.                                                              *)
(***************************************************************************)

\* dazukofs_read() of n bytes: ppos is f_pos of the upper file, except for
\* pread(2); f_pos of the lower file is set in both cases
Read(p, at, n, pread) ==
    /\ kind[p] = "file" /\ pc[p] = "idle"
    /\ pread \/ at = pos[p].up
    /\ at + n <= lsize /\ at + n <= MaxSeek
    /\ pos' = [pos EXCEPT ![p] = [up |-> IF pread THEN @.up ELSE at + n, low |-> at + n]]
    /\ IF pread THEN UNCHANGED got ELSE Given(p, at, n)
    /\ UNCHANGED <<lowerVars, usize, cacheVars, i_mutex, pc, job, count>>

\* Mutant of HandDown: the lower file goes on where it was.
HandDown_Not(p) == pos[p].low

\* where the lower file starts: lower_file->f_pos = file->f_pos
HandDown(p) == pos[p].up

\* the seeker p moves both positions
MoveTo(p, to) == pos' = [pos EXCEPT ![p] = [up |-> to, low |-> to]]

\* dazukofs_llseek() with SEEK_CUR, SEEK_SET or SEEK_END
Seek(p, to) ==
    /\ kind[p] = "file" /\ pc[p] = "idle"
    /\ MoveTo(p, to)
    /\ UNCHANGED <<lowerVars, usize, cacheVars, i_mutex, pc, job, count>>

SeekCur(p) == Seek(p, HandDown(p)) /\ UNCHANGED got
SeekSet(p) == Seek(p, 0) /\ Restart(p, 0)
SeekEnd(p) == lsize <= MaxSeek /\ Seek(p, lsize) /\ Restart(p, lsize)

\* dazukofs_readdir(): the lower directory gives the next entry
Readdir(p) ==
    /\ kind[p] = "dir" /\ HandDown(p) < MaxSeek
    /\ MoveTo(p, HandDown(p) + 1)
    /\ Given(p, HandDown(p), 1)
    /\ UNCHANGED <<lowerVars, usize, cacheVars, i_mutex, pc, job, count>>

\* lseek(2) on the directory, which has no llseek of its own: external
Rewinddir(p) ==
    /\ kind[p] = "dir" /\ pos[p].up # 0
    /\ pos' = [pos EXCEPT ![p].up = 0]
    /\ Restart(p, 0)
    /\ UNCHANGED <<lowerVars, usize, cacheVars, i_mutex, pc, job, count>>
-----------------------------------------------------------------------------
(***************************************************************************)
(* dazukofs_write().                                                       *)
(***************************************************************************)

\* the positions of a writer who is no seeker are not followed
SetLow(p, n) == pos' = IF p \in Seekers THEN [pos EXCEPT ![p].low = n] ELSE pos
SetUp(p, n)  == pos' = IF p \in Seekers THEN [pos EXCEPT ![p].up = n] ELSE pos

\* mutex_lock(); n bytes are to be written at ppos, or at the end (O_APPEND)
WriteLock(p, at, n, append) ==
    /\ pc[p] = "idle"
    /\ p \in Seekers => kind[p] = "file" /\ at = pos[p].up
    /\ i_mutex = Nobody
    /\ i_mutex' = p
    /\ job' = [job EXCEPT ![p] = [NoJob EXCEPT !.len = n, !.at = at,
                                                !.append = append]]
    /\ Goto(p, "vfs_write")
    /\ UNCHANGED <<lowerVars, usize, cacheVars, pos, got, count>>

\* the pages with a byte of the n that start at a
Touched(a, n) == {i \in Pages : \E k \in 0 .. n - 1 : PageOf(a + k) = i}

\* where mark_pages_outdated() starts: pos_copy - ret, not ppos
FirstOutdated(end, ret) == PageOf(end - ret)

(***************************************************************************)
(* vfs_write() of the lower file: ret bytes are written, at its end with   *)
(* O_APPEND.  Its contents, size and position change.                      *)
(***************************************************************************)
VfsWrite(p, ret) ==
    LET at  == IF job[p].append THEN lsize ELSE job[p].at
        end == at + ret
    IN
    /\ pc[p] = "vfs_write"
    /\ count < MaxWrites
    /\ ret \in 1 .. job[p].len /\ end <= MaxSize
    /\ count' = count + 1
    /\ lower' = [i \in Pages |-> IF i \in Touched(at, ret) THEN lower[i] \cup {count + 1}
                                 ELSE lower[i]]
    /\ lsize' = IF end > lsize THEN end ELSE lsize
    /\ SetLow(p, end)
    /\ job' = [job EXCEPT ![p].at = end, ![p].page = FirstOutdated(end, ret)]
    /\ Goto(p, "outdate")
    /\ UNCHANGED <<usize, cacheVars, got, i_mutex>>

\* vfs_write() writes nothing or fails
VfsWriteNothing(p) ==
    /\ pc[p] = "vfs_write"
    /\ SetLow(p, job[p].at)
    /\ Goto(p, "write_end")
    /\ UNCHANGED <<lowerVars, usize, cacheVars, got, i_mutex, job, count>>

\* (pos + count) >> PAGE_SHIFT
LastOutdated(end) == PageOf(end)

\* Mutant of PageLock: find_get_page() instead of find_lock_page().
PageLock_NotTaken(i) == TRUE

\* find_lock_page() waits for the lock
PageLock(i) == lock[i] = Nobody

(***************************************************************************)
(* One round of mark_pages_outdated().  The reference find_lock_page()     *)
(* takes is not given back.                                                *)
(***************************************************************************)
MarkOutdated(p) ==
    LET i == job[p].page IN
    /\ pc[p] = "outdate"
    /\ page[i].in => PageLock(i)
    /\ page' = IF page[i].in
               THEN [page EXCEPT ![i].uptodate = FALSE, ![i].pinned = TRUE]
               ELSE page
    /\ IF i < LastOutdated(job[p].at)
       THEN job' = [job EXCEPT ![p].page = i + 1] /\ UNCHANGED pc
       ELSE Goto(p, "write_end") /\ UNCHANGED job
    /\ UNCHANGED <<lowerVars, usize, lock, vma, pte, kind, i_mutex, pos, got, count>>

\* Mutant of WriteEnd: the size is not copied.
WriteEnd_NoSize(p) ==
    /\ pc[p] = "write_end"
    /\ SetUp(p, job[p].at) /\ Restart(p, job[p].at)
    /\ i_mutex' = Nobody
    /\ job' = [job EXCEPT ![p] = NoJob]
    /\ Goto(p, "idle")
    /\ UNCHANGED <<lowerVars, usize, cacheVars, count>>

\* ppos, i_size_write() and mutex_unlock()
WriteEnd(p) ==
    /\ pc[p] = "write_end"
    /\ SetUp(p, job[p].at) /\ Restart(p, job[p].at)
    /\ usize' = lsize
    /\ i_mutex' = Nobody
    /\ job' = [job EXCEPT ![p] = NoJob]
    /\ Goto(p, "idle")
    /\ UNCHANGED <<lowerVars, cacheVars, count>>

(***************************************************************************)
(* dazukofs_setattr() with a size, for which the VFS takes i_mutex: the    *)
(* lower file is cut or extended and the size is copied.                   *)
(***************************************************************************)
Truncate(n) ==
    /\ i_mutex = Nobody
    /\ n # lsize
    /\ lsize' = n /\ usize' = n
    /\ lower' = [i \in Pages |-> IF i * PAGE_SIZE < n THEN lower[i] ELSE {}]
    /\ UNCHANGED <<cacheVars, i_mutex, pos, got, pc, job, count>>
-----------------------------------------------------------------------------
(***************************************************************************)
(* Mapped pages.                                                           *)
(***************************************************************************)

\* dazukofs_mmap(), which is generic_file_mmap() for every kind of mapping
Mmap(p, m) ==
    /\ pc[p] = "idle"
    /\ vma[p] = "none"
    /\ vma' = [vma EXCEPT ![p] = m]
    /\ UNCHANGED <<lowerVars, usize, page, lock, pte, kind, i_mutex, pos, got, pc, job, count>>

\* munmap(2): external
Munmap(p) ==
    /\ pc[p] = "idle"
    /\ vma[p] # "none"
    /\ vma' = [vma EXCEPT ![p] = "none"]
    /\ pte' = [pte EXCEPT ![p] = {}]
    /\ UNCHANGED <<lowerVars, usize, page, lock, kind, i_mutex, pos, got, pc, job, count>>

(***************************************************************************)
(* A page fault, up to the call of readpage: external.  A page that is     *)
(* there and up to date is put into the page table; any other is locked    *)
(* and read, and then the fault starts again.                              *)
(***************************************************************************)
MapPage(p, i) ==
    /\ pc[p] = "idle"
    /\ vma[p] # "none" /\ i \notin pte[p]
    /\ i * PAGE_SIZE < usize
    /\ lock[i] = Nobody
    /\ page[i].in /\ page[i].uptodate
    /\ pte' = [pte EXCEPT ![p] = @ \cup {i}]
    /\ UNCHANGED <<lowerVars, usize, page, lock, vma, kind, i_mutex, pos, got, pc, job, count>>

FaultIn(p, i) ==
    /\ pc[p] = "idle"
    /\ vma[p] # "none" /\ i \notin pte[p]
    /\ i * PAGE_SIZE < usize
    /\ lock[i] = Nobody
    /\ ~page[i].uptodate
    /\ page' = [page EXCEPT ![i].in = TRUE]
    /\ lock' = [lock EXCEPT ![i] = p]
    /\ job' = [job EXCEPT ![p].page = i]
    /\ Goto(p, "readpage")
    /\ UNCHANGED <<lowerVars, usize, vma, pte, kind, i_mutex, pos, got, count>>

\* read_cache_page() and memcpy()
ReadLower(p) ==
    /\ pc[p] = "readpage"
    /\ page' = [page EXCEPT ![job[p].page].data = lower[job[p].page]]
    /\ Goto(p, "readpage_out")
    /\ UNCHANGED <<lowerVars, usize, lock, vma, pte, kind, i_mutex, pos, got, job, count>>

\* Mutant of ReadpageUnlock: an error leaves the page locked.
ReadpageUnlock_OnSuccess(i, err) == IF err THEN UNCHANGED lock ELSE Unlock(i)

\* unlock_page() at out:
ReadpageUnlock(i, err) == Unlock(i)

\* out: with or without an error
ReadpageOut(p, err) ==
    /\ pc[p] = IF err THEN "readpage" ELSE "readpage_out"
    /\ page' = [page EXCEPT ![job[p].page].uptodate = ~err]
    /\ ReadpageUnlock(job[p].page, err)
    /\ job' = [job EXCEPT ![p] = NoJob]
    /\ Goto(p, "idle")
    /\ UNCHANGED <<lowerVars, usize, vma, pte, kind, i_mutex, pos, got, count>>

\* a store into a mapped page: external
Store(p, i) ==
    /\ count < MaxWrites
    /\ vma[p] = "rw" /\ i \in pte[p]
    /\ count' = count + 1
    /\ page' = [page EXCEPT ![i].data = @ \cup {count + 1}, ![i].dirty = TRUE]
    /\ UNCHANGED <<lowerVars, usize, lock, vma, pte, kind, i_mutex, pos, got, pc, job>>

\* the VM locks a dirty page, clears the flag and calls writepage: external
StartWriteback(i) ==
    /\ pc[Flusher] = "idle"
    /\ page[i].dirty /\ lock[i] = Nobody
    /\ page' = [page EXCEPT ![i].dirty = FALSE]
    /\ lock' = [lock EXCEPT ![i] = Flusher]
    /\ job' = [job EXCEPT ![Flusher].page = i]
    /\ Goto(Flusher, "writepage")
    /\ UNCHANGED <<lowerVars, usize, vma, pte, kind, i_mutex, pos, got, count>>

\* dazukofs_writepage() up to unlock_page(lower_page), or goto fail
WriteLower(ok) ==
    /\ pc[Flusher] = "writepage"
    /\ lower' = IF ok THEN [lower EXCEPT ![job[Flusher].page] = page[job[Flusher].page].data]
                ELSE lower
    /\ Goto(Flusher, IF ok THEN "writepage_out" ELSE "fail")
    /\ UNCHANGED <<lsize, usize, cacheVars, i_mutex, pos, got, job, count>>

\* SetPageUptodate() and unlock_page(), or only the latter
WritepageOut ==
    /\ pc[Flusher] \in {"writepage_out", "fail"}
    /\ page' = IF pc[Flusher] = "fail" THEN page
               ELSE [page EXCEPT ![job[Flusher].page].uptodate = TRUE]
    /\ Unlock(job[Flusher].page)
    /\ job' = [job EXCEPT ![Flusher] = NoJob]
    /\ Goto(Flusher, "idle")
    /\ UNCHANGED <<lowerVars, usize, vma, pte, kind, i_mutex, pos, got, count>>

\* the VM takes an unused clean page away: external
Reclaim(i) ==
    /\ page[i].in /\ ~page[i].dirty /\ ~page[i].pinned
    /\ lock[i] = Nobody
    /\ \A p \in Mappers : i \notin pte[p]
    /\ page' = [page EXCEPT ![i] = NoPage]
    /\ UNCHANGED <<lowerVars, usize, lock, vma, pte, kind, i_mutex, pos, got, pc, job, count>>
-----------------------------------------------------------------------------
\* the calls, which a process is free to make
SeekCall(p) == \/ \E at \in {0, pos[p].up}, pread \in BOOLEAN : Read(p, at, 1, pread)
               \/ SeekCur(p) \/ SeekSet(p) \/ SeekEnd(p)
               \/ Readdir(p) \/ Rewinddir(p)

WriteCall(p) == \E at \in {0, PAGE_SIZE} \cup {pos[q].up : q \in {p} \cap Seekers},
                   append \in BOOLEAN : WriteLock(p, at, PAGE_SIZE, append)

MapCall(p) == \/ \E m \in Mmaps : Mmap(p, m)
              \/ Munmap(p)
              \/ \E i \in Pages : MapPage(p, i) \/ FaultIn(p, i) \/ Store(p, i)

\* the steps inside a call
WriteStep(p) ==
    \/ \E ret \in Positions : VfsWrite(p, ret)
    \/ VfsWriteNothing(p) \/ MarkOutdated(p) \/ WriteEnd(p)

ReadpageStep(p) == ReadLower(p) \/ \E err \in BOOLEAN : ReadpageOut(p, err)
WritepageStep   == (\E ok \in Grabs : WriteLower(ok)) \/ WritepageOut

FileNext ==
    \/ \E p \in Seekers : SeekCall(p)
    \/ \E p \in Writers : WriteCall(p) \/ WriteStep(p)
    \/ \E p \in Mappers : MapCall(p) \/ ReadpageStep(p)
    \/ \E n \in TruncateTo : Truncate(n)
    \/ \E i \in Pages : StartWriteback(i) \/ Reclaim(i)
    \/ WritepageStep

FileSpec == FileInit /\ [][FileNext]_fileVars
-----------------------------------------------------------------------------
\* page i is still to be marked by a write that has changed the lower file
ToBeOutdated(i) ==
    \E p \in Writers : pc[p] = "outdate" /\ i \in job[p].page .. PageOf(job[p].at)

(***************************************************************************)
(* "Mark all upper pages concerned by the write to lower file as not       *)
(* Uptodate" (dazukofs_write()): no page that a fault takes as it is       *)
(* differs from the lower file, whichever way the copying in readpage and  *)
(* writepage and the marking by writers interleave.                        *)
(***************************************************************************)
UptodatePagesCurrent ==
    \A i \in Pages :
        page[i].uptodate /\ ~page[i].dirty /\ lock[i] = Nobody /\ ~ToBeOutdated(i)
          => page[i].data = lower[i]

(***************************************************************************)
(* The upper inode has the size of the lower file whenever no writer is    *)
(* between vfs_write() and i_size_write(): a fault is not refused, and     *)
(* SEEK_END and O_APPEND agree about the end.                              *)
(***************************************************************************)
SizesAgree == i_mutex = Nobody => usize = lsize

(***************************************************************************)
(* Who reads on, or goes on with readdir(3), is given every byte or entry  *)
(* between where it chose to start and where it is exactly once, although  *)
(* pread(2) and lseek(2) on a directory leave the lower file at another    *)
(* position than the upper one: dazukofs_llseek() and dazukofs_readdir()   *)
(* hand the position of the upper file down before they use the lower one. *)
(***************************************************************************)
ReadsInSequence ==
    \A p \in Seekers : \A i \in Positions :
        got[p].times[i] = IF i \in got[p].from .. pos[p].up - 1 THEN 1 ELSE 0

(***************************************************************************)
(* Every thread inside a call goes on.  The waiters for a page lock queue, *)
(* so a writer is not kept out by faults that come and go.                 *)
(***************************************************************************)
FileFairness ==
    /\ \A p \in Writers : SF_fileVars(WriteStep(p))
    /\ \A p \in Mappers : WF_fileVars(ReadpageStep(p))
    /\ WF_fileVars(WritepageStep)

FairFileSpec == FileSpec /\ FileFairness

(***************************************************************************)
(* dazukofs_write() waits for page locks with i_mutex held.  It comes to   *)
(* its end, whatever faults and write-back do with the pages.              *)
(***************************************************************************)
WritesEnd == \A p \in Writers : i_mutex = p ~> i_mutex # p
=============================================================================
